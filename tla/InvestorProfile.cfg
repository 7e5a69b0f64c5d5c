SPECIFICATION Spec
CONSTANTS
  Handlers = {h1, h2}
  Sessions = {s1, s2}
  Answers = {a, b}
  MaxRevision = 2
  MaxVersion = 2
  MaxRestarts = 1
  None = None
SYMMETRY Symmetry
INVARIANTS Finality WizardNeverStuck SectionPassedOn
PROPERTIES NewerWins NoTakeover
