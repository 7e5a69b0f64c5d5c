SPECIFICATION FairSpec
CONSTANTS
  Handlers = {h1, h2}
  MaxSeq = 2
  None = None
  MaxOverlaps = 1
  MaxCrashes = 1
INVARIANTS AnswersNotRelabelled PointerIsNewest
PROPERTIES ImplementsChain SubmittedIsAnswered
