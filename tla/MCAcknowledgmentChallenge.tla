---------------------- MODULE MCAcknowledgmentChallenge ----------------------
EXTENDS AcknowledgmentChallenge, TLC

Symmetry == Permutations(Handlers) \union Permutations(Patches)
=============================================================================
