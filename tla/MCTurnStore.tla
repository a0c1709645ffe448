----------------------------- MODULE MCTurnStore -----------------------------
EXTENDS TurnStore, TLC
Symmetry == Permutations(Turns) \cup Permutations(Uploads) \cup Permutations(Blobs)
=============================================================================
