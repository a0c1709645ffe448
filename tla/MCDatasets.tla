------------------------------ MODULE MCDatasets ------------------------------
EXTENDS Datasets, TLC
Symmetry == Permutations(Assigns) \cup Permutations(Closes) \cup Permutations(Children)
=============================================================================
