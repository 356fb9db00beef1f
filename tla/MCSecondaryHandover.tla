-------------------------- MODULE MCSecondaryHandover --------------------------
EXTENDS SecondaryHandoverProperties, TLC

\* The controller and the environment treat UEs and cells alike.
Symmetry == Permutations(Imsis) \cup Permutations(Cells)
================================================================================
