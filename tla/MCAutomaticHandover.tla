-------------------------- MODULE MCAutomaticHandover --------------------------
EXTENDS AutomaticHandoverProperties, TLC

\* No mode tells UEs or cells apart; ties in strength are broken either way.
Symmetry == Permutations(Imsis) \cup Permutations(Cells)
================================================================================
