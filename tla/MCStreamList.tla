--------------------------- MODULE MCStreamList ---------------------------
\* StreamList for TLC: keys are interchangeable.
EXTENDS StreamList, TLC
Symmetry == Permutations(Keys)
=============================================================================
