---------------------------- MODULE MCPlayRoute ----------------------------
(* Instances of PlayRoute for TLC. *)
EXTENDS PlayRoute, TLC
MCOrder == <<"torbox", "realdebrid">>
Symmetry == Permutations(Links)
=============================================================================
