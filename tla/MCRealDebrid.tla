---------------------------- MODULE MCRealDebrid ----------------------------
(* Instances of RealDebrid for TLC.  Two keys and two files: one key names *)
(* one file, the other names both, so that a file has two keys and a key   *)
(* two files.  The second file of that key is asked for of what an earlier *)
(* life bought: while no add of this life is charged.                      *)
EXTENDS RealDebrid, TLC

MCAsks == {[key |-> "one", file |-> 2], [key |-> "both", file |-> 1], [key |-> "both", file |-> 2]}
Second == CHOOSE a \in Asks \ {Spare} : a.key = "both"
MCNext == Next /\ (spent' > 0 => \A p \in Polls : poll'[p].ask # Second)
MCSpec == Init /\ [][MCNext]_vars

Symmetry == Permutations(Polls)
=============================================================================
