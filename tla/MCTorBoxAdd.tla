---------------------------- MODULE MCTorBoxAdd ----------------------------
(* Instances of TorBoxAdd for TLC. *)
EXTENDS TorBoxAdd, TLC

Symmetry == Permutations(Polls)
=============================================================================
