---------------------------- MODULE MCPremiumize ----------------------------
(* Instances of Premiumize for TLC. *)
EXTENDS Premiumize, TLC

Symmetry == Permutations(Polls)
=============================================================================
