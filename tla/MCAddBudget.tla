---------------------------- MODULE MCAddBudget ----------------------------
(* AddBudget for TLC: callers, and accounts, are interchangeable. *)
EXTENDS AddBudget, TLC

Symmetry == Permutations(Callers) \cup Permutations(Accounts)
=============================================================================
