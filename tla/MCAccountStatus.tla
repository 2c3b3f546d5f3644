-------------------------- MODULE MCAccountStatus ---------------------------
(* AccountStatus with a few requests, which are alike. *)
EXTENDS AccountStatus, TLC

Symmetry == Permutations(Requests)

=============================================================================
