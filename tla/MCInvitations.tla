--------------------------- MODULE MCInvitations ----------------------------
(* Invitations with a few requests, which are alike. *)
EXTENDS Invitations, TLC

Symmetry == Permutations(Requests)

=============================================================================
