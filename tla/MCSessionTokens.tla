-------------------------- MODULE MCSessionTokens ---------------------------
(* SessionTokens on small sets; users, sessions and requests are alike. *)
EXTENDS SessionTokens, TLC

Symmetry == Permutations(Users) \cup Permutations(Sessions) \cup Permutations(Requests)

=============================================================================
