---------------------------- MODULE MCCredentials ----------------------------
EXTENDS Credentials, TLC

Symmetry == Permutations(Requests) \cup Permutations(Sessions) \cup Permutations(Passwords)

=============================================================================
