--------------------------- MODULE MCAuthSessions ---------------------------
(* Instances of AuthSessions for TLC. *)
EXTENDS AuthSessions, TLC

Symmetry ==
    Permutations(Users) \cup Permutations(Sessions) \cup Permutations(Tokens)
    \cup Permutations(Callers)
=============================================================================
