--------------------------- MODULE MCAuthSessions ---------------------------
(* Instances of AuthSessions for TLC. *)
EXTENDS AuthSessions, TLC

CONSTANTS raw, tokens   (* one raw token; interchangeable bound tokens *)

MCToken == tokens \cup {raw}

MCRawToken == [ s \in LegacySession |-> raw ]

Symmetry == Permutations(tokens) \cup Permutations(Request)

=============================================================================
