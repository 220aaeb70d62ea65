--------------------------- MODULE MCAuthSessions ---------------------------
\* AuthSessions for TLC: claims of the logout tokens, small durations.
EXTENDS AuthSessions, TLC

CONSTANTS u1, k1

MCClaims == (k1 :> [user |-> u1, sid |-> None])

Symmetric == Permutations(Request) \cup Permutations(Family)

=============================================================================
