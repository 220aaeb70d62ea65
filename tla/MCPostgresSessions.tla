------------------------- MODULE MCPostgresSessions -------------------------
(* PostgresSessions on small instances.                                     *)
EXTENDS PostgresSessions, TLC

CONSTANTS i1, i2, f1, f2, f3, f4, k1, k2, d1

MCHolder == f1 :> [user |-> 2, sid |-> 1] @@ f2 :> [user |-> 1, sid |-> None]
              @@ f3 :> [user |-> 2, sid |-> 1] @@ f4 :> [user |-> 2, sid |-> None]

\* One token names a session at the provider, the other a user.
MCClaims == k1 :> [user |-> None, sid |-> 1] @@ k2 :> [user |-> 2, sid |-> None]

\* A session of the first user that was replaced a moment ago, and one of the
\* second user.
MCStored == <<f2, 0>> :> "revoked" @@ <<f2, 1>> :> "live" @@ <<f3, 0>> :> "live"

\* The other store had the first of them, logged out, another login of the
\* second user, and a failure.
MCContents ==
  d1 :> [sessions |-> <<f2, 0>> :> "revoked" @@ <<f2, 1>> :> "revoked" @@ <<f4, 0>> :> "live",
         tokens |-> {k1}, counts |-> 1 :> 1]
=============================================================================
