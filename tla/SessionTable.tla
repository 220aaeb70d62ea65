---------------------------- MODULE SessionTable ----------------------------
(***************************************************************************)
(* What the users of the history store take for granted of its sessions,   *)
(* its logout tokens and its record of failures: that each call is one     *)
(* indivisible change, whoever else calls.  PostgresSessions shows that    *)
(* the transactions of several instances on one database implement this;   *)
(* AuthSessions has the same calls with their times.                       *)
(*                                                                         *)
(* A session is a family, one for every login, and the number of           *)
(* rotations it went through.  An instance that moves to this store brings *)
(* what its old one had, and prunes nothing.                               *)
(***************************************************************************)
EXTENDS Integers, FiniteSets

CONSTANTS
  Family,         \* logins that may be made
  MaxGen,         \* bound: rotations of one family
  Holder,         \* the user of a family, and its session at the provider
  MaxConcurrent,  \* active sessions of a user
  LogoutToken,    \* logout tokens of the provider,
  Claims,         \*   the user and the session each of them names
  Key,            \* accounts whose failures are counted
  Snapshot,       \* what other stores had: their names,
  Contents,       \*   and their sessions, used logout tokens and failures
  Stored,         \* the sessions at the start, "live" or "revoked"
  None

Token == Family \X (0..MaxGen)
Succ(x) == <<x[1], x[2] + 1>>
UserOf(x) == Holder[x[1]].user
SidOf(x) == Holder[x[1]].sid

Live(all) == {x \in DOMAIN all : all[x] = "live"}
LiveOf(all, u) == {x \in Live(all) : UserOf(x) = u}

ASSUME FamilyAssumption == IsFiniteSet(Family) /\ MaxGen \in Nat

ASSUME CapAssumption == MaxConcurrent \in Nat \ {0}

ASSUME StoredAssumption ==
  /\ DOMAIN Stored \subseteq Token
  /\ Stored \in [DOMAIN Stored -> {"live", "revoked"}]
  /\ \A f \in Family : Cardinality(LiveOf(Stored, Holder[f].user)) <= MaxConcurrent

\* A record of failures has at least one.
ASSUME ContentsAssumption ==
  \A s \in Snapshot :
    /\ DOMAIN Contents[s].sessions \subseteq Token
    /\ Contents[s].sessions \in [DOMAIN Contents[s].sessions -> {"live", "revoked"}]
    /\ Contents[s].tokens \subseteq LogoutToken
    /\ DOMAIN Contents[s].counts \subseteq Key
    /\ Contents[s].counts \in [DOMAIN Contents[s].counts -> Nat \ {0}]

VARIABLES
  rows,      \* klaxond_auth_sessions: is a row revoked?
  spent,     \* klaxond_oidc_logout_tokens
  failures,  \* klaxond_auth_rate_limits: the recent failures of an account
  tally,     \* history: the failures recorded since they were last cleared,
  closed,    \*   the logins that were logged out,
  brought    \*   and the users whose sessions were brought since their last one

table == <<rows, spent, failures, tally, closed, brought>>

TableInit ==
  /\ rows = Stored /\ spent = {} /\ closed = {} /\ brought = {}
  /\ failures = [k \in Key |-> 0] /\ tally = [k \in Key |-> 0]

\* The rows where those of X are revoked.
Ended(all, X) == [y \in DOMAIN all |-> IF y \in X THEN "revoked" ELSE all[y]]

\* The rows that a new session of a user leaves live, all but the freshest
\* are revoked.
Insert(all, x) ==
  /\ brought' = brought \ {UserOf(x)}
  /\ \E kept \in SUBSET LiveOf(all, UserOf(x)) :
       /\ Cardinality(kept) < MaxConcurrent
       /\ rows' = [y \in DOMAIN all \cup {x} |->
                     IF y = x THEN "live"
                     ELSE IF y \in LiveOf(all, UserOf(x)) \ kept THEN "revoked"
                     ELSE all[y]]

Login(f) ==
  /\ \A x \in DOMAIN rows : x[1] # f
  /\ Insert(rows, <<f, 0>>)
  /\ UNCHANGED <<spent, failures, tally, closed>>

\* A session is replaced while it is live, and only once.
Rotate(x) ==
  /\ x \in Live(rows) /\ Succ(x) \in Token \ DOMAIN rows
  /\ Insert(Ended(rows, {x}), Succ(x))
  /\ UNCHANGED <<spent, failures, tally, closed>>

\* A session was idle for too long.
Lapse(x) ==
  /\ rows' = Ended(rows, {x})
  /\ UNCHANGED <<spent, failures, tally, closed, brought>>

\* A logout is about a session that was stored.
Logout(f) ==
  /\ \E x \in DOMAIN rows : x[1] = f
  /\ rows' = Ended(rows, {x \in DOMAIN rows : x[1] = f})
  /\ closed' = closed \cup {f}
  /\ UNCHANGED <<spent, failures, tally, brought>>

\* The sessions of the provider that a logout token names.
Named(all, k) ==
  {x \in DOMAIN all : /\ SidOf(x) # None
                      /\ Claims[k].sid \in {None, SidOf(x)}
                      /\ Claims[k].user \in {None, UserOf(x)}}

Consume(k) ==
  /\ k \notin spent
  /\ spent' = spent \cup {k}
  /\ rows' = Ended(rows, Named(rows, k))
  /\ UNCHANGED <<failures, tally, closed, brought>>

RecordFailure(k) ==
  /\ failures' = [failures EXCEPT ![k] = @ + 1]
  /\ tally' = [tally EXCEPT ![k] = @ + 1]
  /\ UNCHANGED <<rows, spent, closed, brought>>

ClearFailures(k) ==
  /\ failures' = [failures EXCEPT ![k] = 0]
  /\ tally' = [tally EXCEPT ![k] = 0]
  /\ UNCHANGED <<rows, spent, closed, brought>>

Update(old, new) ==
  [x \in DOMAIN old \cup DOMAIN new |-> IF x \in DOMAIN new THEN new[x] ELSE old[x]]

\* The row of a session that is brought: a revocation on either side counts.
Merged(all, new, x) == IF x \in DOMAIN all /\ all[x] = "revoked" THEN "revoked" ELSE new[x]

\* merge_import keeps one of several failures of the same second.
MergedCounts(s, all) ==
  \A k \in Key : IF k \in DOMAIN Contents[s].counts
                   THEN all[k] \in 1..(failures[k] + Contents[s].counts[k])
                   ELSE all[k] = failures[k]

Import(s) ==
  LET new == Contents[s].sessions IN
  /\ rows' = Update(rows, [x \in DOMAIN new |-> Merged(rows, new, x)])
  /\ spent' = spent \cup Contents[s].tokens
  /\ failures' \in [Key -> Nat] /\ MergedCounts(s, failures')
  /\ tally' = [k \in Key |-> IF k \in DOMAIN Contents[s].counts THEN failures'[k] ELSE tally[k]]
  /\ brought' = brought \cup {UserOf(x) : x \in DOMAIN new}
  /\ UNCHANGED closed

TableNext ==
  \/ \E f \in Family : Login(f) \/ Logout(f)
  \/ \E x \in Token : Rotate(x) \/ Lapse(x)
  \/ \E k \in LogoutToken : Consume(k)
  \/ \E k \in Key : RecordFailure(k) \/ ClearFailures(k)
  \/ \E s \in Snapshot : Import(s)

TableSpec == TableInit /\ [][TableNext]_table

-----------------------------------------------------------------------------
\* What the calls promise together.

TableOK ==
  /\ DOMAIN rows \subseteq Token
  /\ rows \in [DOMAIN rows -> {"live", "revoked"}]
  /\ spent \subseteq LogoutToken
  /\ failures \in [Key -> Nat] /\ tally \in [Key -> Nat] /\ closed \subseteq Family

\* No user has more live sessions than the policy allows, unless sessions of
\* the user were brought from another store and there was no new one since.
Capped ==
  \A f \in Family :
    Holder[f].user \in brought \/ Cardinality(LiveOf(rows, Holder[f].user)) <= MaxConcurrent

\* No recorded failure is lost.
Counted == failures = tally

Over(f) == (\E x \in DOMAIN rows : x[1] = f) /\ (\A x \in Live(rows) : x[1] # f)

\* A session of the login that is live in a snapshot and not stored here.
Brings(s, f) ==
  \E x \in DOMAIN Contents[s].sessions \ DOMAIN rows :
    x[1] = f /\ Contents[s].sessions[x] = "live"

\* A login whose sessions are all revoked has no session ever after, but for
\* one that another store had and this one never saw.
OverForGood ==
  [][\A f \in Family :
       Over(f) => Over(f)' \/ \E s \in Snapshot : Import(s) /\ Brings(s, f)]_table

=============================================================================
