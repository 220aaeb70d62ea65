---------------------------- MODULE AuthSessions ----------------------------
(***************************************************************************)
(* The persistent browser sessions: one row per cookie, the rows of one    *)
(* login form a family.  An authenticated request replaces a row that was  *)
(* not rotated for a while by its successor, a reauthentication does so at *)
(* once; a logout revokes the family, an OIDC back-channel logout what the *)
(* identity provider names.  A request reads the clock, waits for a worker *)
(* and the lock of the store, and then runs one transaction; between its   *)
(* transactions any other request may run.                                 *)
(*                                                                         *)
(* The successor of a cookie is a hash of it, so a cookie is the family    *)
(* and the number of rotations: <<f, 0>> is drawn at random by a login,    *)
(* <<f, n + 1>> follows from <<f, n>>.  Times are whole numbers from 1 on, *)
(* 0 is NULL.                                                              *)
(***************************************************************************)
EXTENDS Integers, FiniteSets

CONSTANTS
  Request,        \* requests that may be under way at once
  Family,         \* bound: the logins that may be made
  MaxGen,         \* bound: rotations of one family
  User,           \* subjects
  Sid,            \* sessions at the identity provider
  LogoutToken,    \* logout tokens the provider sends,
  Claims,         \*   the subject and the session each of them names
  Timeout,        \* session_timeout_hours
  Lifetime,       \* absolute lifetime of a session
  Idle,           \* idle timeout
  TouchEvery,     \* interval of the updates of last_seen_at
  RotateEvery,    \* interval of the rotations
  Grace,          \* SESSION_ROTATION_GRACE_SECONDS
  Skew,           \* a time further in the future makes a row invalid
  MaxConcurrent,  \* active sessions of a user
  PruneAfter,     \* age at which the row of an expired session is deleted
  LogoutAge,      \* age up to which a logout token is accepted
  Retention,      \* least time for which a used logout token is remembered
  Delay,          \* bound: longest time from reading the clock to the commit
  Horizon,        \* bound: the clock stops here
  MaxStarts,      \* bound: requests that are made
  None

ASSUME DurationAssumption ==
  /\ {Timeout, Lifetime, Idle, RotateEvery, MaxConcurrent} \subseteq Nat \ {0}
  /\ {TouchEvery, Grace, Skew, PruneAfter, LogoutAge, Retention} \subseteq Nat
  /\ {Delay, Horizon, MaxGen, MaxStarts} \subseteq Nat

\* A logout token of the provider names a subject, a session, or both.
ASSUME ClaimsAssumption ==
  /\ Claims \in [LogoutToken -> [user : User \cup {None}, sid : Sid \cup {None}]]
  /\ \A k \in LogoutToken : Claims[k].user # None \/ Claims[k].sid # None

\* A logout token is accepted for 6 minutes and remembered for 10.
ASSUME RetentionAssumption == LogoutAge + Delay < Retention

ASSUME NoneAssumption == None \notin User \cup Sid \cup LogoutToken

VARIABLES
  rows,     \* klaxond_auth_sessions
  spent,    \* klaxond_oidc_logout_tokens: token and expires_at
  known,    \* the cookies that answers carried
  drawn,    \* the families drawn so far
  issued,   \* when the provider issued each logout token
  replayed, \* history: logout tokens that took effect once
  pc,       \* where each request is,
  kind,     \*   what it is about,
  token,    \*   the cookie it presents, holds, or is about to insert,
  now,      \*   the time it read,
  held,     \*   the session it holds, or is about to insert,
  pending,  \*   the cookie authentication wants to set
  clock,    \* now_epoch_i64()
  starts    \* requests made so far

vars == <<rows, spent, known, drawn, issued, replayed, pc, kind, token, now,
          held, pending, clock, starts>>

store == <<rows, spent, replayed>>
outside == <<known, drawn, issued, clock, starts>>

Token == Family \X (0..MaxGen)
Succ(t) == <<t[1], t[2] + 1>>
Pred(t) == <<t[1], t[2] - 1>>

\* A session without a session at the provider belongs to a local login.
Row == [user : User, sid : Sid \cup {None}, sudo : Nat, created : Nat,
        seen : Nat, rotated : Nat, expires : Nat, revoked : Nat]

-----------------------------------------------------------------------------
\* What the store asks of a row.

Earliest(a, b) == IF a <= b THEN a ELSE b

\* session_is_valid without the idle timeout.
Alive(row, t) ==
  /\ row.revoked = 0
  /\ row.expires > t
  /\ row.created <= t + Skew
  /\ row.seen <= t + Skew
  /\ t - row.created < Lifetime

Valid(row, t) == Alive(row, t) /\ t - row.seen < Idle

\* is_recent_rotation_successor without the validity of the successor.
InGrace(pred, succ, t) ==
  /\ pred.revoked # 0
  /\ pred.revoked <= t
  /\ t - pred.revoked <= Grace
  /\ succ.user = pred.user
  /\ succ.sid = pred.sid
  /\ succ.created = pred.created
  /\ succ.rotated >= pred.revoked

\* should_rotate.
RotationDue(row, t) == row.rotated > t + Skew \/ t - row.rotated >= RotateEvery

Touched(row, t) == IF t - row.seen >= TouchEvery THEN [row EXCEPT !.seen = t] ELSE row

Touch(x, t) == rows' = [rows EXCEPT ![x] = Touched(@, t)]

Revoked(row, t) == IF row.revoked = 0 THEN [row EXCEPT !.revoked = t] ELSE row

Revoke(X, t) ==
  rows' = [x \in DOMAIN rows |-> IF x \in X THEN Revoked(rows[x], t) ELSE rows[x]]

-----------------------------------------------------------------------------
\* A request starts, reads the clock, and ends.

NoSession == [user |-> None, sid |-> None]

Init ==
  /\ rows = [x \in {} |-> NoSession]
  /\ spent = [k \in {} |-> 0]
  /\ known = {}
  /\ drawn = {}
  /\ issued = [k \in LogoutToken |-> 0]
  /\ replayed = {}
  /\ pc = [r \in Request |-> "idle"]
  /\ kind = [r \in Request |-> None]
  /\ token = [r \in Request |-> None]
  /\ now = [r \in Request |-> 0]
  /\ held = [r \in Request |-> NoSession]
  /\ pending = [r \in Request |-> None]
  /\ clock = 1
  /\ starts = 0

Begin(r, place, what, t) ==
  /\ pc[r] = "idle"
  /\ starts < MaxStarts
  /\ starts' = starts + 1
  /\ pc' = [pc EXCEPT ![r] = place]
  /\ kind' = [kind EXCEPT ![r] = what]
  /\ token' = [token EXCEPT ![r] = t]
  /\ now' = [now EXCEPT ![r] = clock]
  /\ UNCHANGED pending

\* The answer sets these cookies, if it arrives.
End(r, cookies) ==
  /\ pc' = [pc EXCEPT ![r] = "idle"]
  /\ kind' = [kind EXCEPT ![r] = None]
  /\ token' = [token EXCEPT ![r] = None]
  /\ now' = [now EXCEPT ![r] = 0]
  /\ held' = [held EXCEPT ![r] = NoSession]
  /\ pending' = [pending EXCEPT ![r] = None]
  /\ known' = known \cup (cookies \ {None})
  /\ UNCHANGED <<drawn, issued, clock, starts>>

\* The session that a new login of user u inserts at time t.
Issued(u, s, t) ==
  [user |-> u, sid |-> s, sudo |-> 0, created |-> t, seen |-> t, rotated |-> t,
   expires |-> t + Earliest(Timeout, Lifetime), revoked |-> 0]

\* mutant: a login goes on with the family of an earlier one
LoginReusing(r) ==
  \E f \in Family, u \in User, s \in Sid \cup {None} :
    /\ Begin(r, "write", "login", <<f, 0>>)
    /\ held' = [held EXCEPT ![r] = Issued(u, s, clock)]
    /\ drawn' = drawn \cup {f}
    /\ UNCHANGED <<store, known, issued, clock>>

\* Any login that ends in issue_session without a session of its own.
Login(r) ==
  \E f \in Family \ drawn, u \in User, s \in Sid \cup {None} :
    /\ Begin(r, "write", "login", <<f, 0>>)
    /\ held' = [held EXCEPT ![r] = Issued(u, s, clock)]
    /\ drawn' = drawn \cup {f}
    /\ UNCHANGED <<store, known, issued, clock>>

\* A browser may present any cookie it was ever given: answers overtake each
\* other or are lost, and tabs share the cookie.
Present(r) ==
  \E t \in known, what \in {"page", "reauth"} :
    /\ Begin(r, "lookup", what, t)
    /\ UNCHANGED <<store, known, drawn, issued, clock, held>>

-----------------------------------------------------------------------------
\* verify_persistent_session: two transactions with the same time.

\* The session x is verified: it is renewed if that is due, and the handler runs.
\* Handlers other than the reauthentication are left out: the answer follows.
Verified(r, x, row, replacement) ==
  LET due == RotationDue(row, now[r]) IN
  IF ~due /\ kind[r] = "page"
    THEN End(r, {replacement})
    ELSE /\ token' = [token EXCEPT ![r] = x]
         /\ held' = [held EXCEPT ![r] = row]
         /\ pending' = [pending EXCEPT ![r] = replacement]
         /\ pc' = [pc EXCEPT ![r] = IF due THEN "renew" ELSE "handler"]
         /\ now' = [now EXCEPT ![r] = 0]
         /\ UNCHANGED <<outside, kind>>

LookupFinds(r) ==
  LET x == token[r] IN
  /\ pc[r] = "lookup"
  /\ x \in DOMAIN rows
  /\ Valid(rows[x], now[r])
  /\ Touch(x, now[r])
  /\ Verified(r, x, Touched(rows[x], now[r]), None)
  /\ UNCHANGED <<spent, replayed>>

LookupMisses(r) ==
  LET x == token[r] IN
  /\ pc[r] = "lookup"
  /\ x \in DOMAIN rows => ~Valid(rows[x], now[r])
  /\ Revoke({x}, now[r])
  /\ pc' = [pc EXCEPT ![r] = "recover"]
  /\ UNCHANGED <<spent, replayed, outside, kind, token, now, held, pending>>

\* lookup_rotation_successor finds the row that replaced the presented one.
Recoverable(x, t) ==
  /\ {x, Succ(x)} \subseteq DOMAIN rows
  /\ InGrace(rows[x], rows[Succ(x)], t)
  /\ Valid(rows[Succ(x)], t)

Recover(r) ==
  LET x == Succ(token[r]) IN
  /\ pc[r] = "recover"
  /\ Recoverable(token[r], now[r])
  /\ Touch(x, now[r])
  /\ Verified(r, x, Touched(rows[x], now[r]), x)
  /\ UNCHANGED <<spent, replayed>>

\* The browser is sent to the login page.
Unauthenticated(r) ==
  /\ pc[r] = "recover"
  /\ ~Recoverable(token[r], now[r])
  /\ End(r, {})
  /\ UNCHANGED store

-----------------------------------------------------------------------------
\* issue_session_with_expiry: a worker reads the clock again and builds the
\* row, the transaction of create stores it.

\* mutant: every rotation starts the timeout anew
DeadlineAnew(session, t) == Earliest(t + Timeout, session.created + Lifetime)

\* apply_session_expiry keeps the deadline that is not over.
Deadline(session, t) ==
  Earliest(IF session.expires > t THEN session.expires ELSE t + Timeout,
           session.created + Lifetime)

Renew(r) ==
  /\ pc[r] = "renew"
  /\ token[r][2] < MaxGen
  /\ token' = [token EXCEPT ![r] = Succ(@)]
  /\ now' = [now EXCEPT ![r] = clock]
  /\ held' = [held EXCEPT ![r].seen = clock, ![r].rotated = clock,
                          ![r].expires = Deadline(held[r], clock),
                          ![r].revoked = 0]
  /\ pc' = [pc EXCEPT ![r] = "write"]
  /\ UNCHANGED <<store, outside, kind, pending>>

\* mutant: the row may be revoked
ReplaceableRevoked(x, session, t) ==
  x \in DOMAIN rows /\ rows[x].user = session.user /\ rows[x].expires > t

\* The row that is replaced still stands for the session.
Replaceable(x, session, t) ==
  /\ x \in DOMAIN rows
  /\ rows[x].user = session.user
  /\ Alive(rows[x], t)

MayInsert(r) ==
  token[r][2] > 0 => Replaceable(Pred(token[r]), held[r], now[r])

\* Another request with the same cookie stored the same row a moment ago.
AlreadyInserted(r) ==
  LET x == token[r] IN
  /\ {Pred(x), x} \subseteq DOMAIN rows
  /\ InGrace(rows[Pred(x)], rows[x], now[r])
  /\ Alive(rows[x], now[r])
  /\ rows[x].sudo = held[r].sudo
  /\ rows[x].expires = held[r].expires

\* mutant: the predecessor stays active
ReplacedBoth(x, session, t) ==
  [y \in DOMAIN rows \cup {x} |-> IF y = x THEN session ELSE rows[y]]

\* The rows with the new one in the place of its predecessor.
Replaced(x, session, t) ==
  [y \in DOMAIN rows \cup {x} |->
     IF y = x THEN session
     ELSE IF y = Pred(x) THEN Revoked(rows[y], t) ELSE rows[y]]

Rivals(table, x, t) ==
  {y \in DOMAIN table \ {x} : /\ table[y].user = table[x].user
                              /\ table[y].revoked = 0
                              /\ table[y].expires > t}

Fresher(a, b) == a.seen > b.seen \/ (a.seen = b.seen /\ a.created > b.created)

\* mutant: the new session does not count
SurplusOthers(table, x, t) ==
  {X \in SUBSET Rivals(table, x, t) :
     /\ X # {} => Cardinality(Rivals(table, x, t) \ X) = MaxConcurrent
     /\ Cardinality(Rivals(table, x, t) \ X) <= MaxConcurrent}

\* prune_concurrent: all but the freshest rivals.  Rows that are equally fresh
\* are ordered by their number; here any of them may go.
Surplus(table, x, t) ==
  {X \in SUBSET Rivals(table, x, t) :
     LET kept == Rivals(table, x, t) \ X IN
     /\ X # {} => Cardinality(kept) = MaxConcurrent - 1
     /\ Cardinality(kept) < MaxConcurrent
     /\ \A y \in kept, z \in X : ~Fresher(table[z], table[y])}

Outdated(row, t) == row.expires <= t /\ row.expires < t - PruneAfter

Stored(r) ==
  LET x == token[r]
      table == Replaced(x, held[r], now[r])
  IN
  /\ x \notin DOMAIN rows
  /\ \E X \in Surplus(table, x, now[r]) :
       rows' = [y \in {z \in DOMAIN table : ~Outdated(table[z], now[r])} |->
                  IF y \in X THEN Revoked(table[y], now[r]) ELSE table[y]]

\* attach_pending_cookie replaces the cookie that the handler set.
Cookie(r) == IF kind[r] = "finish" /\ pending[r] # None THEN pending[r] ELSE token[r]

\* The handler of a reauthentication runs after its session was renewed.
GoesOn(r) ==
  IF kind[r] = "reauth"
    THEN /\ pc' = [pc EXCEPT ![r] = "handler"]
         /\ pending' = [pending EXCEPT ![r] = token[r]]
         /\ now' = [now EXCEPT ![r] = 0]
         /\ UNCHANGED <<outside, kind, token, held>>
    ELSE End(r, {Cookie(r)})

Insert(r) ==
  /\ pc[r] = "write"
  /\ MayInsert(r)
  /\ Stored(r)
  /\ GoesOn(r)
  /\ UNCHANGED <<spent, replayed>>

Repeat(r) ==
  /\ pc[r] = "write"
  /\ ~MayInsert(r)
  /\ AlreadyInserted(r)
  /\ GoesOn(r)
  /\ UNCHANGED store

\* The answer 503.  That of a handler carries the cookie of the authentication.
Unavailable(r) ==
  /\ End(r, IF kind[r] = "finish" THEN {pending[r]} ELSE {})
  /\ UNCHANGED store

\* The predecessor is not active, or the row exists.
Refuse(r) ==
  /\ pc[r] = "write"
  /\ IF MayInsert(r) THEN token[r] \in DOMAIN rows ELSE ~AlreadyInserted(r)
  /\ Unavailable(r)

\* No worker was free before the timeout.
Overloaded(r) ==
  /\ pc[r] \in {"lookup", "renew", "logout", "provider"}
  /\ Unavailable(r)

\* The reauthentication is not accepted.
Declined(r) ==
  /\ pc[r] = "handler"
  /\ End(r, {pending[r]})
  /\ UNCHANGED store

\* finish_sudo, for a session of this process and not of the provider.
Reauthenticate(r) ==
  /\ pc[r] = "handler"
  /\ kind[r] = "reauth"
  /\ held[r].sid = None
  /\ held' = [held EXCEPT ![r].sudo = clock]
  /\ kind' = [kind EXCEPT ![r] = "finish"]
  /\ pc' = [pc EXCEPT ![r] = "renew"]
  /\ UNCHANGED <<store, outside, token, now, pending>>

-----------------------------------------------------------------------------
\* Logouts.

LogoutStarts(r) ==
  \E t \in known :
    /\ Begin(r, "logout", "logout", t)
    /\ UNCHANGED <<store, known, drawn, issued, clock, held>>

Relatives(t) ==
  {x \in DOMAIN rows : x[1] = t[1] /\ rows[x].user = rows[t].user}

\* A row that was revoked before still names its family.
Logout(r) ==
  /\ pc[r] = "logout"
  /\ IF token[r] \in DOMAIN rows THEN Revoke(Relatives(token[r]), now[r])
     ELSE UNCHANGED rows
  /\ End(r, {})
  /\ UNCHANGED <<spent, replayed>>

\* The provider sends a logout token, and may send it again.
ProviderLogout(r) ==
  \E k \in LogoutToken :
    /\ issued[k] # 0 => clock - issued[k] <= LogoutAge
    /\ issued' = [issued EXCEPT ![k] = IF @ = 0 THEN clock ELSE @]
    /\ Begin(r, "provider", "logout", k)
    /\ UNCHANGED <<store, known, drawn, clock, held>>

\* mutant: a token is forgotten when it was used
RememberedBriefly(t) == {k \in DOMAIN spent : spent[k] > t + Retention}

\* The logout tokens whose record is not over yet.
Remembered(t) == {k \in DOMAIN spent : spent[k] > t}

Named(k) ==
  {x \in DOMAIN rows :
     /\ rows[x].sid # None
     /\ Claims[k].sid \in {None, rows[x].sid}
     /\ Claims[k].user \in {None, rows[x].user}}

\* consume_oidc_logout: forget what is over, then remember and revoke, or not.
Consume(r) ==
  LET k == token[r] IN
  /\ pc[r] = "provider"
  /\ k \notin Remembered(now[r])
  /\ spent' = [j \in Remembered(now[r]) \cup {k} |->
                 IF j = k THEN now[r] + Retention ELSE spent[j]]
  /\ Revoke(Named(k), now[r])
  /\ replayed' = replayed \cup {k}
  /\ End(r, {})

Replay(r) ==
  /\ pc[r] = "provider"
  /\ token[r] \in Remembered(now[r])
  /\ spent' = [j \in Remembered(now[r]) |-> spent[j]]
  /\ End(r, {})
  /\ UNCHANGED <<rows, replayed>>

-----------------------------------------------------------------------------

\* Every transaction ends within Delay of the time it was given.
Tick ==
  /\ clock < Horizon
  /\ \A r \in Request :
       pc[r] \in {"lookup", "recover", "write", "logout", "provider"} =>
         clock - now[r] < Delay
  /\ clock' = clock + 1
  /\ UNCHANGED <<store, known, drawn, issued, pc, kind, token, now, held, pending,
                 starts>>

Next ==
  \/ \E r \in Request :
       \/ Login(r) \/ Present(r) \/ LogoutStarts(r) \/ ProviderLogout(r)
       \/ LookupFinds(r) \/ LookupMisses(r) \/ Recover(r) \/ Unauthenticated(r)
       \/ Renew(r) \/ Insert(r) \/ Repeat(r) \/ Refuse(r) \/ Overloaded(r)
       \/ Declined(r) \/ Reauthenticate(r)
       \/ Logout(r) \/ Consume(r) \/ Replay(r)
  \/ Tick

Spec == Init /\ [][Next]_vars

-----------------------------------------------------------------------------
\* Properties.

Place == {"idle", "lookup", "recover", "renew", "write", "handler", "logout",
          "provider"}

What == {"login", "page", "reauth", "finish", "logout", None}

TypeOK ==
  /\ DOMAIN rows \subseteq Token
  /\ \A x \in DOMAIN rows : rows[x] \in Row
  /\ DOMAIN spent \subseteq LogoutToken
  /\ \A k \in DOMAIN spent : spent[k] \in Nat
  /\ known \subseteq Token
  /\ drawn \subseteq Family
  /\ issued \in [LogoutToken -> Nat]
  /\ replayed \subseteq LogoutToken
  /\ pc \in [Request -> Place]
  /\ kind \in [Request -> What]
  /\ token \in [Request -> Token \cup LogoutToken \cup {None}]
  /\ now \in [Request -> Nat]
  /\ held \in [Request -> Row \cup {NoSession}]
  /\ pending \in [Request -> Token \cup {None}]
  /\ clock \in Nat \ {0}
  /\ starts \in Nat

ActiveOf(f) == {x \in DOMAIN rows : x[1] = f /\ rows[x].revoked = 0}

\* A family never has two sessions that are not revoked, however many requests
\* rotate it at once.
OneActivePerFamily == \A f \in Family : \A x, y \in ActiveOf(f) : x = y

\* The login that drew f is not stored yet.
Opening(f) == \E r \in Request : pc[r] = "write" /\ token[r] = <<f, 0>>

Closed(f) == f \in drawn /\ ~Opening(f) /\ ActiveOf(f) = {}

\* Once the last session of a family is revoked, by a logout, by the provider,
\* by newer sessions of the user or by its age, no rotation that was under way
\* brings the family back.
ClosedForGood == [][\A f \in Family : Closed(f) => Closed(f)']_vars

\* A user has no more sessions that could be used than the policy allows,
\* whatever times the requests worked with.
ConcurrencyCapped ==
  \A u \in User :
    Cardinality({x \in DOMAIN rows : /\ rows[x].user = u
                                     /\ rows[x].revoked = 0
                                     /\ rows[x].expires > clock}) <= MaxConcurrent

\* Rotation and reauthentication do not extend a session: its family keeps the
\* deadline that the login set.
DeadlineKept ==
  \A x, y \in DOMAIN rows :
    x[1] = y[1] =>
      /\ rows[x].expires = rows[y].expires
      /\ rows[x].created = rows[y].created
      /\ rows[x].expires <= rows[x].created + Lifetime

\* A logout token that took effect once does not revoke later logins when it is
\* sent again.
ReplayHarmless ==
  [][\A r \in Request :
       pc[r] = "provider" /\ token[r] \in replayed /\ pc'[r] = "idle"
         => UNCHANGED rows]_vars

\* "Covers requests dispatched with the same browser cookie while rotation
\* commits": a request whose cookie was replaced after it had started is not
\* sent to the login page while the family has a valid session.  It does not
\* hold for one that read the clock in an earlier second than the commit.
DispatchedCovered ==
  [][\A r \in Request :
       LET x == token[r] IN
       Unauthenticated(r) /\ x \in DOMAIN rows
         /\ now[r] <= rows[x].revoked /\ clock <= rows[x].revoked + Grace
         => ~\E y \in ActiveOf(x[1]) : Valid(rows[y], clock)]_vars

-----------------------------------------------------------------------------
\* The inductive invariant.

\* What a request holds at each place.
WithSession == {"renew", "write", "handler"}

Holding ==
  \A r \in Request :
    /\ pc[r] \in WithSession \cup {"lookup", "recover", "logout"} => token[r] \in Token
    /\ pc[r] = "provider" => token[r] \in LogoutToken
    /\ pc[r] \in WithSession => held[r] \in Row
    /\ pc[r] = "write" => held[r].revoked = 0
    /\ pc[r] \in {"lookup", "recover", "write", "logout", "provider"} => now[r] # 0

\* A family is drawn for one login, whose row is the first.
Drawn ==
  /\ \A x \in DOMAIN rows : x[1] \in drawn
  /\ \A r \in Request : pc[r] \in WithSession => token[r][1] \in drawn
  /\ \A r \in Request :
       pc[r] = "write" /\ token[r][2] = 0 =>
         /\ \A x \in DOMAIN rows : x[1] # token[r][1]
         /\ \A q \in Request \ {r} : pc[q] \in WithSession => token[q][1] # token[r][1]

\* A request works with the deadline of its family.  A row that was built when
\* the deadline was over has another, and will be refused.
HeldDeadline ==
  \A r \in Request : pc[r] \in WithSession =>
    /\ held[r].expires <= held[r].created + Lifetime
    /\ \A x \in DOMAIN rows : x[1] = token[r][1] =>
         /\ rows[x].created = held[r].created
         /\ \/ rows[x].expires = held[r].expires
            \/ pc[r] = "write" /\ rows[x].expires <= now[r]

\* A transaction runs within Delay of the time it was given; a logout token is
\* presented within LogoutAge of its issue.
InTime ==
  /\ \A k \in LogoutToken : issued[k] <= clock
  /\ \A r \in Request :
       /\ pc[r] \in {"lookup", "recover", "write", "logout", "provider"} =>
            now[r] <= clock /\ clock <= now[r] + Delay
       /\ pc[r] = "provider" =>
            LET first == issued[token[r]]
            IN  first # 0 /\ first <= now[r] /\ now[r] <= first + LogoutAge

\* A logout token that took effect is remembered until it is too old to be
\* presented.
LogoutsRemembered ==
  \A k \in replayed :
    /\ issued[k] # 0
    /\ \/ k \in DOMAIN spent /\ spent[k] >= issued[k] + Retention
       \/ clock >= issued[k] + Retention

IInv ==
  /\ TypeOK /\ Holding /\ Drawn /\ OneActivePerFamily /\ DeadlineKept /\ HeldDeadline
  /\ InTime /\ LogoutsRemembered
  /\ IsFiniteSet(DOMAIN rows) /\ ConcurrencyCapped

=============================================================================
