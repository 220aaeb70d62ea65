-------------------------- MODULE PostgresSessions --------------------------
(***************************************************************************)
(* Sessions, logout tokens and failures of several klaxond instances in    *)
(* one PostgreSQL database, statement by statement.  The worker thread of  *)
(* an instance takes one command after the other from its channel and runs *)
(* the transaction of each; the transactions of the instances interleave   *)
(* at READ COMMITTED: a statement sees what was committed when it started, *)
(* and waits for the locks it needs.  What fails, for whatever reason, is  *)
(* run a second time on a new connection, where the schema is first        *)
(* brought up to date by a transaction with locks of its own.              *)
(*                                                                         *)
(* There is no clock: no session reaches its deadline, while idle times    *)
(* and the grace of a rotation are over or not as it happens.  The user,   *)
(* the provider and the families of a row never change.  The failures of   *)
(* an account are all recent or, in the rows that were stale at the start, *)
(* all past their time.  Sessions and tokens past their time, which create *)
(* and consume also delete, are left out, and so is the order in which     *)
(* prune_concurrent sorts: AuthSessions has both.                          *)
(***************************************************************************)
EXTENDS SessionTable, Sequences

CONSTANTS
  Instance,   \* klaxond processes, each with one worker
  Outdated,   \* the accounts whose row is past its time at the start
  MaxCalls,   \* bound: commands that are sent,
  MaxQueue,   \* bound:   and how many of them wait for a worker
  Faulty,     \* bound: the instances with connections that fail,
  MaxFaults   \* bound:   lost ones, and attempts to connect

ASSUME OutdatedAssumption == Outdated \subseteq Key

ASSUME BoundAssumption == Faulty \subseteq Instance /\ {MaxCalls, MaxQueue, MaxFaults} \subseteq Nat

\* Users, sessions at the provider and accounts are numbers here, for the
\* order in which their locks are taken.
ASSUME UserAssumption ==
  /\ \A f \in Family : Holder[f].user \in Nat /\ Holder[f].sid \in Nat \cup {None}
  /\ Key \subseteq Nat

\* A logout token of the provider names a subject, a session, or both.
ASSUME ClaimsAssumption ==
  \A k \in LogoutToken : /\ Claims[k].user \in Nat \cup {None}
                         /\ Claims[k].user # None \/ Claims[k].sid # None

VARIABLES
  queue,   \* PostgresWorker::tx: the channel of each worker,
  cmd,     \*   the command it works on,
  pc,      \*   its next statement,
  tries,   \*   how often it began the transaction,
  down,    \*   is its connection lost?
  tx,      \*   and the transaction at the database
  stale,   \* klaxond_auth_rate_limits: the rows past their time
  drawn,   \* the families drawn so far
  asked,   \* the commands sent so far
  faults

vars == <<table, queue, cmd, pc, tries, down, tx, stale, drawn, asked, faults>>

SessionCommand ==
  [op : {"create", "lookup", "recover", "logout"}, on : Token]
    \cup [op : {"consume"}, on : LogoutToken]

RateLimitCommand == [op : {"limited", "failure", "clear"}, on : Key]

\* PostgresCommand: all commands that write to other tables are alike here.
Command ==
  SessionCommand \cup RateLimitCommand
    \cup [op : {"import"}, on : Snapshot] \cup [op : {"other"}, on : {None}]

NoTx == [held |-> {},      \* locks, all kept to the end
         changed |-> <<>>, \* rows that it wrote, by their token
         todo |-> {},      \* users still to lock, or rows still to write
         spends |-> {},    \* the logout tokens it wrote
         failures |-> <<>>, \* the counts of failures it wrote, by their account
         gone |-> {}]      \* the stale rows it deleted

Pred(x) == <<x[1], x[2] - 1>>

-----------------------------------------------------------------------------
\* What a statement waits for: a lock is a kind and what it is about.  Of the
\* lock on a table, a statement that reads or writes takes the part of its
\* instance, and one that changes the schema all parts.  Who asked first is
\* not served first.

Weak(i, t) == {<<t, i>>}
Strong(t) == {<<t, j>> : j \in Instance}

\* A row that is not there is not locked.
RowLock(x) == {<<"row", y>> : y \in {x} \cap DOMAIN rows}

\* mutant: lock_user is missing
NoUserLock(i) == {}

\* lock_user, in the order of the users.
UserLock(i) ==
  {<<"user", u>> : u \in {v \in tx[i].todo : \A w \in tx[i].todo : v <= w}}

\* The sessions at the provider that a command is about.
SidsOf(c) ==
  (CASE c.op = "create" -> {SidOf(c.on)}
     [] c.op = "consume" -> {Claims[c.on].sid}
     [] OTHER -> {}) \ {None}

\* mutant: the successor is locked first
ProbedBackwards(c) == <<Succ(c.on), c.on>>

\* The rows that lookup_rotation_successor locks, in this order.
Probed(c) == <<c.on, Succ(c.on)>>

\* rate_limit::lock_key
KeyLock(c) == {<<"key", c.on>>}

\* The row of an account, if there is one.
LimitLock(k) == {<<"failures", n>> : n \in {k} \cap (stale \cup {m \in Key : failures[m] > 0})}

\* What migrate locks, in this order: itself, and a table by ALTER TABLE or
\* CREATE INDEX, which find nothing to do.
MigrationLocks == <<{<<"migration", 0>>}, Strong("sessions"), Strong("tokens"), Strong("limits")>>

NextTable(i) ==
  LET left == {n \in 1..4 : ~(MigrationLocks[n] \subseteq tx[i].held)}
  IN  UNION {MigrationLocks[n] : n \in {m \in left : \A l \in left : m <= l}}

\* A statement on the rows of the sessions.
SessionLock(i, c) ==
  CASE pc[i] = "predecessor" -> RowLock(Pred(c.on))
    [] pc[i] = "stored" -> RowLock(c.on)
    [] pc[i] = "insert" -> {<<"row", c.on>>} \ RowLock(c.on)
    [] pc[i] = "lookup" -> RowLock(c.on)
    [] pc[i] = "first" -> RowLock(Probed(c)[1])
    [] pc[i] = "second" -> RowLock(Probed(c)[2])
    [] OTHER -> {}

Wants(i) ==
  LET c == cmd[i] IN
  CASE pc[i] = "provider" -> {<<"sid", s>> : s \in SidsOf(c)}
    [] pc[i] = "users" -> IF Claims[c.on].user = None THEN Weak(i, "sessions") ELSE {}
    [] pc[i] = "user" -> UserLock(i)
    [] pc[i] \in {"family", "predecessor", "stored", "insert", "prune", "select",
                  "lookup", "first", "second"} -> SessionLock(i, c) \cup Weak(i, "sessions")
    [] pc[i] = "token" -> {<<"token", c.on>>} \cup Weak(i, "tokens")
    [] pc[i] = "key" -> KeyLock(c)
    [] pc[i] = "load" -> LimitLock(c.on)
    [] pc[i] = "store" -> {<<"failures", c.on>>} \cup Weak(i, "limits")
    [] pc[i] = "migrate" -> NextTable(i)
    [] OTHER -> {}

Free(i, L) == \A j \in Instance \ {i} : tx[j].held \cap L = {}
Granted(i) == Free(i, Wants(i))

\* All that an import locks: what it asks for ahead, and what it writes.
Agenda(c) ==
  LET s == Contents[c.on] IN
  {<<"sid", SidOf(x)>> : x \in {y \in DOMAIN s.sessions : SidOf(y) # None}}
    \cup {<<"user", UserOf(x)>> : x \in DOMAIN s.sessions}
    \cup {<<"key", k>> : k \in DOMAIN s.counts}
    \cup {<<"row", x>> : x \in DOMAIN s.sessions}
    \cup {<<"token", k>> : k \in s.tokens}
    \cup {<<"failures", k>> : k \in DOMAIN s.counts}

Rank == [sid |-> 1, user |-> 2, key |-> 3, row |-> 4, token |-> 5, failures |-> 6]

\* Sessions at the provider, users and accounts are sorted, rows come in the
\* order of the snapshot, which is any.
Before(a, b) ==
  \/ Rank[a[1]] < Rank[b[1]]
  \/ a[1] = b[1] /\ (a[1] \in {"sid", "user", "key"} => a[2] <= b[2])

Upcoming(i) ==
  LET left == Agenda(cmd[i]) \ tx[i].held IN {a \in left : \A b \in left : Before(a, b)}

ItemLock(i, a) ==
  {a} \cup CASE a[1] = "row" -> Weak(i, "sessions")
            [] a[1] = "token" -> Weak(i, "tokens")
            [] a[1] = "failures" -> Weak(i, "limits")
            [] OTHER -> {}

\* A statement waits for another transaction.
Waiting(i) ==
  CASE pc[i] = "revoke" -> \E x \in tx[i].todo : ~Free(i, RowLock(x))
    [] pc[i] = "drop" -> \E k \in tx[i].todo : ~Free(i, LimitLock(k))
    [] pc[i] = "import" -> \E a \in Upcoming(i) : ~Free(i, ItemLock(i, a))
    [] OTHER -> ~Granted(i)

-----------------------------------------------------------------------------
\* A worker between two statements.

Locked(i) == [tx[i] EXCEPT !.held = @ \cup Wants(i)]

Goto(i, place, t) ==
  /\ pc' = [pc EXCEPT ![i] = place]
  /\ tx' = [tx EXCEPT ![i] = t]
  /\ UNCHANGED <<table, queue, cmd, tries, down, stale, drawn, asked, faults>>

First(c) ==
  CASE c.op \in {"create", "consume"} -> "provider"
    [] c.op = "recover" -> "first"
    [] c.op = "logout" -> "family"
    [] c.op \in {"limited", "failure", "clear"} -> "key"
    [] OTHER -> c.op \* "lookup", "import" and "other"

\* The caller is answered, with a result or an error.
Answer(i) ==
  /\ pc' = [pc EXCEPT ![i] = "idle"]
  /\ cmd' = [cmd EXCEPT ![i] = None]
  /\ tries' = [tries EXCEPT ![i] = 0]
  /\ tx' = [tx EXCEPT ![i] = NoTx]
  /\ UNCHANGED <<queue, drawn, asked>>

\* postgres_with_retry after an error: the transaction is rolled back.
Failed(i, lost) ==
  /\ down' = [down EXCEPT ![i] = lost]
  /\ IF tries[i] = 1
       THEN /\ pc' = [pc EXCEPT ![i] = "reconnect"]
            /\ tx' = [tx EXCEPT ![i] = NoTx]
            /\ UNCHANGED <<queue, cmd, tries, drawn, asked>>
       ELSE Answer(i)

Init ==
  /\ TableInit
  /\ queue = [i \in Instance |-> <<>>]
  /\ cmd = [i \in Instance |-> None]
  /\ pc = [i \in Instance |-> "idle"]
  /\ tries = [i \in Instance |-> 0]
  /\ down = [i \in Instance |-> FALSE]
  /\ tx = [i \in Instance |-> NoTx]
  /\ stale = Outdated
  /\ drawn = {x[1] : x \in (DOMAIN Stored) \cup (UNION {DOMAIN Contents[s].sessions : s \in Snapshot})}
  /\ asked = 0
  /\ faults = 0

\* A login draws a new family, a rotation, a lookup and a logout are about a
\* cookie that exists.
Ask(i, c) ==
  /\ asked < MaxCalls /\ Len(queue[i]) < MaxQueue
  /\ c.op \in {"lookup", "recover", "logout"} => c.on \in DOMAIN rows
  /\ c.op = "create" => IF c.on[2] > 0 THEN Pred(c.on) \in DOMAIN rows ELSE c.on[1] \notin drawn
  /\ queue' = [queue EXCEPT ![i] = Append(@, c)]
  /\ asked' = asked + 1
  /\ drawn' = IF c.op = "create" THEN drawn \cup {c.on[1]} ELSE drawn
  /\ UNCHANGED <<table, cmd, pc, tries, down, tx, stale, faults>>

\* On a connection that is lost the first statement fails.
Take(i) ==
  /\ pc[i] = "idle" /\ queue[i] # <<>>
  /\ queue' = [queue EXCEPT ![i] = Tail(@)]
  /\ cmd' = [cmd EXCEPT ![i] = Head(queue[i])]
  /\ tries' = [tries EXCEPT ![i] = 1]
  /\ pc' = [pc EXCEPT ![i] = IF down[i] THEN "reconnect" ELSE First(Head(queue[i]))]
  /\ UNCHANGED <<table, down, tx, stale, drawn, asked, faults>>

\* connect_postgres: the new connection begins with migrate.
Reconnect(i) ==
  /\ pc[i] = "reconnect"
  /\ pc' = [pc EXCEPT ![i] = "migrate"]
  /\ tries' = [tries EXCEPT ![i] = 2]
  /\ UNCHANGED <<table, queue, cmd, down, tx, stale, drawn, asked, faults>>

Migrate(i) ==
  /\ pc[i] = "migrate" /\ NextTable(i) # {} /\ Granted(i)
  /\ Goto(i, "migrate", Locked(i))

\* The schema is as it should be, the transaction runs again from its start.
Migrated(i) ==
  /\ pc[i] = "migrate" /\ NextTable(i) = {}
  /\ pc' = [pc EXCEPT ![i] = First(cmd[i])]
  /\ tx' = [tx EXCEPT ![i] = NoTx]
  /\ down' = [down EXCEPT ![i] = FALSE]
  /\ UNCHANGED <<table, queue, cmd, tries, stale, drawn, asked, faults>>

\* The worker keeps the old connection.
ReconnectFails(i) ==
  /\ i \in Faulty
  /\ pc[i] \in {"reconnect", "migrate"} /\ faults < MaxFaults
  /\ faults' = faults + 1
  /\ Answer(i)
  /\ UNCHANGED <<table, down, stale>>

-----------------------------------------------------------------------------
\* The statements.

LockProvider(i) ==
  /\ pc[i] = "provider" /\ Granted(i)
  /\ IF cmd[i].op = "create"
       THEN Goto(i, "user", [Locked(i) EXCEPT !.todo = {UserOf(cmd[i].on)}])
       ELSE Goto(i, "users", Locked(i))

\* lock_oidc_users: the user that is named, or all with a live session.
FindUsers(i) ==
  LET named == Claims[cmd[i].on]
      users == IF named.user # None THEN {named.user}
               ELSE {UserOf(x) : x \in {y \in Live(rows) : SidOf(y) = named.sid}}
  IN
  /\ pc[i] = "users" /\ Granted(i)
  /\ Goto(i, IF users = {} THEN "token" ELSE "user", [Locked(i) EXCEPT !.todo = users])

FindFamily(i) ==
  /\ pc[i] = "family" /\ Granted(i)
  /\ Goto(i, "user", [Locked(i) EXCEPT !.todo = {UserOf(cmd[i].on)}])

LockUser(i) ==
  LET c == cmd[i]
      rest == {v \in tx[i].todo : \E w \in tx[i].todo : w < v}
  IN
  /\ pc[i] = "user" /\ Granted(i)
  /\ Goto(i, IF rest # {} THEN "user"
             ELSE CASE c.op = "consume" -> "token"
                    [] c.op = "logout" -> "select"
                    [] c.op = "create" -> IF c.on[2] = 0 THEN "insert" ELSE "predecessor",
          [Locked(i) EXCEPT !.todo = rest])

LockPredecessor(i) ==
  /\ pc[i] = "predecessor" /\ Granted(i)
  /\ Goto(i, IF Pred(cmd[i].on) \in Live(rows) THEN "insert" ELSE "stored", Locked(i))

\* is_idempotent_rotation_retry: the same row was stored a moment ago.
Repeated(i) ==
  /\ pc[i] = "stored" /\ Granted(i)
  /\ cmd[i].on \in Live(rows) /\ Pred(cmd[i].on) \in DOMAIN rows
  /\ Goto(i, "commit", Locked(i))

\* The row is there, or its predecessor is no longer active.
Refuse(i) ==
  /\ Granted(i)
  /\ pc[i] = "stored" \/ (pc[i] = "insert" /\ cmd[i].on \in DOMAIN rows)
  /\ Failed(i, FALSE)
  /\ UNCHANGED <<table, stale, faults>>

InsertRow(i) ==
  LET x == cmd[i].on IN
  /\ pc[i] = "insert" /\ Granted(i) /\ x \notin DOMAIN rows
  /\ Goto(i, "prune", [Locked(i) EXCEPT !.changed =
            [y \in {x} \cup ({Pred(x)} \cap DOMAIN rows) |-> IF y = x THEN "live" ELSE "revoked"]])

\* The rows that an UPDATE finds when it starts.
Revoke(i, X) ==
  Goto(i, IF X = {} THEN "commit" ELSE "revoke", [Locked(i) EXCEPT !.todo = X])

Surplus(rivals) ==
  {X \in SUBSET rivals : LET kept == Cardinality(rivals \ X) IN
     kept = MaxConcurrent - 1 \/ (kept < MaxConcurrent /\ X = {})}

\* prune_concurrent sees what its own transaction wrote.
Prune(i) ==
  LET x == cmd[i].on IN
  /\ pc[i] = "prune" /\ Granted(i)
  /\ \E X \in Surplus(LiveOf(Update(rows, tx[i].changed), UserOf(x)) \ {x}) : Revoke(i, X)

SelectRows(i) ==
  LET c == cmd[i] IN
  /\ pc[i] = "select" /\ Granted(i)
  /\ Revoke(i, IF c.op = "consume" THEN Named(rows, c.on) \cap Live(rows)
               ELSE {x \in LiveOf(rows, UserOf(c.on)) : x[1] = c.on[1]})

\* The UPDATE comes to a row, and looks at it again when it had to wait for it.
RevokeRow(i) ==
  /\ pc[i] = "revoke"
  /\ \E x \in tx[i].todo :
       /\ Free(i, RowLock(x))
       /\ Goto(i, IF tx[i].todo = {x} THEN "commit" ELSE "revoke",
               [tx[i] EXCEPT !.todo = @ \ {x}, !.held = @ \cup RowLock(x),
                             !.changed = Update(@, [y \in {x} |-> "revoked"])])

\* A token of an open transaction is waited for, one that is there was used.
SpendToken(i) ==
  LET k == cmd[i].on IN
  /\ pc[i] = "token" /\ Granted(i)
  /\ IF k \in spent THEN Goto(i, "commit", [tx[i] EXCEPT !.held = @ \cup Weak(i, "tokens")])
     ELSE Goto(i, "select", [Locked(i) EXCEPT !.spends = {k}])

\* The row is touched, or revoked if it was idle for too long.
Lookup(i) ==
  LET x == cmd[i].on IN
  /\ pc[i] = "lookup" /\ Granted(i)
  /\ \E late \in SUBSET {x} :
       Goto(i, "commit", [Locked(i) EXCEPT !.changed = [y \in late |-> "revoked"]])

LockFirst(i) == pc[i] = "first" /\ Granted(i) /\ Goto(i, "second", Locked(i))

LockSecond(i) == pc[i] = "second" /\ Granted(i) /\ Goto(i, "commit", Locked(i))

Count(k, n) == [x \in {k} |-> n]

LockKey(i) ==
  LET k == cmd[i].on IN
  /\ pc[i] = "key" /\ Granted(i)
  /\ IF cmd[i].op = "clear" THEN Goto(i, "store", [Locked(i) EXCEPT !.failures = Count(k, 0)])
     ELSE Goto(i, "load", Locked(i))

\* A check writes back what it read, or deletes a row that is stale.
LoadFailures(i) ==
  LET k == cmd[i].on IN
  /\ pc[i] = "load" /\ Granted(i)
  /\ Goto(i, "store", [Locked(i) EXCEPT !.failures =
            Count(k, IF cmd[i].op = "failure" THEN failures[k] + 1 ELSE failures[k])])

StoreFailures(i) ==
  /\ pc[i] = "store" /\ Granted(i)
  /\ Goto(i, IF cmd[i].op = "failure" THEN "stale" ELSE "commit", Locked(i))

\* prune_stale: the rows of all accounts, its own was just written.
FindStale(i) ==
  LET X == stale \ {cmd[i].on} IN
  /\ pc[i] = "stale"
  /\ Goto(i, IF X = {} THEN "commit" ELSE "drop", [tx[i] EXCEPT !.todo = X])

\* The DELETE comes to a row, and leaves it when it was written in the meantime.
DropRow(i) ==
  /\ pc[i] = "drop"
  /\ \E k \in tx[i].todo :
       /\ Free(i, LimitLock(k))
       /\ Goto(i, IF tx[i].todo = {k} THEN "commit" ELSE "drop",
               [tx[i] EXCEPT !.todo = @ \ {k}, !.held = @ \cup LimitLock(k),
                             !.gone = @ \cup ({k} \cap stale)])

\* auth_state::import locks ahead what its rows are about.
LockAhead(i) ==
  /\ pc[i] = "import"
  /\ \E a \in Upcoming(i) :
       /\ a[1] \in {"sid", "user", "key"} /\ Free(i, ItemLock(i, a))
       /\ Goto(i, "import", [tx[i] EXCEPT !.held = @ \cup ItemLock(i, a)])

ImportSession(i) ==
  /\ pc[i] = "import"
  /\ \E a \in Upcoming(i) :
       /\ a[1] = "row" /\ Free(i, ItemLock(i, a))
       /\ Goto(i, "import", [tx[i] EXCEPT !.held = @ \cup ItemLock(i, a),
            !.changed = Update(@, [y \in {a[2]} |-> Merged(rows, Contents[cmd[i].on].sessions, y)])])

ImportToken(i) ==
  /\ pc[i] = "import"
  /\ \E a \in Upcoming(i) :
       /\ a[1] = "token" /\ Free(i, ItemLock(i, a))
       /\ Goto(i, "import", [tx[i] EXCEPT !.held = @ \cup ItemLock(i, a),
                                         !.spends = @ \cup {a[2]}])

\* It reads and writes the row, whose account it has locked.
ImportLimit(i) ==
  /\ pc[i] = "import"
  /\ \E a \in Upcoming(i) :
       /\ a[1] = "failures" /\ Free(i, ItemLock(i, a))
       /\ \E n \in 1..(failures[a[2]] + Contents[cmd[i].on].counts[a[2]]) :
            Goto(i, "import", [tx[i] EXCEPT !.held = @ \cup ItemLock(i, a),
                                            !.failures = Update(@, Count(a[2], n))])

ImportDone(i) ==
  /\ pc[i] = "import" /\ Agenda(cmd[i]) \subseteq tx[i].held
  /\ Goto(i, "commit", tx[i])

\* A command of another domain writes to other tables, an export reads.
WorkElsewhere(i) == pc[i] = "other" /\ Goto(i, "commit", tx[i])

Committed(i) ==
  LET c == cmd[i]
      t == tx[i]
  IN
  /\ rows' = Update(rows, t.changed)
  /\ spent' = spent \cup t.spends
  /\ failures' = Update(failures, t.failures)
  /\ stale' = stale \ (t.gone \cup DOMAIN t.failures)
  /\ tally' = CASE c.op = "failure" -> [tally EXCEPT ![c.on] = @ + 1]
                [] c.op = "clear" -> [tally EXCEPT ![c.on] = 0]
                [] c.op = "import" -> Update(tally, t.failures)
                [] OTHER -> tally
  /\ closed' = IF c.op = "logout" THEN closed \cup {c.on[1]} ELSE closed
  /\ brought' = CASE c.op = "create" -> brought \ {UserOf(x) : x \in DOMAIN t.changed}
                  [] c.op = "import" -> brought \cup {UserOf(x) : x \in DOMAIN t.changed}
                  [] OTHER -> brought

Commit(i) ==
  /\ pc[i] = "commit"
  /\ Committed(i)
  /\ Answer(i)
  /\ UNCHANGED <<down, faults>>

-----------------------------------------------------------------------------
\* What goes wrong.

AtDatabase(i) == pc[i] \notin {"idle", "reconnect", "migrate"}
Fault == faults < MaxFaults /\ faults' = faults + 1

\* The connection is lost, and the transaction with it.
ConnectionLost(i) ==
  /\ i \in Faulty /\ AtDatabase(i) /\ Fault
  /\ Failed(i, TRUE)
  /\ UNCHANGED <<table, stale>>

\* The transaction is committed, the worker does not hear of it.
CommitUnheard(i) ==
  /\ i \in Faulty /\ pc[i] = "commit" /\ Fault
  /\ Committed(i)
  /\ Failed(i, TRUE)

\* lock_timeout ends the statement, and a migration with it.
LockTimeout(i) ==
  /\ Waiting(i)
  /\ Failed(i, pc[i] = "migrate" /\ down[i])
  /\ UNCHANGED <<table, stale, faults>>

\* What a worker and the database do while nothing fails.
Serve(i) ==
  \/ Take(i) \/ Reconnect(i) \/ Migrate(i) \/ Migrated(i)
  \/ LockProvider(i) \/ FindUsers(i) \/ FindFamily(i) \/ LockUser(i)
  \/ LockPredecessor(i) \/ Repeated(i) \/ Refuse(i) \/ InsertRow(i) \/ Prune(i)
  \/ SelectRows(i) \/ RevokeRow(i) \/ SpendToken(i)
  \/ Lookup(i) \/ LockFirst(i) \/ LockSecond(i)
  \/ LockKey(i) \/ LoadFailures(i) \/ StoreFailures(i) \/ FindStale(i) \/ DropRow(i)
  \/ LockAhead(i) \/ ImportSession(i) \/ ImportToken(i) \/ ImportLimit(i) \/ ImportDone(i)
  \/ WorkElsewhere(i) \/ Commit(i)

Next ==
  \E i \in Instance :
    \/ \E c \in Command : Ask(i, c)
    \/ Serve(i)
    \/ ConnectionLost(i) \/ CommitUnheard(i) \/ ReconnectFails(i) \/ LockTimeout(i)

\* Where the order of the locks lets transactions wait for each other: a
\* DELETE of stale rows, a migration, and the rows of an import.
Contended(i) ==
  \/ pc[i] \in {"drop", "migrate"}
  \/ pc[i] = "import" /\ \A a \in Upcoming(i) : a[1] \in {"row", "token", "failures"}

\* Workers and database go on, and a lock times out, as far as it matters here,
\* where nothing else may end the wait.  Nothing has to fail otherwise.
Fairness ==
  \A i \in Instance : WF_vars(Serve(i)) /\ WF_vars(LockTimeout(i) /\ Contended(i))

Spec == Init /\ [][Next]_vars /\ Fairness

-----------------------------------------------------------------------------
\* Properties.

\* The statements of a transaction may meet those of any other, and may run
\* twice: whatever is committed is one of the calls of SessionTable, for the
\* sessions, the logout tokens and the failures at that moment.
ImplementsCalls == TableSpec

Busy(i) == queue[i] # <<>> \/ pc[i] # "idle"

\* Every command is answered.  Transactions do wait for each other: two that
\* delete each other's stale row, a migration and a logout token, an import and
\* the lookup of a successor.  lock_timeout in those three ends every such wait;
\* all others end because their locks are taken in one order, and nothing is
\* tried more than twice.
EveryCallAnswered == \A i \in Instance : Busy(i) ~> ~Busy(i)

=============================================================================
