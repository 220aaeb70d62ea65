--------------------------- MODULE HistoryStores ---------------------------
(***************************************************************************)
(* The history stores, one SQLite file or PostgreSQL database each, of     *)
(* which a klaxond has one open, and the change from one to another while  *)
(* requests go on.  What sign-ins must not forget (the sessions and which  *)
(* of them are revoked, the logout tokens already used, the failures and   *)
(* lockouts of an account) is written under the read lock of the           *)
(* transition and copied under its write lock.  Deliveries, reservations   *)
(* of the repeat gate and receipts are not: their users take the open      *)
(* store without that lock and keep it while they work.                    *)
(*                                                                         *)
(* A session is its cookie, AuthSessions has its rows in full.  A delivery *)
(* is the task that logs it; retention, which deletes the oldest ones, is  *)
(* left out.  Times are whole numbers from 1 on.                           *)
(***************************************************************************)
EXTENDS FailureLimit

CONSTANTS
  Store,          \* settings of [history] that may be chosen
  Postgres,       \* those of them that are on PostgreSQL
  Session,        \* sessions that sign-ins may create
  LogoutToken,    \* logout tokens of the identity provider,
  Ends,           \*   and the sessions each of them revokes
  Account,        \* accounts whose failures are counted
  Task,           \* deliveries and queries that use a store
  Receipt,        \* emergency receipts
  Horizon,        \* bound: the clock stops here
  MaxCalls,       \* bound: sign-ins, deliveries and queries, of any kind
  MaxChanges,     \* bound: changes of the store
  MaxFaults,      \* bound: failing steps and replayed statements
  MaxCrashes,     \* bound: crashes
  None

ASSUME StoreAssumption == Postgres \subseteq Store /\ Ends \in [LogoutToken -> SUBSET Session]

ASSUME BoundAssumption == {Horizon, MaxCalls, MaxChanges, MaxFaults, MaxCrashes} \subseteq Nat

ASSUME NoneAssumption == None \notin Store

VARIABLES
  db,          \* what each store holds
  file,        \* the [history] section on disk
  open,        \* AppState::history, None while the process is down
  generation,  \* AppState::history_generation
  change,      \* the change of the store that is under way
  cache,       \* AppState::delivery_activity_cache
  task,        \* what the deliveries and queries are doing
  facts,       \* history: what sign-ins were answered
  orphaned,    \* history: a process started on a store without those facts
  clock, calls, changes, faults, crashes

vars == <<db, file, open, generation, change, cache, task, facts, orphaned,
          clock, calls, changes, faults, crashes>>

Empty == [sessions |-> {}, revoked |-> {}, spent |-> {},
          limit |-> [a \in Account |-> NoLimit],
          log |-> {}, held |-> {}, receipts |-> {}]

Idle == [kind |-> "idle", store |-> None, generation |-> 0]
NoChange == [how |-> None, to |-> None, before |-> None, snapshot |-> None, pc |-> "none"]

Up == open # None
At(pc) == change.pc = pc
Call == calls < MaxCalls /\ calls' = calls + 1
Fault == faults < MaxFaults /\ faults' = faults + 1

-----------------------------------------------------------------------------
(* The limit of an account that is imported into another store.             *)

\* merge_import: a set of seconds, so failures of one second become one.
Later(a, b) == IF a >= b THEN a ELSE b

InOrder(S) == [n \in 1..Cardinality(S) |-> CHOOSE x \in S : Cardinality({y \in S : y <= x}) = n]

Merged(r, i) == [fails |-> InOrder(ToSet(r.fails) \cup ToSet(i.fails)),
                 until |-> Later(r.until, i.until)]

-----------------------------------------------------------------------------
(* The facts of the sign-ins: with_auth_store.                              *)

\* The change holds the write lock from its snapshot until it is published,
\* or until a restore has put the files back.
Exclusive ==
  \/ change.pc \in {"snapped", "written", "opened", "imported", "swapped"}
  \/ change.pc = "undo" /\ change.how = "restore"

\* mutant: sign-ins go on during the change.
MaySignAnyway == Up
MaySign == Up /\ ~Exclusive

Others == Call /\ UNCHANGED <<file, open, generation, change, cache, task, orphaned, clock,
                      changes, crashes>>

CreateSession(x) ==
  /\ MaySign /\ x \notin facts.sessions
  /\ db' = [db EXCEPT ![open].sessions = @ \cup {x}]
  /\ facts' = [facts EXCEPT !.sessions = @ \cup {x}]
  /\ Others /\ UNCHANGED faults

\* A logout, or any revocation of a session the open store knows.
Revoke(x) ==
  /\ MaySign /\ x \in db[open].sessions \ db[open].revoked
  /\ db' = [db EXCEPT ![open].revoked = @ \cup {x}]
  /\ facts' = [facts EXCEPT !.revoked = @ \cup {x}]
  /\ Others /\ UNCHANGED faults

\* consume_oidc_logout: the token is used up and its sessions revoked at once.
ConsumeLogout(k) ==
  LET gone == Ends[k] \cap db[open].sessions
  IN  /\ MaySign /\ k \notin db[open].spent
      /\ db' = [db EXCEPT ![open].spent = @ \cup {k}, ![open].revoked = @ \cup gone]
      /\ facts' = [facts EXCEPT !.spent = @ \cup {k}, !.revoked = @ \cup gone]
      /\ Others /\ UNCHANGED faults

\* auth_rate_limited writes the row back without what has expired.
CheckLimit(a) ==
  /\ MaySign
  /\ db' = [db EXCEPT ![open].limit[a] = Pruned(@, clock)]
  /\ UNCHANGED facts /\ Others /\ UNCHANGED faults

\* postgres_with_retry runs a statement once more when its reply was lost.
RecordFailure(a) ==
  /\ MaySign
  /\ \/ /\ db' = [db EXCEPT ![open].limit[a] = Failed(@, clock)]
        /\ UNCHANGED faults
     \/ /\ open \in Postgres /\ Fault
        /\ db' = [db EXCEPT ![open].limit[a] = Failed(Failed(@, clock), clock)]
  /\ facts' = [facts EXCEPT !.failed[a] = @ \cup {clock},
                            !.until[a] = Later(@, db'[open].limit[a].until)]
  /\ Others

\* A sign-in that succeeds clears the account.
ClearFailures(a) ==
  /\ MaySign
  /\ db' = [db EXCEPT ![open].limit[a] = NoLimit]
  /\ facts' = [facts EXCEPT !.failed[a] = {}, !.until[a] = 0]
  /\ Others /\ UNCHANGED faults

-----------------------------------------------------------------------------
(* Users of a store that do not take the lock of the transition.            *)

Work(w, t) == task' = [task EXCEPT ![w] = t]
Rest == UNCHANGED <<file, open, generation, change, facts, orphaned, clock, changes, crashes>>
Asked == Call /\ Rest
Went == UNCHANGED calls /\ Rest

\* log_delivery takes the open store and writes its entry there.
StartDelivery(w) ==
  /\ Up /\ task[w] = Idle /\ w \notin UNION {db[s].log : s \in Store}
  /\ Work(w, [kind |-> "log", store |-> open, generation |-> 0])
  /\ Asked /\ UNCHANGED <<db, cache, faults>>

\* The hash of an entry makes a replay harmless; an error is only logged.
RecordDelivery(w) ==
  /\ task[w].kind = "log"
  /\ \/ db' = [db EXCEPT ![task[w].store].log = @ \cup {w}] /\ UNCHANGED faults
     \/ Fault /\ UNCHANGED db
  /\ Work(w, Idle)
  /\ Went /\ UNCHANGED cache

\* reserve_until_decided keeps the store it asked in the reservation ...
ReserveRepeat(w) ==
  /\ Up /\ task[w] = Idle
  /\ Work(w, [kind |-> "repeat", store |-> open, generation |-> 0])
  /\ db' = [db EXCEPT ![open].held = @ \cup {w}]
  /\ Asked /\ UNCHANGED <<cache, faults>>

\* mutant: the outcome goes to the store that is open now.
OutcomeOpen(w) == open
Outcome(w) == task[w].store

\* ... and writes the outcome of the delivery there.  A failure is logged,
\* and the lease of the reservation ends it.
CompleteRepeat(w) ==
  /\ task[w].kind = "repeat"
  /\ \/ /\ db' = [db EXCEPT ![Outcome(w)].held = @ \ {w}]
        /\ Work(w, Idle) /\ UNCHANGED faults
     \/ /\ Fault /\ UNCHANGED db
        /\ Work(w, [task[w] EXCEPT !.kind = "gone"])
  /\ Went /\ UNCHANGED cache

LeaseEnds(w) ==
  /\ task[w].kind = "gone"
  /\ db' = [db EXCEPT ![task[w].store].held = @ \ {w}]
  /\ Work(w, Idle)
  /\ Went /\ UNCHANGED <<cache, faults>>

\* activity_response: one query at a time, behind the cache of its generation.
Cached == cache # None /\ cache.generation = generation

StartActivity(w) ==
  /\ Up /\ task[w] = Idle /\ ~Cached
  /\ \A v \in Task : task[v].kind \notin {"query", "answer"}
  /\ Work(w, [kind |-> "query", store |-> None, generation |-> generation])
  /\ Asked /\ UNCHANGED <<db, cache, faults>>

ReadActivity(w) ==
  /\ task[w].kind = "query"
  /\ Work(w, [task[w] EXCEPT !.kind = "answer", !.store = open])
  /\ Went /\ UNCHANGED <<db, cache, faults>>

\* cache_delivery_activity, which waits for the lock that a swap holds.
\* mutant: what was read before a swap is cached after it.
CacheStale(w) ==
  /\ task[w].kind = "answer" /\ ~At("swapped")
  /\ cache' = [generation |-> generation, store |-> task[w].store]
  /\ Work(w, Idle)
  /\ Went /\ UNCHANGED <<db, faults>>
CacheActivity(w) ==
  /\ task[w].kind = "answer" /\ ~At("swapped")
  /\ cache' = IF generation = task[w].generation
              THEN [generation |-> generation, store |-> task[w].store] ELSE cache
  /\ Work(w, Idle)
  /\ Went /\ UNCHANGED <<db, faults>>

\* An entry is served for DELIVERY_ACTIVITY_CACHE_TTL.
ExpireCache ==
  /\ cache # None /\ cache' = None
  /\ Went /\ UNCHANGED <<db, task, faults>>

\* The receipts of emergencies are opened in the open store, and only looked
\* for there.
OpenReceipt(e) ==
  /\ Up /\ e \notin UNION {db[s].receipts : s \in Store}
  /\ db' = [db EXCEPT ![open].receipts = @ \cup {e}]
  /\ Asked /\ UNCHANGED <<cache, task, faults>>

CloseReceipt(e) ==
  /\ Up /\ e \in db[open].receipts
  /\ db' = [db EXCEPT ![open].receipts = @ \ {e}]
  /\ Asked /\ UNCHANGED <<cache, task, faults>>

-----------------------------------------------------------------------------
(* The change of the store: commit_config_replacement.                      *)

Same == UNCHANGED <<task, facts, orphaned, clock, calls, crashes>>
Goto(pc) == change' = [change EXCEPT !.pc = pc]

\* persist_reload has written the file before; a restore writes it later.
Begin(s, how) ==
  /\ Up /\ At("none") /\ s # open /\ changes < MaxChanges
  /\ changes' = changes + 1
  /\ file' = IF how = "reload" THEN s ELSE file
  /\ change' = [how |-> how, to |-> s, before |-> file, snapshot |-> None, pc |-> "begun"]
  /\ UNCHANGED <<db, open, generation, cache, faults>> /\ Same

AuthOf(d) == [sessions |-> d.sessions, revoked |-> d.revoked,
              spent |-> d.spent, limit |-> d.limit]

Snapshot ==
  /\ At("begun")
  /\ change' = [change EXCEPT !.pc = "snapped", !.snapshot = AuthOf(db[open])]
  /\ UNCHANGED <<db, file, open, generation, cache, changes, faults>> /\ Same

\* commit: the files of a restore are written under the lock.
Commit ==
  /\ At("snapped")
  /\ file' = change.to
  /\ Goto("written")
  /\ UNCHANGED <<db, open, generation, cache, changes, faults>> /\ Same

\* HistoryStore::open creates the tables that are missing.
OpenTarget ==
  /\ At("written")
  /\ Goto("opened")
  /\ UNCHANGED <<db, file, open, generation, cache, changes, faults>> /\ Same

\* import_session and import_logout_token: what either store knows, and a
\* session that either store has revoked stays revoked.
MergedSessions(d, a) == [d EXCEPT !.sessions = @ \cup a.sessions,
                                  !.revoked = @ \cup a.revoked, !.spent = @ \cup a.spent]

\* import_runtime_auth_state, in one transaction.
Imported(d, a) == [MergedSessions(d, a) EXCEPT
                     !.limit = [c \in Account |-> Merged(@[c], a.limit[c])]]

Import ==
  /\ At("opened")
  /\ db' = [db EXCEPT ![change.to] = Imported(@, change.snapshot)]
  /\ Goto("imported")
  /\ UNCHANGED <<file, open, generation, cache, changes, faults>> /\ Same

\* Under the lock of the cache the new store is put in place first, then the
\* generation moves on and the cache is emptied.
Swap ==
  /\ At("imported")
  /\ open' = change.to
  /\ Goto("swapped")
  /\ UNCHANGED <<db, file, generation, cache, changes, faults>> /\ Same

Publish ==
  /\ At("swapped")
  /\ generation' = generation + 1 /\ cache' = None /\ change' = NoChange
  /\ UNCHANGED <<db, file, open, changes, faults>> /\ Same

\* Each step before the swap may fail; a restore that has not written its
\* files yet has nothing to put back.
ChangeFails ==
  /\ change.pc \in {"begun", "snapped", "written", "opened"}
  /\ Fault
  /\ IF change.how = "restore" /\ change.pc = "begun"
     THEN change' = NoChange
     ELSE Goto("undo")
  /\ UNCHANGED <<db, file, open, generation, cache, changes>> /\ Same

\* The files are put back; one that cannot be is logged and stays.
Undo ==
  /\ At("undo")
  /\ \/ file' = change.before /\ UNCHANGED faults
     \/ Fault /\ UNCHANGED file
  /\ change' = NoChange
  /\ UNCHANGED <<db, open, generation, cache, changes>> /\ Same

-----------------------------------------------------------------------------
(* The process.                                                             *)

Crash ==
  /\ Up /\ crashes < MaxCrashes
  /\ crashes' = crashes + 1
  /\ orphaned' = (orphaned \/ (file # open /\ ~At("imported")))
  /\ open' = None /\ change' = NoChange /\ cache' = None /\ generation' = 0
  /\ task' = [w \in Task |-> IF task[w].kind \in {"repeat", "gone"}
                             THEN [task[w] EXCEPT !.kind = "gone"] ELSE Idle]
  /\ UNCHANGED <<db, file, facts, clock, calls, changes, faults>>

Start ==
  /\ ~Up /\ open' = file
  /\ UNCHANGED <<db, file, generation, change, cache, task, facts, orphaned,
                 clock, calls, changes, faults, crashes>>

\* history-migrate, run while nothing writes, copies everything; an import
\* that fails has copied the deliveries and perhaps the receipts.  The
\* process is then started on the destination.
Migrated(d, e) == [Imported(d, AuthOf(e)) EXCEPT !.log = @ \cup e.log,
                                                 !.receipts = @ \cup e.receipts]

Migrate(s) ==
  /\ ~Up /\ s # file /\ changes < MaxChanges
  /\ changes' = changes + 1
  /\ \/ /\ db' = [db EXCEPT ![s] = Migrated(@, db[file])]
        /\ file' = s /\ UNCHANGED faults
     \/ /\ Fault /\ UNCHANGED file
        /\ \E R \in {{}, db[file].receipts} :
             db' = [db EXCEPT ![s].log = @ \cup db[file].log, ![s].receipts = @ \cup R]
  /\ UNCHANGED <<open, generation, change, cache, task, facts, orphaned, clock, calls, crashes>>

Tick ==
  /\ clock < Horizon /\ clock' = clock + 1
  /\ UNCHANGED <<db, file, open, generation, change, cache, task, facts, orphaned,
                 calls, changes, faults, crashes>>

-----------------------------------------------------------------------------
Init ==
  /\ db = [s \in Store |-> Empty]
  /\ file \in Store /\ open = file
  /\ generation = 0 /\ change = NoChange /\ cache = None
  /\ task = [w \in Task |-> Idle]
  /\ facts = [sessions |-> {}, revoked |-> {}, spent |-> {},
              failed |-> [a \in Account |-> {}], until |-> [a \in Account |-> 0]]
  /\ orphaned = FALSE
  /\ clock = 1 /\ calls = 0 /\ changes = 0 /\ faults = 0 /\ crashes = 0

SignIn == \/ \E x \in Session : CreateSession(x) \/ Revoke(x)
          \/ \E k \in LogoutToken : ConsumeLogout(k)
          \/ \E a \in Account : CheckLimit(a) \/ RecordFailure(a) \/ ClearFailures(a)

Use == \/ \E w \in Task : \/ StartDelivery(w) \/ RecordDelivery(w)
                          \/ ReserveRepeat(w) \/ CompleteRepeat(w)
                          \/ LeaseEnds(w)
                          \/ StartActivity(w) \/ ReadActivity(w) \/ CacheActivity(w)
       \/ ExpireCache
       \/ \E e \in Receipt : OpenReceipt(e) \/ CloseReceipt(e)

Change == \/ \E s \in Store, how \in {"reload", "restore"} : Begin(s, how)
          \/ Snapshot \/ Commit \/ OpenTarget \/ Import \/ Swap \/ Publish
          \/ ChangeFails \/ Undo

Next == \/ SignIn \/ Use \/ Change
        \/ Crash \/ Start \/ Tick
        \/ \E s \in Store : Migrate(s)

Spec == Init /\ [][Next]_vars

-----------------------------------------------------------------------------
Seconds == 1..Horizon
Limit == [fails : Seq(Seconds), until : Nat]
Auth == [sessions : SUBSET Session, revoked : SUBSET Session, spent : SUBSET LogoutToken,
         limit : [Account -> Limit]]
Data == [sessions : SUBSET Session, revoked : SUBSET Session, spent : SUBSET LogoutToken,
         limit : [Account -> Limit], log : SUBSET Task, held : SUBSET Task,
         receipts : SUBSET Receipt]
Stage == {"none", "begun", "snapped", "written", "opened", "imported", "swapped", "undo"}

\* Every variable stays in its type.
TypeOK ==
  /\ db \in [Store -> Data]
  /\ file \in Store /\ open \in Store \cup {None}
  /\ generation \in Nat
  /\ change \in [how : {"reload", "restore", None}, to : Store \cup {None},
                  before : Store \cup {None}, snapshot : Auth \cup {None}, pc : Stage]
  /\ cache = None \/ cache \in [generation : Nat, store : Store]
  /\ task \in [Task -> [kind : {"idle", "log", "repeat", "gone", "query", "answer"},
                        store : Store \cup {None}, generation : Nat]]
  /\ facts \in [sessions : SUBSET Session, revoked : SUBSET Session,
                spent : SUBSET LogoutToken, failed : [Account -> SUBSET Seconds],
                until : [Account -> Nat]]
  /\ orphaned \in BOOLEAN
  /\ clock \in Seconds \cup {1} /\ {calls, changes, faults, crashes} \subseteq Nat

Knows(s) == /\ facts.sessions \subseteq db[s].sessions
            /\ facts.revoked \subseteq db[s].revoked
            /\ facts.spent \subseteq db[s].spent

Counts(s) ==
  \A a \in Account :
    LET r == db[s].limit[a]
        recent == {f \in facts.failed[a] : f >= clock - FailureWindow}
    IN  /\ facts.until[a] > clock => r.until >= facts.until[a]
        /\ recent \subseteq ToSet(r.fails) \/ r.until > clock

\* The store sign-ins are asked of knows every session that was created, every
\* revocation, every logout token that was used, and every failure and lockout
\* that counts, whatever changes of the store, failing changes, crashes and
\* migrations lie between; commit_config_replacement and import_auth_state.
SessionsKept == Up /\ ~orphaned => Knows(open)
FailuresKept == Up /\ ~orphaned => Counts(open)
AuthKept == SessionsKept /\ FailuresKept

\* The activity of the deliveries that is served from the cache is that of the
\* open store, however long the query that read it took; cache_delivery_activity.
ActivityCurrent == Up /\ Cached /\ ~At("swapped") => cache.store = open

\* A store holds a repeat back only for a delivery that was admitted there and
\* has not ended, or whose end was lost and which the lease ends: no change of
\* the store leaves a reservation that a finished delivery still holds;
\* RepeatReservation.
ReservationsSettled ==
  \A s \in Store :
    db[s].held = {w \in Task : task[w].kind \in {"repeat", "gone"} /\ task[w].store = s}
============================================================================
