---------------------------- MODULE Registration ----------------------------
(***************************************************************************)
(* The transaction that registers a firing at PostgreSQL, statement by     *)
(* statement: EmergencyReceipts has it as the one step Insert, which is    *)
(* what it is under the connection lock of SQLite.  Here the workers of    *)
(* several instances look up the open receipt of a condition, insert one   *)
(* and look again at the same time, while receipts are closed, connections *)
(* are lost and commits are not heard of.                                  *)
(*                                                                         *)
(* A receipt identifier is drawn for the call that registers it, so the    *)
(* receipt is named by its firing.  The firings of one instance wait for   *)
(* each other, which only takes behaviours away: each has a worker of its  *)
(* own here.                                                               *)
(***************************************************************************)
EXTENDS Integers

CONSTANTS
  Firing,       \* firings that select a profile, and their receipts
  Condition,    \* stable fingerprints
  ConditionOf,  \* the fingerprint of each firing
  Fallible,     \* bound: the firings whose connection or instance may fail
  Nothing

ASSUME ConditionAssumption == ConditionOf \in [Firing -> Condition]
ASSUME FallibleAssumption == Fallible \subseteq Firing
ASSUME NothingAssumption == Nothing \notin Firing

VARIABLES
  row,      \* klaxond_emergencies as committed: the row of each receipt
  at,       \* what the worker does next
  seen,     \* the row its transaction has found
  run,      \* the executions of the command, the one under way included
  answer,   \* what the ingest handler is told
  wasOpen   \* history: the receipts of its condition open during the call

regVars == <<row, at, seen, run, answer, wasOpen>>

Statement == {"lookup", "locking", "found", "absent", "inserted", "conflict",
              "coalesced"}

Untold == [to |-> "none", receipt |-> Nothing]
Normally == [to |-> "normal", receipt |-> Nothing]

RegistrationType ==
  /\ row \in [Firing -> {"none", "open", "closed"}]
  /\ at \in [Firing -> Statement \cup {"idle", "failed", "done"}]
  /\ seen \in [Firing -> Firing \cup {Nothing}]
  /\ run \in [Firing -> 0..2]
  /\ answer \in [Firing -> [to : {"none", "created", "duplicate", "normal"},
                            receipt : Firing \cup {Nothing}]]
  /\ wasOpen \in [Firing -> SUBSET Firing]

RegistrationInit ==
  /\ row = [f \in Firing |-> "none"]
  /\ at = [f \in Firing |-> "idle"]
  /\ seen = [f \in Firing |-> Nothing]
  /\ run = [f \in Firing |-> 0]
  /\ answer = [f \in Firing |-> Untold]
  /\ wasOpen = [f \in Firing |-> {}]

Same(f, g) == ConditionOf[f] = ConditionOf[g]
OpenRows(f) == {q \in Firing : row[q] = "open" /\ Same(q, f)}
AnyRows(f) ==  \* mutant: no state = 'active' in the WHERE
  {q \in Firing : row[q] # "none" /\ Same(q, f)}

\* The row q is locked by a transaction that found it and rewrote its payload.
Locked(q) == \E g \in Firing : at[g] = "found" /\ seen[g] = q

Goto(f, place) ==
  /\ at' = [at EXCEPT ![f] = place]
  /\ UNCHANGED <<row, run, answer, wasOpen>>

\* The command reaches the worker: prepare has chosen a profile.
Call(f) ==
  /\ at[f] = "idle"
  /\ at' = [at EXCEPT ![f] = "lookup"]
  /\ run' = [run EXCEPT ![f] = 1]
  /\ wasOpen' = [wasOpen EXCEPT ![f] = OpenRows(f)]
  /\ UNCHANGED <<row, seen, answer>>

\* SELECT ... FOR UPDATE starts: an open row of the condition, or none.
LookUp(f) ==
  /\ at[f] = "lookup"
  /\ \/ /\ OpenRows(f) = {}
        /\ Goto(f, "absent")
        /\ UNCHANGED seen
     \/ \E q \in OpenRows(f) :
          /\ Goto(f, "locking")
          /\ seen' = [seen EXCEPT ![f] = q]

\* Once nobody else has the row locked, the WHERE is tested on it anew: a row
\* closed meanwhile is skipped.  One that is open gets the new payload.
LockRow(f) ==
  /\ at[f] = "locking"
  /\ ~Locked(seen[f])
  /\ IF row[seen[f]] = "open"
       THEN Goto(f, "found") /\ UNCHANGED seen
       ELSE Goto(f, "absent") /\ seen' = [seen EXCEPT ![f] = Nothing]

ConflictsById(f) == row[f] # "none"  \* mutant: no index on active fingerprints

\* What ON CONFLICT DO NOTHING meets: the identifier, inserted by a first run
\* whose commit was not heard of, or an open row of the same fingerprint in the
\* partial unique index.
Conflicts(f) == row[f] # "none" \/ OpenRows(f) # {}

\* A transaction that has inserted a row of the fingerprint, or rewrites one,
\* makes the insertion wait for its end.
Busy(f) ==
  \E g \in Firing \ {f} : at[g] \in {"inserted", "found"} /\ Same(g, f)

InsertReceipt(f) ==
  /\ at[f] = "absent"
  /\ ~Busy(f)
  /\ Goto(f, IF Conflicts(f) THEN "conflict" ELSE "inserted")
  /\ UNCHANGED seen

Reread(f) == OpenRows(f)

\* The second SELECT: an open row, or "insert conflict without active
\* fingerprint".  (After an insertion it finds the row inserted.)
Reselect(f) ==
  /\ at[f] = "conflict"
  /\ \/ /\ Reread(f) = {}
        /\ Goto(f, "failed")
        /\ UNCHANGED seen
     \/ \E q \in Reread(f) :
          /\ Goto(f, "coalesced")
          /\ seen' = [seen EXCEPT ![f] = q]

\* The transaction of f commits: its row, if it inserted one, is open from now
\* on, and every call under way has met it.
Publish(f) ==
  /\ at[f] \in {"found", "inserted", "coalesced"}
  /\ IF at[f] = "inserted"
       THEN /\ row' = [row EXCEPT ![f] = "open"]
            /\ wasOpen' = [g \in Firing |->
                 IF Same(g, f) /\ at[g] \notin {"idle", "done"}
                   THEN wasOpen[g] \cup {f} ELSE wasOpen[g]]
       ELSE UNCHANGED <<row, wasOpen>>
  /\ seen' = [seen EXCEPT ![f] = Nothing]

Commit(f) ==
  /\ Publish(f)
  /\ answer' = [answer EXCEPT ![f] =
       IF at[f] = "inserted" THEN [to |-> "created", receipt |-> f]
                             ELSE [to |-> "duplicate", receipt |-> seen[f]]]
  /\ at' = [at EXCEPT ![f] = "done"]
  /\ UNCHANGED run

\* PostgreSQL commits, but the worker does not hear of it.
CommitUnheard(f) ==
  /\ f \in Fallible
  /\ Publish(f)
  /\ at' = [at EXCEPT ![f] = "failed"]
  /\ UNCHANGED <<run, answer>>

\* A statement fails: a lost connection, or a lock or statement timeout.  The
\* transaction is rolled back.
StatementFails(f) ==
  /\ f \in Fallible
  /\ at[f] \in Statement
  /\ Goto(f, "failed")
  /\ seen' = [seen EXCEPT ![f] = Nothing]

RunsAlways(f) == TRUE  \* mutant: the command is retried until it works
RunsLeft(f) == run[f] = 1

\* postgres_with_retry reconnects and executes the command once more, ...
Rerun(f) ==
  /\ at[f] = "failed"
  /\ RunsLeft(f)
  /\ at' = [at EXCEPT ![f] = "lookup"]
  /\ run' = [run EXCEPT ![f] = 2]
  /\ UNCHANGED <<row, seen, answer, wasOpen>>

\* ... or answers with the second error, or with that of the reconnect: the
\* firing is delivered like any other, with no receipt to follow it.
GiveUp(f) ==
  /\ at[f] = "failed"
  /\ at' = [at EXCEPT ![f] = "done"]
  /\ answer' = [answer EXCEPT ![f] = Normally]
  /\ UNCHANGED <<row, seen, run, wasOpen>>

\* The instance dies: its transaction is rolled back, nobody is told anything.
Die(f) ==
  /\ f \in Fallible
  /\ at[f] \in Statement \cup {"failed"}
  /\ Goto(f, "done")
  /\ seen' = [seen EXCEPT ![f] = Nothing]

\* An acknowledgement, a recovery, the expiry: one UPDATE, which waits for the
\* transactions that have the row locked.
CloseReceipt(q) ==
  /\ row[q] = "open"
  /\ ~Locked(q)
  /\ row' = [row EXCEPT ![q] = "closed"]
  /\ UNCHANGED <<at, seen, run, answer, wasOpen>>

Execute(f) ==
  \/ LookUp(f)
  \/ LockRow(f)
  \/ InsertReceipt(f)
  \/ Reselect(f)
  \/ Commit(f)
  \/ Rerun(f)
  \/ GiveUp(f)

RegistrationNext ==
  \E f \in Firing :
    \/ Call(f)
    \/ Execute(f)
    \/ CommitUnheard(f)
    \/ StatementFails(f)
    \/ Die(f)
    \/ CloseReceipt(f)

RegistrationSpec == RegistrationInit /\ [][RegistrationNext]_regVars

\* A worker goes on as long as its connection does; nobody need close anything,
\* and no timeout need end a wait.
FairRegistration ==
  RegistrationSpec /\ \A f \in Firing : WF_regVars(Execute(f))

-----------------------------------------------------------------------------
(* What must hold.                                                         *)

\* A condition has one open receipt, whichever instances find none at the same
\* time and insert one each: the second insertion waits for the first, and
\* then meets it or inserts after it was closed or rolled back.
OneOpenReceipt ==
  \A f, g \in Firing :
    row[f] = "open" /\ row[g] = "open" /\ Same(f, g) => f = g

\* A firing is called a duplicate only of a receipt of its condition that was
\* open at some moment of the call, never of one that closed before: nobody
\* would ever be told of it.  And who is told to send the first notification
\* of a receipt is the one that drew it.
AnswersJustified ==
  \A f \in Firing :
    /\ answer[f].to = "created" => answer[f].receipt = f /\ row[f] # "none"
    /\ answer[f].to = "duplicate" =>
         answer[f].receipt \in wasOpen[f] /\ Same(answer[f].receipt, f)

\* Every call ends, without the help of a timeout: nobody who holds the lock of
\* a row waits for anything, and a command is executed twice at most.
EveryFiringAnswered == \A f \in Firing : at[f] = "lookup" ~> at[f] = "done"

-----------------------------------------------------------------------------
(* The inductive invariant behind the first two.                           *)

\* An insertion that is not committed is the only one of its condition, and
\* meets no open row.
InsertedAlone ==
  \A f \in Firing : at[f] = "inserted" =>
    /\ row[f] = "none"
    /\ OpenRows(f) = {}
    /\ \A g \in Firing \ {f} : at[g] = "inserted" => ~Same(f, g)

\* A row that a transaction goes by was open during its call.
SeenWasOpen ==
  \A f \in Firing :
    /\ seen[f] # Nothing <=> at[f] \in {"locking", "found", "coalesced"}
    /\ seen[f] # Nothing => seen[f] \in wasOpen[f] /\ Same(seen[f], f)

\* A call under way has met every open receipt of its condition.
OpenIsMet ==
  \A f \in Firing :
    at[f] \notin {"idle", "done"} => OpenRows(f) \subseteq wasOpen[f]

\* No answer before the end.
ToldAtTheEnd == \A f \in Firing : at[f] # "done" => answer[f] = Untold

\* One receipt of a condition is open and every firing is told what the rows
\* justify, with what the transactions of register (history/postgres/emergency.rs)
\* know of each other's rows.
RegistrationInv ==
  /\ RegistrationType
  /\ OneOpenReceipt
  /\ InsertedAlone
  /\ SeenWasOpen
  /\ OpenIsMet
  /\ ToldAtTheEnd
  /\ AnswersJustified
=============================================================================
