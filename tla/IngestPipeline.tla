--------------------------- MODULE IngestPipeline ---------------------------
(***************************************************************************)
(* Webhook requests on their way from ingest to a delivery.  A request     *)
(* about a target alert may cancel a deferral, passes the gate of          *)
(* snoozes, mutes and inhibitions, and is then deferred, buffered or       *)
(* delivered; a delivery opens the emergency receipt of its alert, or      *)
(* closes it if the alert has recovered.  A request about an inhibition    *)
(* source arms its rule and closes the receipts the rule covers.  Handlers *)
(* run in parallel: what each action does is one critical section.         *)
(*                                                                         *)
(* Receipts are those of EmergencyReceipts, reduced to who opened the one  *)
(* that is active; the buffer is that of DedupBuffer, without its files.   *)
(* Alerts are emergencies with auto_resolve, dry runs are left out.        *)
(***************************************************************************)
EXTENDS Sequences, Naturals, FiniteSets

CONSTANTS
  Request,      \* webhook calls
  Alert,        \* target alerts; also the keys their producers defer under
  Rule,         \* inhibition rules, by their source
  Covers,       \* Covers[s]: the alerts rule s applies to
  Holds,        \* what may become of a request: "no", "defer", "buffer"
  Holdable,     \* alerts whose requests may be deferred or buffered
  Silenceable,  \* alerts that an operator may snooze or a schedule mutes
  ListLimit,    \* receipts a list of the active ones shows (1000)
  MaxRestarts,  \* bound: restarts of the process
  MaxFailing,   \* bound: requests with a call of the store that fails
  None

ASSUME RuleAssumption == Covers \in [Rule -> SUBSET Alert]

ASSUME HoldAssumption == Holds \subseteq {"no", "defer", "buffer"}

ASSUME LimitAssumption == ListLimit \in Nat \ {0}

ASSUME BoundAssumption == Silenceable \cup Holdable \subseteq Alert /\ {MaxRestarts, MaxFailing} \subseteq Nat

ASSUME NoneAssumption == None \notin Request \cup Alert \cup Rule

VARIABLES
  pc,        \* where each request is,
  alert,     \*   the target alert it is about,
  rule,      \*   or the rule whose source it is about,
  firing,    \*   whether that fires or has recovered,
  hold,      \*   what configuration and payload make of it
  pending,   \* deferral.rs PENDING: the request deferred under each key
  queue,     \* the dedup buffer
  silenced,  \* ack_suppressions and active_mutes
  armed,     \* suppressions
  open,      \* the request that opened the active receipt of each alert
  listed,    \* reconcile_inhibited: receipts it has still to look at,
  judged,    \*   and the one it is about to close
  answered,  \* history: requests whose producer has an answer
  before,    \* history: requests answered when a recovery or a source arrived
  revoked,   \* history: deferrals cancelled or superseded
  steady,    \* history: the rule has been armed since this request armed it
  failed,    \* history: requests with a call of the store that failed
  crowded,   \* history: requests that had a list of the receipts cut short
  restarts

vars ==
  <<pc, alert, rule, firing, hold, pending, queue, silenced, armed, open,
    listed, judged, answered, before, revoked, steady, failed, crowded,
    restarts>>

Place ==
  {"idle", "arrived", "passed", "armed", "reconciling", "sleeping", "buffered",
   "cleared", "sending"} \cup
  {"suppressed", "dropped", "grouped", "coalesced", "done", "lost"}

Ended == {"suppressed", "dropped", "grouped", "coalesced", "done", "lost"}

TypeOK ==
  /\ pc \in [Request -> Place]
  /\ alert \in [Request -> Alert \cup {None}]
  /\ rule \in [Request -> Rule \cup {None}]
  /\ firing \in [Request -> BOOLEAN]
  /\ hold \in [Request -> Holds \cup {None}]
  /\ pending \in [Alert -> Request \cup {None}]
  /\ queue \in Seq(Request)
  /\ silenced \in SUBSET Alert
  /\ armed \in SUBSET Rule
  /\ open \in [Alert -> Request \cup {None}]
  /\ listed \in [Request -> SUBSET Request]
  /\ judged \in [Request -> Request \cup {None}]
  /\ answered \in SUBSET Request
  /\ before \in [Request -> SUBSET Request]
  /\ revoked \in SUBSET Request
  /\ steady \in SUBSET Request
  /\ failed \in SUBSET Request
  /\ crowded \in SUBSET Request
  /\ restarts \in Nat

Init ==
  /\ pc = [r \in Request |-> "idle"]
  /\ alert = [r \in Request |-> None]
  /\ rule = [r \in Request |-> None]
  /\ firing = [r \in Request |-> FALSE]
  /\ hold = [r \in Request |-> None]
  /\ pending = [a \in Alert |-> None]
  /\ queue = << >>
  /\ silenced = {}
  /\ armed = {}
  /\ open = [a \in Alert |-> None]
  /\ listed = [r \in Request |-> {}]
  /\ judged = [r \in Request |-> None]
  /\ answered = {}
  /\ before = [r \in Request |-> {}]
  /\ revoked = {}
  /\ steady = {}
  /\ failed = {}
  /\ crowded = {}
  /\ restarts = 0

Goto(r, place) == pc' = [pc EXCEPT ![r] = place]

Answer(r) == answered' = answered \cup {r}

-----------------------------------------------------------------------------
(* Arrival and the gate.                                                   *)

\* cancel and schedule: the deferral that was pending under the key of a will
\* find that it is not the current one any more.
Revoke(a) == revoked' = revoked \cup ({pending[a]} \ {None})

\* ingest: the route, the authentication and the payload are good.
Arrive(r, a, f, h, cancels) ==
  /\ pc[r] = "idle"
  /\ h # "no" => a \in Holdable
  /\ Goto(r, "arrived")
  /\ alert' = [alert EXCEPT ![r] = a]
  /\ firing' = [firing EXCEPT ![r] = f]
  /\ hold' = [hold EXCEPT ![r] = h]
  /\ before' = [before EXCEPT ![r] = IF f THEN {} ELSE answered]
  /\ IF cancels
       THEN pending' = [pending EXCEPT ![a] = None] /\ Revoke(a)
       ELSE UNCHANGED <<pending, revoked>>
  /\ UNCHANGED <<rule, queue, silenced, armed, open, listed, judged, answered,
                 steady, failed, crowded, restarts>>

ArriveSource(r, s, f) ==
  /\ pc[r] = "idle"
  /\ Goto(r, "arrived")
  /\ rule' = [rule EXCEPT ![r] = s]
  /\ firing' = [firing EXCEPT ![r] = f]
  /\ before' = [before EXCEPT ![r] = IF f THEN answered ELSE {}]
  /\ UNCHANGED <<alert, hold, pending, queue, silenced, armed, open, listed,
                 judged, answered, revoked, steady, failed, crowded, restarts>>

\* is_suppressed.
Covered(a) == \E s \in armed : a \in Covers[s]

\* apply_inhibition for a target.  A recovery is suppressed like a firing.
Suppress(r) ==
  /\ pc[r] = "arrived" /\ alert[r] # None
  /\ alert[r] \in silenced \/ Covered(alert[r])
  /\ Goto(r, "suppressed")
  /\ Answer(r)
  /\ UNCHANGED <<alert, rule, firing, hold, pending, queue, silenced, armed,
                 open, listed, judged, before, revoked, steady, failed,
                 crowded, restarts>>

Pass(r) ==
  /\ pc[r] = "arrived" /\ alert[r] # None
  /\ alert[r] \notin silenced /\ ~Covered(alert[r])
  /\ Goto(r, "passed")
  /\ UNCHANGED <<alert, rule, firing, hold, pending, queue, silenced, armed,
                 open, listed, judged, answered, before, revoked, steady,
                 failed, crowded, restarts>>

-----------------------------------------------------------------------------
(* Inhibition sources.                                                     *)

Steady(s) == {r \in steady : rule[r] = s}

\* register_suppression, for a source that fires or one that has recovered.
Arm(r) ==
  /\ pc[r] = "arrived" /\ rule[r] # None
  /\ Goto(r, "armed")
  /\ IF firing[r]
       THEN /\ armed' = armed \cup {rule[r]}
            /\ steady' = steady \cup {r}
       ELSE /\ armed' = armed \ {rule[r]}
            /\ steady' = steady \ Steady(rule[r])
  /\ UNCHANGED <<alert, rule, firing, hold, pending, queue, silenced, open,
                 listed, judged, answered, before, revoked, failed, crowded,
                 restarts>>

\* The TTL of the suppression is over.
Expire(s) ==
  /\ s \in armed
  /\ armed' = armed \ {s}
  /\ steady' = steady \ Steady(s)
  /\ UNCHANGED <<pc, alert, rule, firing, hold, pending, queue, silenced,
                 open, listed, judged, answered, before, revoked, failed,
                 crowded, restarts>>

OpenNone == {}  \* mutant: nothing is reconciled

\* The active receipts, each named by the request that opened it.
Open == {open[a] : a \in Alert} \ {None}

\* emergencies(Some("active"), 1_000): all the active receipts, or that many of
\* them.  (The newest come first; which those are is left open.)
Full == Cardinality(Open) > ListLimit

Lists ==
  IF Full THEN {seen \in SUBSET Open : Cardinality(seen) = ListLimit} ELSE {Open}

Crowd(r) == crowded' = IF Full THEN crowded \cup {r} ELSE crowded

\* reconcile_inhibited reads a list of the active receipts, ...
ListReceipts(r) ==
  /\ pc[r] = "armed"
  /\ Goto(r, "reconciling")
  /\ \E seen \in Lists : listed' = [listed EXCEPT ![r] = seen]
  /\ Crowd(r)
  /\ UNCHANGED <<alert, rule, firing, hold, pending, queue, silenced, armed,
                 open, judged, answered, before, revoked, steady, failed,
                 restarts>>

\* ... asks is_suppressed for one after the other, ...
Judge(r, x) ==
  /\ pc[r] = "reconciling"
  /\ judged[r] = None
  /\ x \in listed[r]
  /\ listed' = [listed EXCEPT ![r] = @ \ {x}]
  /\ judged' = [judged EXCEPT ![r] = IF Covered(alert[x]) THEN x ELSE None]
  /\ UNCHANGED <<pc, alert, rule, firing, hold, pending, queue, silenced,
                 armed, open, answered, before, revoked, steady, failed,
                 crowded, restarts>>

\* ... and closes it as inhibited if it is still that receipt.
Terminalize(r) ==
  /\ judged[r] # None
  /\ open' = [a \in Alert |-> IF open[a] = judged[r] THEN None ELSE open[a]]
  /\ judged' = [judged EXCEPT ![r] = None]
  /\ UNCHANGED <<pc, alert, rule, firing, hold, pending, queue, silenced,
                 armed, listed, answered, before, revoked, steady, failed,
                 crowded, restarts>>

\* The alert of the source itself is delivered then.
ReconcileDone(r) ==
  /\ pc[r] = "reconciling"
  /\ listed[r] = {} /\ judged[r] = None
  /\ Goto(r, "sending")
  /\ UNCHANGED <<alert, rule, firing, hold, pending, queue, silenced, armed,
                 open, listed, judged, answered, before, revoked, steady,
                 failed, crowded, restarts>>

-----------------------------------------------------------------------------
(* Deferral and buffer.                                                    *)

\* A request with a defer object is deferred, a recovery too.
Defer(r) ==
  /\ pc[r] = "passed" /\ hold[r] = "defer"
  /\ Goto(r, "sleeping")
  /\ pending' = [pending EXCEPT ![alert[r]] = r]
  /\ Revoke(alert[r])
  /\ Answer(r)
  /\ UNCHANGED <<alert, rule, firing, hold, queue, silenced, armed, open,
                 listed, judged, before, steady, failed, crowded, restarts>>

\* submit takes anything but a recovery.
Buffer(r) ==
  /\ pc[r] = "passed" /\ hold[r] = "buffer" /\ firing[r]
  /\ Goto(r, "buffered")
  /\ queue' = Append(queue, r)
  /\ Answer(r)
  /\ UNCHANGED <<alert, rule, firing, hold, pending, silenced, armed, open,
                 listed, judged, before, revoked, steady, failed, crowded,
                 restarts>>

Clear(r) ==
  /\ pc[r] = "passed"
  /\ hold[r] = "no" \/ (hold[r] = "buffer" /\ ~firing[r])
  /\ Goto(r, "cleared")
  /\ UNCHANGED <<alert, rule, firing, hold, pending, queue, silenced, armed,
                 open, listed, judged, answered, before, revoked, steady,
                 failed, crowded, restarts>>

\* mutant: only the key is looked up
CurrentKey(r) == pending[alert[r]] # None

\* take_if_current: the generation is that of this request.
Current(r) == pending[alert[r]] = r

Wake(r) ==
  /\ pc[r] = "sleeping"
  /\ IF Current(r)
       THEN Goto(r, "cleared") /\ pending' = [pending EXCEPT ![alert[r]] = None]
       ELSE Goto(r, "dropped") /\ UNCHANGED pending
  /\ UNCHANGED <<alert, rule, firing, hold, queue, silenced, armed, open,
                 listed, judged, answered, before, revoked, steady, failed,
                 crowded, restarts>>

Queued == {queue[n] : n \in 1..Len(queue)}

\* flush_source: a batch goes out with the labels of its first item, so that
\* its receipt is that of the first alert.
Flush ==
  /\ queue # << >>
  /\ queue' = << >>
  /\ pc' = [r \in Request |->
       IF r = Head(queue) THEN "cleared"
       ELSE IF r \in Queued THEN "grouped"
       ELSE pc[r]]
  /\ UNCHANGED <<alert, rule, firing, hold, pending, silenced, armed, open,
                 listed, judged, answered, before, revoked, steady, failed,
                 crowded, restarts>>

-----------------------------------------------------------------------------
(* Delivery.                                                               *)

\* prepare: a firing opens the receipt, or is coalesced into the active one.
Register(r) ==
  /\ pc[r] = "cleared" /\ firing[r] /\ open[alert[r]] = None
  /\ Goto(r, "sending")
  /\ open' = [open EXCEPT ![alert[r]] = r]
  /\ UNCHANGED <<alert, rule, firing, hold, pending, queue, silenced, armed,
                 listed, judged, answered, before, revoked, steady, failed,
                 crowded, restarts>>

Coalesce(r) ==
  /\ pc[r] = "cleared" /\ firing[r] /\ open[alert[r]] # None
  /\ Goto(r, "coalesced")
  /\ Answer(r)
  /\ UNCHANGED <<alert, rule, firing, hold, pending, queue, silenced, armed,
                 open, listed, judged, before, revoked, steady, failed,
                 crowded, restarts>>

\* mutant: an active receipt is left to its expiry
ClosedNever(r) == open

\* What a recovery leaves of the receipts: reconcile_recovery, as one step.
ClosedBy(r) == [open EXCEPT ![alert[r]] = None]

\* The receipt is looked for in such a list.
Recover(r) ==
  /\ pc[r] = "cleared" /\ ~firing[r]
  /\ Goto(r, "sending")
  /\ \E seen \in Lists :
       open' = IF open[alert[r]] \in seen THEN ClosedBy(r) ELSE open
  /\ Crowd(r)
  /\ UNCHANGED <<alert, rule, firing, hold, pending, queue, silenced, armed,
                 listed, judged, answered, before, revoked, steady, failed,
                 restarts>>

\* deliver returns.
Sent(r) ==
  /\ pc[r] = "sending"
  /\ Goto(r, "done")
  /\ Answer(r)
  /\ UNCHANGED <<alert, rule, firing, hold, pending, queue, silenced, armed,
                 open, listed, judged, before, revoked, steady, failed,
                 crowded, restarts>>

\* A call of the store fails: nothing is reconciled, the receipt under way stays
\* open, the firing is delivered without a receipt, or the recovery alone.
StoreFails(r) ==
  /\ Cardinality(failed \cup {r}) <= MaxFailing
  /\ \/ pc[r] \in {"armed", "cleared"} /\ Goto(r, "sending") /\ UNCHANGED judged
     \/ judged[r] # None /\ judged' = [judged EXCEPT ![r] = None] /\ UNCHANGED pc
  /\ failed' = failed \cup {r}
  /\ UNCHANGED <<alert, rule, firing, hold, pending, queue, silenced, armed,
                 open, listed, answered, before, revoked, steady, crowded,
                 restarts>>

\* An acknowledgement, the expiry or an administrator closes the receipt.
Close(a) ==
  /\ open[a] # None
  /\ open' = [open EXCEPT ![a] = None]
  /\ UNCHANGED <<pc, alert, rule, firing, hold, pending, queue, silenced,
                 armed, listed, judged, answered, before, revoked, steady,
                 failed, crowded, restarts>>

-----------------------------------------------------------------------------
(* Operators, schedules and restarts.                                      *)

\* A snooze of an operator, or a schedule whose time has come: scheduler_tick.
Silence(a) ==
  /\ a \in Silenceable \ silenced
  /\ silenced' = silenced \cup {a}
  /\ UNCHANGED <<pc, alert, rule, firing, hold, pending, queue, armed, open,
                 listed, judged, answered, before, revoked, steady, failed,
                 crowded, restarts>>

Unsilence(a) ==
  /\ a \in silenced
  /\ silenced' = silenced \ {a}
  /\ UNCHANGED <<pc, alert, rule, firing, hold, pending, queue, armed, open,
                 listed, judged, answered, before, revoked, steady, failed,
                 crowded, restarts>>

\* All but the receipts and the files of the buffer is in memory.
Restart ==
  /\ restarts < MaxRestarts
  /\ restarts' = restarts + 1
  /\ pc' = [r \in Request |->
       IF pc[r] \in Ended \cup {"idle", "buffered"} THEN pc[r] ELSE "lost"]
  /\ pending' = [a \in Alert |-> None]
  /\ silenced' = {}
  /\ armed' = {}
  /\ steady' = {}
  /\ listed' = [r \in Request |-> {}]
  /\ judged' = [r \in Request |-> None]
  /\ UNCHANGED <<alert, rule, firing, hold, queue, open, answered, before,
                 revoked, failed, crowded>>

-----------------------------------------------------------------------------
\* What the task of r does.
Handle(r) ==
  \/ Suppress(r)
  \/ Pass(r)
  \/ Arm(r)
  \/ ListReceipts(r)
  \/ \E x \in listed[r] : Judge(r, x)
  \/ Terminalize(r)
  \/ ReconcileDone(r)
  \/ Defer(r)
  \/ Buffer(r)
  \/ Clear(r)
  \/ Wake(r)
  \/ Register(r)
  \/ Coalesce(r)
  \/ Recover(r)
  \/ Sent(r)
  \/ StoreFails(r)

Environment ==
  \/ \E r \in Request, a \in Alert, f \in BOOLEAN, h \in Holds, c \in BOOLEAN :
       Arrive(r, a, f, h, c)
  \/ \E r \in Request, s \in Rule, f \in BOOLEAN : ArriveSource(r, s, f)
  \/ \E s \in Rule : Expire(s)
  \/ \E a \in Alert : Silence(a) \/ Unsilence(a) \/ Close(a)
  \/ Restart

Next ==
  \/ \E r \in Request : Handle(r)
  \/ Flush
  \/ Environment

Spec == Init /\ [][Next]_vars

-----------------------------------------------------------------------------
(* What must hold.                                                         *)

\* A deferral that was cancelled or superseded while it slept is not delivered,
\* and no other deferral is dropped.
DeferralHonoured ==
  \A r \in Request :
    /\ r \in revoked => pc[r] \in {"sleeping", "dropped", "lost"}
    /\ pc[r] = "dropped" => r \in revoked

Held(r) == hold[r] \in {"defer", "buffer"}

\* r is a recovery that was handled, or is handled but for its own delivery.
Recovered(r) ==
  /\ alert[r] # None /\ ~firing[r] /\ pc[r] \in {"sending", "done"}
  /\ r \notin failed \cup crowded

\* A recovery that passes the gate ends the receipts of the firings answered
\* before it, but for those that are still held back (deferral, buffer).  It
\* takes a store that answers with all the active receipts, as InhibitionCloses
\* does.
RecoveryClosesUnheld ==
  \A q \in Request : Recovered(q) =>
    \A f \in before[q] : open[alert[q]] = f => Held(f)

\* "Recovery from the original source closes the receipt automatically":
\* no exception for held firings, nor for a recovery that was suppressed.
RecoveryCloses ==
  \A q \in Request :
    alert[q] # None /\ ~firing[q] /\ pc[q] \in {"suppressed", "done"} =>
      open[alert[q]] \notin before[q]

\* When an inhibition source is through and its rule is armed ever since, no
\* receipt that the rule covers is left of the firings answered before it.
InhibitionCloses ==
  \A q \in steady \ (failed \cup crowded) : pc[q] \in {"sending", "done"} =>
    \A a \in Covers[rule[q]] :
      \A f \in before[q] : open[a] = f => Held(f)

-----------------------------------------------------------------------------
(* The inductive invariant behind the safety properties.                   *)

\* A request is about a target or a source, and takes the way of its kind.
Kinds ==
  \A r \in Request :
    /\ pc[r] = "idle" => alert[r] = None /\ rule[r] = None
    /\ alert[r] = None \/ rule[r] = None
    /\ pc[r] \in {"armed", "reconciling"} => rule[r] # None
    /\ pc[r] \in {"passed", "sleeping", "buffered", "cleared", "suppressed",
                  "dropped", "grouped", "coalesced"}
         => alert[r] # None

\* Only what is deferred sleeps, and only buffered firings are in the queue.
HeldPlaces ==
  \A r \in Request :
    /\ pc[r] = "sleeping" => hold[r] = "defer"
    /\ pc[r] = "buffered" => hold[r] = "buffer" /\ firing[r]

QueueIsBuffered == \A n \in 1..Len(queue) : pc[queue[n]] = "buffered"

\* The key of a deferral leads to a request that sleeps under it.
PendingSleeps ==
  \A a \in Alert : pending[a] # None =>
    /\ pc[pending[a]] = "sleeping"
    /\ alert[pending[a]] = a
    /\ pending[a] \notin revoked

SleepingIsPending ==
  \A r \in Request : pc[r] = "sleeping" => Current(r) \/ r \in revoked

\* A receipt was opened by a firing of its alert that went on to be sent.
Openers ==
  \A a \in Alert : open[a] # None =>
    /\ alert[open[a]] = a
    /\ firing[open[a]]
    /\ pc[open[a]] \in {"sending", "done", "lost"}

\* A request that was not held back does nothing after its answer.
AnsweredIsOver ==
  \A r \in answered :
    /\ pc[r] # "idle"
    /\ pc[r] \in {"arrived", "passed", "cleared"} => Held(r)

BeforeIsAnswered == \A q \in Request : before[q] \subseteq answered

\* A source whose rule has been armed ever since is on its way.
SteadyIsArmed ==
  \A q \in steady :
    /\ rule[q] \in armed
    /\ pc[q] \in {"armed", "reconciling", "sending", "done"}

\* While a source is reconciled, what it has to close is listed or judged.
ReconcilingIsListed ==
  \A q \in steady \ (failed \cup crowded) : pc[q] = "reconciling" =>
    \A a \in Covers[rule[q]] :
      open[a] # None => open[a] \in listed[q] \/ judged[q] = open[a]
                        \/ open[a] \notin before[q] \/ Held(open[a])

JudgedIsReconciling == \A q \in Request : judged[q] # None => pc[q] = "reconciling"

IInv ==
  /\ TypeOK
  /\ Kinds
  /\ HeldPlaces
  /\ QueueIsBuffered
  /\ PendingSleeps
  /\ SleepingIsPending
  /\ DeferralHonoured
  /\ Openers
  /\ AnsweredIsOver
  /\ BeforeIsAnswered
  /\ RecoveryClosesUnheld
  /\ SteadyIsArmed
  /\ JudgedIsReconciling
  /\ ReconcilingIsListed
  /\ InhibitionCloses
=============================================================================
