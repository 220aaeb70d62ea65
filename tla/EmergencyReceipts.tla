------------------------- MODULE EmergencyReceipts -------------------------
(***************************************************************************)
(* The durable emergency receipts of klaxond and everybody who writes      *)
(* them: the ingest handlers that register a receipt and send its first    *)
(* notification, one retry scheduler per running instance, the operators   *)
(* that acknowledge, cancel or force a retry, the recoveries and the       *)
(* inhibition sources that close receipts, and the crash of an instance.   *)
(*                                                                         *)
(* One action is one statement against the store (each is a single UPDATE  *)
(* or one transaction) or the start of one channel request; everything an  *)
(* instance remembers between two of them is in sched and initial.  The    *)
(* reservation token of a receipt is random in the code; here it is the    *)
(* instance that drew it, which tells reservations apart just as well: an  *)
(* instance works on one reservation at a time and forgets it in a crash.  *)
(***************************************************************************)
EXTENDS Integers, FiniteSets

CONSTANTS
  Receipt,        \* receipt identifiers, fresh for every registration
  Fingerprint,    \* stable identities of the alerting condition
  Instance,       \* running klaxond processes sharing one store
  Channel,        \* escalation channels beside ntfy: telegram, smtp
  Policy,         \* policy snapshots the enabled profiles produce
  PostBound,      \* longest time from a reservation to its last response
  FullLease,      \* lease taken before the policy's own lease is known (300 s)
  Horizon,        \* bound: the clock stops here
  MaxFaults,      \* bound: crashes and storage errors in one behaviour
  None

Terminal == {"acknowledged", "resolved", "inhibited", "cancelled", "expired"}

PolicySnapshot ==
  [retry : Nat \ {0}, expire : Nat \ {0}, maxAttempts : Nat \ {0},
   lease : Nat \ {0}, after : [Channel -> Nat], autoResolve : BOOLEAN]

\* config/preflight.rs refuses a profile whose lease does not exceed the sum
\* of its channel timeouts by a margin; 0 in "after" is a disabled channel.
ASSUME PolicyAssumption ==
  /\ Policy \subseteq PolicySnapshot
  /\ \A p \in Policy : p.lease > PostBound

ASSUME BoundAssumption ==
  /\ PostBound \in Nat /\ FullLease \in Nat /\ FullLease > PostBound
  /\ Horizon \in Nat /\ MaxFaults \in Nat

ASSUME NoneAssumption ==
  None \notin Receipt \cup Fingerprint \cup Instance \cup Policy

VARIABLES
  status,      \* the klaxond_emergencies table, row by row: state,
  about,       \*   what never changes once the row is inserted,
  progress,    \*   attempts, next retry and escalations on record,
  lease,       \*   reserved_until and the holder of the reservation token
  initial,     \* the first delivery of each receipt, while it is running
  sched,       \* the scheduler task of each instance
  recovering,  \* recoveries between their read and their update
  clock,       \* now_epoch(), the same on every instance
  faults,      \* crashes and storage errors so far
  posted,      \* history: requests started per escalation channel, up to 2
  disturbed    \* history: receipts whose lease was broken (forced), those
               \* retried beside an attempt with no recorded outcome
               \* (overtaken), those whose first attempt counts twice (doubled)

table == <<status, about, progress, lease>>
vars == <<status, about, progress, lease, initial, sched, recovering, clock,
          faults, posted, disturbed>>

Cause == {"forced", "overtaken", "doubled"}

Unset == [fp |-> None, policy |-> None, expires |-> 0]
Untried == [attempts |-> 0, nextRetry |-> 0, escalated |-> {}]
NoLease == [until |-> 0, holder |-> None]
NoInitial == [node |-> None, pc |-> "none", tried |-> {}, todo |-> {}]

\* A scheduler between two ticks, and inside one with no retry in hand.
WithoutRetry(pc) ==
  [pc |-> pc, receipt |-> None, tried |-> {}, todo |-> {}, due |-> 0]

Resting == WithoutRetry("resting")
Scanning == WithoutRetry("scanning")

TableType ==
  /\ status \in [Receipt -> {"free", "active"} \cup Terminal]
  /\ about \in [Receipt -> [fp : Fingerprint \cup {None},
                            policy : Policy \cup {None}, expires : Nat]]
  /\ progress \in [Receipt -> [attempts : Nat, nextRetry : Nat,
                               escalated : SUBSET Channel]]
  /\ lease \in [Receipt -> [until : Nat, holder : Instance \cup {None}]]

InitialType ==
  [node : Instance \cup {None}, pc : {"none", "rendering", "posting", "repeating"},
   tried : SUBSET Channel, todo : SUBSET Channel]

SchedType ==
  [pc : {"resting", "scanning", "reserved", "posting", "completing"},
   receipt : Receipt \cup {None}, tried : SUBSET Channel,
   todo : SUBSET Channel, due : Nat]

TypeOK ==
  /\ TableType
  /\ initial \in [Receipt -> InitialType]
  /\ sched \in [Instance -> SchedType]
  /\ recovering \in SUBSET Fingerprint
  /\ clock \in Nat
  /\ faults \in Nat
  /\ posted \in [Receipt -> [Channel -> 0..2]]
  /\ disturbed \in SUBSET (Receipt \X Cause)

Init ==
  /\ status = [r \in Receipt |-> "free"]
  /\ about = [r \in Receipt |-> Unset]
  /\ progress = [r \in Receipt |-> Untried]
  /\ lease = [r \in Receipt |-> NoLease]
  /\ initial = [r \in Receipt |-> NoInitial]
  /\ sched = [i \in Instance |-> Resting]
  /\ recovering = {}
  /\ clock = 0
  /\ faults = 0
  /\ posted = [r \in Receipt |-> [c \in Channel |-> 0]]
  /\ disturbed = {}

Active(r) == status[r] = "active"
PolicyOf(r) == about[r].policy
Holder(r) == lease[r].holder

\* A request to channel c about receipt r leaves the process.
Post(r, c) ==
  posted' = [posted EXCEPT ![r][c] = IF @ = 0 THEN 1 ELSE 2]

Fault == faults < MaxFaults /\ faults' = faults + 1

-----------------------------------------------------------------------------
(* Ingest: registration and the initial delivery.                          *)

\* The lookup register makes in its transaction, backed by the partial unique
\* index on active fingerprints (ON CONFLICT DO NOTHING in PostgreSQL).
Coalesces(f) == \E q \in Receipt : Active(q) /\ about[q].fp = f

\* The row of a firing that selects a profile and finds no active receipt of
\* its fingerprint.  (One that finds an active receipt rewrites its payload
\* only, which this model does not keep.)  Horizon leaves room for the expiry.
Insert(r, f, p) ==
  /\ status[r] = "free"
  /\ ~Coalesces(f)
  /\ clock + p.expire < Horizon
  /\ status' = [status EXCEPT ![r] = "active"]
  /\ about' = [about EXCEPT ![r] =
       [fp |-> f, policy |-> p, expires |-> clock + p.expire]]
  /\ progress' = [progress EXCEPT ![r] =
       [attempts |-> 0, nextRetry |-> clock + p.retry, escalated |-> {}]]
  /\ UNCHANGED lease

Register(n, r, f, p) ==
  /\ Insert(r, f, p)
  /\ LET first == {c \in Channel : p.after[c] = 1} IN
     initial' = [initial EXCEPT ![r] =
       [node |-> n, pc |-> "rendering", tried |-> first, todo |-> first]]
  /\ UNCHANGED <<sched, recovering, clock, faults, posted, disturbed>>

\* PostgreSQL commits but the reply is lost: postgres_with_retry executes the
\* registration again, which finds the new row and takes the firing for a
\* duplicate.  Nobody sends the first notification; the first retry will.
RegisterReplyLost(r, f, p) ==
  /\ Insert(r, f, p)
  /\ Fault
  /\ UNCHANGED <<initial, sched, recovering, clock, posted, disturbed>>

\* The alert image is rendered; the ntfy request starts.
InitialDispatch(r) ==
  /\ initial[r].pc = "rendering"
  /\ initial' = [initial EXCEPT ![r].pc = "posting"]
  /\ UNCHANGED <<table, sched, recovering, clock, faults, posted, disturbed>>

\* The broadcast of the initial policy goes on to a channel of attempt 1.
InitialEscalate(r, c) ==
  /\ initial[r].pc = "posting"
  /\ c \in initial[r].todo
  /\ initial' = [initial EXCEPT ![r].todo = @ \ {c}]
  /\ Post(r, c)
  /\ UNCHANGED <<table, sched, recovering, clock, faults, disturbed>>

\* One more attempt on record, with the channels it tried; the next is due
\* one retry interval from now.
Count(r, tried) ==
  progress' = [progress EXCEPT ![r] =
    [attempts |-> progress[r].attempts + 1,
     nextRetry |-> clock + PolicyOf(r).retry,
     escalated |-> progress[r].escalated \cup tried]]

\* The UPDATE of record_initial_attempt: no token and no attempt limit in its
\* WHERE.
CountInitial(r) ==
  /\ initial[r].todo = {}
  /\ IF Active(r) THEN Count(r, initial[r].tried) ELSE UNCHANGED progress

InitialRecord(r) ==
  /\ initial[r].pc \in {"posting", "repeating"}
  /\ CountInitial(r)
  /\ initial' = [initial EXCEPT ![r] = NoInitial]
  /\ UNCHANGED <<status, about, lease, sched, recovering, clock, faults, posted,
                 disturbed>>

\* PostgreSQL commits but the reply is lost: the attempt, which carries no
\* token, will be counted once more.
InitialReplyLost(r) ==
  /\ initial[r].pc = "posting"
  /\ Active(r)
  /\ CountInitial(r)
  /\ Fault
  /\ initial' = [initial EXCEPT ![r].pc = "repeating"]
  /\ disturbed' = disturbed \cup {<<r, "doubled">>}
  /\ UNCHANGED <<status, about, lease, sched, recovering, clock, posted>>

\* The outcome is never recorded: the store fails and it is only logged, or the
\* producer hangs up and the server drops the request, wherever it has got to.
InitialUnrecorded(r) ==
  /\ initial[r].pc # "none"
  /\ Fault
  /\ initial' = [initial EXCEPT ![r] = NoInitial]
  /\ disturbed' = disturbed \cup {<<r, "overtaken">>}
  /\ UNCHANGED <<table, sched, recovering, clock, posted>>

-----------------------------------------------------------------------------
(* One tick of an instance's scheduler: expire what is due, then reserve,  *)
(* post and complete one retry after the other.                            *)

\* Receipts in S reach a terminal state, which drops their reservations.
Terminalize(S, state) ==
  /\ status' = [r \in Receipt |-> IF r \in S THEN state ELSE status[r]]
  /\ lease' = [r \in Receipt |-> IF r \in S THEN NoLease ELSE lease[r]]
  /\ UNCHANGED <<about, progress>>

ExpirableByAttempts ==  \* mutant: the expiry time is forgotten
  {r \in Receipt : Active(r) /\ progress[r].attempts >= PolicyOf(r).maxAttempts}

Expirable ==
  {r \in Receipt : /\ Active(r)
                   /\ \/ about[r].expires <= clock
                      \/ progress[r].attempts >= PolicyOf(r).maxAttempts}

\* expire_due closes every receipt past its expiry or out of attempts (fifty
\* to a tick; the models have far fewer).
ExpireDue(i) ==
  /\ sched[i].pc = "resting"
  /\ sched' = [sched EXCEPT ![i].pc = "scanning"]
  /\ Terminalize(Expirable, "expired")
  /\ UNCHANGED <<initial, recovering, clock, faults, posted, disturbed>>

\* The store fails: the tick goes on to the retries all the same.
ExpireFails(i) ==
  /\ sched[i].pc = "resting"
  /\ Fault
  /\ sched' = [sched EXCEPT ![i] = Scanning]
  /\ UNCHANGED <<table, initial, recovering, clock, posted, disturbed>>

DueUnlimited ==  \* mutant: the attempt limit is dropped
  {r \in Receipt : /\ Active(r)
                   /\ progress[r].nextRetry <= clock
                   /\ about[r].expires > clock
                   /\ lease[r].until <= clock}

DueUnleased ==  \* mutant: a running lease is overlooked
  {r \in Receipt : /\ Active(r)
                   /\ progress[r].nextRetry <= clock
                   /\ about[r].expires > clock
                   /\ progress[r].attempts < PolicyOf(r).maxAttempts}

Due ==
  {r \in Receipt : /\ Active(r)
                   /\ progress[r].nextRetry <= clock
                   /\ about[r].expires > clock
                   /\ progress[r].attempts < PolicyOf(r).maxAttempts
                   /\ lease[r].until <= clock}

EscalationsRepeated(r) ==  \* mutant: what was escalated already is not read
  {c \in Channel : /\ PolicyOf(r).after[c] > 0
                   /\ progress[r].attempts + 1 >= PolicyOf(r).after[c]}

\* The escalation channels a retry reserved now will try: enabled, never
\* attempted before, and past their threshold.
Escalations(r) ==
  {c \in Channel : /\ PolicyOf(r).after[c] > 0
                   /\ c \notin progress[r].escalated
                   /\ progress[r].attempts + 1 >= PolicyOf(r).after[c]}

\* The UPDATE of emergency_reserve_due takes the due receipt that waited
\* longest.
Reserve(i, r) ==
  /\ sched[i].pc = "scanning"
  /\ r \in Due
  /\ \A q \in Due : progress[r].nextRetry <= progress[q].nextRetry
  /\ lease' = [lease EXCEPT ![r] = [until |-> clock + FullLease, holder |-> i]]
  /\ disturbed' = disturbed \cup
       (IF Holder(r) # None \/ initial[r].pc # "none"
          THEN {<<r, "overtaken">>} ELSE {})
  /\ UNCHANGED <<status, about, progress>>

ReserveDue(i, r) ==
  /\ Reserve(i, r)
  /\ sched' = [sched EXCEPT ![i] =
       [pc |-> "reserved", receipt |-> r, tried |-> Escalations(r),
        todo |-> Escalations(r), due |-> clock + PostBound]]
  /\ UNCHANGED <<initial, recovering, clock, faults, posted>>

\* PostgreSQL commits but the reply is lost: the statement is executed again
\* and skips r, which nobody retries until the lease is over.
ReserveReplyLost(i, r) ==
  /\ Reserve(i, r)
  /\ Fault
  /\ UNCHANGED <<initial, sched, recovering, clock, posted>>

\* Nothing is due, the batch of 50 is used up, or reserving failed.
TickEnds(i) ==
  /\ sched[i].pc = "scanning"
  /\ sched' = [sched EXCEPT ![i] = Resting]
  /\ UNCHANGED <<table, initial, recovering, clock, faults, posted, disturbed>>

HoldsActive(i, r) == Active(r)  \* mutant: the token is not compared

\* The WHERE of adjust_lease and complete_attempt.
Holds(i, r) == Active(r) /\ Holder(r) = i

\* adjust_lease shortens the lease to the policy's own, counted from the
\* reservation; the ntfy retry starts only if the row was still this
\* instance's.
AdjustLease(i) ==
  LET r == sched[i].receipt IN
  /\ sched[i].pc = "reserved"
  /\ IF Holds(i, r)
       THEN /\ lease' = [lease EXCEPT ![r] =
                 [until |-> sched[i].due - PostBound + PolicyOf(r).lease,
                  holder |-> i]]
            /\ sched' = [sched EXCEPT ![i].pc = "posting"]
       ELSE /\ sched' = [sched EXCEPT ![i] = Scanning]
            /\ UNCHANGED lease
  /\ UNCHANGED <<status, about, progress, initial, recovering, clock, faults,
                 posted, disturbed>>

\* The store fails: the receipt keeps the full lease and nothing is posted.
AdjustFails(i) ==
  /\ sched[i].pc = "reserved"
  /\ Fault
  /\ sched' = [sched EXCEPT ![i] = Scanning]
  /\ UNCHANGED <<table, initial, recovering, clock, posted, disturbed>>

\* The previous request was answered or timed out; the next one starts,
\* without a look at the store.
Escalate(i, c) ==
  /\ sched[i].pc = "posting"
  /\ c \in sched[i].todo
  /\ sched' = [sched EXCEPT ![i].todo = @ \ {c}]
  /\ Post(sched[i].receipt, c)
  /\ UNCHANGED <<table, initial, recovering, clock, faults, disturbed>>

\* The last response is in.
PostsAnswered(i) ==
  /\ sched[i].pc = "posting"
  /\ sched[i].todo = {}
  /\ sched' = [sched EXCEPT ![i].pc = "completing"]
  /\ UNCHANGED <<table, initial, recovering, clock, faults, posted, disturbed>>

\* complete_attempt counts the retry only for the holder of the token.
CompleteAttempt(i) ==
  LET r == sched[i].receipt IN
  /\ sched[i].pc = "completing"
  /\ sched' = [sched EXCEPT ![i] = Scanning]
  /\ IF Holds(i, r)
       THEN /\ Count(r, sched[i].tried)
            /\ lease' = [lease EXCEPT ![r] = NoLease]
       ELSE UNCHANGED <<progress, lease>>
  /\ UNCHANGED <<status, about, initial, recovering, clock, faults, posted,
                 disturbed>>

\* The store fails: the retry was sent but is not counted, the lease stays.
CompleteFails(i) ==
  /\ sched[i].pc = "completing"
  /\ Fault
  /\ sched' = [sched EXCEPT ![i] = Scanning]
  /\ UNCHANGED <<table, initial, recovering, clock, posted, disturbed>>

-----------------------------------------------------------------------------
(* Operators, producers and inhibition sources.                            *)

CloseAgain(r, state) ==  \* mutant: no state = 'active' in the WHERE
  /\ status[r] # "free"
  /\ Terminalize({r}, state)

Close(r, state) ==
  /\ Active(r)
  /\ Terminalize({r}, state)

Acknowledge(r) ==
  /\ Close(r, "acknowledged")
  /\ UNCHANGED <<initial, sched, recovering, clock, faults, posted, disturbed>>

Cancel(r) ==
  /\ Close(r, "cancelled")
  /\ UNCHANGED <<initial, sched, recovering, clock, faults, posted, disturbed>>

\* A firing source covers the receipt (reconcile_incident); its snapshot must
\* allow automatic closing.
Inhibit(r) ==
  /\ Close(r, "inhibited")
  /\ PolicyOf(r).autoResolve
  /\ UNCHANGED <<initial, sched, recovering, clock, faults, posted, disturbed>>

\* retry_now clears the reservation, also one whose retry is being posted.
RetryNow(r) ==
  /\ Active(r)
  /\ progress' = [progress EXCEPT ![r].nextRetry = clock]
  /\ lease' = [lease EXCEPT ![r] = NoLease]
  /\ disturbed' = disturbed \cup
       (IF Holder(r) # None THEN {<<r, "forced">>} ELSE {})
  /\ UNCHANGED <<status, about, initial, sched, recovering, clock, faults, posted>>

\* A recovery reads the active receipts, checks auto_resolve of the one with
\* its fingerprint, ...
RecoveryLook(f) ==
  /\ \E r \in Receipt : /\ Active(r)
                        /\ about[r].fp = f
                        /\ PolicyOf(r).autoResolve
  /\ recovering' = recovering \cup {f}
  /\ UNCHANGED <<table, initial, sched, clock, faults, posted, disturbed>>

\* ... and then resolves whatever receipt is active under that fingerprint.
RecoveryResolve(f) ==
  /\ f \in recovering
  /\ recovering' = recovering \ {f}
  /\ Terminalize({r \in Receipt : Active(r) /\ about[r].fp = f}, "resolved")
  /\ UNCHANGED <<initial, sched, clock, faults, posted, disturbed>>

-----------------------------------------------------------------------------
(* The environment: crashes and time.                                      *)

\* The process dies and starts again: its tasks are gone, the store is not.
\* (A recovery that dies with it is one that never takes its second step.)
Crash(n) ==
  /\ Fault
  /\ sched' = [sched EXCEPT ![n] = Resting]
  /\ initial' = [r \in Receipt |->
       IF initial[r].node = n THEN NoInitial ELSE initial[r]]
  /\ disturbed' = disturbed \cup
       {<<r, "overtaken">> : r \in {q \in Receipt : initial[q].node = n}}
  /\ UNCHANGED <<table, recovering, clock, posted>>

InFlight(i) == sched[i].pc \in {"reserved", "posting"}

\* Channel timeouts end the posts of a retry within PostBound; what follows
\* them, and the initial delivery, may take any time.
Tick ==
  /\ clock < Horizon
  /\ \A i \in Instance : InFlight(i) => clock < sched[i].due
  /\ clock' = clock + 1
  /\ UNCHANGED <<table, initial, sched, recovering, faults, posted, disturbed>>

-----------------------------------------------------------------------------
SchedulerStep(i) ==
  \/ ExpireDue(i)
  \/ ExpireFails(i)
  \/ \E r \in Receipt : ReserveDue(i, r) \/ ReserveReplyLost(i, r)
  \/ TickEnds(i)
  \/ AdjustLease(i)
  \/ AdjustFails(i)
  \/ \E c \in Channel : Escalate(i, c)
  \/ PostsAnswered(i)
  \/ CompleteAttempt(i)
  \/ CompleteFails(i)

InitialStep(r) ==
  \/ InitialDispatch(r)
  \/ \E c \in Channel : InitialEscalate(r, c)
  \/ InitialRecord(r)
  \/ InitialReplyLost(r)
  \/ InitialUnrecorded(r)

OperatorStep(r) == Acknowledge(r) \/ Cancel(r) \/ Inhibit(r) \/ RetryNow(r)

Next ==
  \/ \E n \in Instance, r \in Receipt, f \in Fingerprint, p \in Policy :
       Register(n, r, f, p) \/ RegisterReplyLost(r, f, p)
  \/ \E r \in Receipt : InitialStep(r)
  \/ \E i \in Instance : SchedulerStep(i)
  \/ \E r \in Receipt : OperatorStep(r)
  \/ \E f \in Fingerprint : RecoveryLook(f) \/ RecoveryResolve(f)
  \/ \E n \in Instance : Crash(n)
  \/ Tick

Spec == Init /\ [][Next]_vars

\* The scheduler loop of main.rs never ends and tokio runs every ready task;
\* time passes.  Nothing obliges an operator, a producer or a fault.
FairSpec ==
  /\ Spec
  /\ \A i \in Instance : WF_vars(SchedulerStep(i))
  /\ WF_vars(Tick)

-----------------------------------------------------------------------------
(* What must hold.                                                         *)

\* An incident has at most one open receipt: the partial unique index on
\* active fingerprints is never violated, whoever registers when.
OneActivePerFingerprint ==
  \A r, q \in Receipt :
    Active(r) /\ Active(q) /\ about[r].fp = about[q].fp => r = q

\* A closed receipt holds no reservation, so no scheduler can complete it.
ClosedUnreserved ==
  \A r \in Receipt : ~Active(r) => Holder(r) = None

\* The attempt limit of r, and what may be on record beyond it: a retry is
\* reserved below the limit, but the initial attempt is recorded unguarded,
\* possibly after retries that overtook it, and twice if a reply was lost.
AttemptsAllowed(r) ==
  PolicyOf(r).maxAttempts + (IF <<r, "doubled">> \in disturbed THEN 2 ELSE 1)

\* The attempt limit is overrun by the initial delivery at most.
AttemptsBounded ==
  \A r \in Receipt : Active(r) => progress[r].attempts <= AttemptsAllowed(r)

Retrying(i, r) == InFlight(i) /\ sched[i].receipt = r

\* Two instances never send retries of one receipt at the same time: the
\* lease outlives the posts.  Only retry_now can break a lease.
NoOverlappingRetries ==
  \A i, j \in Instance, r \in Receipt :
    i # j /\ Retrying(i, r) /\ Retrying(j, r) => <<r, "forced">> \in disturbed

\* A channel is escalated to once per receipt, unless an outcome went
\* unrecorded or a retry overtook an unfinished attempt.
EscalatedOnceUndisturbed ==
  \A r \in Receipt, c \in Channel :
    posted[r][c] = 2 =>
      <<r, "forced">> \in disturbed \/ <<r, "overtaken">> \in disturbed

\* "Later thresholds are attempted once when the receipt reaches that attempt"
\* (docs/emergency-profiles.md), without the exceptions above.  It does not
\* hold: a retry forced beside one in flight reads the marks before the other
\* has recorded its own, and both escalate.
EscalatedOnce == \A r \in Receipt, c \in Channel : posted[r][c] <= 1

\* A closed receipt stays closed with what it recorded: no late outcome of an
\* attempt, no retry_now and no second closing touches it.
ClosedIsFinal ==
  [][\A r \in Receipt :
       status[r] \in Terminal =>
         /\ status'[r] = status[r]
         /\ progress'[r] = progress[r]
         /\ lease'[r] = lease[r]]_vars

\* No request of a retry leaves for a closed receipt: a lease "can allow one
\* already in-flight HTTP request to finish while an ACK arrives" and no more
\* (README.md).  It does not hold: the requests to the next channels of the
\* retry start after the transition, without a look at the store.
NoPostAfterClose ==
  [][\A r \in Receipt, c \in Channel :
       posted'[r][c] # posted[r][c] /\ initial[r].pc = "none" => Active(r)]_vars

\* Every receipt is closed in the end, whatever crashes and however often a
\* retry is forced: expiry is independent of the retries.
EventuallyClosed == \A r \in Receipt : Active(r) ~> ~Active(r)

-----------------------------------------------------------------------------
(* The inductive invariant behind the safety properties.                   *)

\* An open receipt carries the snapshot and the condition it was made for.
OpenHasPolicy ==
  \A r \in Receipt :
    Active(r) => PolicyOf(r) \in Policy /\ about[r].fp \in Fingerprint

\* A scheduler past its reservation works on a registered receipt, and posts
\* within its bound.
WorkingOnReceipt ==
  \A i \in Instance :
    /\ sched[i].pc \notin {"resting", "scanning"}
         => /\ sched[i].receipt \in Receipt
            /\ status[sched[i].receipt] # "free"
    /\ InFlight(i) => sched[i].due >= clock /\ sched[i].due >= PostBound

\* Unless retry_now broke it, the lease of a retry in flight is its own and
\* ends after the retry must have ended.
LeaseOutlivesPosts ==
  \A i \in Instance, r \in Receipt :
    Retrying(i, r) /\ Active(r) /\ <<r, "forced">> \notin disturbed
      => Holder(r) = i /\ lease[r].until > sched[i].due

\* The outcomes still to be recorded for r: of the initial delivery, and of
\* the holder of the token.
Unrecorded(r) ==
  (IF initial[r].pc # "none" THEN 1 ELSE 0)
    + (IF Holder(r) # None THEN 1 ELSE 0)

AttemptsBudget ==
  \A r \in Receipt :
    Active(r) => progress[r].attempts + Unrecorded(r) <= AttemptsAllowed(r)

\* An attempt is doubled at its end only, and only once.
DoubledAtTheEnd ==
  \A r \in Receipt :
    <<r, "doubled">> \in disturbed =>
      initial[r].pc \in {"repeating", "none"} /\ status[r] # "free"

RowsInv ==
  /\ TypeOK
  /\ OpenHasPolicy
  /\ WorkingOnReceipt
  /\ OneActivePerFingerprint
  /\ ClosedUnreserved
  /\ LeaseOutlivesPosts
  /\ NoOverlappingRetries
  /\ AttemptsBudget
  /\ DoubledAtTheEnd

Undisturbed(r) ==
  <<r, "forced">> \notin disturbed /\ <<r, "overtaken">> \notin disturbed

\* A scheduler has a retry of r in hand, whether or not the row is still its own.
Working(i, r) == sched[i].pc \notin {"resting", "scanning"} /\ sched[i].receipt = r

\* What is still to be posted is part of the attempt.
TodoIsTried ==
  /\ \A r \in Receipt : initial[r].todo \subseteq initial[r].tried
  /\ \A i \in Instance : sched[i].todo \subseteq sched[i].tried

\* Nothing is posted about a receipt before it is registered.
FreeIsUntouched ==
  \A r \in Receipt :
    status[r] = "free" =>
      initial[r].pc = "none" /\ \A c \in Channel : posted[r][c] = 0

\* Attempts of an undisturbed receipt do not overlap, completion included.
OneAttempt ==
  \A r \in Receipt, i \in Instance :
    Undisturbed(r) /\ Working(i, r) =>
      /\ initial[r].pc = "none"
      /\ Active(r) => Holder(r) = i
      /\ \A j \in Instance : Working(j, r) => j = i

\* A channel an attempt has yet to post to was not posted to before.
TodoIsUnposted ==
  \A r \in Receipt, c \in Channel :
    Undisturbed(r) /\ posted[r][c] # 0 =>
      /\ initial[r].pc # "none" => c \notin initial[r].todo
      /\ \A i \in Instance : Working(i, r) => c \notin sched[i].todo

\* What was posted is on record, or in the hands of whoever will record it.  If
\* the holder of the token has lost its retry, only a disturbance frees the row.
PostedIsKnown ==
  \A r \in Receipt, c \in Channel :
    Undisturbed(r) /\ Active(r) /\ posted[r][c] # 0 =>
      \/ c \in progress[r].escalated
      \/ initial[r].pc # "none" /\ c \in initial[r].tried
      \/ Holder(r) # None /\ \A i \in Instance : Working(i, r) => c \in sched[i].tried

PostsInv ==
  /\ TodoIsTried
  /\ FreeIsUntouched
  /\ OneAttempt
  /\ TodoIsUnposted
  /\ PostedIsKnown
  /\ EscalatedOnceUndisturbed

IInv == RowsInv /\ PostsInv

-----------------------------------------------------------------------------
(* The promise to the outside, with the store row as the incident.         *)

Incident(r) ==
  [state |-> status[r], fp |-> about[r].fp, tries |-> progress[r].attempts,
   limit |-> IF PolicyOf(r) = None THEN 0 ELSE PolicyOf(r).maxAttempts]

Contract ==
  INSTANCE ReceiptContract
    WITH incident <- [r \in Receipt |-> Incident(r)],
         Limits <- {p.maxAttempts : p \in Policy},
         Endings <- Terminal

\* The table, the leases and the unguarded initial record keep the contract.
ImplementsContract == Contract!Spec
=============================================================================
