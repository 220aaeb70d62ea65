---------------------- MODULE EmergencyReceiptsProofs ----------------------
(***************************************************************************)
(* Proofs about EmergencyReceipts, for any receipts, instances, policies   *)
(* and bounds, and about Registration, the transaction behind its Insert,  *)
(* for any firings and conditions.                                         *)
(***************************************************************************)
EXTENDS EmergencyReceipts, Registration, TLAPS

LEMMA RowsInitially == Init => RowsInv
  <1> SUFFICES ASSUME Init PROVE RowsInv
    OBVIOUS
  <1> USE DEF Init, Unset, Untried, NoLease, NoInitial, Resting, WithoutRetry,
              Active, Holder, InFlight, Retrying
  <1>1. TypeOK
    BY NoneAssumption
       DEF TypeOK, TableType, InitialType, SchedType, Terminal
  <1>2. OpenHasPolicy /\ OneActivePerFingerprint /\ ClosedUnreserved
    BY DEF OpenHasPolicy, OneActivePerFingerprint, ClosedUnreserved
  <1>3. WorkingOnReceipt /\ LeaseOutlivesPosts /\ NoOverlappingRetries
    BY DEF WorkingOnReceipt, LeaseOutlivesPosts, NoOverlappingRetries
  <1>4. AttemptsBudget /\ DoubledAtTheEnd
    BY DEF AttemptsBudget, DoubledAtTheEnd
  <1>5. QED
    BY <1>1, <1>2, <1>3, <1>4 DEF RowsInv

(* A policy snapshot of an open receipt has the types preflight checks.    *)
LEMMA OpenPolicy ==
  ASSUME OpenHasPolicy, NEW r \in Receipt, Active(r)
  PROVE  /\ PolicyOf(r) \in Policy
         /\ PolicyOf(r).retry \in Nat
         /\ PolicyOf(r).maxAttempts \in Nat
         /\ PolicyOf(r).lease \in Nat
         /\ PolicyOf(r).lease > PostBound
         /\ PolicyOf(r).autoResolve \in BOOLEAN
         /\ PolicyOf(r).after \in [Channel -> Nat]
  BY PolicyAssumption DEF OpenHasPolicy, PolicySnapshot

(* Moving a scheduler to another point of its loop keeps the record's type. *)
LEMMA SchedPcType ==
  ASSUME NEW s \in SchedType,
         NEW pc \in {"resting", "scanning", "reserved", "posting", "completing"}
  PROVE  [s EXCEPT !.pc = pc] \in SchedType
  BY DEF SchedType

(* Nor does another point of the initial delivery change its record's.      *)
LEMMA InitialPcType ==
  ASSUME NEW s \in InitialType,
         NEW pc \in {"none", "rendering", "posting", "repeating"}
  PROVE  [s EXCEPT !.pc = pc] \in InitialType
  BY DEF InitialType

(* A new time for the next retry keeps the type of what is on record.       *)
LEMMA NextRetryType ==
  ASSUME NEW s \in [attempts : Nat, nextRetry : Nat, escalated : SUBSET Channel],
         NEW t \in Nat
  PROVE  [s EXCEPT !.nextRetry = t]
           \in [attempts : Nat, nextRetry : Nat, escalated : SUBSET Channel]
  OBVIOUS

(* So does taking a channel off the list of those still to be tried.       *)
LEMMA TodoType ==
  ASSUME NEW c \in Channel
  PROVE  /\ \A s \in SchedType : [s EXCEPT !.todo = s.todo \ {c}] \in SchedType
         /\ \A s \in InitialType : [s EXCEPT !.todo = s.todo \ {c}] \in InitialType
  BY DEF SchedType, InitialType

(* What an open receipt may have on record.                                *)
LEMMA AllowedNat ==
  ASSUME OpenHasPolicy, NEW r \in Receipt, Active(r)
  PROVE  AttemptsAllowed(r) \in Nat
  BY OpenPolicy DEF AttemptsAllowed

(* A registration, whether or not its first delivery goes on.              *)
LEMMA InsertKeeps ==
  ASSUME RowsInv, NEW r \in Receipt, NEW f \in Fingerprint, NEW p \in Policy,
         Insert(r, f, p), initial' \in [Receipt -> InitialType],
         \A q \in Receipt : q # r => initial'[q] = initial[q], faults' \in Nat,
         UNCHANGED <<sched, clock, recovering, posted, disturbed>>
  PROVE  RowsInv'
  <1> USE DEF RowsInv, TypeOK, TableType, Active, Holder, PolicyOf, InFlight, Retrying
  <1>1. /\ status[r] = "free"
        /\ \A q \in Receipt : ~(Active(q) /\ about[q].fp = f)
        /\ status' = [status EXCEPT ![r] = "active"]
        /\ about' = [about EXCEPT ![r] =
             [fp |-> f, policy |-> p, expires |-> clock + p.expire]]
        /\ progress' = [progress EXCEPT ![r] =
             [attempts |-> 0, nextRetry |-> clock + p.retry, escalated |-> {}]]
        /\ UNCHANGED <<lease, sched, clock, recovering, posted, disturbed>>
    BY DEF Insert, Coalesces
  <1>2. p.expire \in Nat /\ p.retry \in Nat /\ p.maxAttempts \in Nat \ {0}
    BY PolicyAssumption DEF PolicySnapshot
  <1>3. TypeOK'
    BY <1>1, <1>2
  <1>4. OpenHasPolicy' /\ OneActivePerFingerprint' /\ ClosedUnreserved'
    BY <1>1 DEF OpenHasPolicy, OneActivePerFingerprint, ClosedUnreserved
  <1>5. WorkingOnReceipt' /\ NoOverlappingRetries'
    BY <1>1 DEF WorkingOnReceipt, NoOverlappingRetries
  <1>6. LeaseOutlivesPosts'
    <2>1. ASSUME NEW i \in Instance, NEW q \in Receipt, Retrying(i, q)',
                 Active(q)', <<q, "forced">> \notin disturbed'
          PROVE  lease[q].holder = i /\ lease[q].until > sched[i].due
      <3>1. q # r
        BY <1>1, <2>1 DEF WorkingOnReceipt
      <3>2. Retrying(i, q) /\ Active(q) /\ <<q, "forced">> \notin disturbed
        BY <1>1, <2>1, <3>1
      <3>3. QED
        BY <3>2 DEF LeaseOutlivesPosts
    <2>2. QED
      BY <1>1, <2>1 DEF LeaseOutlivesPosts
  <1>7. AttemptsBudget'
    BY <1>1, <1>2 DEF AttemptsBudget, AttemptsAllowed, Unrecorded, ClosedUnreserved
  <1>8. DoubledAtTheEnd'
    BY <1>1 DEF DoubledAtTheEnd
  <1>9. QED
    BY <1>3, <1>4, <1>5, <1>6, <1>7, <1>8

LEMMA RegisterKeeps ==
  ASSUME RowsInv, NEW n \in Instance, NEW r \in Receipt, NEW f \in Fingerprint,
         NEW p \in Policy, Register(n, r, f, p) \/ RegisterReplyLost(r, f, p)
  PROVE  RowsInv'
  <1>1. CASE Register(n, r, f, p)
    <2>1. /\ Insert(r, f, p) /\ faults' \in Nat
          /\ initial' \in [Receipt -> InitialType]
          /\ \A q \in Receipt : q # r => initial'[q] = initial[q]
          /\ UNCHANGED <<sched, clock, recovering, posted, disturbed>>
      BY <1>1 DEF Register, InitialType, RowsInv, TypeOK
    <2>2. QED
      BY <2>1, InsertKeeps
  <1>2. CASE RegisterReplyLost(r, f, p)
    <2>1. /\ Insert(r, f, p) /\ faults' \in Nat
          /\ initial' \in [Receipt -> InitialType]
          /\ \A q \in Receipt : initial'[q] = initial[q]
          /\ UNCHANGED <<sched, clock, recovering, posted, disturbed>>
      BY <1>2 DEF RegisterReplyLost, Fault, RowsInv, TypeOK
    <2>2. QED
      BY <2>1, InsertKeeps
  <1>3. QED
    BY <1>1, <1>2

(* An initial delivery in progress goes on, and never back.                *)
NearerEnd(r) ==
  initial[r].pc # "none" /\ (initial[r].pc = "repeating" => initial'[r].pc = "repeating")

(* The actions that neither take a lease nor add to the outstanding        *)
(* outcomes: rows stay or close, initial deliveries and schedulers stay    *)
(* with what they work on or let go of it.                                 *)
LEMMA QuietStepKeeps ==
  ASSUME RowsInv, TypeOK', UNCHANGED <<about, progress, clock>>,
         disturbed \subseteq disturbed',
         \A r \in Receipt : <<r, "doubled">> \in disturbed' => <<r, "doubled">> \in disturbed,
         \A r \in Receipt :
           \/ status'[r] = status[r] /\ lease'[r] = lease[r]
           \/ status'[r] \in Terminal /\ Active(r) /\ lease'[r] = NoLease,
         \A r \in Receipt : initial'[r].pc = "none" \/ NearerEnd(r),
         \A i \in Instance :
           \/ sched'[i].pc \in {"resting", "scanning"}
           \/ /\ sched[i].pc \notin {"resting", "scanning"}
              /\ sched'[i].receipt = sched[i].receipt
              /\ sched'[i].due = sched[i].due
              /\ InFlight(i)' => InFlight(i)
  PROVE  RowsInv'
  <1> USE DEF RowsInv, Active, Holder, PolicyOf, InFlight, Retrying
  <1>1. \A r \in Receipt :
          Active(r)' => status'[r] = status[r] /\ lease'[r] = lease[r]
    BY DEF Terminal
  <1>2. OpenHasPolicy' /\ OneActivePerFingerprint'
    BY <1>1 DEF OpenHasPolicy, OneActivePerFingerprint
  <1>3. ClosedUnreserved'
    BY DEF ClosedUnreserved, NoLease
  <1>4. WorkingOnReceipt'
    BY DEF WorkingOnReceipt, Terminal
  <1>5. LeaseOutlivesPosts' /\ NoOverlappingRetries'
    BY <1>1 DEF LeaseOutlivesPosts, NoOverlappingRetries
  <1>6. AttemptsBudget'
    <2>1. ASSUME NEW r \in Receipt, Active(r)'
          PROVE  progress[r].attempts + Unrecorded(r)' <= AttemptsAllowed(r)'
      <3>1. Unrecorded(r)' <= Unrecorded(r) /\ Unrecorded(r) \in Nat /\ Unrecorded(r)' \in Nat
        BY <1>1, <2>1 DEF Unrecorded, NearerEnd
      <3>2. AttemptsAllowed(r)' = AttemptsAllowed(r) /\ progress[r].attempts \in Nat
        BY DEF AttemptsAllowed, TypeOK, TableType
      <3>3. QED
        BY <1>1, <2>1, <3>1, <3>2, AllowedNat DEF AttemptsBudget
    <2>2. QED
      BY <2>1 DEF AttemptsBudget
  <1>7. DoubledAtTheEnd'
    BY DEF DoubledAtTheEnd, NearerEnd, Terminal
  <1>8. QED
    BY <1>2, <1>3, <1>4, <1>5, <1>6, <1>7

(* A quiet step that leaves rows and schedulers alone.                     *)
LEMMA QuietInitialKeeps ==
  ASSUME RowsInv, TypeOK', UNCHANGED <<status, about, progress, lease, sched, clock>>,
         disturbed \subseteq disturbed',
         \A r \in Receipt : <<r, "doubled">> \in disturbed' => <<r, "doubled">> \in disturbed,
         \A r \in Receipt : initial'[r].pc = "none" \/ NearerEnd(r)
  PROVE  RowsInv'
  <1>1. \A r \in Receipt : status'[r] = status[r] /\ lease'[r] = lease[r]
    OBVIOUS
  <1>2. \A i \in Instance : sched'[i] = sched[i] /\ (InFlight(i)' <=> InFlight(i))
    BY DEF InFlight
  <1>3. QED
    BY <1>1, <1>2, QuietStepKeeps

(* A quiet step of the schedulers.                                         *)
LEMMA QuietSchedulerKeeps ==
  ASSUME RowsInv, TypeOK', UNCHANGED <<about, progress, clock, initial, disturbed>>,
         \A r \in Receipt :
           \/ status'[r] = status[r] /\ lease'[r] = lease[r]
           \/ status'[r] \in Terminal /\ Active(r) /\ lease'[r] = NoLease,
         \A i \in Instance :
           \/ sched'[i].pc \in {"resting", "scanning"}
           \/ /\ sched[i].pc \notin {"resting", "scanning"}
              /\ sched'[i].receipt = sched[i].receipt
              /\ sched'[i].due = sched[i].due
              /\ InFlight(i)' => InFlight(i)
           \/ sched'[i] = sched[i]
  PROVE  RowsInv'
  <1>1. \A r \in Receipt : initial'[r].pc = "none" \/ NearerEnd(r)
    BY DEF NearerEnd
  <1>2. \A i \in Instance :
          \/ sched'[i].pc \in {"resting", "scanning"}
          \/ /\ sched[i].pc \notin {"resting", "scanning"}
             /\ sched'[i].receipt = sched[i].receipt
             /\ sched'[i].due = sched[i].due
             /\ InFlight(i)' => InFlight(i)
    BY DEF InFlight
  <1>3. QED
    BY <1>1, <1>2, QuietStepKeeps

(* The initial delivery counts its attempt, past the attempt limit even.   *)
LEMMA CountInitialKeeps ==
  ASSUME RowsInv, NEW r \in Receipt, Active(r), Count(r, initial[r].tried),
         UNCHANGED <<status, about, lease, sched, recovering, clock, posted>>,
         faults' \in Nat, initial[r].pc # "none",
         initial' \in [Receipt -> InitialType],
         initial'[r].pc \in {"repeating", "none"},
         \A q \in Receipt : q # r => initial'[q] = initial[q],
         \/ disturbed' = disturbed /\ initial'[r].pc = "none"
         \/ disturbed' = disturbed \cup {<<r, "doubled">>} /\ initial[r].pc = "posting"
  PROVE  RowsInv'
  <1> USE DEF RowsInv, Active, Holder, PolicyOf, InFlight, Retrying
  <1>1. progress' = [progress EXCEPT ![r] =
             [attempts |-> progress[r].attempts + 1,
              nextRetry |-> clock + PolicyOf(r).retry,
              escalated |-> progress[r].escalated \cup initial[r].tried]]
    BY DEF Count
  <1>2. PolicyOf(r).retry \in Nat /\ PolicyOf(r).maxAttempts \in Nat
    BY OpenPolicy
  <1>3. TypeOK'
    <2>1. progress' \in [Receipt -> [attempts : Nat, nextRetry : Nat,
                                     escalated : SUBSET Channel]]
      BY <1>1, <1>2 DEF TypeOK, TableType, InitialType
    <2>2. disturbed' \in SUBSET (Receipt \X Cause)
      BY DEF TypeOK, Cause
    <2>3. QED
      BY <2>1, <2>2 DEF TypeOK, TableType
  <1>4. OpenHasPolicy' /\ OneActivePerFingerprint' /\ ClosedUnreserved'
    BY DEF OpenHasPolicy, OneActivePerFingerprint, ClosedUnreserved
  <1>5. /\ disturbed \subseteq disturbed'
        /\ \A q \in Receipt : <<q, "forced">> \in disturbed' => <<q, "forced">> \in disturbed
    OBVIOUS
  <1>6. WorkingOnReceipt' /\ NoOverlappingRetries' /\ LeaseOutlivesPosts'
    BY <1>5 DEF WorkingOnReceipt, NoOverlappingRetries, LeaseOutlivesPosts
  <1>7. /\ progress'[r].attempts = progress[r].attempts + 1
        /\ progress[r].attempts \in Nat
        /\ \A q \in Receipt : q # r => progress'[q] = progress[q]
    BY <1>1 DEF TypeOK, TableType
  <1>8. \A q \in Receipt : q # r =>
          (<<q, "doubled">> \in disturbed' <=> <<q, "doubled">> \in disturbed)
    OBVIOUS
  <1>9. Unrecorded(r)' + AttemptsAllowed(r) + 1 <= Unrecorded(r) + AttemptsAllowed(r)'
    <2>1. CASE disturbed' = disturbed /\ initial'[r].pc = "none"
      BY <1>2, <2>1 DEF Unrecorded, AttemptsAllowed
    <2>2. CASE disturbed' = disturbed \cup {<<r, "doubled">>} /\ initial[r].pc = "posting"
      <3>1. <<r, "doubled">> \notin disturbed
        BY <2>2 DEF DoubledAtTheEnd
      <3>2. QED
        BY <1>2, <2>2, <3>1 DEF Unrecorded, AttemptsAllowed
    <2>3. QED
      BY <2>1, <2>2
  <1>10. AttemptsBudget'
    <2>1. ASSUME NEW q \in Receipt, Active(q)
          PROVE  progress'[q].attempts + Unrecorded(q)' <= AttemptsAllowed(q)'
      <3>1. progress[q].attempts + Unrecorded(q) <= AttemptsAllowed(q)
        BY <2>1 DEF AttemptsBudget
      <3>2. CASE q = r
        <4>1. /\ Unrecorded(r) \in Nat /\ Unrecorded(r)' \in Nat
              /\ AttemptsAllowed(r) \in Nat /\ AttemptsAllowed(r)' \in Nat
          BY <1>2 DEF Unrecorded, AttemptsAllowed
        <4>2. QED
          BY <1>7, <1>9, <3>1, <3>2, <4>1
      <3>3. CASE q # r
        <4>1. Unrecorded(q)' = Unrecorded(q) /\ AttemptsAllowed(q)' = AttemptsAllowed(q)
          BY <1>8, <3>3 DEF Unrecorded, AttemptsAllowed
        <4>2. QED
          BY <1>7, <3>1, <3>3, <4>1
      <3>4. QED
        BY <3>2, <3>3
    <2>2. QED
      BY <2>1 DEF AttemptsBudget
  <1>11. DoubledAtTheEnd'
    BY <1>8 DEF DoubledAtTheEnd
  <1>12. QED
    BY <1>3, <1>4, <1>6, <1>10, <1>11

(* A reservation is taken only when no unbroken lease is running.          *)
LEMMA ReserveRows ==
  ASSUME RowsInv, NEW i \in Instance, NEW r \in Receipt, Reserve(i, r),
         UNCHANGED <<initial, recovering, clock, posted>>, faults' \in Nat,
         sched' \in [Instance -> SchedType]
  PROVE  /\ TypeOK' /\ OpenHasPolicy' /\ OneActivePerFingerprint' /\ ClosedUnreserved'
         /\ AttemptsBudget' /\ DoubledAtTheEnd'
         /\ disturbed \subseteq disturbed'
         /\ lease'[r] = [until |-> clock + FullLease, holder |-> i]
         /\ \A q \in Receipt : q # r => lease'[q] = lease[q]
         /\ \A j \in Instance : Retrying(j, r) => <<r, "forced">> \in disturbed
  <1> USE DEF RowsInv, Active, Holder, PolicyOf, InFlight, Retrying
  <1>1. /\ UNCHANGED <<status, about, progress>>
        /\ sched[i].pc = "scanning"
        /\ Active(r) /\ lease[r].until <= clock
        /\ progress[r].attempts < PolicyOf(r).maxAttempts
        /\ lease' = [lease EXCEPT ![r] = [until |-> clock + FullLease, holder |-> i]]
        /\ disturbed \subseteq disturbed'
        /\ disturbed' \in SUBSET (Receipt \X Cause)
        /\ \A q \in Receipt, x \in {"forced", "doubled"} :
             <<q, x>> \in disturbed' => <<q, x>> \in disturbed
    BY DEF Reserve, Due, Cause, TypeOK
  <1>2. clock \in Nat /\ FullLease \in Nat
    BY BoundAssumption DEF TypeOK
  <1>3. TypeOK'
    <2>1. lease' \in [Receipt -> [until : Nat, holder : Instance \cup {None}]]
      BY <1>1, <1>2 DEF TypeOK, TableType
    <2>2. QED
      BY <1>1, <2>1 DEF TypeOK, TableType
  <1>4. /\ lease'[r] = [until |-> clock + FullLease, holder |-> i]
        /\ \A q \in Receipt : q # r => lease'[q] = lease[q]
    BY <1>1 DEF TypeOK, TableType
  <1>5. OpenHasPolicy' /\ OneActivePerFingerprint' /\ ClosedUnreserved'
    BY <1>1, <1>4 DEF OpenHasPolicy, OneActivePerFingerprint, ClosedUnreserved
  <1>6. ASSUME NEW j \in Instance, Retrying(j, r)
        PROVE  <<r, "forced">> \in disturbed
    BY <1>1, <1>2, <1>6 DEF LeaseOutlivesPosts, WorkingOnReceipt, TypeOK, TableType, SchedType
  <1>7. AttemptsBudget'
    <2>1. \A q \in Receipt : AttemptsAllowed(q)' = AttemptsAllowed(q)
      BY <1>1 DEF AttemptsAllowed
    <2>2. \A q \in Receipt : q # r => Unrecorded(q)' = Unrecorded(q)
      BY <1>4 DEF Unrecorded
    <2>3. progress[r].attempts + Unrecorded(r)' <= AttemptsAllowed(r)
      BY <1>1, <1>4, OpenPolicy DEF Unrecorded, AttemptsAllowed, TypeOK, TableType
    <2>4. QED
      BY <1>1, <2>1, <2>2, <2>3 DEF AttemptsBudget
  <1>8. DoubledAtTheEnd'
    BY <1>1 DEF DoubledAtTheEnd
  <1>9. QED
    BY <1>1, <1>3, <1>4, <1>5, <1>6, <1>7, <1>8

LEMMA ReserveDueKeeps ==
  ASSUME RowsInv, NEW i \in Instance, NEW r \in Receipt, ReserveDue(i, r)
  PROVE  RowsInv'
  <1> USE DEF RowsInv, Active, Holder, PolicyOf, InFlight, Retrying
  <1>1. /\ sched' = [sched EXCEPT ![i] =
             [pc |-> "reserved", receipt |-> r, tried |-> Escalations(r),
              todo |-> Escalations(r), due |-> clock + PostBound]]
        /\ clock \in Nat /\ PostBound \in Nat /\ FullLease \in Nat
        /\ FullLease > PostBound
        /\ Active(r)
        /\ Reserve(i, r)
        /\ UNCHANGED <<status, initial, recovering, clock, posted, faults>>
    BY BoundAssumption DEF ReserveDue, Reserve, Due, TypeOK
  <1>2. sched' \in [Instance -> SchedType]
    BY <1>1 DEF TypeOK, SchedType, Escalations
  <1>3. faults' \in Nat
    BY <1>1 DEF TypeOK
  <1>4. /\ TypeOK' /\ OpenHasPolicy' /\ OneActivePerFingerprint' /\ ClosedUnreserved'
        /\ AttemptsBudget' /\ DoubledAtTheEnd'
        /\ disturbed \subseteq disturbed'
        /\ lease'[r] = [until |-> clock + FullLease, holder |-> i]
        /\ \A q \in Receipt : q # r => lease'[q] = lease[q]
        /\ \A j \in Instance : Retrying(j, r) => <<r, "forced">> \in disturbed
    BY <1>1, <1>2, <1>3, ReserveRows
  <1>5. /\ sched'[i].pc = "reserved" /\ sched'[i].receipt = r
        /\ sched'[i].due = clock + PostBound
        /\ \A j \in Instance : j # i => sched'[j] = sched[j]
    BY <1>1 DEF TypeOK
  <1>6. WorkingOnReceipt'
    BY <1>1, <1>5 DEF WorkingOnReceipt
  <1>7. LeaseOutlivesPosts'
    <2>1. ASSUME NEW j \in Instance, NEW q \in Receipt, Retrying(j, q)', Active(q)',
                 <<q, "forced">> \notin disturbed'
          PROVE  lease'[q].holder = j /\ lease'[q].until > sched'[j].due
      <3>1. CASE j = i
        BY <1>1, <1>4, <1>5, <2>1, <3>1
      <3>2. CASE j # i
        <4>1. q # r
          BY <1>4, <1>5, <2>1, <3>2
        <4>2. QED
          BY <1>1, <1>4, <1>5, <2>1, <3>2, <4>1 DEF LeaseOutlivesPosts
      <3>3. QED
        BY <3>1, <3>2
    <2>2. QED
      BY <2>1 DEF LeaseOutlivesPosts
  <1>8. NoOverlappingRetries'
    BY <1>4, <1>5 DEF NoOverlappingRetries
  <1>9. QED
    BY <1>4, <1>6, <1>7, <1>8

(* A reservation nobody works on: its instance goes on with another.       *)
LEMMA ReserveReplyLostKeeps ==
  ASSUME RowsInv, NEW i \in Instance, NEW r \in Receipt, ReserveReplyLost(i, r)
  PROVE  RowsInv'
  <1> USE DEF RowsInv, Active, Holder, PolicyOf, InFlight, Retrying
  <1>1. /\ Reserve(i, r) /\ faults' \in Nat
        /\ UNCHANGED <<status, initial, sched, recovering, clock, posted>>
    BY DEF ReserveReplyLost, Reserve, Fault, TypeOK
  <1>2. sched' \in [Instance -> SchedType]
    BY <1>1 DEF TypeOK
  <1>3. /\ TypeOK' /\ OpenHasPolicy' /\ OneActivePerFingerprint' /\ ClosedUnreserved'
        /\ AttemptsBudget' /\ DoubledAtTheEnd'
        /\ disturbed \subseteq disturbed'
        /\ \A q \in Receipt : q # r => lease'[q] = lease[q]
        /\ \A j \in Instance : Retrying(j, r) => <<r, "forced">> \in disturbed
    BY <1>1, <1>2, ReserveRows
  <1>4. WorkingOnReceipt' /\ NoOverlappingRetries'
    BY <1>1, <1>3 DEF WorkingOnReceipt, NoOverlappingRetries
  <1>5. LeaseOutlivesPosts'
    BY <1>1, <1>3 DEF LeaseOutlivesPosts
  <1>6. QED
    BY <1>3, <1>4, <1>5

(* The lease a policy asks for still outlives the posts that start now.    *)
LEMMA AdjustLeaseKeeps ==
  ASSUME RowsInv, NEW i \in Instance, AdjustLease(i), Holds(i, sched[i].receipt)
  PROVE  RowsInv'
  <1> DEFINE r == sched[i].receipt
  <1> USE DEF RowsInv, Active, Holder, PolicyOf, InFlight, Retrying
  <1>1. /\ sched[i].pc = "reserved" /\ r \in Receipt
        /\ Active(r) /\ lease[r].holder = i
        /\ UNCHANGED <<status, about, progress, initial, recovering, clock,
                       faults, posted, disturbed>>
        /\ lease' = [lease EXCEPT ![r] =
             [until |-> sched[i].due - PostBound + PolicyOf(r).lease, holder |-> i]]
        /\ sched' = [sched EXCEPT ![i].pc = "posting"]
    BY DEF AdjustLease, Holds, WorkingOnReceipt
  <1>2. /\ sched[i].due \in Nat /\ PostBound \in Nat /\ sched[i].due >= PostBound
        /\ PolicyOf(r).lease \in Nat /\ PolicyOf(r).lease > PostBound
    BY <1>1, OpenPolicy, BoundAssumption DEF WorkingOnReceipt, TypeOK, SchedType
  <1> HIDE DEF r
  <1>3. /\ \A j \in Instance : /\ sched'[j].receipt = sched[j].receipt
                               /\ sched'[j].due = sched[j].due
                               /\ InFlight(j)' = InFlight(j)
                               /\ sched'[j].pc \notin {"resting", "scanning"}
                                    => sched[j].pc \notin {"resting", "scanning"}
        /\ \A q \in Receipt : lease'[q].holder = lease[q].holder
        /\ \A q \in Receipt : q # r => lease'[q] = lease[q]
        /\ lease'[r].until > sched[i].due
    BY <1>1, <1>2 DEF TypeOK, TableType, SchedType
  <1>4. TypeOK'
    <2>1. sched' \in [Instance -> SchedType]
      <3>1. [sched[i] EXCEPT !.pc = "posting"] \in SchedType
        BY SchedPcType DEF TypeOK
      <3>2. QED
        BY <1>1, <3>1, Zenon DEF TypeOK
    <2>2. lease' \in [Receipt -> [until : Nat, holder : Instance \cup {None}]]
      BY <1>1, <1>2 DEF TypeOK, TableType
    <2>3. QED
      BY <1>1, <2>1, <2>2 DEF TypeOK, TableType
  <1>5. OpenHasPolicy' /\ OneActivePerFingerprint' /\ ClosedUnreserved'
    BY <1>1, <1>3 DEF OpenHasPolicy, OneActivePerFingerprint, ClosedUnreserved
  <1>6. WorkingOnReceipt' /\ NoOverlappingRetries'
    BY <1>1, <1>3 DEF WorkingOnReceipt, NoOverlappingRetries
  <1>7. LeaseOutlivesPosts'
    <2>1. ASSUME NEW j \in Instance, NEW q \in Receipt, Retrying(j, q)', Active(q)',
                 <<q, "forced">> \notin disturbed'
          PROVE  lease'[q].holder = j /\ lease'[q].until > sched'[j].due
      <3>1. lease[q].holder = j /\ lease[q].until > sched[j].due
        BY <1>1, <1>3, <2>1 DEF LeaseOutlivesPosts
      <3>2. CASE q = r
        BY <1>1, <1>3, <3>1, <3>2
      <3>3. CASE q # r
        BY <1>3, <3>1, <3>3
      <3>4. QED
        BY <3>2, <3>3
    <2>2. QED
      BY <2>1 DEF LeaseOutlivesPosts
  <1>8. AttemptsBudget' /\ DoubledAtTheEnd'
    BY <1>1, <1>3 DEF AttemptsBudget, AttemptsAllowed, Unrecorded, DoubledAtTheEnd
  <1>9. QED
    BY <1>4, <1>5, <1>6, <1>7, <1>8

(* The holder of the token counts its retry and gives the lease back.      *)
LEMMA CompleteAttemptKeeps ==
  ASSUME RowsInv, NEW i \in Instance, CompleteAttempt(i), Holds(i, sched[i].receipt)
  PROVE  RowsInv'
  <1> DEFINE r == sched[i].receipt
  <1> USE DEF RowsInv, Active, Holder, PolicyOf, InFlight, Retrying
  <1>1. /\ sched[i].pc = "completing" /\ r \in Receipt
        /\ Active(r) /\ lease[r].holder = i
        /\ UNCHANGED <<status, about, initial, recovering, clock, faults, posted,
                       disturbed>>
        /\ sched' = [sched EXCEPT ![i] = Scanning]
        /\ lease' = [lease EXCEPT ![r] = NoLease]
        /\ progress' = [progress EXCEPT ![r] =
             [attempts |-> progress[r].attempts + 1,
              nextRetry |-> clock + PolicyOf(r).retry,
              escalated |-> progress[r].escalated \cup sched[i].tried]]
    BY DEF CompleteAttempt, Holds, Count, WorkingOnReceipt
  <1>2. PolicyOf(r).retry \in Nat /\ PolicyOf(r).maxAttempts \in Nat
    BY <1>1, OpenPolicy
  <1>3. sched[i].tried \in SUBSET Channel
    BY DEF TypeOK, SchedType
  <1> HIDE DEF r
  <1>4. TypeOK'
    <2>1. sched' \in [Instance -> SchedType]
      BY <1>1 DEF TypeOK, SchedType, Scanning, WithoutRetry
    <2>2. lease' \in [Receipt -> [until : Nat, holder : Instance \cup {None}]]
      BY <1>1 DEF TypeOK, TableType, NoLease
    <2>3. progress' \in [Receipt -> [attempts : Nat, nextRetry : Nat,
                                     escalated : SUBSET Channel]]
      BY <1>1, <1>2, <1>3 DEF TypeOK, TableType
    <2>4. QED
      BY <1>1, <2>1, <2>2, <2>3 DEF TypeOK, TableType
  <1>5. /\ \A j \in Instance : j # i => sched'[j] = sched[j]
        /\ sched'[i].pc = "scanning"
        /\ \A q \in Receipt : q # r => lease'[q] = lease[q] /\ progress'[q] = progress[q]
        /\ lease'[r].holder = None
        /\ progress'[r].attempts = progress[r].attempts + 1
        /\ progress[r].attempts \in Nat
    BY <1>1 DEF TypeOK, TableType, Scanning, WithoutRetry, NoLease
  <1>6. OpenHasPolicy' /\ OneActivePerFingerprint' /\ ClosedUnreserved'
    BY <1>1, <1>5 DEF OpenHasPolicy, OneActivePerFingerprint, ClosedUnreserved
  <1>7. WorkingOnReceipt' /\ NoOverlappingRetries'
    BY <1>1, <1>5 DEF WorkingOnReceipt, NoOverlappingRetries
  <1>8. LeaseOutlivesPosts'
    <2>1. ASSUME NEW j \in Instance, NEW q \in Receipt, Retrying(j, q)', Active(q)',
                 <<q, "forced">> \notin disturbed'
          PROVE  lease'[q].holder = j /\ lease'[q].until > sched'[j].due
      <3>1. j # i /\ sched'[j] = sched[j]
        BY <1>5, <2>1
      <3>2. lease[q].holder = j /\ lease[q].until > sched[j].due
        BY <1>1, <2>1, <3>1 DEF LeaseOutlivesPosts
      <3>3. q # r
        BY <1>1, <3>1, <3>2
      <3>4. QED
        BY <1>5, <3>1, <3>2, <3>3
    <2>2. QED
      BY <2>1 DEF LeaseOutlivesPosts
  <1>9. AttemptsBudget'
    <2>1. i # None
      BY NoneAssumption
    <2>2. QED
      BY <1>1, <1>2, <1>5, <2>1 DEF AttemptsBudget, AttemptsAllowed, Unrecorded
  <1>10. DoubledAtTheEnd'
    BY <1>1 DEF DoubledAtTheEnd
  <1>11. QED
    BY <1>4, <1>6, <1>7, <1>8, <1>9, <1>10

(* retry_now takes a lease from its holder and is remembered for it.       *)
LEMMA RetryNowKeeps ==
  ASSUME RowsInv, NEW r \in Receipt, RetryNow(r)
  PROVE  RowsInv'
  <1> USE DEF RowsInv, Active, Holder, PolicyOf, InFlight, Retrying
  <1>1. /\ UNCHANGED <<status, about, initial, sched, recovering, clock, faults,
                       posted>>
        /\ Active(r)
        /\ progress' = [progress EXCEPT ![r].nextRetry = clock]
        /\ lease' = [lease EXCEPT ![r] = NoLease]
        /\ disturbed \subseteq disturbed'
        /\ disturbed' \in SUBSET (Receipt \X Cause)
        /\ lease[r].holder # None => <<r, "forced">> \in disturbed'
        /\ \A q \in Receipt : <<q, "doubled">> \in disturbed' => <<q, "doubled">> \in disturbed
    BY DEF RetryNow, Cause, TypeOK
  <1>2. TypeOK'
    <2>1. lease' \in [Receipt -> [until : Nat, holder : Instance \cup {None}]]
      BY <1>1 DEF TypeOK, TableType, NoLease
    <2>2. progress' \in [Receipt -> [attempts : Nat, nextRetry : Nat,
                                     escalated : SUBSET Channel]]
      <3>1. [progress[r] EXCEPT !.nextRetry = clock]
              \in [attempts : Nat, nextRetry : Nat, escalated : SUBSET Channel]
        BY NextRetryType DEF TypeOK, TableType
      <3>2. QED
        BY <1>1, <3>1, Zenon DEF TypeOK, TableType
    <2>3. QED
      BY <1>1, <2>1, <2>2 DEF TypeOK, TableType
  <1>3. /\ \A q \in Receipt : q # r => lease'[q] = lease[q]
        /\ lease'[r].holder = None
        /\ \A q \in Receipt : progress'[q].attempts = progress[q].attempts
    BY <1>1 DEF TypeOK, TableType, NoLease
  <1>4. OpenHasPolicy' /\ OneActivePerFingerprint' /\ ClosedUnreserved'
    BY <1>1, <1>3 DEF OpenHasPolicy, OneActivePerFingerprint, ClosedUnreserved
  <1>5. WorkingOnReceipt' /\ NoOverlappingRetries'
    BY <1>1 DEF WorkingOnReceipt, NoOverlappingRetries
  <1>6. LeaseOutlivesPosts'
    <2>1. ASSUME NEW j \in Instance, NEW q \in Receipt, Retrying(j, q)', Active(q)',
                 <<q, "forced">> \notin disturbed'
          PROVE  lease'[q].holder = j /\ lease'[q].until > sched'[j].due
      <3>1. lease[q].holder = j /\ lease[q].until > sched[j].due
        BY <1>1, <2>1 DEF LeaseOutlivesPosts
      <3>2. q # r
        BY <1>1, <2>1, <3>1, NoneAssumption
      <3>3. QED
        BY <1>1, <1>3, <3>1, <3>2
    <2>2. QED
      BY <2>1 DEF LeaseOutlivesPosts
  <1>7. AttemptsBudget'
    <2>1. ASSUME NEW q \in Receipt, Active(q)
          PROVE  progress[q].attempts + Unrecorded(q)' <= AttemptsAllowed(q)'
      <3>1. Unrecorded(q)' <= Unrecorded(q) /\ Unrecorded(q) \in Nat /\ Unrecorded(q)' \in Nat
        BY <1>1, <1>3 DEF Unrecorded
      <3>2. AttemptsAllowed(q)' = AttemptsAllowed(q) /\ progress[q].attempts \in Nat
        BY <1>1 DEF AttemptsAllowed, TypeOK, TableType
      <3>3. QED
        BY <2>1, <3>1, <3>2, AllowedNat DEF AttemptsBudget
    <2>2. QED
      BY <1>1, <1>3, <2>1 DEF AttemptsBudget
  <1>8. DoubledAtTheEnd'
    BY <1>1 DEF DoubledAtTheEnd
  <1>9. QED
    BY <1>2, <1>4, <1>5, <1>6, <1>7, <1>8

(* Time passes only as far as the posts in flight allow.                   *)
LEMMA TickKeeps ==
  ASSUME RowsInv, Tick
  PROVE  RowsInv'
  <1> USE DEF RowsInv, Active, Holder, PolicyOf, InFlight, Retrying
  <1>1. /\ UNCHANGED <<status, about, progress, lease, initial, sched, recovering,
                       faults, posted, disturbed>>
        /\ clock \in Nat /\ clock' = clock + 1
        /\ \A i \in Instance : InFlight(i) => clock < sched[i].due
    BY DEF Tick, table, TypeOK
  <1>2. TypeOK'
    BY <1>1 DEF TypeOK, TableType
  <1>3. OpenHasPolicy' /\ OneActivePerFingerprint' /\ ClosedUnreserved'
    BY <1>1 DEF OpenHasPolicy, OneActivePerFingerprint, ClosedUnreserved
  <1>4. \A i \in Instance : sched[i].due \in Nat
    BY DEF TypeOK, SchedType
  <1>5. WorkingOnReceipt'
    BY <1>1, <1>4 DEF WorkingOnReceipt
  <1>6. NoOverlappingRetries' /\ LeaseOutlivesPosts'
    BY <1>1 DEF NoOverlappingRetries, LeaseOutlivesPosts
  <1>7. AttemptsBudget' /\ DoubledAtTheEnd'
    BY <1>1 DEF AttemptsBudget, AttemptsAllowed, Unrecorded, DoubledAtTheEnd
  <1>8. QED
    BY <1>2, <1>3, <1>5, <1>6, <1>7

(* Closing receipts, by whomever, is a quiet step.                         *)
LEMMA TerminalizeRows ==
  ASSUME TypeOK, NEW S \in SUBSET {r \in Receipt : Active(r)}, NEW how \in Terminal,
         Terminalize(S, how)
  PROVE  /\ TableType'
         /\ UNCHANGED <<about, progress>>
         /\ \A r \in Receipt :
              \/ status'[r] = status[r] /\ lease'[r] = lease[r]
              \/ status'[r] \in Terminal /\ Active(r) /\ lease'[r] = NoLease
  <1>1. \A r \in Receipt :
          \/ status'[r] = status[r] /\ lease'[r] = lease[r]
          \/ status'[r] \in Terminal /\ Active(r) /\ lease'[r] = NoLease
    BY DEF Terminalize
  <1>2. TableType'
    BY DEF Terminalize, TypeOK, TableType, NoLease
  <1>3. QED
    BY <1>1, <1>2 DEF Terminalize

LEMMA PostType ==
  ASSUME TypeOK, NEW r \in Receipt, NEW c \in Channel, Post(r, c)
  PROVE  posted' \in [Receipt -> [Channel -> 0..2]]
  <1>1. posted[r] \in [Channel -> 0..2]
    BY DEF TypeOK
  <1>2. [posted[r] EXCEPT ![c] = IF posted[r][c] = 0 THEN 1 ELSE 2]
          \in [Channel -> 0..2]
    BY <1>1
  <1>3. QED
    BY <1>2 DEF Post, TypeOK

(* The steps of the initial delivery.                                      *)
LEMMA InitialStepKeeps ==
  ASSUME RowsInv, NEW r \in Receipt, InitialStep(r)
  PROVE  RowsInv'
  <1> USE DEF RowsInv
  <1>1. CASE InitialDispatch(r)
    <2>1. TypeOK'
      <3>1. [initial[r] EXCEPT !.pc = "posting"] \in InitialType
        BY InitialPcType DEF TypeOK
      <3>2. initial' \in [Receipt -> InitialType]
        BY <1>1, <3>1, Zenon DEF InitialDispatch, TypeOK
      <3>3. QED
        BY <1>1, <3>2, Zenon DEF InitialDispatch, table, TypeOK, TableType
    <2>2. \A q \in Receipt : initial'[q].pc = "none" \/ NearerEnd(q)
      BY <1>1 DEF InitialDispatch, TypeOK, InitialType, NearerEnd
    <2>3. QED
      BY <1>1, <2>1, <2>2, QuietInitialKeeps DEF InitialDispatch, table
  <1>2. CASE \E c \in Channel : InitialEscalate(r, c)
    <2>1. PICK c \in Channel : InitialEscalate(r, c)
      BY <1>2
    <2>2. TypeOK'
      <3>1. [initial[r] EXCEPT !.todo = initial[r].todo \ {c}] \in InitialType
        BY TodoType DEF TypeOK
      <3>2. initial' \in [Receipt -> InitialType]
        BY <2>1, <3>1, Zenon DEF InitialEscalate, TypeOK
      <3>3. posted' \in [Receipt -> [Channel -> 0..2]]
        BY <2>1, PostType DEF InitialEscalate
      <3>4. QED
        BY <2>1, <3>2, <3>3 DEF InitialEscalate, table, TypeOK, TableType
    <2>3. \A q \in Receipt : initial'[q].pc = initial[q].pc
      BY <2>1 DEF InitialEscalate, TypeOK, InitialType
    <2>4. \A q \in Receipt : initial'[q].pc = "none" \/ NearerEnd(q)
      BY <2>3 DEF NearerEnd
    <2>5. QED
      BY <2>1, <2>2, <2>4, QuietInitialKeeps DEF InitialEscalate, table
  <1>3. CASE (InitialRecord(r) \/ InitialReplyLost(r)) /\ Active(r)
    <2>1. /\ Active(r) /\ Count(r, initial[r].tried)
          /\ UNCHANGED <<status, about, lease, sched, recovering, clock, posted>>
          /\ faults' \in Nat /\ initial[r].pc # "none"
      BY <1>3 DEF InitialRecord, InitialReplyLost, CountInitial, Fault, TypeOK
    <2>2. CASE InitialRecord(r)
      <3>1. /\ initial' \in [Receipt -> InitialType]
            /\ initial'[r].pc = "none"
            /\ \A q \in Receipt : q # r => initial'[q] = initial[q]
            /\ disturbed' = disturbed
        BY <2>2 DEF InitialRecord, NoInitial, InitialType, TypeOK
      <3>2. QED
        BY <2>1, <3>1, CountInitialKeeps
    <2>3. CASE InitialReplyLost(r)
      <3>1. initial' \in [Receipt -> InitialType]
        <4>1. [initial[r] EXCEPT !.pc = "repeating"] \in InitialType
          BY InitialPcType DEF TypeOK
        <4>2. QED
          BY <2>3, <4>1, Zenon DEF InitialReplyLost, TypeOK
      <3>2. /\ initial'[r].pc = "repeating" /\ initial[r].pc = "posting"
            /\ disturbed' = disturbed \cup {<<r, "doubled">>}
        BY <2>3 DEF InitialReplyLost, InitialType, TypeOK
      <3>3. \A q \in Receipt : q # r => initial'[q] = initial[q]
        BY <2>3 DEF InitialReplyLost, InitialType, TypeOK
      <3>4. QED
        BY <2>1, <3>1, <3>2, <3>3, CountInitialKeeps
    <2>4. QED
      BY <1>3, <2>2, <2>3
  <1>4. CASE InitialRecord(r) /\ ~Active(r)
    <2>1. TypeOK'
      BY <1>4 DEF InitialRecord, CountInitial, TypeOK, TableType, InitialType, NoInitial
    <2>2. \A q \in Receipt : initial'[q].pc = "none" \/ NearerEnd(q)
      BY <1>4 DEF InitialRecord, TypeOK, NoInitial, NearerEnd
    <2>3. QED
      BY <1>4, <2>1, <2>2, QuietInitialKeeps DEF InitialRecord, CountInitial
  <1>5. CASE InitialUnrecorded(r)
    <2>1. TypeOK'
      BY <1>5 DEF InitialUnrecorded, Fault, Cause, table, TypeOK, TableType,
                  InitialType, NoInitial
    <2>2. /\ \A q \in Receipt : initial'[q].pc = "none" \/ NearerEnd(q)
          /\ \A q \in Receipt : <<q, "doubled">> \in disturbed' => <<q, "doubled">> \in disturbed
      BY <1>5 DEF InitialUnrecorded, TypeOK, NoInitial, NearerEnd
    <2>3. QED
      BY <1>5, <2>1, <2>2, QuietInitialKeeps DEF InitialUnrecorded, table
  <1>6. QED
    BY <1>1, <1>2, <1>3, <1>4, <1>5 DEF InitialStep, InitialReplyLost

(* The steps of a scheduler.                                               *)
LEMMA SchedulerStepKeeps ==
  ASSUME RowsInv, NEW i \in Instance, SchedulerStep(i)
  PROVE  RowsInv'
  <1> USE DEF RowsInv
  <1>1. CASE ExpireDue(i)
    <2>1. /\ Expirable \in SUBSET {r \in Receipt : Active(r)}
          /\ "expired" \in Terminal
      BY DEF Expirable, Terminal
    <2>2. sched' \in [Instance -> SchedType]
      <3>1. [sched[i] EXCEPT !.pc = "scanning"] \in SchedType
        BY SchedPcType DEF TypeOK
      <3>2. QED
        BY <1>1, <3>1, Zenon DEF ExpireDue, TypeOK
    <2>3. TypeOK'
      BY <1>1, <2>1, <2>2, TerminalizeRows DEF ExpireDue, TypeOK
    <2>4. \A j \in Instance : sched'[j].pc = "scanning" \/ sched'[j] = sched[j]
      BY <1>1 DEF ExpireDue, TypeOK, SchedType
    <2>5. QED
      BY <1>1, <2>1, <2>3, <2>4, TerminalizeRows, QuietSchedulerKeeps
         DEF ExpireDue, InFlight
  <1>2. CASE \E r \in Receipt : ReserveDue(i, r) \/ ReserveReplyLost(i, r)
    BY <1>2, ReserveDueKeeps, ReserveReplyLostKeeps
  <1>3. CASE AdjustLease(i) /\ Holds(i, sched[i].receipt)
    BY <1>3, AdjustLeaseKeeps
  <1>4. CASE CompleteAttempt(i) /\ Holds(i, sched[i].receipt)
    BY <1>4, CompleteAttemptKeeps
  <1>5. CASE \E c \in Channel : Escalate(i, c)
    <2>1. PICK c \in Channel : Escalate(i, c)
      BY <1>5
    <2>2. sched[i].receipt \in Receipt /\ sched[i].pc = "posting"
      BY <2>1 DEF Escalate, WorkingOnReceipt
    <2>3. TypeOK'
      <3>1. [sched[i] EXCEPT !.todo = sched[i].todo \ {c}] \in SchedType
        BY TodoType DEF TypeOK
      <3>2. sched' \in [Instance -> SchedType]
        BY <2>1, <3>1, Zenon DEF Escalate, TypeOK
      <3>3. posted' \in [Receipt -> [Channel -> 0..2]]
        BY <2>1, <2>2, PostType DEF Escalate
      <3>4. QED
        BY <2>1, <3>2, <3>3 DEF Escalate, table, TypeOK, TableType
    <2>4. \A j \in Instance : /\ sched'[j].pc = sched[j].pc
                              /\ sched'[j].receipt = sched[j].receipt
                              /\ sched'[j].due = sched[j].due
      BY <2>1 DEF Escalate, TypeOK, SchedType
    <2>5. QED
      BY <2>1, <2>3, <2>4, QuietSchedulerKeeps DEF Escalate, table, InFlight
  <1>6. CASE PostsAnswered(i)
    <2>1. sched' \in [Instance -> SchedType]
      <3>1. [sched[i] EXCEPT !.pc = "completing"] \in SchedType
        BY SchedPcType DEF TypeOK
      <3>2. QED
        BY <1>6, <3>1, Zenon DEF PostsAnswered, TypeOK
    <2>2. TypeOK'
      BY <1>6, <2>1 DEF PostsAnswered, table, TypeOK, TableType
    <2>3. /\ \A j \in Instance : j # i => sched'[j] = sched[j]
          /\ sched[i].pc = "posting" /\ sched'[i].pc = "completing"
          /\ sched'[i].receipt = sched[i].receipt
          /\ sched'[i].due = sched[i].due
      BY <1>6 DEF PostsAnswered, TypeOK, SchedType
    <2>4. QED
      BY <1>6, <2>2, <2>3, QuietSchedulerKeeps DEF PostsAnswered, table, InFlight
  <1>7. CASE \/ TickEnds(i)
             \/ ExpireFails(i)
             \/ AdjustFails(i)
             \/ CompleteFails(i)
             \/ AdjustLease(i) /\ ~Holds(i, sched[i].receipt)
             \/ CompleteAttempt(i) /\ ~Holds(i, sched[i].receipt)
    <2>1. /\ \/ sched' = [sched EXCEPT ![i] = Resting]
             \/ sched' = [sched EXCEPT ![i] = Scanning]
          /\ faults' \in Nat
          /\ UNCHANGED <<status, about, progress, lease, initial, recovering,
                         clock, posted, disturbed>>
      BY <1>7 DEF TickEnds, ExpireFails, AdjustFails, CompleteFails, AdjustLease,
                  CompleteAttempt, Fault, table, TypeOK
    <2>2. Resting \in SchedType /\ Scanning \in SchedType
      BY DEF Resting, Scanning, WithoutRetry, SchedType
    <2>3. TypeOK'
      BY <2>1, <2>2 DEF TypeOK, TableType
    <2>4. \A j \in Instance :
            sched'[j].pc \in {"resting", "scanning"} \/ sched'[j] = sched[j]
      BY <2>1 DEF TypeOK, Resting, Scanning, WithoutRetry
    <2>5. QED
      BY <2>1, <2>3, <2>4, QuietSchedulerKeeps DEF InFlight
  <1>8. QED
    BY <1>1, <1>2, <1>3, <1>4, <1>5, <1>6, <1>7 DEF SchedulerStep

(* The steps of operators, of inhibition sources and of a recovery.        *)
LEMMA ClosingKeeps ==
  ASSUME RowsInv, NEW S \in SUBSET {r \in Receipt : Active(r)}, NEW how \in Terminal,
         Terminalize(S, how), recovering' \in SUBSET Fingerprint,
         UNCHANGED <<initial, sched, clock, faults, posted, disturbed>>
  PROVE  RowsInv'
  <1>1. TypeOK
    BY DEF RowsInv
  <1>2. /\ TableType'
        /\ UNCHANGED <<about, progress>>
        /\ \A r \in Receipt :
             \/ status'[r] = status[r] /\ lease'[r] = lease[r]
             \/ status'[r] \in Terminal /\ Active(r) /\ lease'[r] = NoLease
    BY <1>1, TerminalizeRows
  <1>3. TypeOK'
    BY <1>1, <1>2 DEF TypeOK
  <1>4. \A i \in Instance : sched'[i] = sched[i] /\ (InFlight(i)' <=> InFlight(i))
    BY DEF InFlight
  <1>5. \A r \in Receipt : initial'[r].pc = "none" \/ NearerEnd(r)
    BY DEF NearerEnd
  <1>6. QED
    BY <1>2, <1>3, <1>4, <1>5, QuietStepKeeps

LEMMA OperatorStepKeeps ==
  ASSUME RowsInv, NEW r \in Receipt, OperatorStep(r)
  PROVE  RowsInv'
  <1>1. CASE RetryNow(r)
    BY <1>1, RetryNowKeeps
  <1>2. CASE Acknowledge(r) \/ Cancel(r) \/ Inhibit(r)
    <2>1. PICK how \in {"acknowledged", "cancelled", "inhibited"} :
            /\ Active(r) /\ Terminalize({r}, how)
            /\ UNCHANGED <<initial, sched, recovering, clock, faults, posted,
                           disturbed>>
      BY <1>2 DEF Acknowledge, Cancel, Inhibit, Close
    <2>2. how \in Terminal /\ {r} \in SUBSET {q \in Receipt : Active(q)}
      BY <2>1 DEF Terminal
    <2>3. recovering' \in SUBSET Fingerprint
      BY <2>1 DEF RowsInv, TypeOK
    <2>4. QED
      BY <2>1, <2>2, <2>3, ClosingKeeps
  <1>3. QED
    BY <1>1, <1>2 DEF OperatorStep

LEMMA RecoveryKeeps ==
  ASSUME RowsInv, NEW f \in Fingerprint, RecoveryLook(f) \/ RecoveryResolve(f)
  PROVE  RowsInv'
  <1>1. CASE RecoveryLook(f)
    <2>1. UNCHANGED <<status, about, progress, lease, initial, sched, clock,
                      faults, posted, disturbed>>
      BY <1>1 DEF RecoveryLook, table
    <2>2. TypeOK'
      BY <1>1, <2>1 DEF RecoveryLook, RowsInv, TypeOK, TableType
    <2>3. \A r \in Receipt : initial'[r].pc = "none" \/ NearerEnd(r)
      BY <2>1 DEF NearerEnd
    <2>4. QED
      BY <2>1, <2>2, <2>3, QuietInitialKeeps
  <1>2. CASE RecoveryResolve(f)
    <2> DEFINE S == {r \in Receipt : Active(r) /\ about[r].fp = f}
    <2>1. /\ S \in SUBSET {r \in Receipt : Active(r)}
          /\ "resolved" \in Terminal
      BY DEF Terminal
    <2>2. /\ Terminalize(S, "resolved")
          /\ UNCHANGED <<initial, sched, clock, faults, posted, disturbed>>
      BY <1>2 DEF RecoveryResolve
    <2>3. recovering' \in SUBSET Fingerprint
      BY <1>2 DEF RecoveryResolve, RowsInv, TypeOK
    <2> HIDE DEF S
    <2>4. QED
      BY <2>1, <2>2, <2>3, ClosingKeeps
  <1>3. QED
    BY <1>1, <1>2

(* A crash forgets what the instance was doing; the table stays.           *)
LEMMA CrashKeeps ==
  ASSUME RowsInv, NEW n \in Instance, Crash(n)
  PROVE  RowsInv'
  <1>1. /\ UNCHANGED <<status, about, progress, lease, recovering, clock, posted>>
        /\ sched' = [sched EXCEPT ![n] = Resting]
        /\ initial' = [r \in Receipt |->
             IF initial[r].node = n THEN NoInitial ELSE initial[r]]
        /\ faults' \in Nat
        /\ disturbed \subseteq disturbed'
        /\ disturbed' \in SUBSET (Receipt \X Cause)
    BY DEF Crash, Fault, table, Cause, RowsInv, TypeOK
  <1>2. TypeOK'
    <2>1. sched' \in [Instance -> SchedType]
      BY <1>1 DEF RowsInv, TypeOK, SchedType, Resting, WithoutRetry
    <2>2. initial' \in [Receipt -> InitialType]
      BY <1>1 DEF RowsInv, TypeOK, InitialType, NoInitial
    <2>3. QED
      BY <1>1, <2>1, <2>2 DEF RowsInv, TypeOK, TableType
  <1>3. \A i \in Instance : sched'[i].pc = "resting" \/ sched'[i] = sched[i]
    BY <1>1 DEF RowsInv, TypeOK, Resting, WithoutRetry
  <1>4. /\ \A r \in Receipt : initial'[r].pc = "none" \/ NearerEnd(r)
        /\ \A r \in Receipt : <<r, "doubled">> \in disturbed' => <<r, "doubled">> \in disturbed
    BY <1>1 DEF NoInitial, NearerEnd, Crash
  <1>5. \A r \in Receipt : status'[r] = status[r] /\ lease'[r] = lease[r]
    BY <1>1
  <1>6. \A i \in Instance : sched'[i] = sched[i] => (InFlight(i)' <=> InFlight(i))
    BY DEF InFlight
  <1>7. QED
    BY <1>1, <1>2, <1>3, <1>4, <1>5, <1>6, QuietStepKeeps

(* RowsInv is inductive.                                                   *)
LEMMA RowsStep == RowsInv /\ [Next]_vars => RowsInv'
  <1> SUFFICES ASSUME RowsInv, [Next]_vars
               PROVE  RowsInv'
    OBVIOUS
  <1>1. CASE Next
    <2>1. CASE \E n \in Instance, r \in Receipt, f \in Fingerprint, p \in Policy :
                 Register(n, r, f, p) \/ RegisterReplyLost(r, f, p)
      BY <2>1, RegisterKeeps
    <2>2. CASE \E r \in Receipt : InitialStep(r)
      BY <2>2, InitialStepKeeps
    <2>3. CASE \E i \in Instance : SchedulerStep(i)
      BY <2>3, SchedulerStepKeeps
    <2>4. CASE \E r \in Receipt : OperatorStep(r)
      BY <2>4, OperatorStepKeeps
    <2>5. CASE \E f \in Fingerprint : RecoveryLook(f) \/ RecoveryResolve(f)
      BY <2>5, RecoveryKeeps
    <2>6. CASE \E n \in Instance : Crash(n)
      BY <2>6, CrashKeeps
    <2>7. CASE Tick
      BY <2>7, TickKeeps
    <2>8. QED
      BY <1>1, <2>1, <2>2, <2>3, <2>4, <2>5, <2>6, <2>7 DEF Next
  <1>2. CASE UNCHANGED vars
    BY <1>2
       DEF vars, RowsInv, TypeOK, TableType, OpenHasPolicy, WorkingOnReceipt,
           OneActivePerFingerprint, ClosedUnreserved, LeaseOutlivesPosts,
           NoOverlappingRetries, AttemptsBudget, AttemptsAllowed, DoubledAtTheEnd,
           Active, Holder, PolicyOf, InFlight, Retrying, Unrecorded
  <1>3. QED
    BY <1>1, <1>2

(* Every reachable state satisfies the invariant of the rows.              *)
THEOREM RowsInvariant == Spec => []RowsInv
  BY RowsInitially, RowsStep, PTL DEF Spec

(* Every variable keeps its type.                                          *)
THEOREM TypeCorrect == Spec => []TypeOK
  BY RowsInvariant, PTL DEF RowsInv

(* However registrations, closings and crashes interleave, a condition has *)
(* one open receipt at most and a closed receipt is reserved by nobody.    *)
THEOREM RowsConsistent == Spec => [](OneActivePerFingerprint /\ ClosedUnreserved)
  BY RowsInvariant, PTL DEF RowsInv

(* No two instances send retries of one receipt at once, for any number of *)
(* instances and any policy whose lease outlives its channel timeouts,     *)
(* unless retry_now broke the lease.                                       *)
THEOREM RetriesExclusive == Spec => []NoOverlappingRetries
  BY RowsInvariant, PTL DEF RowsInv

(* The attempts on record exceed the snapshot's limit by one at most.      *)
THEOREM AttemptsStayBounded == Spec => []AttemptsBounded
  <1>1. RowsInv => AttemptsBounded
    <2> SUFFICES ASSUME RowsInv, NEW r \in Receipt, Active(r)
                 PROVE  progress[r].attempts <= AttemptsAllowed(r)
      BY DEF AttemptsBounded
    <2>1. progress[r].attempts + Unrecorded(r) <= AttemptsAllowed(r)
      BY DEF RowsInv, AttemptsBudget
    <2>2. Unrecorded(r) \in Nat
      BY DEF Unrecorded
    <2>3. AttemptsAllowed(r) \in Nat /\ progress[r].attempts \in Nat
      BY AllowedNat DEF RowsInv, TypeOK, TableType
    <2>4. QED
      BY <2>1, <2>2, <2>3
  <1>2. QED
    BY <1>1, RowsInvariant, PTL

-----------------------------------------------------------------------------
(* What a step may do to the rows of the table, whoever takes it.          *)

Counts(r) ==
  /\ Active(r) /\ Unrecorded(r) >= 1
  /\ UNCHANGED <<status, about>>
  /\ progress'[r].attempts = progress[r].attempts + 1
  /\ \A q \in Receipt \ {r} : progress'[q] = progress[q] /\ lease'[q] = lease[q]

Reschedules(r) ==
  /\ Active(r)
  /\ UNCHANGED <<status, about>>
  /\ progress'[r].attempts = progress[r].attempts
  /\ \A q \in Receipt \ {r} : progress'[q] = progress[q] /\ lease'[q] = lease[q]

Closes(S, how) == S \in SUBSET {r \in Receipt : Active(r)} /\ Terminalize(S, how)

RowStep ==
  \/ \E r \in Receipt, f \in Fingerprint, p \in Policy : Insert(r, f, p)
  \/ \E r \in Receipt : Counts(r) \/ Reschedules(r)
  \/ \E S \in SUBSET {r \in Receipt : Active(r)}, how \in Terminal : Closes(S, how)
  \/ UNCHANGED table

LEMMA InitialStepRows ==
  ASSUME RowsInv, NEW r \in Receipt, InitialStep(r)
  PROVE  RowStep
  <1>1. CASE (InitialRecord(r) \/ InitialReplyLost(r)) /\ Active(r)
    <2>1. /\ UNCHANGED <<status, about, lease>>
          /\ initial[r].pc \in {"posting", "repeating"}
          /\ progress' = [progress EXCEPT ![r] =
               [attempts |-> progress[r].attempts + 1,
                nextRetry |-> clock + PolicyOf(r).retry,
                escalated |-> progress[r].escalated \cup initial[r].tried]]
      BY <1>1 DEF InitialRecord, InitialReplyLost, CountInitial, Count
    <2>2. Unrecorded(r) >= 1
      BY <2>1 DEF Unrecorded
    <2>3. progress'[r].attempts = progress[r].attempts + 1
      BY <2>1 DEF RowsInv, TypeOK, TableType
    <2>4. Counts(r)
      BY <1>1, <2>1, <2>2, <2>3 DEF Counts, RowsInv, TypeOK, TableType
    <2>5. QED
      BY <2>4 DEF RowStep
  <1>2. CASE ~((InitialRecord(r) \/ InitialReplyLost(r)) /\ Active(r))
    <2>1. UNCHANGED table
      BY <1>2 DEF InitialStep, InitialDispatch, InitialEscalate, InitialRecord,
                  InitialReplyLost, InitialUnrecorded, CountInitial, table
    <2>2. QED
      BY <2>1 DEF RowStep
  <1>3. QED
    BY <1>1, <1>2

LEMMA SchedulerStepRows ==
  ASSUME RowsInv, NEW i \in Instance, SchedulerStep(i)
  PROVE  RowStep
  <1> DEFINE r == sched[i].receipt
  <1>1. CASE ExpireDue(i)
    <2>1. Closes(Expirable, "expired")
      BY <1>1 DEF ExpireDue, Closes, Expirable
    <2>2. "expired" \in Terminal /\ Expirable \in SUBSET {q \in Receipt : Active(q)}
      BY DEF Terminal, Expirable
    <2>3. QED
      BY <2>1, <2>2 DEF RowStep
  <1>2. CASE \E q \in Receipt : ReserveDue(i, q) \/ ReserveReplyLost(i, q)
    <2>1. PICK q \in Receipt : Reserve(i, q)
      BY <1>2 DEF ReserveDue, ReserveReplyLost
    <2>2. Reschedules(q)
      BY <2>1 DEF Reserve, Due, Reschedules, RowsInv, TypeOK, TableType
    <2>3. QED
      BY <2>2 DEF RowStep
  <1>3. CASE AdjustLease(i) /\ Holds(i, r)
    <2>1. r \in Receipt
      BY <1>3 DEF AdjustLease, RowsInv, WorkingOnReceipt
    <2>2. Reschedules(r)
      BY <1>3, <2>1 DEF AdjustLease, Holds, Reschedules, RowsInv, TypeOK, TableType
    <2>3. QED
      BY <2>1, <2>2 DEF RowStep
  <1>4. CASE CompleteAttempt(i) /\ Holds(i, r)
    <2>1. /\ r \in Receipt /\ Active(r) /\ lease[r].holder = i /\ i # None
          /\ UNCHANGED <<status, about>>
          /\ lease' = [lease EXCEPT ![r] = NoLease]
          /\ progress' = [progress EXCEPT ![r] =
               [attempts |-> progress[r].attempts + 1,
                nextRetry |-> clock + PolicyOf(r).retry,
                escalated |-> progress[r].escalated \cup sched[i].tried]]
      BY <1>4, NoneAssumption
         DEF CompleteAttempt, Holds, Holder, Count, RowsInv, WorkingOnReceipt
    <2> HIDE DEF r
    <2>2. Unrecorded(r) >= 1
      BY <2>1 DEF Unrecorded, Holder
    <2>3. progress'[r].attempts = progress[r].attempts + 1
      BY <2>1 DEF RowsInv, TypeOK, TableType
    <2>4. Counts(r)
      BY <2>1, <2>2, <2>3 DEF Counts, RowsInv, TypeOK, TableType
    <2>5. QED
      BY <2>1, <2>4 DEF RowStep
  <1>5. CASE \/ TickEnds(i) \/ ExpireFails(i) \/ AdjustFails(i) \/ PostsAnswered(i)
             \/ CompleteFails(i) \/ \E c \in Channel : Escalate(i, c)
             \/ AdjustLease(i) /\ ~Holds(i, r)
             \/ CompleteAttempt(i) /\ ~Holds(i, r)
    <2>1. UNCHANGED table
      BY <1>5 DEF TickEnds, ExpireFails, AdjustFails, PostsAnswered, CompleteFails,
                  Escalate, AdjustLease, CompleteAttempt, table
    <2>2. QED
      BY <2>1 DEF RowStep
  <1>6. QED
    BY <1>1, <1>2, <1>3, <1>4, <1>5 DEF SchedulerStep

LEMMA NextRows == RowsInv /\ [Next]_vars => RowStep
  <1> SUFFICES ASSUME RowsInv, [Next]_vars
               PROVE  RowStep
    OBVIOUS
  <1>1. CASE \E n \in Instance, r \in Receipt, f \in Fingerprint, p \in Policy :
               Register(n, r, f, p) \/ RegisterReplyLost(r, f, p)
    BY <1>1 DEF Register, RegisterReplyLost, RowStep
  <1>2. CASE \E r \in Receipt : InitialStep(r)
    BY <1>2, InitialStepRows
  <1>3. CASE \E i \in Instance : SchedulerStep(i)
    BY <1>3, SchedulerStepRows
  <1>4. CASE \E r \in Receipt : OperatorStep(r)
    <2>1. PICK r \in Receipt : OperatorStep(r)
      BY <1>4
    <2>2. CASE RetryNow(r)
      <3>1. Reschedules(r)
        BY <2>2 DEF RetryNow, Reschedules, RowsInv, TypeOK, TableType
      <3>2. QED
        BY <3>1 DEF RowStep
    <2>3. CASE Acknowledge(r) \/ Cancel(r) \/ Inhibit(r)
      <3>1. PICK how \in {"acknowledged", "cancelled", "inhibited"} :
              Active(r) /\ Terminalize({r}, how)
        BY <2>3 DEF Acknowledge, Cancel, Inhibit, Close
      <3>2. /\ how \in Terminal /\ {r} \in SUBSET {q \in Receipt : Active(q)}
            /\ Closes({r}, how)
        BY <3>1 DEF Terminal, Closes
      <3>3. QED
        BY <3>2 DEF RowStep
    <2>4. QED
      BY <2>1, <2>2, <2>3 DEF OperatorStep
  <1>5. CASE \E f \in Fingerprint : RecoveryLook(f) \/ RecoveryResolve(f)
    <2>1. PICK f \in Fingerprint : RecoveryLook(f) \/ RecoveryResolve(f)
      BY <1>5
    <2>2. CASE RecoveryLook(f)
      BY <2>2 DEF RecoveryLook, RowStep
    <2>3. CASE RecoveryResolve(f)
      <3> DEFINE S == {r \in Receipt : Active(r) /\ about[r].fp = f}
      <3>1. /\ "resolved" \in Terminal /\ S \in SUBSET {q \in Receipt : Active(q)}
            /\ Closes(S, "resolved")
        BY <2>3 DEF RecoveryResolve, Terminal, Closes
      <3>2. QED
        BY <3>1 DEF RowStep
    <2>4. QED
      BY <2>1, <2>2, <2>3
  <1>6. CASE (\E n \in Instance : Crash(n)) \/ Tick \/ UNCHANGED vars
    BY <1>6 DEF Crash, Tick, vars, table, RowStep
  <1>7. QED
    BY <1>1, <1>2, <1>3, <1>4, <1>5, <1>6 DEF Next

(* A closed receipt never changes again, whatever late outcome, operator   *)
(* or scheduler comes for it.                                              *)
THEOREM ClosedStaysFinal == Spec => ClosedIsFinal
  <1> DEFINE Final == \A r \in Receipt :
                        status[r] \in Terminal =>
                          /\ status'[r] = status[r]
                          /\ progress'[r] = progress[r]
                          /\ lease'[r] = lease[r]
  <1>1. ASSUME RowsInv, RowStep PROVE Final
    <2> SUFFICES ASSUME NEW r \in Receipt, status[r] \in Terminal
                 PROVE  /\ status'[r] = status[r]
                        /\ progress'[r] = progress[r]
                        /\ lease'[r] = lease[r]
      OBVIOUS
    <2>1. status[r] # "free" /\ ~Active(r)
      BY DEF Terminal, Active
    <2>2. CASE \E q \in Receipt, f \in Fingerprint, p \in Policy : Insert(q, f, p)
      BY <2>1, <2>2 DEF Insert, Coalesces, RowsInv, TypeOK, TableType
    <2>3. CASE \E q \in Receipt : Counts(q) \/ Reschedules(q)
      BY <2>1, <2>3 DEF Counts, Reschedules
    <2>4. CASE \E S \in SUBSET {q \in Receipt : Active(q)}, how \in Terminal : Closes(S, how)
      BY <2>1, <2>4 DEF Closes, Terminalize
    <2>5. CASE UNCHANGED table
      BY <2>5 DEF table
    <2>6. QED
      BY <1>1, <2>2, <2>3, <2>4, <2>5 DEF RowStep
  <1>2. RowsInv /\ [Next]_vars => [Final]_vars
    BY <1>1, NextRows
  <1>3. QED
    BY <1>2, RowsInvariant, PTL DEF Spec, ClosedIsFinal

-----------------------------------------------------------------------------
(* The rows implement the contract.                                        *)

LEMMA OpensRefines ==
  ASSUME RowsInv, NEW r \in Receipt, NEW f \in Fingerprint, NEW p \in Policy,
         Insert(r, f, p)
  PROVE  Contract!Open(r, f, p.maxAttempts)
  <1>1. Incident(r).state = "free"
    BY DEF Insert, Coalesces, Incident
  <1>2. \A q \in Receipt : Incident(q).state = "active" => Incident(q).fp # f
    BY DEF Insert, Coalesces, Incident, Active
  <1>3. Incident(r)' = [state |-> "active", fp |-> f, tries |-> 0,
                        limit |-> p.maxAttempts]
    BY NoneAssumption DEF Insert, Coalesces, Incident, PolicyOf, RowsInv, TypeOK, TableType
  <1>4. \A q \in Receipt : q # r => Incident(q)' = Incident(q)
    BY DEF Insert, Coalesces, Incident, PolicyOf, RowsInv, TypeOK, TableType
  <1>5. QED
    BY <1>1, <1>2, <1>3, <1>4 DEF Contract!Open, Contract!Opened

LEMMA CountsRefines ==
  ASSUME RowsInv, NEW r \in Receipt, Counts(r)
  PROVE  Contract!Try(r)
  <1>1. /\ PolicyOf(r) \in Policy /\ PolicyOf(r).maxAttempts \in Nat
        /\ progress[r].attempts \in Nat
    BY OpenPolicy DEF Counts, RowsInv, TypeOK, TableType
  <1>2. Unrecorded(r) \in Nat
    BY DEF Unrecorded
  <1>3. progress[r].attempts < PolicyOf(r).maxAttempts + 2
    <2>1. progress[r].attempts + Unrecorded(r) <= AttemptsAllowed(r)
      BY DEF Counts, RowsInv, AttemptsBudget
    <2>2. AttemptsAllowed(r) \in Nat /\ AttemptsAllowed(r) <= PolicyOf(r).maxAttempts + 2
      BY <1>1 DEF AttemptsAllowed
    <2>3. QED
      BY <1>1, <1>2, <2>1, <2>2 DEF Counts
  <1>4. Incident(r) = [state |-> "active", fp |-> about[r].fp,
                       tries |-> progress[r].attempts,
                       limit |-> PolicyOf(r).maxAttempts]
    BY <1>1, NoneAssumption DEF Incident, Counts, Active
  <1>5. Incident(r)' = [state |-> "active", fp |-> about[r].fp,
                        tries |-> progress[r].attempts + 1,
                        limit |-> PolicyOf(r).maxAttempts]
    BY <1>1, NoneAssumption DEF Incident, Counts, Active, PolicyOf
  <1>6. \A q \in Receipt : q # r => Incident(q)' = Incident(q)
    BY DEF Counts, Incident, PolicyOf
  <1>7. Incident(r)' = [Incident(r) EXCEPT !.tries = Incident(r).tries + 1]
    BY <1>4, <1>5
  <1>8. /\ Contract!Opened(r)
        /\ Incident(r).tries < Incident(r).limit + 2
    BY <1>3, <1>4 DEF Contract!Opened
  <1>9. QED
    BY <1>6, <1>7, <1>8 DEF Contract!Try

LEMMA ClosesRefines ==
  ASSUME RowsInv, NEW S \in SUBSET {r \in Receipt : Active(r)}, NEW how \in Terminal,
         Closes(S, how), S # {}
  PROVE  Contract!End(S, how)
  <1>1. \A r \in S : Incident(r)' = [Incident(r) EXCEPT !.state = how]
    BY DEF Closes, Terminalize, Incident, PolicyOf
  <1>2. \A r \in Receipt \ S : Incident(r)' = Incident(r)
    BY DEF Closes, Terminalize, Incident, PolicyOf
  <1>3. QED
    BY <1>1, <1>2 DEF Contract!End

(* The rows of the table, with leases, crashes, late outcomes and the      *)
(* unguarded initial record behind them, implement ReceiptContract.        *)
THEOREM Refinement == Spec => ImplementsContract
  <1> DEFINE abstract == [r \in Receipt |-> Incident(r)]
  <1>1. Init => Contract!Init
    BY DEF Init, Contract!Init, Contract!Unopened, Incident, Untried
  <1>2. ASSUME RowsInv, RowStep PROVE Contract!Next \/ UNCHANGED abstract
    <2>1. CASE \E r \in Receipt, f \in Fingerprint, p \in Policy : Insert(r, f, p)
      BY <1>2, <2>1, OpensRefines DEF Contract!Next
    <2>2. CASE \E r \in Receipt : Counts(r)
      BY <1>2, <2>2, CountsRefines DEF Contract!Next
    <2>3. CASE \E r \in Receipt : Reschedules(r)
      BY <2>3 DEF Reschedules, Incident, PolicyOf
    <2>4. CASE \E S \in SUBSET {r \in Receipt : Active(r)}, how \in Terminal : Closes(S, how)
      <3>1. PICK S \in SUBSET {r \in Receipt : Active(r)}, how \in Terminal : Closes(S, how)
        BY <2>4
      <3>2. CASE S = {}
        BY <3>1, <3>2 DEF Closes, Terminalize, Incident, PolicyOf
      <3>3. CASE S # {}
        <4>1. Contract!End(S, how)
          BY <1>2, <3>1, <3>3, ClosesRefines
        <4>2. S \in SUBSET {r \in Receipt : Contract!Opened(r)}
          BY <3>1 DEF Contract!Opened, Incident, Active
        <4>3. QED
          BY <4>1, <4>2 DEF Contract!Next
      <3>4. QED
        BY <3>2, <3>3
    <2>5. CASE UNCHANGED table
      BY <2>5 DEF table, Incident, PolicyOf
    <2>6. QED
      BY <1>2, <2>1, <2>2, <2>3, <2>4, <2>5 DEF RowStep
  <1>3. RowsInv /\ [Next]_vars => [Contract!Next]_abstract
    BY <1>2, NextRows
  <1>4. QED
    BY <1>1, <1>3, RowsInvariant, PTL DEF Spec, ImplementsContract, Contract!Spec

-----------------------------------------------------------------------------
(* What was posted, and who still has to post or to record it.             *)

PostsOf(r) ==
  /\ status[r] = "free" =>
       initial[r].pc = "none" /\ \A c \in Channel : posted[r][c] = 0
  /\ \A i \in Instance :
       Undisturbed(r) /\ Working(i, r) =>
         /\ initial[r].pc = "none"
         /\ Active(r) => Holder(r) = i
         /\ \A j \in Instance : Working(j, r) => j = i
  /\ \A c \in Channel :
       Undisturbed(r) /\ posted[r][c] # 0 =>
         /\ posted[r][c] # 2
         /\ initial[r].pc # "none" => c \notin initial[r].todo
         /\ \A i \in Instance : Working(i, r) => c \notin sched[i].todo
         /\ Active(r) =>
              \/ c \in progress[r].escalated
              \/ initial[r].pc # "none" /\ c \in initial[r].tried
              \/ /\ Holder(r) # None
                 /\ \A i \in Instance : Working(i, r) => c \in sched[i].tried

LEMMA PostsByReceipt ==
  ASSUME PostsInv
  PROVE  TodoIsTried /\ \A r \in Receipt : PostsOf(r)
  <1> USE DEF PostsInv
  <1> SUFFICES ASSUME NEW r \in Receipt PROVE PostsOf(r)
    OBVIOUS
  <1>1. status[r] = "free" =>
          initial[r].pc = "none" /\ \A c \in Channel : posted[r][c] = 0
    BY DEF FreeIsUntouched
  <1>2. \A i \in Instance :
          Undisturbed(r) /\ Working(i, r) =>
            /\ initial[r].pc = "none"
            /\ Active(r) => Holder(r) = i
            /\ \A j \in Instance : Working(j, r) => j = i
    BY DEF OneAttempt
  <1>3. ASSUME NEW c \in Channel, Undisturbed(r), posted[r][c] # 0
        PROVE  /\ posted[r][c] # 2
               /\ initial[r].pc # "none" => c \notin initial[r].todo
               /\ \A i \in Instance : Working(i, r) => c \notin sched[i].todo
               /\ Active(r) =>
                    \/ c \in progress[r].escalated
                    \/ initial[r].pc # "none" /\ c \in initial[r].tried
                    \/ /\ Holder(r) # None
                       /\ \A i \in Instance : Working(i, r) => c \in sched[i].tried
    <2>1. posted[r][c] # 2
      BY <1>3 DEF EscalatedOnceUndisturbed, Undisturbed
    <2>2. /\ initial[r].pc # "none" => c \notin initial[r].todo
          /\ \A i \in Instance : Working(i, r) => c \notin sched[i].todo
      BY <1>3 DEF TodoIsUnposted
    <2>3. QED
      BY <1>3, <2>1, <2>2 DEF PostedIsKnown
  <1>4. QED
    BY <1>1, <1>2, <1>3 DEF PostsOf

LEMMA PostsRejoin ==
  ASSUME TodoIsTried', \A r \in Receipt : PostsOf(r)'
  PROVE  PostsInv'
  <1>1. FreeIsUntouched' /\ OneAttempt'
    BY DEF FreeIsUntouched, OneAttempt, PostsOf
  <1>2. TodoIsUnposted' /\ PostedIsKnown'
    BY DEF TodoIsUnposted, PostedIsKnown, PostsOf
  <1>3. EscalatedOnceUndisturbed'
    <2> SUFFICES ASSUME NEW r \in Receipt, NEW c \in Channel, posted'[r][c] = 2
                 PROVE  ~Undisturbed(r)'
      BY DEF EscalatedOnceUndisturbed, Undisturbed
    <2>1. QED
      BY DEF PostsOf
  <1>4. QED
    BY <1>1, <1>2, <1>3 DEF PostsInv

(* A step that posts nothing about r, and takes nothing in hand for it.    *)
QuietFor(r) ==
  /\ Undisturbed(r)' => Undisturbed(r)
  /\ posted'[r] = posted[r]
  /\ status'[r] = "free" => status[r] = "free" /\ initial'[r] = initial[r]
  /\ Active(r)' => /\ Active(r) /\ Holder(r)' = Holder(r)
                   /\ progress[r].escalated \subseteq progress'[r].escalated
  /\ initial'[r].pc # "none" =>
       /\ initial[r].pc # "none"
       /\ initial'[r].tried = initial[r].tried
       /\ initial'[r].todo \subseteq initial[r].todo
  /\ Undisturbed(r)' /\ Active(r)' /\ initial'[r].pc = "none" /\ initial[r].pc # "none"
       => initial[r].tried \subseteq progress'[r].escalated
  /\ \A i \in Instance : Working(i, r)' => /\ Working(i, r)
                                           /\ sched'[i].tried = sched[i].tried
                                           /\ sched'[i].todo \subseteq sched[i].todo

LEMMA QuietForKeeps ==
  ASSUME NEW r \in Receipt, PostsOf(r), QuietFor(r)
  PROVE  PostsOf(r)'
  <1>1. status'[r] = "free" =>
          initial'[r].pc = "none" /\ \A c \in Channel : posted'[r][c] = 0
    BY DEF PostsOf, QuietFor
  <1>2. ASSUME NEW i \in Instance, Undisturbed(r)', Working(i, r)'
        PROVE  /\ initial'[r].pc = "none"
               /\ Active(r)' => Holder(r)' = i
               /\ \A j \in Instance : Working(j, r)' => j = i
    BY <1>2 DEF PostsOf, QuietFor
  <1>3. ASSUME NEW c \in Channel, Undisturbed(r)', posted'[r][c] # 0
        PROVE  /\ posted'[r][c] # 2
               /\ initial'[r].pc # "none" => c \notin initial'[r].todo
               /\ \A i \in Instance : Working(i, r)' => c \notin sched'[i].todo
               /\ Active(r)' =>
                    \/ c \in progress'[r].escalated
                    \/ initial'[r].pc # "none" /\ c \in initial'[r].tried
                    \/ /\ Holder(r)' # None
                       /\ \A i \in Instance : Working(i, r)' => c \in sched'[i].tried
    <2>1. /\ Undisturbed(r) /\ posted[r][c] # 0
          /\ posted[r][c] # 2
          /\ initial[r].pc # "none" => c \notin initial[r].todo
          /\ \A i \in Instance : Working(i, r) => c \notin sched[i].todo
          /\ Active(r) =>
               \/ c \in progress[r].escalated
               \/ initial[r].pc # "none" /\ c \in initial[r].tried
               \/ /\ Holder(r) # None
                  /\ \A i \in Instance : Working(i, r) => c \in sched[i].tried
      BY <1>3 DEF PostsOf, QuietFor
    <2>2. /\ posted'[r][c] # 2
          /\ initial'[r].pc # "none" => c \notin initial'[r].todo
          /\ \A i \in Instance : Working(i, r)' => c \notin sched'[i].todo
      BY <2>1 DEF QuietFor
    <2>3. ASSUME Active(r)'
          PROVE  \/ c \in progress'[r].escalated
                 \/ initial'[r].pc # "none" /\ c \in initial'[r].tried
                 \/ /\ Holder(r)' # None
                    /\ \A i \in Instance : Working(i, r)' => c \in sched'[i].tried
      BY <1>3, <2>1, <2>3 DEF QuietFor
    <2>4. QED
      BY <2>2, <2>3
  <1>4. QED
    BY <1>1, <1>2, <1>3 DEF PostsOf

(* Nothing about a receipt changes in a step that leaves these alone.      *)
LEMMA UnchangedIsQuiet ==
  ASSUME NEW r \in Receipt, Undisturbed(r)' => Undisturbed(r),
         posted'[r] = posted[r], status'[r] = status[r], lease'[r] = lease[r],
         progress'[r].escalated = progress[r].escalated, initial'[r] = initial[r],
         \A i \in Instance : Working(i, r)' => sched'[i] = sched[i]
  PROVE  QuietFor(r)
  BY DEF QuietFor, Active, Holder, Working

(* An instance that lets go of what it had in hand, or leaves it as it is. *)
LEMMA IdleIsNotWorking ==
  ASSUME NEW i \in Instance, NEW j \in Instance, sched \in [Instance -> SchedType],
         sched' = [sched EXCEPT ![i] = Resting] \/ sched' = [sched EXCEPT ![i] = Scanning],
         TodoIsTried
  PROVE  /\ \A r \in Receipt : Working(j, r)' => sched'[j] = sched[j] /\ j # i
         /\ sched'[j].todo \subseteq sched'[j].tried
  BY DEF Working, Resting, Scanning, WithoutRetry, TodoIsTried

(* A registration.                                                         *)
LEMMA InsertKeepsPosts ==
  ASSUME RowsInv, PostsInv, NEW r \in Receipt, NEW f \in Fingerprint, NEW p \in Policy,
         Insert(r, f, p), initial'[r].todo \subseteq initial'[r].tried,
         \A q \in Receipt : q # r => initial'[q] = initial[q],
         UNCHANGED <<sched, posted, disturbed>>
  PROVE  PostsInv'
  <1>1. /\ status[r] = "free" /\ status'[r] = "active"
        /\ \A q \in Receipt : q # r => status'[q] = status[q] /\ progress'[q] = progress[q]
        /\ lease' = lease
    BY DEF Insert, Coalesces, RowsInv, TypeOK, TableType
  <1>2. PostsOf(r)'
    <2>1. \A c \in Channel : posted'[r][c] = 0
      BY <1>1, PostsByReceipt DEF PostsOf
    <2>2. \A i \in Instance : ~Working(i, r)'
      BY <1>1 DEF RowsInv, WorkingOnReceipt, Working
    <2>3. QED
      BY <1>1, <2>1, <2>2 DEF PostsOf
  <1>3. ASSUME NEW q \in Receipt, q # r PROVE PostsOf(q)'
    <2>1. QuietFor(q)
      BY <1>1, <1>3, UnchangedIsQuiet DEF Undisturbed
    <2>2. QED
      BY <2>1, PostsByReceipt, QuietForKeeps
  <1>4. TodoIsTried'
    BY PostsByReceipt DEF TodoIsTried
  <1>5. QED
    BY <1>2, <1>3, <1>4, PostsRejoin

LEMMA RegisterKeepsPosts ==
  ASSUME RowsInv, PostsInv, NEW n \in Instance, NEW r \in Receipt, NEW f \in Fingerprint,
         NEW p \in Policy, Register(n, r, f, p) \/ RegisterReplyLost(r, f, p)
  PROVE  PostsInv'
  <1>1. /\ Insert(r, f, p)
        /\ \A q \in Receipt : q # r => initial'[q] = initial[q]
        /\ UNCHANGED <<sched, posted, disturbed>>
    BY DEF Register, RegisterReplyLost, RowsInv, TypeOK
  <1>2. initial'[r].todo \subseteq initial'[r].tried
    BY PostsByReceipt DEF Register, RegisterReplyLost, TodoIsTried, RowsInv, TypeOK
  <1>3. QED
    BY <1>1, <1>2, InsertKeepsPosts

(* The initial delivery posts to a channel of its attempt, to which nobody *)
(* has posted: no retry was reserved beside it.                            *)
LEMMA InitialEscalateKeepsPosts ==
  ASSUME RowsInv, PostsInv, NEW r \in Receipt, NEW c \in Channel, InitialEscalate(r, c)
  PROVE  PostsInv'
  <1>1. /\ initial[r].pc = "posting" /\ c \in initial[r].todo
        /\ initial' = [initial EXCEPT ![r].todo = initial[r].todo \ {c}]
        /\ Post(r, c)
        /\ UNCHANGED <<status, progress, lease, sched, disturbed>>
    BY DEF InitialEscalate, table
  <1>2. /\ initial'[r].pc = "posting" /\ initial'[r].tried = initial[r].tried
        /\ initial'[r].todo = initial[r].todo \ {c}
        /\ \A q \in Receipt : q # r => initial'[q] = initial[q]
    BY <1>1 DEF RowsInv, TypeOK, InitialType
  <1>3. /\ posted'[r][c] = IF posted[r][c] = 0 THEN 1 ELSE 2
        /\ \A d \in Channel : d # c => posted'[r][d] = posted[r][d]
        /\ \A q \in Receipt : q # r => posted'[q] = posted[q]
    BY <1>1 DEF Post, RowsInv, TypeOK
  <1>4. PostsOf(r)'
    <2>1. PostsOf(r) /\ c \in initial[r].tried
      BY <1>1, PostsByReceipt DEF TodoIsTried
    <2>2. /\ status'[r] # "free"
          /\ Undisturbed(r)' = Undisturbed(r)
      BY <1>1, <2>1 DEF PostsOf, Undisturbed
    <2>3. Undisturbed(r) => /\ \A i \in Instance : ~Working(i, r)'
                            /\ posted'[r][c] = 1
      BY <1>1, <1>3, <2>1 DEF PostsOf, Working
    <2>4. ASSUME NEW d \in Channel, Undisturbed(r), posted'[r][d] # 0
          PROVE  /\ posted'[r][d] # 2
                 /\ d \notin initial'[r].todo
                 /\ Active(r) => \/ d \in progress[r].escalated
                                 \/ d \in initial'[r].tried
                                 \/ Holder(r) # None
      BY <1>1, <1>2, <1>3, <2>1, <2>3, <2>4 DEF PostsOf
    <2>5. QED
      BY <1>1, <1>2, <2>2, <2>3, <2>4 DEF PostsOf, Active, Holder
  <1>5. ASSUME NEW q \in Receipt, q # r PROVE PostsOf(q)'
    <2>1. QuietFor(q)
      BY <1>1, <1>2, <1>3, <1>5, UnchangedIsQuiet DEF Undisturbed
    <2>2. QED
      BY <2>1, PostsByReceipt, QuietForKeeps
  <1>6. TodoIsTried'
    BY <1>1, <1>2, PostsByReceipt DEF TodoIsTried
  <1>7. QED
    BY <1>4, <1>5, <1>6, PostsRejoin

(* The other steps of the initial delivery let go of it only with its      *)
(* attempt on record, or disturb the receipt.                              *)
LEMMA InitialStepKeepsPosts ==
  ASSUME RowsInv, PostsInv, NEW r \in Receipt, InitialStep(r)
  PROVE  PostsInv'
  <1>1. CASE \E c \in Channel : InitialEscalate(r, c)
    BY <1>1, InitialEscalateKeepsPosts
  <1>2. CASE InitialDispatch(r) \/ InitialRecord(r) \/ InitialReplyLost(r) \/ InitialUnrecorded(r)
    <2>1. UNCHANGED <<status, lease, sched, posted>>
      BY <1>2 DEF InitialDispatch, InitialRecord, InitialReplyLost, InitialUnrecorded, table
    <2>2. /\ \A q \in Receipt : q # r => initial'[q] = initial[q]
          /\ initial[r].pc # "none"
          /\ \/ initial'[r] = NoInitial
             \/ initial'[r].tried = initial[r].tried /\ initial'[r].todo = initial[r].todo
      BY <1>2 DEF InitialDispatch, InitialRecord, InitialReplyLost, InitialUnrecorded,
                  RowsInv, TypeOK, InitialType
    <2>3. /\ \A q \in Receipt : q # r => progress'[q] = progress[q]
          /\ progress[r].escalated \subseteq progress'[r].escalated
          /\ Undisturbed(r)' /\ Active(r) /\ initial'[r].pc = "none"
               => initial[r].tried \subseteq progress'[r].escalated
      <3>1. CASE InitialDispatch(r)
        BY <3>1 DEF InitialDispatch, table, RowsInv, TypeOK, InitialType
      <3>2. CASE InitialRecord(r) \/ InitialReplyLost(r)
        BY <3>2 DEF InitialRecord, InitialReplyLost, CountInitial, Count, RowsInv, TypeOK,
                    TableType
      <3>3. CASE InitialUnrecorded(r)
        BY <3>3 DEF InitialUnrecorded, table, Undisturbed
      <3>4. QED
        BY <1>2, <3>1, <3>2, <3>3
    <2>4. disturbed \subseteq disturbed'
      BY <1>2 DEF InitialDispatch, InitialRecord, InitialReplyLost, InitialUnrecorded
    <2>5. ASSUME NEW q \in Receipt PROVE QuietFor(q)
      <3>1. CASE q # r
        BY <2>1, <2>2, <2>3, <2>4, <3>1, UnchangedIsQuiet DEF Undisturbed
      <3>2. CASE q = r
        <4>1. status[r] # "free"
          BY <2>2, PostsByReceipt DEF PostsOf
        <4>2. /\ Undisturbed(r)' => Undisturbed(r)
              /\ Active(r)' = Active(r) /\ Holder(r)' = Holder(r)
              /\ \A i \in Instance : Working(i, r)' => Working(i, r) /\ sched'[i] = sched[i]
          BY <2>1, <2>4 DEF Undisturbed, Active, Holder, Working
        <4>3. /\ initial'[r].pc # "none" =>
                   initial'[r].tried = initial[r].tried /\ initial'[r].todo = initial[r].todo
          BY <2>2 DEF NoInitial
        <4>4. QED
          BY <2>1, <2>2, <2>3, <3>2, <4>1, <4>2, <4>3 DEF QuietFor
      <3>3. QED
        BY <3>1, <3>2
    <2>6. TodoIsTried'
      BY <2>1, <2>2, PostsByReceipt DEF TodoIsTried, NoInitial
    <2>7. QED
      BY <2>5, <2>6, PostsByReceipt, PostsRejoin, QuietForKeeps
  <1>3. QED
    BY <1>1, <1>2 DEF InitialStep

(* The rows of receipts that only close, or stay: nothing is taken in hand. *)
LEMMA ClosingKeepsPosts ==
  ASSUME RowsInv, PostsInv, NEW S \in SUBSET {r \in Receipt : Active(r)},
         NEW how \in Terminal, Terminalize(S, how), TodoIsTried',
         UNCHANGED <<initial, posted, disturbed>>,
         \A i \in Instance, r \in Receipt : Working(i, r)' => sched'[i] = sched[i]
  PROVE  PostsInv'
  <1>1. /\ UNCHANGED progress
        /\ \A r \in Receipt : \/ status'[r] = status[r] /\ lease'[r] = lease[r]
                              \/ status'[r] \in Terminal
    BY DEF Terminalize
  <1>2. ASSUME NEW r \in Receipt PROVE QuietFor(r)
    <2>1. CASE status'[r] = status[r] /\ lease'[r] = lease[r]
      BY <1>1, <2>1, UnchangedIsQuiet DEF Undisturbed
    <2>2. CASE status'[r] \in Terminal
      BY <1>1, <2>2 DEF QuietFor, Undisturbed, Active, Terminal, Working
    <2>3. QED
      BY <1>1, <2>1, <2>2
  <1>3. QED
    BY <1>2, PostsByReceipt, PostsRejoin, QuietForKeeps

(* A reservation that leaves its receipt undisturbed finds no attempt      *)
(* under way, so that all that was posted is on record.                    *)
LEMMA ReserveKeepsPosts ==
  ASSUME RowsInv, PostsInv, NEW i \in Instance, NEW r \in Receipt,
         ReserveDue(i, r) \/ ReserveReplyLost(i, r)
  PROVE  PostsInv'
  <1>1. /\ sched[i].pc = "scanning" /\ Active(r)
        /\ UNCHANGED <<status, progress, initial, posted>>
        /\ lease' = [lease EXCEPT ![r] = [until |-> clock + FullLease, holder |-> i]]
        /\ disturbed \subseteq disturbed'
        /\ Undisturbed(r)' => Undisturbed(r) /\ Holder(r) = None /\ initial[r].pc = "none"
        /\ \A j \in Instance : j # i => sched'[j] = sched[j]
        /\ \/ sched' = sched
           \/ sched'[i] = [pc |-> "reserved", receipt |-> r, tried |-> Escalations(r),
                           todo |-> Escalations(r), due |-> clock + PostBound]
    BY DEF ReserveDue, ReserveReplyLost, Reserve, Due, Undisturbed, RowsInv, TypeOK
  <1>2. /\ Holder(r)' = i /\ i # None
        /\ \A q \in Receipt : q # r => lease'[q] = lease[q]
    BY <1>1, NoneAssumption DEF Holder, RowsInv, TypeOK, TableType
  <1>3. PostsOf(r)'
    <2>1. PostsOf(r)
      BY PostsByReceipt
    <2>2. Undisturbed(r)' => \A j \in Instance : ~Working(j, r)
      BY <1>1, <2>1, NoneAssumption DEF PostsOf
    <2>3. status'[r] # "free" /\ Active(r)' /\ initial' = initial /\ posted' = posted
      BY <1>1 DEF Active
    <2>4. ASSUME Undisturbed(r)', NEW j \in Instance, Working(j, r)'
          PROVE  /\ j = i
                 /\ sched'[j].todo = Escalations(r) /\ sched'[j].tried = Escalations(r)
      BY <1>1, <2>2, <2>4 DEF Working
    <2>5. ASSUME Undisturbed(r)', NEW c \in Channel, posted[r][c] # 0
          PROVE  posted[r][c] # 2 /\ c \in progress[r].escalated /\ c \notin Escalations(r)
      <3>1. posted[r][c] # 2 /\ c \in progress[r].escalated
        BY <1>1, <2>1, <2>5 DEF PostsOf
      <3>2. QED
        BY <3>1 DEF Escalations
    <2>6. progress'[r].escalated = progress[r].escalated
      BY <1>1
    <2>7. QED
      BY <1>1, <1>2, <2>3, <2>4, <2>5, <2>6 DEF PostsOf
  <1>4. ASSUME NEW q \in Receipt, q # r PROVE PostsOf(q)'
    <2>1. \A j \in Instance : Working(j, q)' => sched'[j] = sched[j]
      BY <1>1, <1>4 DEF Working
    <2>2. Undisturbed(q)' => Undisturbed(q)
      BY <1>1 DEF Undisturbed
    <2>3. QuietFor(q)
      BY <1>1, <1>2, <1>4, <2>1, <2>2, UnchangedIsQuiet
    <2>4. QED
      BY <2>3, PostsByReceipt, QuietForKeeps
  <1>5. TodoIsTried'
    BY <1>1, PostsByReceipt DEF TodoIsTried
  <1>6. QED
    BY <1>3, <1>4, <1>5, PostsRejoin

(* A retry posts to a channel of its attempt.                              *)
LEMMA EscalateKeepsPosts ==
  ASSUME RowsInv, PostsInv, NEW i \in Instance, NEW c \in Channel, Escalate(i, c)
  PROVE  PostsInv'
  <1>0. PICK r \in Receipt : r = sched[i].receipt
    BY DEF Escalate, RowsInv, WorkingOnReceipt
  <1>1. /\ status[r] # "free"
        /\ sched[i].pc = "posting" /\ c \in sched[i].todo
        /\ sched' = [sched EXCEPT ![i].todo = sched[i].todo \ {c}]
        /\ Post(r, c)
        /\ UNCHANGED <<status, progress, lease, initial, disturbed>>
    BY <1>0 DEF Escalate, table, RowsInv, WorkingOnReceipt
  <1>2. /\ Working(i, r)
        /\ sched'[i].pc = "posting" /\ sched'[i].receipt = r
        /\ sched'[i].tried = sched[i].tried /\ sched'[i].todo = sched[i].todo \ {c}
        /\ \A j \in Instance : j # i => sched'[j] = sched[j]
    BY <1>0, <1>1 DEF RowsInv, TypeOK, SchedType, Working
  <1>3. \A j \in Instance, q \in Receipt : Working(j, q)' <=> Working(j, q)
    BY <1>2 DEF Working
  <1>4. /\ posted'[r][c] = IF posted[r][c] = 0 THEN 1 ELSE 2
        /\ \A d \in Channel : d # c => posted'[r][d] = posted[r][d]
        /\ \A q \in Receipt : q # r => posted'[q] = posted[q]
    BY <1>1 DEF Post, RowsInv, TypeOK
  <1>5. PostsOf(r)'
    <2>1. PostsOf(r) /\ c \in sched[i].tried
      BY <1>1, PostsByReceipt DEF TodoIsTried
    <2>2. Undisturbed(r)' = Undisturbed(r) /\ Active(r)' = Active(r) /\ Holder(r)' = Holder(r)
      BY <1>1 DEF Undisturbed, Active, Holder
    <2>3. ASSUME Undisturbed(r)
          PROVE  /\ initial[r].pc = "none"
                 /\ Active(r) => Holder(r) = i
                 /\ \A j \in Instance : Working(j, r) => j = i
                 /\ posted[r][c] = 0
      BY <1>1, <1>2, <2>1, <2>3 DEF PostsOf
    <2>4. ASSUME Undisturbed(r), NEW d \in Channel, posted'[r][d] # 0
          PROVE  /\ posted'[r][d] # 2
                 /\ d \notin sched'[i].todo
                 /\ Active(r) => d \in progress[r].escalated \/ d \in sched'[i].tried
      BY <1>1, <1>2, <1>4, <2>1, <2>3, <2>4 DEF PostsOf
    <2>5. i # None
      BY NoneAssumption
    <2>6. QED
      BY <1>1, <1>3, <2>2, <2>3, <2>4, <2>5 DEF PostsOf
  <1>6. ASSUME NEW q \in Receipt, q # r PROVE PostsOf(q)'
    <2>1. \A j \in Instance : Working(j, q)' => sched'[j] = sched[j]
      BY <1>2, <1>6 DEF Working
    <2>2. QuietFor(q)
      BY <1>1, <1>4, <1>6, <2>1, UnchangedIsQuiet DEF Undisturbed
    <2>3. QED
      BY <2>2, PostsByReceipt, QuietForKeeps
  <1>7. TodoIsTried'
    BY <1>1, <1>2, PostsByReceipt DEF TodoIsTried
  <1>8. QED
    BY <1>5, <1>6, <1>7, PostsRejoin

(* The holder of the token puts what it tried on record with the release.  *)
LEMMA CompleteKeepsPosts ==
  ASSUME RowsInv, PostsInv, NEW i \in Instance, CompleteAttempt(i),
         Holds(i, sched[i].receipt)
  PROVE  PostsInv'
  <1>0. PICK r \in Receipt : r = sched[i].receipt
    BY DEF CompleteAttempt, RowsInv, WorkingOnReceipt
  <1>1. /\ Active(r) /\ Holder(r) = i /\ Working(i, r)
        /\ sched' = [sched EXCEPT ![i] = Scanning]
        /\ Count(r, sched[i].tried)
        /\ lease' = [lease EXCEPT ![r] = NoLease]
        /\ UNCHANGED <<status, initial, posted, disturbed>>
    BY <1>0 DEF CompleteAttempt, Holds, Working
  <1>2. /\ progress'[r].escalated = progress[r].escalated \cup sched[i].tried
        /\ \A q \in Receipt : q # r => progress'[q] = progress[q] /\ lease'[q] = lease[q]
    BY <1>1 DEF Count, RowsInv, TypeOK, TableType
  <1>3. /\ \A j \in Instance, q \in Receipt : Working(j, q)' => sched'[j] = sched[j] /\ j # i
        /\ \A j \in Instance : sched'[j].todo \subseteq sched'[j].tried
    BY <1>1, IdleIsNotWorking, PostsByReceipt DEF RowsInv, TypeOK
  <1>4. PostsOf(r)'
    <2>1. PostsOf(r)
      BY <1>1, PostsByReceipt
    <2>2. /\ Undisturbed(r)' = Undisturbed(r) /\ status'[r] # "free"
          /\ initial'[r] = initial[r] /\ posted'[r] = posted[r]
      BY <1>1 DEF Undisturbed, Active
    <2>3. Undisturbed(r) => \A j \in Instance : ~Working(j, r)'
      <3>1. \A j \in Instance : Working(j, r)' => Working(j, r) /\ j # i
        BY <1>3 DEF Working
      <3>2. QED
        BY <1>1, <2>1, <3>1 DEF PostsOf
    <2>4. ASSUME Undisturbed(r), NEW c \in Channel, posted[r][c] # 0
          PROVE  /\ posted[r][c] # 2
                 /\ initial[r].pc = "none"
                 /\ c \in progress'[r].escalated
      BY <1>1, <1>2, <2>1, <2>4 DEF PostsOf
    <2>5. QED
      BY <2>2, <2>3, <2>4 DEF PostsOf
  <1>5. ASSUME NEW q \in Receipt, q # r PROVE PostsOf(q)'
    <2>1. QuietFor(q)
      BY <1>1, <1>2, <1>3, <1>5, UnchangedIsQuiet DEF Undisturbed
    <2>2. QED
      BY <2>1, PostsByReceipt, QuietForKeeps
  <1>6. TodoIsTried'
    BY <1>1, <1>3, PostsByReceipt DEF TodoIsTried
  <1>7. QED
    BY <1>4, <1>5, <1>6, PostsRejoin

(* The steps of a scheduler.                                               *)
LEMMA SchedulerStepKeepsPosts ==
  ASSUME RowsInv, PostsInv, NEW i \in Instance, SchedulerStep(i)
  PROVE  PostsInv'
  <1>0. sched \in [Instance -> SchedType] /\ TodoIsTried
    BY PostsByReceipt DEF RowsInv, TypeOK
  <1>1. CASE ExpireDue(i)
    <2>1. /\ Expirable \in SUBSET {r \in Receipt : Active(r)} /\ "expired" \in Terminal
          /\ Terminalize(Expirable, "expired")
          /\ UNCHANGED <<initial, posted, disturbed>>
      BY <1>1 DEF Expirable, Terminal, ExpireDue
    <2>2. /\ \A j \in Instance : j # i => sched'[j] = sched[j]
          /\ sched'[i].pc = "scanning"
          /\ sched'[i].todo = sched[i].todo /\ sched'[i].tried = sched[i].tried
      BY <1>0, <1>1 DEF ExpireDue, SchedType
    <2>3. TodoIsTried' /\ \A j \in Instance, r \in Receipt : Working(j, r)' => sched'[j] = sched[j]
      BY <1>0, <2>1, <2>2 DEF TodoIsTried, Working
    <2>4. QED
      BY <2>1, <2>3, ClosingKeepsPosts
  <1>2. CASE \E r \in Receipt : ReserveDue(i, r) \/ ReserveReplyLost(i, r)
    BY <1>2, ReserveKeepsPosts
  <1>3. CASE \E c \in Channel : Escalate(i, c)
    BY <1>3, EscalateKeepsPosts
  <1>4. CASE CompleteAttempt(i) /\ Holds(i, sched[i].receipt)
    BY <1>4, CompleteKeepsPosts
  <1>5. CASE PostsAnswered(i) \/ (AdjustLease(i) /\ Holds(i, sched[i].receipt))
    <2>1. /\ UNCHANGED <<status, progress, initial, posted, disturbed>>
          /\ sched[i].pc \in {"reserved", "posting"}
          /\ \A j \in Instance : j # i => sched'[j] = sched[j]
          /\ sched'[i].receipt = sched[i].receipt
          /\ sched'[i].todo = sched[i].todo /\ sched'[i].tried = sched[i].tried
      BY <1>0, <1>5 DEF PostsAnswered, AdjustLease, table, SchedType
    <2>2. \A r \in Receipt : Holder(r)' = Holder(r)
      <3>1. CASE PostsAnswered(i)
        BY <3>1 DEF PostsAnswered, Holder, table
      <3>2. CASE AdjustLease(i) /\ Holds(i, sched[i].receipt)
        <4>1. PICK t \in [until : {sched[i].due - PostBound + PolicyOf(sched[i].receipt).lease},
                          holder : {i}] : lease' = [lease EXCEPT ![sched[i].receipt] = t]
          BY <3>2 DEF AdjustLease
        <4>2. t.holder = i /\ lease[sched[i].receipt].holder = i
          BY <3>2, <4>1 DEF Holds, Holder
        <4>3. QED
          BY <4>1, <4>2 DEF Holder, RowsInv, TypeOK, TableType
      <3>3. QED
        BY <1>5, <3>1, <3>2
    <2>3. ASSUME NEW r \in Receipt PROVE QuietFor(r)
      <3>1. \A j \in Instance : Working(j, r)' =>
              /\ Working(j, r)
              /\ sched'[j].tried = sched[j].tried /\ sched'[j].todo = sched[j].todo
        BY <2>1 DEF Working
      <3>2. QED
        BY <2>1, <2>2, <3>1 DEF QuietFor, Undisturbed, Active
    <2>4. TodoIsTried'
      BY <1>0, <2>1 DEF TodoIsTried
    <2>5. QED
      BY <2>3, <2>4, PostsByReceipt, PostsRejoin, QuietForKeeps
  <1>6. CASE \/ TickEnds(i) \/ ExpireFails(i) \/ AdjustFails(i) \/ CompleteFails(i)
             \/ AdjustLease(i) /\ ~Holds(i, sched[i].receipt)
             \/ CompleteAttempt(i) /\ ~Holds(i, sched[i].receipt)
    <2>1. /\ \/ sched' = [sched EXCEPT ![i] = Resting]
             \/ sched' = [sched EXCEPT ![i] = Scanning]
          /\ UNCHANGED <<status, progress, lease, initial, posted, disturbed>>
      BY <1>6 DEF TickEnds, ExpireFails, AdjustFails, CompleteFails, AdjustLease,
                  CompleteAttempt, table
    <2>2. /\ \A j \in Instance, r \in Receipt : Working(j, r)' => sched'[j] = sched[j]
          /\ \A j \in Instance : sched'[j].todo \subseteq sched'[j].tried
      BY <1>0, <2>1, IdleIsNotWorking
    <2>3. \A r \in Receipt : QuietFor(r)
      BY <2>1, <2>2, UnchangedIsQuiet DEF Undisturbed
    <2>4. TodoIsTried'
      BY <1>0, <2>1, <2>2 DEF TodoIsTried
    <2>5. QED
      BY <2>3, <2>4, PostsByReceipt, PostsRejoin, QuietForKeeps
  <1>7. QED
    BY <1>1, <1>2, <1>3, <1>4, <1>5, <1>6 DEF SchedulerStep

(* Operators, recoveries and inhibition sources post nothing.              *)
LEMMA OutsideKeepsPosts ==
  ASSUME RowsInv, PostsInv,
         \/ \E r \in Receipt : OperatorStep(r)
         \/ \E f \in Fingerprint : RecoveryLook(f) \/ RecoveryResolve(f)
         \/ Tick \/ UNCHANGED vars
  PROVE  PostsInv'
  <1>1. /\ UNCHANGED <<initial, sched, posted>>
        /\ TodoIsTried'
        /\ \A i \in Instance, r \in Receipt : Working(i, r)' => sched'[i] = sched[i]
    <2>1. UNCHANGED <<initial, sched, posted>>
      BY DEF OperatorStep, Acknowledge, Cancel, Inhibit, RetryNow, RecoveryLook,
             RecoveryResolve, Tick, vars
    <2>2. QED
      BY <2>1, PostsByReceipt DEF TodoIsTried
  <1>2. CASE \E S \in SUBSET {r \in Receipt : Active(r)}, how \in Terminal :
               Terminalize(S, how) /\ UNCHANGED disturbed
    BY <1>1, <1>2, ClosingKeepsPosts
  <1>3. CASE \E r \in Receipt : Acknowledge(r) \/ Cancel(r) \/ Inhibit(r)
    <2>1. PICK r \in Receipt, how \in {"acknowledged", "cancelled", "inhibited"} :
            Active(r) /\ Terminalize({r}, how) /\ UNCHANGED disturbed
      BY <1>3 DEF Acknowledge, Cancel, Inhibit, Close
    <2>2. {r} \in SUBSET {q \in Receipt : Active(q)} /\ how \in Terminal
      BY <2>1 DEF Terminal
    <2>3. QED
      BY <1>2, <2>1, <2>2
  <1>4. CASE \E f \in Fingerprint : RecoveryResolve(f)
    <2>1. PICK f \in Fingerprint : RecoveryResolve(f)
      BY <1>4
    <2> DEFINE S == {r \in Receipt : Active(r) /\ about[r].fp = f}
    <2>2. /\ S \in SUBSET {r \in Receipt : Active(r)} /\ "resolved" \in Terminal
          /\ Terminalize(S, "resolved") /\ UNCHANGED disturbed
      BY <2>1 DEF RecoveryResolve, Terminal
    <2> HIDE DEF S
    <2>3. QED
      BY <1>2, <2>2
  <1>5. CASE \E r \in Receipt : RetryNow(r)
    <2>1. PICK r \in Receipt : RetryNow(r)
      BY <1>5
    <2>2. /\ status' = status /\ disturbed \subseteq disturbed'
          /\ \A q \in Receipt : progress'[q].escalated = progress[q].escalated
          /\ \A q \in Receipt : q # r => lease'[q] = lease[q]
          /\ Undisturbed(r)' => Holder(r) = None
          /\ Holder(r)' = None
      BY <2>1 DEF RetryNow, Undisturbed, Holder, NoLease, RowsInv, TypeOK, TableType
    <2>3. \A q \in Receipt : Undisturbed(q)' => Undisturbed(q) /\ Holder(q)' = Holder(q)
      BY <2>2 DEF Undisturbed, Holder
    <2>4. ASSUME NEW q \in Receipt PROVE PostsOf(q)'
      <3>1. CASE Undisturbed(q)'
        <4>1. QuietFor(q)
          BY <1>1, <2>2, <2>3, <3>1 DEF QuietFor, Active, Working
        <4>2. QED
          BY <4>1, PostsByReceipt, QuietForKeeps
      <3>2. CASE ~Undisturbed(q)'
        BY <1>1, <2>2, <3>2, PostsByReceipt DEF PostsOf
      <3>3. QED
        BY <3>1, <3>2
    <2>5. QED
      BY <1>1, <2>4, PostsRejoin
  <1>6. CASE (\E f \in Fingerprint : RecoveryLook(f)) \/ Tick \/ UNCHANGED vars
    <2>1. UNCHANGED <<status, progress, lease, disturbed>>
      BY <1>6 DEF RecoveryLook, Tick, vars, table
    <2>2. \A r \in Receipt : QuietFor(r)
      BY <1>1, <2>1, UnchangedIsQuiet DEF Undisturbed
    <2>3. QED
      BY <1>1, <2>2, PostsByReceipt, PostsRejoin, QuietForKeeps
  <1>7. QED
    BY <1>3, <1>4, <1>5, <1>6 DEF OperatorStep

(* A crash in an initial delivery disturbs its receipt.                    *)
LEMMA CrashKeepsPosts ==
  ASSUME RowsInv, PostsInv, NEW n \in Instance, Crash(n)
  PROVE  PostsInv'
  <1>1. /\ UNCHANGED <<status, progress, lease, posted>>
        /\ sched' = [sched EXCEPT ![n] = Resting]
        /\ \A r \in Receipt : /\ Undisturbed(r)' => Undisturbed(r) /\ initial[r].node # n
                              /\ initial'[r] = IF initial[r].node = n THEN NoInitial ELSE initial[r]
    BY DEF Crash, table, Undisturbed
  <1>2. /\ \A i \in Instance, r \in Receipt : Working(i, r)' => sched'[i] = sched[i]
        /\ \A i \in Instance : sched'[i].todo \subseteq sched'[i].tried
    BY <1>1, IdleIsNotWorking, PostsByReceipt DEF RowsInv, TypeOK
  <1>3. ASSUME NEW r \in Receipt PROVE PostsOf(r)'
    <2>1. CASE Undisturbed(r)'
      <3>1. QuietFor(r)
        BY <1>1, <1>2, <2>1, UnchangedIsQuiet
      <3>2. QED
        BY <3>1, PostsByReceipt, QuietForKeeps
    <2>2. CASE ~Undisturbed(r)'
      <3>1. status'[r] = "free" =>
              initial'[r].pc = "none" /\ \A c \in Channel : posted'[r][c] = 0
        BY <1>1, PostsByReceipt DEF PostsOf, NoInitial
      <3>2. QED
        BY <2>2, <3>1 DEF PostsOf
    <2>3. QED
      BY <2>1, <2>2
  <1>4. TodoIsTried'
    BY <1>1, <1>2, PostsByReceipt DEF TodoIsTried, NoInitial
  <1>5. QED
    BY <1>3, <1>4, PostsRejoin

LEMMA PostsInitially == Init => PostsInv
  BY DEF Init, PostsInv, TodoIsTried, FreeIsUntouched, OneAttempt, TodoIsUnposted,
         PostedIsKnown, EscalatedOnceUndisturbed, NoInitial, Resting, WithoutRetry, Working

LEMMA PostsStep == RowsInv /\ PostsInv /\ [Next]_vars => PostsInv'
  <1> SUFFICES ASSUME RowsInv, PostsInv, [Next]_vars
               PROVE  PostsInv'
    OBVIOUS
  <1>1. CASE \E n \in Instance, r \in Receipt, f \in Fingerprint, p \in Policy :
               Register(n, r, f, p) \/ RegisterReplyLost(r, f, p)
    BY <1>1, RegisterKeepsPosts
  <1>2. CASE \E r \in Receipt : InitialStep(r)
    BY <1>2, InitialStepKeepsPosts
  <1>3. CASE \E i \in Instance : SchedulerStep(i)
    BY <1>3, SchedulerStepKeepsPosts
  <1>4. CASE \E n \in Instance : Crash(n)
    BY <1>4, CrashKeepsPosts
  <1>5. CASE \/ \E r \in Receipt : OperatorStep(r)
             \/ \E f \in Fingerprint : RecoveryLook(f) \/ RecoveryResolve(f)
             \/ Tick \/ UNCHANGED vars
    BY <1>5, OutsideKeepsPosts
  <1>6. QED
    BY <1>1, <1>2, <1>3, <1>4, <1>5 DEF Next

(* Every reachable state satisfies the inductive invariant.                *)
THEOREM Invariant == Spec => []IInv
  <1>1. Init => IInv
    BY RowsInitially, PostsInitially DEF IInv
  <1>2. IInv /\ [Next]_vars => IInv'
    BY RowsStep, PostsStep DEF IInv
  <1>3. QED
    BY <1>1, <1>2, PTL DEF Spec

(* A channel is escalated to once per receipt, unless retry_now broke a    *)
(* lease or an attempt overtook one whose outcome was not on record: what  *)
(* was posted is on record before anybody can take the receipt again.      *)
THEOREM EscalationsOnce == Spec => []EscalatedOnceUndisturbed
  BY Invariant, PTL DEF IInv, PostsInv

-----------------------------------------------------------------------------
(* Registration: one lemma per statement, and one for the two commits.     *)

LEMMA CallKeeps ==
  ASSUME RegistrationInv, NEW f \in Firing, Call(f)
  PROVE  RegistrationInv'
  <1> USE DEF RegistrationInv, RegistrationType, Statement, Call
  <1>1. RegistrationType'
    BY DEF OpenRows
  <1>2. OneOpenReceipt'
    BY DEF OneOpenReceipt, OpenRows, Same
  <1>3. InsertedAlone'
    BY DEF InsertedAlone, OpenRows, Same
  <1>4. SeenWasOpen'
    BY DEF SeenWasOpen, OpenRows, Same
  <1>5. OpenIsMet'
    BY DEF OpenIsMet, OpenRows, Same
  <1>6. ToldAtTheEnd'
    BY DEF ToldAtTheEnd, Untold
  <1>7. AnswersJustified'
    BY DEF AnswersJustified, OpenRows, Same, Untold, ToldAtTheEnd
  <1> QED
    BY <1>1, <1>2, <1>3, <1>4, <1>5, <1>6, <1>7

LEMMA LookUpKeeps ==
  ASSUME RegistrationInv, NEW f \in Firing, LookUp(f)
  PROVE  RegistrationInv'
  <1> USE DEF RegistrationInv, RegistrationType, Statement, LookUp, Goto
  <1>1. RegistrationType'
    BY NothingAssumption DEF OpenRows
  <1>2. OneOpenReceipt'
    BY DEF OneOpenReceipt, OpenRows, Same
  <1>3. InsertedAlone'
    BY DEF InsertedAlone, OpenRows, Same
  <1>4. SeenWasOpen'
    BY NothingAssumption DEF SeenWasOpen, OpenIsMet, OpenRows, Same
  <1>5. OpenIsMet'
    BY DEF OpenIsMet, OpenRows, Same
  <1>6. ToldAtTheEnd'
    BY DEF ToldAtTheEnd, Untold
  <1>7. AnswersJustified'
    BY DEF AnswersJustified, OpenRows, Same, Untold, ToldAtTheEnd
  <1> QED
    BY <1>1, <1>2, <1>3, <1>4, <1>5, <1>6, <1>7

LEMMA LockRowKeeps ==
  ASSUME RegistrationInv, NEW f \in Firing, LockRow(f)
  PROVE  RegistrationInv'
  <1> USE DEF RegistrationInv, RegistrationType, Statement, LockRow, Goto, Locked
  <1>1. RegistrationType'
    BY NothingAssumption DEF OpenRows
  <1>2. OneOpenReceipt'
    BY DEF OneOpenReceipt, OpenRows, Same
  <1>3. InsertedAlone'
    BY DEF InsertedAlone, OpenRows, Same
  <1>4. SeenWasOpen'
    BY NothingAssumption DEF SeenWasOpen, OpenRows, Same
  <1>5. OpenIsMet'
    BY DEF OpenIsMet, OpenRows, Same
  <1>6. ToldAtTheEnd'
    BY DEF ToldAtTheEnd, Untold
  <1>7. AnswersJustified'
    BY DEF AnswersJustified, OpenRows, Same, Untold, ToldAtTheEnd
  <1> QED
    BY <1>1, <1>2, <1>3, <1>4, <1>5, <1>6, <1>7

LEMMA InsertReceiptKeeps ==
  ASSUME RegistrationInv, NEW f \in Firing, InsertReceipt(f)
  PROVE  RegistrationInv'
  <1> USE DEF RegistrationInv, RegistrationType, Statement, InsertReceipt, Goto, Conflicts, Busy
  <1>1. RegistrationType'
    BY DEF OpenRows
  <1>2. OneOpenReceipt'
    BY DEF OneOpenReceipt, OpenRows, Same
  <1>3. InsertedAlone'
    BY DEF InsertedAlone, OpenRows, Same
  <1>4. SeenWasOpen'
    BY DEF SeenWasOpen, OpenRows, Same
  <1>5. OpenIsMet'
    BY DEF OpenIsMet, OpenRows, Same
  <1>6. ToldAtTheEnd'
    BY DEF ToldAtTheEnd, Untold
  <1>7. AnswersJustified'
    BY DEF AnswersJustified, OpenRows, Same, Untold, ToldAtTheEnd
  <1> QED
    BY <1>1, <1>2, <1>3, <1>4, <1>5, <1>6, <1>7

LEMMA ReselectKeeps ==
  ASSUME RegistrationInv, NEW f \in Firing, Reselect(f)
  PROVE  RegistrationInv'
  <1> USE DEF RegistrationInv, RegistrationType, Statement, Reselect, Goto, Reread
  <1>1. RegistrationType'
    BY NothingAssumption DEF OpenRows
  <1>2. OneOpenReceipt'
    BY DEF OneOpenReceipt, OpenRows, Same
  <1>3. InsertedAlone'
    BY DEF InsertedAlone, OpenRows, Same
  <1>4. SeenWasOpen'
    BY NothingAssumption DEF SeenWasOpen, OpenIsMet, OpenRows, Same
  <1>5. OpenIsMet'
    BY DEF OpenIsMet, OpenRows, Same
  <1>6. ToldAtTheEnd'
    BY DEF ToldAtTheEnd, Untold
  <1>7. AnswersJustified'
    BY DEF AnswersJustified, OpenRows, Same, Untold, ToldAtTheEnd
  <1> QED
    BY <1>1, <1>2, <1>3, <1>4, <1>5, <1>6, <1>7

LEMMA StatementFailsKeeps ==
  ASSUME RegistrationInv, NEW f \in Firing, StatementFails(f)
  PROVE  RegistrationInv'
  <1> USE DEF RegistrationInv, RegistrationType, Statement, StatementFails, Goto
  <1>1. RegistrationType'
    BY NothingAssumption DEF OpenRows
  <1>2. OneOpenReceipt'
    BY DEF OneOpenReceipt, OpenRows, Same
  <1>3. InsertedAlone'
    BY DEF InsertedAlone, OpenRows, Same
  <1>4. SeenWasOpen'
    BY NothingAssumption DEF SeenWasOpen, OpenRows, Same
  <1>5. OpenIsMet'
    BY DEF OpenIsMet, OpenRows, Same
  <1>6. ToldAtTheEnd'
    BY DEF ToldAtTheEnd, Untold
  <1>7. AnswersJustified'
    BY DEF AnswersJustified, OpenRows, Same, Untold, ToldAtTheEnd
  <1> QED
    BY <1>1, <1>2, <1>3, <1>4, <1>5, <1>6, <1>7

LEMMA RerunKeeps ==
  ASSUME RegistrationInv, NEW f \in Firing, Rerun(f)
  PROVE  RegistrationInv'
  <1> USE DEF RegistrationInv, RegistrationType, Statement, Rerun
  <1>1. RegistrationType'
    BY DEF OpenRows
  <1>2. OneOpenReceipt'
    BY DEF OneOpenReceipt, OpenRows, Same
  <1>3. InsertedAlone'
    BY DEF InsertedAlone, OpenRows, Same
  <1>4. SeenWasOpen'
    BY DEF SeenWasOpen, OpenRows, Same
  <1>5. OpenIsMet'
    BY DEF OpenIsMet, OpenRows, Same
  <1>6. ToldAtTheEnd'
    BY DEF ToldAtTheEnd, Untold
  <1>7. AnswersJustified'
    BY DEF AnswersJustified, OpenRows, Same, Untold, ToldAtTheEnd
  <1> QED
    BY <1>1, <1>2, <1>3, <1>4, <1>5, <1>6, <1>7

LEMMA GiveUpKeeps ==
  ASSUME RegistrationInv, NEW f \in Firing, GiveUp(f)
  PROVE  RegistrationInv'
  <1> USE DEF RegistrationInv, RegistrationType, Statement, GiveUp, Normally
  <1>1. RegistrationType'
    BY DEF OpenRows
  <1>2. OneOpenReceipt'
    BY DEF OneOpenReceipt, OpenRows, Same
  <1>3. InsertedAlone'
    BY DEF InsertedAlone, OpenRows, Same
  <1>4. SeenWasOpen'
    BY DEF SeenWasOpen, OpenRows, Same
  <1>5. OpenIsMet'
    BY DEF OpenIsMet, OpenRows, Same
  <1>6. ToldAtTheEnd'
    BY DEF ToldAtTheEnd, Untold
  <1>7. AnswersJustified'
    BY DEF AnswersJustified, OpenRows, Same, Untold, ToldAtTheEnd
  <1> QED
    BY <1>1, <1>2, <1>3, <1>4, <1>5, <1>6, <1>7

LEMMA DieKeeps ==
  ASSUME RegistrationInv, NEW f \in Firing, Die(f)
  PROVE  RegistrationInv'
  <1> USE DEF RegistrationInv, RegistrationType, Statement, Die, Goto
  <1>1. RegistrationType'
    BY NothingAssumption DEF OpenRows
  <1>2. OneOpenReceipt'
    BY DEF OneOpenReceipt, OpenRows, Same
  <1>3. InsertedAlone'
    BY DEF InsertedAlone, OpenRows, Same
  <1>4. SeenWasOpen'
    BY NothingAssumption DEF SeenWasOpen, OpenRows, Same
  <1>5. OpenIsMet'
    BY DEF OpenIsMet, OpenRows, Same
  <1>6. ToldAtTheEnd'
    BY DEF ToldAtTheEnd, Untold
  <1>7. AnswersJustified'
    BY DEF AnswersJustified, OpenRows, Same, Untold, ToldAtTheEnd
  <1> QED
    BY <1>1, <1>2, <1>3, <1>4, <1>5, <1>6, <1>7

LEMMA CloseReceiptKeeps ==
  ASSUME RegistrationInv, NEW f \in Firing, CloseReceipt(f)
  PROVE  RegistrationInv'
  <1> USE DEF RegistrationInv, RegistrationType, Statement, CloseReceipt, Locked
  <1>1. RegistrationType'
    BY DEF OpenRows
  <1>2. OneOpenReceipt'
    BY DEF OneOpenReceipt, OpenRows, Same
  <1>3. InsertedAlone'
    BY DEF InsertedAlone, OpenRows, Same
  <1>4. SeenWasOpen'
    BY DEF SeenWasOpen, OpenRows, Same
  <1>5. OpenIsMet'
    BY DEF OpenIsMet, OpenRows, Same
  <1>6. ToldAtTheEnd'
    BY DEF ToldAtTheEnd, Untold
  <1>7. AnswersJustified'
    BY DEF AnswersJustified, OpenRows, Same, Untold, ToldAtTheEnd
  <1> QED
    BY <1>1, <1>2, <1>3, <1>4, <1>5, <1>6, <1>7

LEMMA PublishKeeps ==
  ASSUME RegistrationInv, NEW f \in Firing, Publish(f),
         NEW end \in {"failed", "done"}, at' = [at EXCEPT ![f] = end]
  PROVE  /\ row' \in [Firing -> {"none", "open", "closed"}]
         /\ seen' \in [Firing -> Firing \cup {Nothing}]
         /\ wasOpen' \in [Firing -> SUBSET Firing]
         /\ OneOpenReceipt' /\ InsertedAlone' /\ SeenWasOpen' /\ OpenIsMet'
  <1> USE DEF RegistrationInv, RegistrationType, Statement, Publish
  <1>1. row' \in [Firing -> {"none", "open", "closed"}]
    OBVIOUS
  <1>2. seen' \in [Firing -> Firing \cup {Nothing}]
    OBVIOUS
  <1>3. wasOpen' \in [Firing -> SUBSET Firing]
    <2>1. CASE UNCHANGED wasOpen
      BY <2>1
    <2>2. CASE wasOpen' = [g \in Firing |->
                 IF Same(g, f) /\ at[g] \notin {"idle", "done"}
                   THEN wasOpen[g] \cup {f} ELSE wasOpen[g]]
      <3>1. \A g \in Firing : wasOpen[g] \in SUBSET Firing
        OBVIOUS
      <3>2. QED
        BY <2>2, <3>1
    <2>3. QED
      BY <2>1, <2>2
  <1>4. OneOpenReceipt'
    BY DEF OneOpenReceipt, InsertedAlone, OpenRows, Same
  <1>5. InsertedAlone'
    BY DEF InsertedAlone, OpenRows, Same
  <1>6. SeenWasOpen'
    BY NothingAssumption DEF SeenWasOpen, Same
  <1>7. OpenIsMet'
    BY DEF OpenIsMet, OpenRows, Same
  <1>8. QED
    BY <1>1, <1>2, <1>3, <1>4, <1>5, <1>6, <1>7

LEMMA CommitKeeps ==
  ASSUME RegistrationInv, NEW f \in Firing, Commit(f)
  PROVE  RegistrationInv'
  <1>1. /\ row' \in [Firing -> {"none", "open", "closed"}]
        /\ seen' \in [Firing -> Firing \cup {Nothing}]
        /\ wasOpen' \in [Firing -> SUBSET Firing]
        /\ OneOpenReceipt' /\ InsertedAlone' /\ SeenWasOpen' /\ OpenIsMet'
    BY PublishKeeps DEF Commit
  <1> USE DEF RegistrationInv, RegistrationType, Statement, Commit
  <1>2. RegistrationType'
    BY <1>1
  <1>3. ToldAtTheEnd'
    BY DEF ToldAtTheEnd
  <1>4. AnswersJustified'
    BY NothingAssumption DEF AnswersJustified, ToldAtTheEnd, SeenWasOpen, Untold, Publish, Same
  <1>5. QED
    BY <1>1, <1>2, <1>3, <1>4

LEMMA CommitUnheardKeeps ==
  ASSUME RegistrationInv, NEW f \in Firing, CommitUnheard(f)
  PROVE  RegistrationInv'
  <1>1. /\ row' \in [Firing -> {"none", "open", "closed"}]
        /\ seen' \in [Firing -> Firing \cup {Nothing}]
        /\ wasOpen' \in [Firing -> SUBSET Firing]
        /\ OneOpenReceipt' /\ InsertedAlone' /\ SeenWasOpen' /\ OpenIsMet'
    BY PublishKeeps DEF CommitUnheard
  <1> USE DEF RegistrationInv, RegistrationType, Statement, CommitUnheard
  <1>2. RegistrationType'
    BY <1>1
  <1>3. ToldAtTheEnd'
    BY DEF ToldAtTheEnd, Publish
  <1>4. AnswersJustified'
    BY DEF AnswersJustified, ToldAtTheEnd, Untold, Publish, Same
  <1>5. QED
    BY <1>1, <1>2, <1>3, <1>4

LEMMA RegistrationInitially == RegistrationInit => RegistrationInv
  BY DEF RegistrationInit, RegistrationInv, RegistrationType, OneOpenReceipt,
         InsertedAlone, SeenWasOpen, OpenIsMet, ToldAtTheEnd, AnswersJustified, Untold

LEMMA RegistrationStep == RegistrationInv /\ [RegistrationNext]_regVars => RegistrationInv'
  <1> SUFFICES ASSUME RegistrationInv, [RegistrationNext]_regVars
               PROVE  RegistrationInv'
    OBVIOUS
  <1>1. CASE UNCHANGED regVars
    BY <1>1 DEF regVars, RegistrationInv, RegistrationType, OneOpenReceipt, InsertedAlone,
                SeenWasOpen, OpenIsMet, ToldAtTheEnd, AnswersJustified, OpenRows, Same
  <1>2. CASE RegistrationNext
    <2>1. PICK f \in Firing : \/ Call(f) \/ Execute(f) \/ CommitUnheard(f)
                              \/ StatementFails(f) \/ Die(f) \/ CloseReceipt(f)
      BY <1>2 DEF RegistrationNext
    <2>2. CASE Execute(f)
      BY <2>2, LookUpKeeps, LockRowKeeps, InsertReceiptKeeps, ReselectKeeps, CommitKeeps,
         RerunKeeps, GiveUpKeeps DEF Execute
    <2>3. QED
      BY <2>1, <2>2, CallKeeps, CommitUnheardKeeps, StatementFailsKeeps, DieKeeps,
         CloseReceiptKeeps
  <1>3. QED
    BY <1>1, <1>2

(* However the registrations of any number of instances interleave, fail   *)
(* and run again, a condition has one open receipt, a firing is a          *)
(* duplicate only of a receipt that was open during its call, and every    *)
(* receipt is announced to its own firing alone.                           *)
THEOREM Registrations == RegistrationSpec => []RegistrationInv
  BY RegistrationInitially, RegistrationStep, PTL DEF RegistrationSpec

(* The partial unique index is never violated and never let down: a        *)
(* condition has one open receipt, whoever looks and inserts when.         *)
THEOREM OneReceiptOpen == RegistrationSpec => []OneOpenReceipt
  BY Registrations, PTL DEF RegistrationInv

(* A firing is told of a receipt that was open while it was registered, or *)
(* of its own.                                                             *)
THEOREM AnswersAreJustified == RegistrationSpec => []AnswersJustified
  BY Registrations, PTL DEF RegistrationInv
=============================================================================
