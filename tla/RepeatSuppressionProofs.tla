---------------------- MODULE RepeatSuppressionProofs ----------------------
(* The safety properties of RepeatSuppression hold for any requests,       *)
(* fingerprints, windows and bounds.                                       *)
EXTENDS RepeatSuppression, TLAPS

(* What the transaction of a request finds after pruning.                  *)
LEMMA PrunedRows ==
  ASSUME TypeOK
  PROVE  /\ Pruned \in [Fingerprint -> RowType]
         /\ \A f \in Fingerprint :
              /\ \/ Pruned[f].last = row[f].last
                 \/ Pruned[f].last = 0 /\ row[f].last < clock - Retention
              /\ Pruned[f].token \in {row[f].token, None}
              /\ row[f].until > clock => Pruned[f] = row[f]
              /\ Pruned[f].token # None => Pruned[f] = row[f]
  <1>1. NoRow \in RowType
    BY DEF NoRow, RowType
  <1>2. \A f \in Fingerprint : Pruned[f] = IF Stale(row[f]) THEN NoRow ELSE row[f]
    BY DEF Pruned
  <1>3. Pruned \in [Fingerprint -> RowType]
    BY <1>1 DEF Pruned, TypeOK
  <1>4. ASSUME NEW f \in Fingerprint
        PROVE  /\ \/ Pruned[f].last = row[f].last
                  \/ Pruned[f].last = 0 /\ row[f].last < clock - Retention
               /\ Pruned[f].token \in {row[f].token, None}
               /\ row[f].until > clock => Pruned[f] = row[f]
               /\ Pruned[f].token # None => Pruned[f] = row[f]
    <2>1. row[f].until \in Nat /\ clock \in Nat /\ Retention \in Nat
      BY WindowAssumption DEF TypeOK, RowType
    <2>2. CASE Stale(row[f])
      <3>1. Pruned[f] = NoRow /\ row[f].last < clock - Retention
                /\ row[f].until < clock - Retention
        BY <1>2, <2>2 DEF Stale
      <3>2. ~(row[f].until > clock)
        BY <2>1, <3>1
      <3>3. QED
        BY <3>1, <3>2 DEF NoRow
    <2>3. CASE ~Stale(row[f])
      BY <1>2, <2>3
    <2>4. QED
      BY <2>2, <2>3
  <1>5. QED
    BY <1>3, <1>4

(* A free row has no delivery on record inside the window of the request.  *)
LEMMA FreeIsCool ==
  ASSUME IInv, NEW d \in Request, Undecided(d), Free(d)
  PROVE  \A e \in Request :
           pc[e] = "recorded" /\ fp[e] = fp[d] => ended[e] + window[d] < clock
  <1>1. SUFFICES ASSUME NEW e \in Request, pc[e] = "recorded", fp[e] = fp[d]
                 PROVE  ended[e] + window[d] < clock
    OBVIOUS
  <1>2. fp[d] \in Fingerprint /\ window[d] \in Window
    BY DEF IInv, Arrived, Undecided
  <1>3. window[d] \in Nat /\ window[d] <= Retention /\ Retention \in Nat
    BY <1>2, WindowAssumption
  <1>4. ended[e] # 0 /\ (ended[e] <= row[fp[d]].last \/ ended[e] < clock - Retention)
    BY <1>1 DEF IInv, RecordKept
  <1>5. ended[e] \in Nat /\ clock \in Nat /\ row[fp[d]].last \in Nat
    BY <1>2 DEF IInv, TypeOK, RowType
  <1>6. CASE ended[e] < clock - Retention
    BY <1>3, <1>5, <1>6
  <1>7. CASE ended[e] <= row[fp[d]].last
    <2>1. \/ Found(d).last = row[fp[d]].last
          \/ row[fp[d]].last < clock - Retention
      BY <1>2, PrunedRows DEF IInv, Found
    <2>2. CASE row[fp[d]].last < clock - Retention
      BY <1>3, <1>5, <1>7, <2>2
    <2>3. CASE Found(d).last = row[fp[d]].last
      <3>1. Found(d).last # 0
        BY <1>4, <1>5, <1>7, <2>3
      <3>2. ~(row[fp[d]].last >= clock - window[d])
        BY <2>3, <3>1 DEF Free, Recent
      <3>3. QED
        BY <1>3, <1>5, <1>7, <3>2
    <2>4. QED
      BY <2>1, <2>2, <2>3
  <1>8. QED
    BY <1>4, <1>6, <1>7

(* A row that is free, or whose token is the request's, has no sender.     *)
LEMMA NoOtherSender ==
  ASSUME IInv, NEW d \in Request, Undecided(d), Free(d) \/ Found(d).token = d
  PROVE  \A e \in Request : pc[e] = "sending" => fp[e] # fp[d]
  <1>1. SUFFICES ASSUME NEW e \in Request, pc[e] = "sending", fp[e] = fp[d]
                 PROVE  FALSE
    OBVIOUS
  <1>2. fp[d] \in Fingerprint
    BY DEF IInv, Arrived, Undecided
  <1>3. /\ row[fp[d]].token = e
        /\ clock <= start[e] + SendBound
        /\ start[e] + SendBound < row[fp[d]].until
    BY <1>1 DEF IInv, SenderHolds
  <1>4. /\ start[e] \in Nat /\ clock \in Nat /\ SendBound \in Nat
        /\ row[fp[d]].until \in Nat
    BY <1>2, ReservationAssumption DEF IInv, TypeOK, RowType
  <1>5. row[fp[d]].until > clock
    BY <1>3, <1>4
  <1>6. Found(d) = row[fp[d]]
    BY <1>2, <1>5, PrunedRows DEF IInv, Found
  <1>7. e # d
    BY <1>1 DEF Undecided
  <1>8. QED
    BY <1>3, <1>5, <1>6, <1>7 DEF Free, Busy

(* A row that a request reserves, newly or again.                          *)
LEMMA ReservationKeeps ==
  ASSUME IInv, NEW d \in Request, Undecided(d), Reservation(d),
         UNCHANGED <<fp, window, ended, clock>>, faults' \in Nat,
         Sends(d) \/ UNCHANGED <<pc, start>>,
         \A e \in Request :
           pc[e] = "recorded" /\ fp[e] = fp[d] => ended[e] + window[d] < clock,
         \A e \in Request : pc[e] = "sending" => fp[e] # fp[d]
  PROVE  IInv'
  <1> USE DEF IInv
  <1>1. /\ fp[d] \in Fingerprint /\ d # None
        /\ clock \in Nat /\ SendBound \in Nat /\ TTL \in Nat /\ SendBound < TTL
    BY NoneAssumption, ReservationAssumption DEF Arrived, Undecided, TypeOK
  <1>2. /\ Pruned \in [Fingerprint -> RowType]
        /\ \A f \in Fingerprint :
             /\ \/ Pruned[f].last = row[f].last
                \/ Pruned[f].last = 0 /\ row[f].last < clock - Retention
             /\ Pruned[f].token \in {row[f].token, None}
             /\ row[f].until > clock => Pruned[f] = row[f]
             /\ Pruned[f].token # None => Pruned[f] = row[f]
    BY PrunedRows
  <1>3. /\ \A f \in Fingerprint : f # fp[d] => row'[f] = Pruned[f]
        /\ row'[fp[d]].last = Pruned[fp[d]].last
        /\ row'[fp[d]].until = clock + TTL
        /\ row'[fp[d]].token = d
    BY <1>1, <1>2 DEF Reservation, Found
  <1>4. \A f \in Fingerprint : row'[f].last = Pruned[f].last
    BY <1>3
  <1>5. /\ \A q \in Request : q # d => pc'[q] = pc[q] /\ start'[q] = start[q]
        /\ \/ pc'[d] = "sending" /\ start'[d] = clock
           \/ pc'[d] = pc[d] /\ start'[d] = start[d]
        /\ pc' \in [Request -> Place] /\ start' \in [Request -> Nat]
    BY <1>1 DEF Sends, Goto, TypeOK, Place
  <1>6. /\ \A q \in Request : pc'[q] = "recorded" <=> pc[q] = "recorded"
        /\ \A q \in Request : pc'[q] = "suppressed" <=> pc[q] = "suppressed"
    BY <1>5 DEF Undecided
  <1>7. TypeOK'
    <2>1. row' \in [Fingerprint -> RowType]
      <3>1. [last |-> Found(d).last, suppressed |-> Found(d).suppressed,
             until |-> clock + TTL, token |-> d] \in RowType
        BY <1>1, <1>2 DEF Found, RowType
      <3>2. QED
        BY <1>2, <3>1 DEF Reservation
    <2>2. QED
      BY <1>5, <2>1 DEF TypeOK
  <1>8. Arrived'
    BY <1>5 DEF Arrived, Undecided
  <1>9. LastIsReal'
    <2>1. ASSUME NEW f \in Fingerprint
          PROVE  /\ row'[f].last <= clock'
                 /\ row'[f].last # 0 =>
                      \E e \in Request :
                        pc'[e] = "recorded" /\ fp'[e] = f /\ ended'[e] = row'[f].last
      <3>1. row'[f].last = row[f].last \/ row'[f].last = 0
        BY <1>2, <1>4
      <3>2. CASE row'[f].last = 0
        BY <1>1, <3>2
      <3>3. CASE row'[f].last = row[f].last
        BY <1>6, <3>3 DEF LastIsReal
      <3>4. QED
        BY <3>1, <3>2, <3>3
    <2>2. QED
      BY <2>1 DEF LastIsReal
  <1>10. SenderHolds'
    <2>1. ASSUME NEW q \in Request, pc'[q] = "sending"
          PROVE  /\ row'[fp'[q]].token = q
                 /\ clock' <= start'[q] + SendBound
                 /\ start'[q] + SendBound < row'[fp'[q]].until
      <3>1. CASE q = d
        BY <1>1, <1>3, <1>5, <2>1, <3>1 DEF Undecided
      <3>2. CASE q # d
        <4>1. pc[q] = "sending" /\ start'[q] = start[q] /\ fp[q] # fp[d]
          BY <1>5, <2>1, <3>2
        <4>2. fp[q] \in Fingerprint /\ start[q] \in Nat /\ row[fp[q]].until \in Nat
          BY <4>1 DEF Arrived, TypeOK, RowType
        <4>3. /\ row[fp[q]].token = q
              /\ clock <= start[q] + SendBound
              /\ start[q] + SendBound < row[fp[q]].until
          BY <4>1 DEF SenderHolds
        <4>4. row'[fp[q]] = row[fp[q]]
          BY <1>1, <1>2, <1>3, <4>1, <4>2, <4>3
        <4>5. QED
          BY <4>1, <4>3, <4>4
      <3>3. QED
        BY <3>1, <3>2
    <2>2. QED
      BY <2>1 DEF SenderHolds
  <1>11. RecordKept'
    <2>1. ASSUME NEW e \in Request, pc'[e] = "recorded"
          PROVE  /\ ended'[e] # 0
                 /\ ended'[e] <= row'[fp'[e]].last \/ ended'[e] < clock' - Retention
      <3>1. pc[e] = "recorded"
        BY <1>6, <2>1
      <3>2. /\ fp[e] \in Fingerprint /\ ended[e] \in Nat /\ row[fp[e]].last \in Nat
            /\ Retention \in Nat
        BY <3>1, WindowAssumption DEF Arrived, TypeOK, RowType
      <3>3. /\ ended[e] # 0
            /\ ended[e] <= row[fp[e]].last \/ ended[e] < clock - Retention
        BY <3>1 DEF RecordKept
      <3>4. \/ row'[fp[e]].last = row[fp[e]].last
            \/ row[fp[e]].last < clock - Retention
        BY <1>2, <1>4, <3>2
      <3>5. QED
        BY <1>1, <3>2, <3>3, <3>4
    <2>2. QED
      BY <2>1 DEF RecordKept
  <1>12. HolderCooled'
    <2>1. ASSUME NEW q \in Request, NEW e \in Request,
                 pc'[e] = "recorded", fp'[q] = fp'[e], fp'[q] \in Fingerprint,
                 row'[fp'[q]].token = q
          PROVE  /\ pc'[q] \in {"sending", "succeeded"} => ended'[e] + window'[q] < start'[q]
                 /\ Undecided(q)' => ended'[e] + window'[q] < clock'
      <3>1. pc[e] = "recorded"
        BY <1>6, <2>1
      <3>2. CASE fp[q] = fp[d]
        <4>1. q = d
          BY <1>3, <2>1, <3>2
        <4>2. ended[e] + window[d] < clock
          BY <2>1, <3>1, <4>1
        <4>3. QED
          BY <1>5, <4>1, <4>2 DEF Undecided
      <3>3. CASE fp[q] # fp[d]
        <4>1. q # None
          BY NoneAssumption
        <4>2. row[fp[q]].token = q
          BY <1>2, <1>3, <2>1, <3>3, <4>1
        <4>3. q # d /\ pc'[q] = pc[q] /\ start'[q] = start[q]
          BY <1>5, <3>3
        <4>4. QED
          BY <2>1, <3>1, <4>2, <4>3 DEF HolderCooled, CooledDown, Undecided
      <3>4. QED
        BY <3>2, <3>3
    <2>2. QED
      BY <2>1 DEF HolderCooled, CooledDown
  <1>13. SuppressedWasHeard'
    BY <1>6 DEF SuppressedWasHeard
  <1>14. OneSuccessPerWindow'
    <2>1. \A q \in Request : pc[q] = "recorded" => start'[q] = start[q]
      BY <1>5 DEF Undecided
    <2>2. QED
      BY <1>6, <2>1 DEF OneSuccessPerWindow, CooledDown
  <1>15. TokenIsKnown'
    <2>1. ASSUME NEW q \in Request, NEW f \in Fingerprint, row'[f].token = q
          PROVE  fp'[q] = f /\ pc'[q] # "idle"
      <3>1. CASE f = fp[d]
        BY <1>3, <1>5, <2>1, <3>1 DEF Undecided
      <3>2. CASE f # fp[d]
        <4>1. q # None
          BY NoneAssumption
        <4>2. row[f].token = q
          BY <1>2, <1>3, <2>1, <3>2, <4>1
        <4>3. QED
          BY <1>5, <4>2 DEF TokenIsKnown, Undecided
      <3>3. QED
        BY <3>1, <3>2
    <2>2. QED
      BY <2>1 DEF TokenIsKnown
  <1>16. QED
    BY <1>7, <1>8, <1>9, <1>10, <1>11, <1>12, <1>13, <1>14, <1>15

(* A request that reserves nothing: the rows are pruned at most, and it     *)
(* leaves the gate or stays in front of it.                                *)
LEMMA UnreservedKeeps ==
  ASSUME IInv, NEW d \in Request,
         row' \in [Fingerprint -> RowType],
         \/ \A f \in Fingerprint : row'[f] = row[f]
         \/ \A f \in Fingerprint :
              /\ row'[f].last = Pruned[f].last
              /\ row'[f].until = Pruned[f].until
              /\ row'[f].token = Pruned[f].token,
         pc' \in [Request -> Place], ended' \in [Request -> Nat], faults' \in Nat,
         \A q \in Request : q # d => pc'[q] = pc[q] /\ ended'[q] = ended[q],
         pc[d] \notin {"recorded", "suppressed"},
         pc'[d] \notin {"idle", "recorded", "sending"},
         pc'[d] = "succeeded" => pc[d] = "sending",
         Undecided(d)' => Undecided(d),
         pc'[d] \notin {"idle", "unguarded", "over"} =>
           pc[d] \notin {"idle", "unguarded", "over"},
         pc'[d] = "suppressed" =>
           \E e \in Request :
             /\ pc[e] = "recorded"
             /\ fp[e] = fp[d]
             /\ ended[e] \in (ended'[d] - window[d])..ended'[d],
         UNCHANGED <<fp, window, start, clock>>
  PROVE  IInv'
  <1> USE DEF IInv
  <1>1. \A f \in Fingerprint :
          /\ \/ row'[f].last = row[f].last
             \/ row'[f].last = 0 /\ row[f].last < clock - Retention
          /\ row'[f].token \in {row[f].token, None}
          /\ row[f].until > clock =>
               row'[f].until = row[f].until /\ row'[f].token = row[f].token
    BY PrunedRows
  <1>2. /\ \A q \in Request : pc'[q] = "recorded" <=> pc[q] = "recorded"
        /\ \A q \in Request : pc[q] = "recorded" => ended'[q] = ended[q]
    OBVIOUS
  <1>3. TypeOK'
    BY DEF TypeOK
  <1>4. Arrived'
    BY DEF Arrived
  <1>5. LastIsReal'
    <2>1. ASSUME NEW f \in Fingerprint
          PROVE  /\ row'[f].last <= clock'
                 /\ row'[f].last # 0 =>
                      \E e \in Request :
                        pc'[e] = "recorded" /\ fp'[e] = f /\ ended'[e] = row'[f].last
      <3>1. CASE row'[f].last = 0
        BY <3>1 DEF TypeOK
      <3>2. CASE row'[f].last = row[f].last
        BY <1>2, <3>2 DEF LastIsReal
      <3>3. QED
        BY <1>1, <3>1, <3>2
    <2>2. QED
      BY <2>1 DEF LastIsReal
  <1>6. SenderHolds'
    <2>1. ASSUME NEW q \in Request, pc'[q] = "sending"
          PROVE  /\ row'[fp'[q]].token = q
                 /\ clock' <= start'[q] + SendBound
                 /\ start'[q] + SendBound < row'[fp'[q]].until
      <3>1. pc[q] = "sending"
        BY <2>1
      <3>2. /\ fp[q] \in Fingerprint /\ start[q] \in Nat /\ clock \in Nat
            /\ row[fp[q]].until \in Nat /\ SendBound \in Nat
        BY <3>1, ReservationAssumption DEF Arrived, TypeOK, RowType
      <3>3. /\ row[fp[q]].token = q
            /\ clock <= start[q] + SendBound
            /\ start[q] + SendBound < row[fp[q]].until
        BY <3>1 DEF SenderHolds
      <3>4. row[fp[q]].until > clock
        BY <3>2, <3>3
      <3>5. QED
        BY <1>1, <3>2, <3>3, <3>4
    <2>2. QED
      BY <2>1 DEF SenderHolds
  <1>7. RecordKept'
    <2>1. ASSUME NEW e \in Request, pc'[e] = "recorded"
          PROVE  /\ ended'[e] # 0
                 /\ ended'[e] <= row'[fp'[e]].last \/ ended'[e] < clock' - Retention
      <3>1. pc[e] = "recorded" /\ ended'[e] = ended[e]
        BY <1>2, <2>1
      <3>2. /\ fp[e] \in Fingerprint /\ ended[e] \in Nat /\ row[fp[e]].last \in Nat
            /\ Retention \in Nat /\ clock \in Nat
        BY <3>1, WindowAssumption DEF Arrived, TypeOK, RowType
      <3>3. /\ ended[e] # 0
            /\ ended[e] <= row[fp[e]].last \/ ended[e] < clock - Retention
        BY <3>1 DEF RecordKept
      <3>4. \/ row'[fp[e]].last = row[fp[e]].last
            \/ row[fp[e]].last < clock - Retention
        BY <1>1, <3>2
      <3>5. QED
        BY <3>1, <3>2, <3>3, <3>4
    <2>2. QED
      BY <2>1 DEF RecordKept
  <1>8. HolderCooled'
    <2>1. ASSUME NEW q \in Request, NEW e \in Request,
                 pc'[e] = "recorded", fp'[q] = fp'[e], fp'[q] \in Fingerprint,
                 row'[fp'[q]].token = q
          PROVE  /\ pc'[q] \in {"sending", "succeeded"} => ended'[e] + window'[q] < start'[q]
                 /\ Undecided(q)' => ended'[e] + window'[q] < clock'
      <3>1. pc[e] = "recorded" /\ ended'[e] = ended[e]
        BY <1>2, <2>1
      <3>2. q # None
        BY NoneAssumption
      <3>3. row[fp[q]].token = q
        BY <1>1, <2>1, <3>2
      <3>4. /\ pc'[q] \in {"sending", "succeeded"} => pc[q] \in {"sending", "succeeded"}
            /\ Undecided(q)' => Undecided(q)
        BY DEF Undecided
      <3>5. QED
        BY <2>1, <3>1, <3>3, <3>4 DEF HolderCooled, CooledDown
    <2>2. QED
      BY <2>1 DEF HolderCooled, CooledDown
  <1>9. SuppressedWasHeard'
    <2>1. ASSUME NEW q \in Request, pc'[q] = "suppressed"
          PROVE  \E e \in Request :
                   /\ pc'[e] = "recorded"
                   /\ fp'[e] = fp'[q]
                   /\ ended'[e] \in (ended'[q] - window'[q])..ended'[q]
      <3>1. CASE q = d
        BY <1>2, <2>1, <3>1
      <3>2. CASE q # d
        BY <1>2, <2>1, <3>2 DEF SuppressedWasHeard
      <3>3. QED
        BY <3>1, <3>2
    <2>2. QED
      BY <2>1 DEF SuppressedWasHeard
  <1>10. OneSuccessPerWindow'
    BY <1>2 DEF OneSuccessPerWindow, CooledDown
  <1>11. TokenIsKnown'
    <2>1. \A q \in Request, f \in Fingerprint :
            row'[f].token = q => row[f].token = q
      BY <1>1, NoneAssumption
    <2>2. QED
      BY <2>1 DEF TokenIsKnown
  <1>12. QED
    BY <1>3, <1>4, <1>5, <1>6, <1>7, <1>8, <1>9, <1>10, <1>11

(* The outcome of the holder of a token.                                   *)
LEMMA CompleteKeeps ==
  ASSUME IInv, NEW d \in Request, Complete(d), Holds(d)
  PROVE  IInv'
  <1> USE DEF IInv
  <1>1. /\ fp[d] \in Fingerprint /\ d # None /\ row[fp[d]].token = d
        /\ clock \in Nat /\ clock # 0 /\ pc[d] \in {"succeeded", "failed"}
    BY NoneAssumption DEF Complete, Holds, Arrived, TypeOK
  <1>2. /\ row' = [row EXCEPT ![fp[d]] =
             [last |-> Last(d), suppressed |-> row[fp[d]].suppressed,
              until |-> 0, token |-> None]]
        /\ UNCHANGED <<fp, window, start, clock, faults>>
    BY DEF Complete
  <1>3. /\ \A q \in Request : q # d => pc'[q] = pc[q] /\ ended'[q] = ended[q]
        /\ pc' \in [Request -> Place] /\ ended' \in [Request -> Nat]
        /\ pc'[d] \in {"recorded", "over"}
        /\ pc'[d] = "recorded" =>
             pc[d] = "succeeded" /\ ended'[d] = clock /\ Last(d) = clock
        /\ pc'[d] = "over" => Last(d) = row[fp[d]].last
    BY <1>1 DEF Complete, Goto, Last, TypeOK, Place
  <1>4. /\ Last(d) \in Nat /\ Last(d) <= clock /\ row[fp[d]].last <= Last(d)
        /\ row[fp[d]].last \in Nat
    BY <1>1 DEF Last, LastIsReal, TypeOK, RowType
  <1>5. /\ row' \in [Fingerprint -> RowType]
        /\ \A f \in Fingerprint : f # fp[d] => row'[f] = row[f]
        /\ row'[fp[d]].last = Last(d) /\ row'[fp[d]].token = None
    <2>1. [last |-> Last(d), suppressed |-> row[fp[d]].suppressed,
           until |-> 0, token |-> None] \in RowType
      BY <1>1, <1>4 DEF RowType, TypeOK
    <2>2. QED
      BY <1>1, <1>2, <2>1 DEF TypeOK
  <1>6. \A q \in Request :
          pc[q] = "recorded" => pc'[q] = "recorded" /\ ended'[q] = ended[q]
    BY <1>1, <1>3
  <1>7. TypeOK'
    BY <1>2, <1>3, <1>5 DEF TypeOK
  <1>8. Arrived'
    BY <1>1, <1>2, <1>3 DEF Arrived
  <1>9. LastIsReal'
    <2>1. ASSUME NEW f \in Fingerprint
          PROVE  /\ row'[f].last <= clock'
                 /\ row'[f].last # 0 =>
                      \E e \in Request :
                        pc'[e] = "recorded" /\ fp'[e] = f /\ ended'[e] = row'[f].last
      <3>1. CASE f = fp[d] /\ pc'[d] = "recorded"
        BY <1>2, <1>3, <1>4, <1>5, <3>1
      <3>2. CASE row'[f].last = row[f].last
        BY <1>2, <1>6, <3>2 DEF LastIsReal
      <3>3. QED
        BY <1>3, <1>5, <3>1, <3>2
    <2>2. QED
      BY <2>1 DEF LastIsReal
  <1>10. SenderHolds'
    <2>1. \A q \in Request : pc'[q] = "sending" => pc[q] = "sending" /\ q # d
      BY <1>3
    <2>2. \A q \in Request : pc[q] = "sending" => fp[q] \in Fingerprint
      BY DEF Arrived
    <2>3. QED
      BY <1>1, <1>2, <1>5, <2>1, <2>2 DEF SenderHolds
  <1>11. RecordKept'
    <2>1. ASSUME NEW e \in Request, pc'[e] = "recorded"
          PROVE  /\ ended'[e] # 0
                 /\ ended'[e] <= row'[fp'[e]].last \/ ended'[e] < clock' - Retention
      <3>1. CASE e = d
        BY <1>1, <1>2, <1>3, <1>5, <2>1, <3>1
      <3>2. CASE e # d
        <4>1. pc[e] = "recorded" /\ ended'[e] = ended[e]
          BY <1>3, <2>1, <3>2
        <4>2. fp[e] \in Fingerprint /\ ended[e] \in Nat /\ row[fp[e]].last \in Nat
          BY <4>1 DEF Arrived, TypeOK, RowType
        <4>3. /\ row'[fp[e]].last \in Nat /\ row[fp[e]].last <= row'[fp[e]].last
          BY <1>4, <1>5, <4>2
        <4>4. /\ ended[e] # 0
              /\ ended[e] <= row[fp[e]].last \/ ended[e] < clock - Retention
          BY <4>1 DEF RecordKept
        <4>5. QED
          BY <1>2, <4>1, <4>2, <4>3, <4>4
      <3>3. QED
        BY <3>1, <3>2
    <2>2. QED
      BY <2>1 DEF RecordKept
  <1>12. HolderCooled'
    <2>1. ASSUME NEW q \in Request, NEW e \in Request,
                 pc'[e] = "recorded", fp'[q] = fp'[e], fp'[q] \in Fingerprint,
                 row'[fp'[q]].token = q
          PROVE  /\ pc'[q] \in {"sending", "succeeded"} => ended'[e] + window'[q] < start'[q]
                 /\ Undecided(q)' => ended'[e] + window'[q] < clock'
      <3>1. fp[q] # fp[d] /\ q # None
        BY <1>2, <1>5, <2>1, NoneAssumption
      <3>2. e # d /\ q # d
        BY <1>2, <2>1, <3>1
      <3>3. pc[e] = "recorded" /\ ended'[e] = ended[e] /\ pc'[q] = pc[q]
        BY <1>3, <2>1, <3>2
      <3>4. row[fp[q]].token = q
        BY <1>2, <1>5, <2>1, <3>1
      <3>5. QED
        BY <1>2, <2>1, <3>3, <3>4 DEF HolderCooled, CooledDown, Undecided
    <2>2. QED
      BY <2>1 DEF HolderCooled, CooledDown
  <1>13. SuppressedWasHeard'
    <2>1. \A q \in Request :
            pc'[q] = "suppressed" => pc[q] = "suppressed" /\ ended'[q] = ended[q]
      BY <1>3
    <2>2. QED
      BY <1>2, <1>6, <2>1 DEF SuppressedWasHeard
  <1>14. OneSuccessPerWindow'
    <2>1. \A e \in Request :
            pc'[d] = "recorded" /\ pc[e] = "recorded" /\ fp[d] = fp[e]
              => CooledDown(d, e)
      BY <1>1, <1>3 DEF HolderCooled
    <2>2. \A e \in Request :
            pc'[e] = "recorded" /\ e # d => pc[e] = "recorded" /\ ended'[e] = ended[e]
      BY <1>3
    <2>3. QED
      BY <1>2, <2>1, <2>2 DEF OneSuccessPerWindow, CooledDown
  <1>15. TokenIsKnown'
    <2>1. \A q \in Request, f \in Fingerprint :
            row'[f].token = q => row[f].token = q
      BY <1>5, NoneAssumption
    <2>2. QED
      BY <1>2, <1>3, <2>1 DEF TokenIsKnown
  <1>16. QED
    BY <1>7, <1>8, <1>9, <1>10, <1>11, <1>12, <1>13, <1>14, <1>15

LEMMA ArriveKeeps ==
  ASSUME IInv, NEW d \in Request, NEW f \in Fingerprint, NEW w \in Window,
         Arrive(d, f, w)
  PROVE  IInv'
  <1> USE DEF IInv
  <1>1. /\ pc[d] = "idle" /\ w \in Nat
        /\ pc' = [pc EXCEPT ![d] = "asking"]
        /\ fp' = [fp EXCEPT ![d] = f]
        /\ window' = [window EXCEPT ![d] = w]
        /\ UNCHANGED <<row, start, ended, clock, faults>>
    BY WindowAssumption DEF Arrive, Goto
  <1>2. TypeOK'
    BY <1>1 DEF TypeOK, Place
  <1>3. /\ \A q \in Request : q # d =>
              pc'[q] = pc[q] /\ fp'[q] = fp[q] /\ window'[q] = window[q]
        /\ pc'[d] = "asking" /\ fp'[d] = f /\ window'[d] = w
    BY <1>1 DEF TypeOK
  <1>4. Arrived'
    BY <1>3 DEF Arrived
  <1>5. LastIsReal' /\ SenderHolds' /\ RecordKept'
    BY <1>1, <1>3 DEF LastIsReal, SenderHolds, RecordKept
  <1>6. \A g \in Fingerprint : row[g].token # d
    BY <1>1 DEF TokenIsKnown
  <1>7. HolderCooled'
    BY <1>1, <1>3, <1>6 DEF HolderCooled, CooledDown, Undecided
  <1>8. TokenIsKnown'
    BY <1>1, <1>3, <1>6 DEF TokenIsKnown
  <1>9. SuppressedWasHeard' /\ OneSuccessPerWindow'
    BY <1>1, <1>3 DEF SuppressedWasHeard, OneSuccessPerWindow, CooledDown
  <1>10. QED
    BY <1>2, <1>4, <1>5, <1>7, <1>8, <1>9

LEMMA TickKeeps ==
  ASSUME IInv, Tick
  PROVE  IInv'
  <1> USE DEF IInv
  <1>1. /\ clock \in Nat /\ clock' = clock + 1
        /\ UNCHANGED <<row, pc, fp, window, start, ended, faults>>
    BY DEF Tick, TypeOK
  <1>2. TypeOK' /\ Arrived' /\ TokenIsKnown'
    BY <1>1 DEF TypeOK, Arrived, TokenIsKnown
  <1>3. LastIsReal'
    <2>1. \A f \in Fingerprint : row[f].last \in Nat
      BY DEF TypeOK, RowType
    <2>2. QED
      BY <1>1, <2>1 DEF LastIsReal
  <1>4. SenderHolds'
    <2>1. \A q \in Request : start[q] \in Nat /\ SendBound \in Nat
      BY ReservationAssumption DEF TypeOK
    <2>2. QED
      BY <1>1, <2>1 DEF SenderHolds, Tick
  <1>5. RecordKept'
    <2>1. \A q \in Request : ended[q] \in Nat /\ Retention \in Nat
      BY WindowAssumption DEF TypeOK
    <2>2. QED
      BY <1>1, <2>1 DEF RecordKept
  <1>6. HolderCooled'
    <2>1. \A q \in Request : ended[q] \in Nat /\ window[q] \in Nat
      BY DEF TypeOK
    <2>2. QED
      BY <1>1, <2>1 DEF HolderCooled, CooledDown, Undecided
  <1>7. SuppressedWasHeard' /\ OneSuccessPerWindow'
    BY <1>1 DEF SuppressedWasHeard, OneSuccessPerWindow, CooledDown
  <1>8. QED
    BY <1>2, <1>3, <1>4, <1>5, <1>6, <1>7

(* The decisions of the gate.                                              *)
LEMMA DecideKeeps ==
  ASSUME IInv, NEW d \in Request, Decide(d)
  PROVE  IInv'
  <1> USE DEF IInv
  <1>1. Undecided(d) /\ pc[d] \in {"asking", "waiting"}
    BY DEF Decide, Suppress, WaitForDelivery, Reserve, ReserveReplyLost, Renew,
           FailOpen, Undecided
  <1>2. /\ fp[d] \in Fingerprint /\ window[d] \in Nat /\ clock \in Nat
        /\ pc \in [Request -> Place] /\ ended \in [Request -> Nat] /\ faults \in Nat
        /\ row \in [Fingerprint -> RowType] /\ Pruned \in [Fingerprint -> RowType]
    BY <1>1, PrunedRows, WindowAssumption DEF Arrived, TypeOK
  <1>3. CASE Suppress(d)
    <2>1. /\ row' = [Pruned EXCEPT ![fp[d]] =
               [last |-> Found(d).last, suppressed |-> clock,
                until |-> Found(d).until, token |-> Found(d).token]]
          /\ pc' = [pc EXCEPT ![d] = "suppressed"]
          /\ ended' = [ended EXCEPT ![d] = clock]
          /\ UNCHANGED <<fp, window, start, clock, faults>>
      BY <1>3 DEF Suppress, Goto
    <2>2. row' \in [Fingerprint -> RowType]
      <3>1. [last |-> Found(d).last, suppressed |-> clock,
             until |-> Found(d).until, token |-> Found(d).token] \in RowType
        BY <1>2 DEF Found, RowType
      <3>2. QED
        BY <1>2, <2>1, <3>1
    <2>3. \A f \in Fingerprint :
            /\ row'[f].last = Pruned[f].last
            /\ row'[f].until = Pruned[f].until
            /\ row'[f].token = Pruned[f].token
      BY <1>2, <2>1 DEF Found
    <2>4. \E e \in Request :
            /\ pc[e] = "recorded"
            /\ fp[e] = fp[d]
            /\ ended[e] \in (clock - window[d])..clock
      <3>1. Found(d).last # 0 /\ Found(d).last >= clock - window[d]
        BY <1>3 DEF Suppress, Recent
      <3>2. row[fp[d]].last = Found(d).last
        BY <1>2, <3>1, PrunedRows DEF Found
      <3>3. PICK e \in Request :
              pc[e] = "recorded" /\ fp[e] = fp[d] /\ ended[e] = row[fp[d]].last
        BY <1>2, <3>1, <3>2 DEF LastIsReal
      <3>4. ended[e] \in Nat /\ ended[e] <= clock /\ ended[e] >= clock - window[d]
        BY <1>2, <3>1, <3>2, <3>3 DEF LastIsReal
      <3>5. QED
        BY <1>2, <3>3, <3>4
    <2>5. /\ \A q \in Request : q # d => pc'[q] = pc[q] /\ ended'[q] = ended[q]
          /\ pc'[d] = "suppressed" /\ ended'[d] = clock /\ faults' \in Nat
          /\ pc' \in [Request -> Place] /\ ended' \in [Request -> Nat]
          /\ ~Undecided(d)'
      BY <1>2, <2>1 DEF Place, Undecided
    <2>6. QED
      BY <1>1, <2>1, <2>2, <2>3, <2>4, <2>5, UnreservedKeeps
  <1>4. CASE WaitForDelivery(d)
    <2>1. /\ row' = Pruned
          /\ pc' = [pc EXCEPT ![d] = "waiting"]
          /\ UNCHANGED <<fp, window, start, ended, clock, faults>>
      BY <1>4 DEF WaitForDelivery, Goto
    <2>2. /\ \A q \in Request : q # d => pc'[q] = pc[q] /\ ended'[q] = ended[q]
          /\ pc'[d] = "waiting" /\ faults' \in Nat
          /\ pc' \in [Request -> Place] /\ ended' \in [Request -> Nat]
      BY <1>2, <2>1 DEF Place
    <2>3. QED
      BY <1>1, <1>2, <2>1, <2>2, UnreservedKeeps
  <1>5. CASE Reserve(d) \/ ReserveReplyLost(d)
    <2>1. /\ Free(d) /\ Reservation(d) /\ faults' \in Nat
          /\ UNCHANGED <<fp, window, ended, clock>>
          /\ Sends(d) \/ UNCHANGED <<pc, start>>
      BY <1>2, <1>5 DEF Reserve, ReserveReplyLost, Fault
    <2>2. \A e \in Request :
            pc[e] = "recorded" /\ fp[e] = fp[d] => ended[e] + window[d] < clock
      BY <1>1, <2>1, FreeIsCool
    <2>3. \A e \in Request : pc[e] = "sending" => fp[e] # fp[d]
      BY <1>1, <2>1, NoOtherSender
    <2>4. QED
      BY <1>1, <2>1, <2>2, <2>3, ReservationKeeps
  <1>6. CASE Renew(d)
    <2>1. /\ Found(d).token = d /\ Reservation(d) /\ faults' \in Nat
          /\ UNCHANGED <<fp, window, ended, clock>> /\ Sends(d)
      BY <1>2, <1>6 DEF Renew
    <2>2. row[fp[d]].token = d
      BY <1>2, <2>1, PrunedRows, NoneAssumption DEF Found
    <2>3. \A e \in Request :
            pc[e] = "recorded" /\ fp[e] = fp[d] => ended[e] + window[d] < clock
      BY <1>1, <1>2, <2>2 DEF HolderCooled
    <2>4. \A e \in Request : pc[e] = "sending" => fp[e] # fp[d]
      BY <1>1, <2>1, NoOtherSender
    <2>5. QED
      BY <1>1, <2>1, <2>3, <2>4, ReservationKeeps
  <1>7. CASE FailOpen(d)
    <2>1. /\ pc' = [pc EXCEPT ![d] = "unguarded"]
          /\ UNCHANGED <<row, fp, window, start, ended, clock>> /\ faults' \in Nat
      BY <1>2, <1>7 DEF FailOpen, Goto, Fault
    <2>2. /\ \A q \in Request : q # d => pc'[q] = pc[q] /\ ended'[q] = ended[q]
          /\ pc'[d] = "unguarded" /\ ~Undecided(d)'
          /\ pc' \in [Request -> Place] /\ ended' \in [Request -> Nat]
          /\ row' \in [Fingerprint -> RowType]
      BY <1>2, <2>1 DEF Place, Undecided
    <2>3. QED
      BY <1>1, <2>1, <2>2, UnreservedKeeps
  <1>8. QED
    BY <1>3, <1>4, <1>5, <1>6, <1>7 DEF Decide

(* Steps that leave the rows alone and move d to a place off the record.   *)
LEMMA MoveKeeps ==
  ASSUME IInv, NEW d \in Request, NEW place \in {"succeeded", "failed", "over", "unguarded"},
         Goto(d, place), pc[d] \notin {"recorded", "suppressed"},
         place = "succeeded" => pc[d] = "sending",
         place = "failed" => pc[d] = "sending",
         UNCHANGED <<row, fp, window, start, ended, clock>>, faults' \in Nat
  PROVE  IInv'
  <1> USE DEF IInv
  <1>1. /\ \A q \in Request : q # d => pc'[q] = pc[q] /\ ended'[q] = ended[q]
        /\ pc'[d] = place /\ ~Undecided(d)'
        /\ pc' \in [Request -> Place] /\ ended' \in [Request -> Nat]
        /\ row' \in [Fingerprint -> RowType]
    BY DEF Goto, Place, TypeOK, Undecided
  <1>2. QED
    BY <1>1, UnreservedKeeps

LEMMA DeliverKeeps ==
  ASSUME IInv, NEW d \in Request, Deliver(d)
  PROVE  IInv'
  <1> USE DEF IInv
  <1>1. CASE \E ok \in BOOLEAN : Answered(d, ok)
    <2>1. PICK ok \in BOOLEAN : Answered(d, ok)
      BY <1>1
    <2>2. CASE ok
      <3>1. Goto(d, "succeeded") /\ pc[d] = "sending" /\ faults' \in Nat
            /\ UNCHANGED <<row, fp, window, start, ended, clock>>
        BY <2>1, <2>2 DEF Answered, TypeOK
      <3>2. QED
        BY <3>1, MoveKeeps
    <2>3. CASE ~ok
      <3>1. Goto(d, "failed") /\ pc[d] = "sending" /\ faults' \in Nat
            /\ UNCHANGED <<row, fp, window, start, ended, clock>>
        BY <2>1, <2>3 DEF Answered, TypeOK
      <3>2. QED
        BY <3>1, MoveKeeps
    <2>4. QED
      BY <2>2, <2>3
  <1>2. CASE Complete(d) /\ Holds(d)
    BY <1>2, CompleteKeeps
  <1>3. CASE Complete(d) /\ ~Holds(d)
    <2>1. /\ Goto(d, "over") /\ pc[d] \in {"succeeded", "failed"} /\ faults' \in Nat
          /\ UNCHANGED <<row, fp, window, start, ended, clock>>
      BY <1>3 DEF Complete, TypeOK
    <2>2. QED
      BY <2>1, MoveKeeps
  <1>4. CASE CompleteFails(d)
    <2>1. /\ Goto(d, "over") /\ pc[d] \in {"succeeded", "failed"} /\ faults' \in Nat
          /\ UNCHANGED <<row, fp, window, start, ended, clock>>
      BY <1>4 DEF CompleteFails, Fault, TypeOK
    <2>2. QED
      BY <2>1, MoveKeeps
  <1>5. QED
    BY <1>1, <1>2, <1>3, <1>4 DEF Deliver

LEMMA LeaveKeeps ==
  ASSUME IInv, NEW d \in Request, Bypass(d) \/ Abandon(d)
  PROVE  IInv'
  <1> USE DEF IInv
  <1>1. CASE Bypass(d)
    <2>1. /\ Goto(d, "unguarded") /\ pc[d] = "idle" /\ faults' \in Nat
          /\ UNCHANGED <<row, fp, window, start, ended, clock>>
      BY <1>1 DEF Bypass, TypeOK
    <2>2. QED
      BY <2>1, MoveKeeps
  <1>2. CASE Abandon(d)
    <2>1. /\ Goto(d, "over") /\ faults' \in Nat
          /\ pc[d] \in {"asking", "waiting", "sending", "succeeded", "failed"}
          /\ UNCHANGED <<row, fp, window, start, ended, clock>>
      BY <1>2 DEF Abandon, Fault, TypeOK
    <2>2. QED
      BY <2>1, MoveKeeps
  <1>3. QED
    BY <1>1, <1>2

LEMMA InitHolds == Init => IInv
  <1> SUFFICES ASSUME Init PROVE IInv
    OBVIOUS
  <1>1. NoRow \in RowType
    BY DEF NoRow, RowType
  <1>2. TypeOK
    BY <1>1 DEF Init, TypeOK, Place
  <1>3. /\ \A f \in Fingerprint : row[f].last = 0 /\ row[f].token = None
        /\ \A d \in Request : pc[d] = "idle"
        /\ clock = 1
    BY DEF Init, NoRow
  <1>4. Arrived /\ LastIsReal /\ SenderHolds /\ RecordKept
    BY <1>3 DEF Arrived, LastIsReal, SenderHolds, RecordKept
  <1>5. TokenIsKnown
    BY <1>3, NoneAssumption DEF TokenIsKnown
  <1>6. HolderCooled /\ SuppressedWasHeard /\ OneSuccessPerWindow
    BY <1>3 DEF HolderCooled, SuppressedWasHeard, OneSuccessPerWindow
  <1>7. QED
    BY <1>2, <1>4, <1>5, <1>6 DEF IInv

LEMMA NextKeeps == IInv /\ [Next]_vars => IInv'
  <1> SUFFICES ASSUME IInv, [Next]_vars PROVE IInv'
    OBVIOUS
  <1>1. CASE \E d \in Request, f \in Fingerprint, w \in Window : Arrive(d, f, w)
    BY <1>1, ArriveKeeps
  <1>2. CASE \E d \in Request : Bypass(d) \/ Decide(d) \/ Deliver(d) \/ Abandon(d)
    BY <1>2, LeaveKeeps, DecideKeeps, DeliverKeeps
  <1>3. CASE Tick
    BY <1>3, TickKeeps
  <1>4. CASE UNCHANGED vars
    BY <1>4 DEF vars, IInv, TypeOK, Arrived, LastIsReal, TokenIsKnown,
                SenderHolds, RecordKept, HolderCooled, SuppressedWasHeard,
                OneSuccessPerWindow, CooledDown, Undecided
  <1>5. QED
    BY <1>1, <1>2, <1>3, <1>4 DEF Next

(* The inductive invariant of the gate: what a row says about the last      *)
(* delivery and the current one is true.                                   *)
THEOREM Invariant == Spec => []IInv
  BY InitHolds, NextKeeps, PTL DEF Spec

(* Every variable of the gate keeps its type.                              *)
THEOREM TypeCorrect == Spec => []TypeOK
  <1>1. IInv => TypeOK
    BY DEF IInv
  <1>2. QED
    BY <1>1, Invariant, PTL

(* Two requests never send one notification under a reservation at the     *)
(* same time: both would hold the token of the row.                        *)
THEOREM SendersExclusive == Spec => []OneReservedSender
  <1>1. IInv => OneReservedSender
    BY DEF IInv, SenderHolds, OneReservedSender
  <1>2. QED
    BY <1>1, Invariant, PTL

(* A suppressed request repeats a delivery somebody received inside its     *)
(* window: every row that suppresses was written by a delivery that some    *)
(* channel took.                                                            *)
THEOREM SuppressionJustified == Spec => []SuppressedWasHeard
  <1>1. IInv => SuppressedWasHeard
    BY DEF IInv
  <1>2. QED
    BY <1>1, Invariant, PTL

(* No delivery on record repeats another inside its own window.             *)
THEOREM RepeatsSpaced == Spec => []OneSuccessPerWindow
  <1>1. IInv => OneSuccessPerWindow
    BY DEF IInv
  <1>2. QED
    BY <1>1, Invariant, PTL
=============================================================================
