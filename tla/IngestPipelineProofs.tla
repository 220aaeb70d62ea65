------------------------ MODULE IngestPipelineProofs ------------------------
(* The safety properties of IngestPipeline hold for any requests, alerts,   *)
(* rules and restarts.                                                      *)
EXTENDS IngestPipeline, TLAPS

(* How one step may move request q.                                         *)
Moves(q) ==
  \/ pc'[q] = pc[q]
  \/ pc[q] = "idle" /\ pc'[q] = "arrived"
  \/ pc[q] = "arrived" /\ alert[q] # None /\ pc'[q] \in {"suppressed", "passed"}
  \/ pc[q] = "arrived" /\ rule[q] # None /\ pc'[q] = "armed"
  \/ pc[q] = "armed" /\ pc'[q] = "reconciling"
  \/ pc[q] = "armed" /\ q \in failed' /\ pc'[q] = "sending"
  \/ pc[q] = "reconciling" /\ listed[q] = {} /\ judged[q] = None /\ pc'[q] = "sending"
  \/ pc[q] = "passed" /\ hold[q] = "defer" /\ pc'[q] = "sleeping"
  \/ pc[q] = "passed" /\ hold[q] = "buffer" /\ firing[q] /\ pc'[q] = "buffered"
  \/ pc[q] = "passed" /\ pc'[q] = "cleared"
  \/ pc[q] = "sleeping" /\ pc'[q] \in {"cleared", "dropped"}
  \/ pc[q] = "buffered" /\ pc'[q] \in {"cleared", "grouped"}
  \/ pc[q] = "cleared" /\ pc'[q] \in {"sending", "coalesced"}
  \/ pc[q] = "sending" /\ pc'[q] = "done"
  \/ pc[q] \notin Ended \cup {"idle", "buffered"} /\ pc'[q] = "lost"

(* What a request is about is settled when it arrives.                      *)
Keeps(q) ==
  /\ alert'[q] = alert[q]
  /\ rule'[q] = rule[q]
  /\ firing'[q] = firing[q]
  /\ hold'[q] = hold[q]
  /\ before'[q] = before[q]

(* The arrival of q, of either kind.                                        *)
Arrives(q) ==
  /\ pc[q] = "idle" /\ pc'[q] = "arrived"
  /\ alert'[q] = alert[q] \/ rule'[q] = rule[q]
  /\ before'[q] \subseteq answered

LEMMA InitInvariant == Init => IInv
  <1>1. SUFFICES ASSUME Init PROVE IInv
    OBVIOUS
  <1>2. TypeOK
    <2>1. << >> \in Seq(Request)
      OBVIOUS
    <2>2. QED
      BY <1>1, <2>1 DEF Init, TypeOK, Place
  <1>3. Kinds /\ HeldPlaces /\ QueueIsBuffered /\ PendingSleeps /\ SleepingIsPending
          /\ DeferralHonoured
    BY <1>1 DEF Init, Kinds, HeldPlaces, QueueIsBuffered, PendingSleeps,
       SleepingIsPending, DeferralHonoured
  <1>4. Openers /\ AnsweredIsOver /\ BeforeIsAnswered /\ RecoveryClosesUnheld
    BY <1>1 DEF Init, Openers, AnsweredIsOver, BeforeIsAnswered,
       RecoveryClosesUnheld, Recovered
  <1>5. SteadyIsArmed /\ JudgedIsReconciling /\ ReconcilingIsListed /\ InhibitionCloses
    BY <1>1 DEF Init, SteadyIsArmed, JudgedIsReconciling, ReconcilingIsListed,
       InhibitionCloses
  <1>6. QED
    BY <1>2, <1>3, <1>4, <1>5 DEF IInv

-----------------------------------------------------------------------------
(* Steps in general.                                                        *)

LEMMA GotoMoves ==
  ASSUME TypeOK, NEW r \in Request, NEW place \in Place, Goto(r, place)
  PROVE  /\ pc' \in [Request -> Place]
         /\ pc'[r] = place
         /\ \A q \in Request \ {r} : pc'[q] = pc[q]
  BY DEF TypeOK, Goto

(* Every step of a handler moves its own request only, and changes nothing  *)
(* that was settled at an arrival.                                          *)
LEMMA HandleMoves ==
  ASSUME TypeOK, NEW r \in Request, Handle(r)
  PROVE  /\ pc' \in [Request -> Place]
         /\ Moves(r)
         /\ \A q \in Request \ {r} : pc'[q] = pc[q]
         /\ UNCHANGED <<alert, rule, firing, hold, before, silenced, restarts>>
         /\ answered' \in {answered, answered \cup {r}}
         /\ answered' = answered \/ pc'[r] \notin {"arrived", "passed", "cleared"}
  <1>1. pc \in [Request -> Place]
    BY DEF TypeOK
  <1>2. CASE Suppress(r)
    <2>1. pc' \in [Request -> Place] /\ pc'[r] = "suppressed"
            /\ \A q \in Request \ {r} : pc'[q] = pc[q]
      BY <1>2, GotoMoves DEF Suppress, Place
    <2>2. QED
      BY <1>2, <2>1 DEF Suppress, Answer, Moves
  <1>3. CASE Pass(r)
    <2>1. pc' \in [Request -> Place] /\ pc'[r] = "passed"
            /\ \A q \in Request \ {r} : pc'[q] = pc[q]
      BY <1>3, GotoMoves DEF Pass, Place
    <2>2. QED
      BY <1>3, <2>1 DEF Pass, Moves
  <1>4. CASE Arm(r)
    <2>1. pc' \in [Request -> Place] /\ pc'[r] = "armed"
            /\ \A q \in Request \ {r} : pc'[q] = pc[q]
      BY <1>4, GotoMoves DEF Arm, Place
    <2>2. QED
      BY <1>4, <2>1 DEF Arm, Moves
  <1>5. CASE ListReceipts(r)
    <2>1. pc' \in [Request -> Place] /\ pc'[r] = "reconciling"
            /\ \A q \in Request \ {r} : pc'[q] = pc[q]
      BY <1>5, GotoMoves DEF ListReceipts, Place
    <2>2. QED
      BY <1>5, <2>1 DEF ListReceipts, Moves
  <1>6. CASE (\E x \in listed[r] : Judge(r, x)) \/ Terminalize(r)
    BY <1>1, <1>6 DEF Judge, Terminalize, Moves
  <1>7. CASE ReconcileDone(r)
    <2>1. pc' \in [Request -> Place] /\ pc'[r] = "sending"
            /\ \A q \in Request \ {r} : pc'[q] = pc[q]
      BY <1>7, GotoMoves DEF ReconcileDone, Place
    <2>2. QED
      BY <1>7, <2>1 DEF ReconcileDone, Moves
  <1>8. CASE Defer(r)
    <2>1. pc' \in [Request -> Place] /\ pc'[r] = "sleeping"
            /\ \A q \in Request \ {r} : pc'[q] = pc[q]
      BY <1>8, GotoMoves DEF Defer, Place
    <2>2. QED
      BY <1>8, <2>1 DEF Defer, Answer, Moves
  <1>9. CASE Buffer(r)
    <2>1. pc' \in [Request -> Place] /\ pc'[r] = "buffered"
            /\ \A q \in Request \ {r} : pc'[q] = pc[q]
      BY <1>9, GotoMoves DEF Buffer, Place
    <2>2. QED
      BY <1>9, <2>1 DEF Buffer, Answer, Moves
  <1>10. CASE Clear(r)
    <2>1. pc' \in [Request -> Place] /\ pc'[r] = "cleared"
            /\ \A q \in Request \ {r} : pc'[q] = pc[q]
      BY <1>10, GotoMoves DEF Clear, Place
    <2>2. QED
      BY <1>10, <2>1 DEF Clear, Moves
  <1>11. CASE Wake(r)
    <2>1. PICK place \in {"cleared", "dropped"} : Goto(r, place)
      BY <1>11 DEF Wake
    <2>2. pc' \in [Request -> Place] /\ pc'[r] = place
            /\ \A q \in Request \ {r} : pc'[q] = pc[q]
      BY <2>1, GotoMoves DEF Place
    <2>3. QED
      BY <1>11, <2>2 DEF Wake, Moves
  <1>12. CASE Register(r)
    <2>1. pc' \in [Request -> Place] /\ pc'[r] = "sending"
            /\ \A q \in Request \ {r} : pc'[q] = pc[q]
      BY <1>12, GotoMoves DEF Register, Place
    <2>2. QED
      BY <1>12, <2>1 DEF Register, Moves
  <1>13. CASE Coalesce(r)
    <2>1. pc' \in [Request -> Place] /\ pc'[r] = "coalesced"
            /\ \A q \in Request \ {r} : pc'[q] = pc[q]
      BY <1>13, GotoMoves DEF Coalesce, Place
    <2>2. QED
      BY <1>13, <2>1 DEF Coalesce, Answer, Moves
  <1>14. CASE Recover(r)
    <2>1. pc' \in [Request -> Place] /\ pc'[r] = "sending"
            /\ \A q \in Request \ {r} : pc'[q] = pc[q]
      BY <1>14, GotoMoves DEF Recover, Place
    <2>2. QED
      BY <1>14, <2>1 DEF Recover, Moves
  <1>15. CASE Sent(r)
    <2>1. pc' \in [Request -> Place] /\ pc'[r] = "done"
            /\ \A q \in Request \ {r} : pc'[q] = pc[q]
      BY <1>15, GotoMoves DEF Sent, Place
    <2>2. QED
      BY <1>15, <2>1 DEF Sent, Answer, Moves
  <1>16. CASE StoreFails(r)
    <2>1. CASE pc[r] \in {"armed", "cleared"} /\ Goto(r, "sending")
      <3>1. pc' \in [Request -> Place] /\ pc'[r] = "sending"
              /\ \A q \in Request \ {r} : pc'[q] = pc[q]
        BY <2>1, GotoMoves DEF Place
      <3>2. r \in failed'
        BY <1>16 DEF StoreFails
      <3>3. QED
        BY <1>16, <2>1, <3>1, <3>2 DEF StoreFails, Moves
    <2>2. CASE pc' = pc
      BY <1>1, <1>16, <2>2 DEF StoreFails, Moves
    <2>3. QED
      BY <1>16, <2>1, <2>2 DEF StoreFails
  <1>17. QED
    BY <1>2, <1>3, <1>4, <1>5, <1>6, <1>7, <1>8, <1>9, <1>10, <1>11, <1>12,
       <1>13, <1>14, <1>15, <1>16 DEF Handle

LEMMA ArriveMoves ==
  ASSUME TypeOK, NEW r \in Request, NEW a \in Alert, NEW f \in BOOLEAN,
         NEW h \in Holds, NEW c \in BOOLEAN, Arrive(r, a, f, h, c)
  PROVE  /\ pc' \in [Request -> Place]
         /\ Arrives(r)
         /\ alert'[r] = a /\ hold'[r] = h /\ firing'[r] = f
         /\ \A q \in Request \ {r} : pc'[q] = pc[q] /\ Keeps(q)
         /\ answered' = answered
  <1>1. pc' \in [Request -> Place] /\ pc'[r] = "arrived"
          /\ \A q \in Request \ {r} : pc'[q] = pc[q]
    BY GotoMoves DEF Arrive, Place
  <1>2. \A q \in Request \ {r} : Keeps(q)
    BY DEF Arrive, TypeOK, Keeps
  <1>3. alert'[r] = a /\ hold'[r] = h /\ firing'[r] = f /\ rule' = rule
    BY DEF Arrive, TypeOK
  <1>4. before'[r] \subseteq answered
    BY DEF Arrive, TypeOK
  <1>5. QED
    BY <1>1, <1>2, <1>3, <1>4 DEF Arrive, Arrives

LEMMA ArriveSourceMoves ==
  ASSUME TypeOK, NEW r \in Request, NEW s \in Rule, NEW f \in BOOLEAN,
         ArriveSource(r, s, f)
  PROVE  /\ pc' \in [Request -> Place]
         /\ Arrives(r)
         /\ rule'[r] = s
         /\ \A q \in Request \ {r} : pc'[q] = pc[q] /\ Keeps(q)
         /\ answered' = answered
  <1>1. pc' \in [Request -> Place] /\ pc'[r] = "arrived"
          /\ \A q \in Request \ {r} : pc'[q] = pc[q]
    BY GotoMoves DEF ArriveSource, Place
  <1>2. \A q \in Request \ {r} : Keeps(q)
    BY DEF ArriveSource, TypeOK, Keeps
  <1>3. rule'[r] = s /\ alert' = alert
    BY DEF ArriveSource, TypeOK
  <1>4. before'[r] \subseteq answered
    BY DEF ArriveSource, TypeOK
  <1>5. QED
    BY <1>1, <1>2, <1>3, <1>4 DEF ArriveSource, Arrives

(* A flush moves what was buffered.                                         *)
LEMMA FlushMoves ==
  ASSUME TypeOK, QueueIsBuffered, Flush
  PROVE  /\ pc' \in [Request -> Place]
         /\ \A q \in Request :
              \/ pc'[q] = pc[q]
              \/ pc[q] = "buffered" /\ pc'[q] \in {"cleared", "grouped"}
         /\ UNCHANGED <<alert, rule, firing, hold, before, answered>>
  <1>1. Head(queue) = queue[1] /\ 1 \in 1..Len(queue)
    BY DEF Flush, TypeOK
  <1>2. pc[Head(queue)] = "buffered" /\ \A q \in Queued : pc[q] = "buffered"
    BY <1>1 DEF QueueIsBuffered, Queued
  <1>3. \A q \in Request :
          \/ pc'[q] = pc[q]
          \/ pc[q] = "buffered" /\ pc'[q] \in {"cleared", "grouped"}
    BY <1>2 DEF Flush
  <1>4. pc' \in [Request -> Place]
    BY DEF Flush, TypeOK, Place
  <1>5. QED
    BY <1>3, <1>4 DEF Flush

LEMMA RestartMoves ==
  ASSUME TypeOK, Restart
  PROVE  /\ pc' \in [Request -> Place]
         /\ \A q \in Request :
              \/ pc'[q] = pc[q] /\ pc[q] \in Ended \cup {"idle", "buffered"}
              \/ pc[q] \notin Ended \cup {"idle", "buffered"} /\ pc'[q] = "lost"
         /\ UNCHANGED <<alert, rule, firing, hold, before, answered>>
  <1>1. pc' \in [Request -> Place]
    BY DEF Restart, TypeOK, Place
  <1>2. QED
    BY <1>1 DEF Restart

(* A step that is none of those leaves the requests alone.                  *)
LEMMA OtherMoves ==
  ASSUME TypeOK,
         \/ \E s \in Rule : Expire(s)
         \/ \E a \in Alert : Silence(a) \/ Unsilence(a) \/ Close(a)
         \/ UNCHANGED vars
  PROVE  UNCHANGED <<pc, alert, rule, firing, hold, pending, queue, listed, judged,
                     answered, before, revoked>>
  BY DEF Expire, Silence, Unsilence, Close, vars

LEMMA StepMoves ==
  ASSUME TypeOK, QueueIsBuffered, [Next]_vars
  PROVE  /\ pc' \in [Request -> Place]
         /\ \A q \in Request : (Moves(q) /\ Keeps(q)) \/ Arrives(q)
         /\ answered \subseteq answered'
         /\ \A q \in answered' :
              q \in answered \/ pc'[q] \notin {"idle", "arrived", "passed", "cleared"}
  <1>1. CASE \E r \in Request : Handle(r)
    <2>1. PICK r \in Request : Handle(r)
      BY <1>1
    <2>2. /\ pc' \in [Request -> Place]
          /\ Moves(r)
          /\ \A q \in Request \ {r} : pc'[q] = pc[q]
          /\ UNCHANGED <<alert, rule, firing, hold, before, silenced, restarts>>
          /\ answered' \in {answered, answered \cup {r}}
          /\ answered' = answered \/ pc'[r] \notin {"arrived", "passed", "cleared"}
      BY <2>1, HandleMoves
    <2>3. answered' = answered \/ pc'[r] # "idle"
      BY <2>1, GotoMoves DEF Handle, Suppress, Pass, Arm, ListReceipts, Judge, Terminalize,
         ReconcileDone, Defer, Buffer, Clear, Wake, Register, Coalesce, Recover,
         Sent, StoreFails, Place
    <2>4. \A q \in Request : Moves(q) /\ Keeps(q)
      BY <2>2 DEF Moves, Keeps
    <2>5. QED
      BY <2>2, <2>3, <2>4
  <1>2. CASE Flush
    <2>1. \A q \in Request : Moves(q) /\ Keeps(q)
      BY <1>2, FlushMoves DEF Moves, Keeps
    <2>2. QED
      BY <1>2, <2>1, FlushMoves
  <1>3. CASE \E r \in Request, a \in Alert, f \in BOOLEAN, h \in Holds, c \in BOOLEAN :
               Arrive(r, a, f, h, c)
    <2>1. PICK r \in Request, a \in Alert, f \in BOOLEAN, h \in Holds, c \in BOOLEAN :
               Arrive(r, a, f, h, c)
      BY <1>3
    <2>2. \A q \in Request : (Moves(q) /\ Keeps(q)) \/ Arrives(q)
      BY <2>1, ArriveMoves DEF Moves
    <2>3. QED
      BY <2>1, <2>2, ArriveMoves
  <1>4. CASE \E r \in Request, s \in Rule, f \in BOOLEAN : ArriveSource(r, s, f)
    <2>1. PICK r \in Request, s \in Rule, f \in BOOLEAN : ArriveSource(r, s, f)
      BY <1>4
    <2>2. \A q \in Request : (Moves(q) /\ Keeps(q)) \/ Arrives(q)
      BY <2>1, ArriveSourceMoves DEF Moves
    <2>3. QED
      BY <2>1, <2>2, ArriveSourceMoves
  <1>5. CASE Restart
    <2>1. \A q \in Request : Moves(q) /\ Keeps(q)
      BY <1>5, RestartMoves DEF Moves, Keeps
    <2>2. QED
      BY <1>5, <2>1, RestartMoves
  <1>6. CASE \/ \E s \in Rule : Expire(s)
             \/ \E a \in Alert : Silence(a) \/ Unsilence(a) \/ Close(a)
             \/ UNCHANGED vars
    <2>1. UNCHANGED <<pc, alert, rule, firing, hold, before, answered>>
      BY <1>6, OtherMoves
    <2>2. QED
      BY <2>1 DEF Moves, Keeps, TypeOK
  <1>7. QED
    BY <1>1, <1>2, <1>3, <1>4, <1>5, <1>6 DEF Next, Environment

LEMMA FailedGrows ==
  ASSUME [Next]_vars
  PROVE  failed \cup crowded \subseteq failed' \cup crowded'
  <1>1. ASSUME NEW r \in Request, Handle(r)
        PROVE  failed \subseteq failed' /\ crowded \subseteq crowded'
    BY <1>1 DEF Handle, Suppress, Pass, Arm, ListReceipts, Judge, Terminalize,
       ReconcileDone, Defer, Buffer, Clear, Wake, Register, Coalesce, Recover, Sent,
       StoreFails, Crowd
  <1>2. ASSUME ~\E r \in Request : Handle(r) PROVE failed' = failed /\ crowded' = crowded
    BY <1>2 DEF Next, Environment, Flush, Arrive, ArriveSource, Expire, Silence,
       Unsilence, Close, Restart, vars
  <1>3. QED
    BY <1>1, <1>2

(* A list that is not cut short shows every active receipt.                 *)
LEMMA ListsOpen ==
  ASSUME NEW seen \in Lists
  PROVE  /\ seen \subseteq Open
         /\ \A r : Crowd(r) /\ r \notin crowded' => seen = Open
  BY DEF Lists, Crowd

-----------------------------------------------------------------------------
(* The conjuncts about one request at a time.                               *)

LEMMA KindsStep ==
  ASSUME TypeOK, QueueIsBuffered, Kinds, HeldPlaces, [Next]_vars
  PROVE  Kinds' /\ HeldPlaces'
  <1>1. SUFFICES ASSUME NEW q \in Request
        PROVE  /\ pc'[q] = "idle" => alert'[q] = None /\ rule'[q] = None
               /\ alert'[q] = None \/ rule'[q] = None
               /\ pc'[q] \in {"armed", "reconciling"} => rule'[q] # None
               /\ pc'[q] \in {"passed", "sleeping", "buffered", "cleared", "suppressed",
                              "dropped", "grouped", "coalesced"} => alert'[q] # None
               /\ pc'[q] = "sleeping" => hold'[q] = "defer"
               /\ pc'[q] = "buffered" => hold'[q] = "buffer" /\ firing'[q]
    BY DEF Kinds, HeldPlaces
  <1>2. (Moves(q) /\ Keeps(q)) \/ Arrives(q)
    BY StepMoves
  <1>3. CASE Arrives(q)
    BY <1>3 DEF Arrives, Kinds
  <1>4. CASE Moves(q) /\ Keeps(q)
    BY <1>4 DEF Moves, Keeps, Kinds, HeldPlaces, Ended
  <1>5. QED
    BY <1>2, <1>3, <1>4

LEMMA AnsweredStep ==
  ASSUME TypeOK, QueueIsBuffered, HeldPlaces, AnsweredIsOver, BeforeIsAnswered,
         [Next]_vars
  PROVE  AnsweredIsOver' /\ BeforeIsAnswered'
  <1>1. answered \subseteq answered' /\ answered \subseteq Request
    BY StepMoves DEF TypeOK
  <1>2. ASSUME NEW q \in Request PROVE before'[q] \subseteq answered'
    <2>1. Keeps(q) \/ Arrives(q)
      BY StepMoves
    <2>2. QED
      BY <1>1, <2>1 DEF Keeps, Arrives, BeforeIsAnswered
  <1>3. ASSUME NEW q \in answered
        PROVE  pc'[q] # "idle" /\ (pc'[q] \in {"arrived", "passed", "cleared"} => Held(q)')
    <2>1. q \in Request /\ pc[q] # "idle"
      BY <1>1 DEF AnsweredIsOver
    <2>2. Moves(q) /\ Keeps(q)
      BY <2>1, StepMoves DEF Arrives
    <2>3. QED
      BY <1>3, <2>1, <2>2 DEF Moves, Keeps, AnsweredIsOver, HeldPlaces, Held, Ended
  <1>4. \A q \in answered' :
          q \in answered \/ pc'[q] \notin {"idle", "arrived", "passed", "cleared"}
    BY StepMoves
  <1>5. QED
    BY <1>2, <1>3, <1>4 DEF AnsweredIsOver, BeforeIsAnswered

-----------------------------------------------------------------------------
(* The buffer and the deferrals.                                            *)

LEMMA TypeStep == TypeOK /\ Kinds /\ QueueIsBuffered /\ [Next]_vars => TypeOK'
  <1>1. SUFFICES ASSUME TypeOK, Kinds, QueueIsBuffered, [Next]_vars PROVE TypeOK'
    OBVIOUS
  <1>2. pc' \in [Request -> Place]
    BY <1>1, StepMoves
  <1>3. ASSUME NEW r \in Request, Handle(r) PROVE TypeOK'
    <2>1. CASE Arm(r)
      <3>1. armed' \in SUBSET Rule /\ steady' \in SUBSET Request
        BY <1>1, <2>1 DEF TypeOK, Arm, Steady
      <3>2. QED
        BY <1>1, <1>2, <2>1, <3>1 DEF TypeOK, Arm
    <2>7. CASE ListReceipts(r)
      <3>1. Open \subseteq Request
        BY <1>1 DEF TypeOK, Open
      <3>2. PICK seen \in Lists : listed' = [listed EXCEPT ![r] = seen]
        BY <2>7 DEF ListReceipts
      <3>3. listed' \in [Request -> SUBSET Request]
        BY <1>1, <3>1, <3>2, ListsOpen DEF TypeOK
      <3>4. crowded' \in SUBSET Request
        BY <1>1, <2>7 DEF TypeOK, ListReceipts, Crowd
      <3>5. QED
        BY <1>1, <1>2, <2>7, <3>3, <3>4 DEF TypeOK, ListReceipts
    <2>8. CASE \E x \in listed[r] : Judge(r, x)
      <3>1. listed[r] \subseteq Request
        BY <1>1 DEF TypeOK
      <3>2. listed' \in [Request -> SUBSET Request] /\ judged' \in [Request -> Request \cup {None}]
        BY <1>1, <2>8, <3>1 DEF TypeOK, Judge
      <3>3. QED
        BY <1>1, <1>2, <2>8, <3>2 DEF TypeOK, Judge
    <2>9. CASE Terminalize(r) \/ StoreFails(r)
      BY <1>1, <1>2, <2>9 DEF TypeOK, Terminalize, StoreFails
    <2>2. CASE Defer(r) \/ Wake(r)
      <3>1. alert[r] \in Alert
        <4>1. pc[r] \in {"passed", "sleeping"}
          BY <2>2 DEF Defer, Wake
        <4>2. alert[r] # None
          BY <1>1, <4>1 DEF Kinds
        <4>3. alert[r] \in Alert \cup {None}
          BY <1>1 DEF TypeOK
        <4>4. QED
          BY <4>2, <4>3
      <3>2. pending[alert[r]] \in Request \cup {None}
        BY <1>1, <3>1 DEF TypeOK
      <3>3. pending' \in [Alert -> Request \cup {None}]
        BY <1>1, <2>2, <3>1 DEF Defer, Wake, TypeOK
      <3>4. CASE Wake(r)
        BY <1>1, <1>2, <3>3, <3>4 DEF TypeOK, Wake
      <3>5. CASE Defer(r)
        BY <1>1, <1>2, <3>2, <3>3, <3>5 DEF TypeOK, Defer, Revoke, Answer
      <3>6. QED
        BY <2>2, <3>4, <3>5
    <2>3. CASE Buffer(r)
      BY <1>1, <1>2, <2>3 DEF TypeOK, Buffer, Answer
    <2>4. CASE Suppress(r) \/ Pass(r) \/ ReconcileDone(r) \/ Clear(r) \/ Coalesce(r) \/ Sent(r)
      BY <1>1, <1>2, <2>4
         DEF TypeOK, Suppress, Pass, ReconcileDone, Clear, Coalesce, Sent, Answer
    <2>5. CASE Register(r)
      BY <1>1, <1>2, <2>5 DEF TypeOK, Register
    <2>10. CASE Recover(r)
      <3>1. open' \in [Alert -> Request \cup {None}] /\ crowded' \in SUBSET Request
        BY <1>1, <2>10 DEF TypeOK, Recover, ClosedBy, Crowd
      <3>2. QED
        BY <1>1, <1>2, <2>10, <3>1 DEF TypeOK, Recover
    <2>6. QED
      BY <1>3, <2>1, <2>2, <2>3, <2>4, <2>5, <2>7, <2>8, <2>9, <2>10 DEF Handle
  <1>4. CASE Flush
    BY <1>1, <1>2, <1>4 DEF TypeOK, Flush
  <1>5. ASSUME NEW r \in Request, NEW a \in Alert, NEW f \in BOOLEAN, NEW h \in Holds,
               NEW c \in BOOLEAN, Arrive(r, a, f, h, c)
        PROVE  TypeOK'
    BY <1>1, <1>2, <1>5 DEF TypeOK, Arrive, Revoke
  <1>6. ASSUME NEW r \in Request, NEW s \in Rule, NEW f \in BOOLEAN, ArriveSource(r, s, f)
        PROVE  TypeOK'
    BY <1>1, <1>2, <1>6 DEF TypeOK, ArriveSource
  <1>7. CASE (\E s \in Rule : Expire(s)) \/ (\E a \in Alert : Silence(a) \/ Unsilence(a) \/ Close(a))
    BY <1>1, <1>2, <1>7, BoundAssumption DEF TypeOK, Expire, Silence, Unsilence, Close, Steady
  <1>8. CASE Restart
    BY <1>1, <1>2, <1>8 DEF TypeOK, Restart
  <1>9. CASE UNCHANGED vars
    BY <1>1, <1>9 DEF TypeOK, vars
  <1>10. QED
    BY <1>1, <1>3, <1>4, <1>5, <1>6, <1>7, <1>8, <1>9 DEF Next, Environment

(* Who touches the queue.                                                   *)
LEMMA QueueStep ==
  ASSUME TypeOK, QueueIsBuffered, [Next]_vars
  PROVE  QueueIsBuffered'
  <1>1. CASE \E r \in Request : Buffer(r)
    <2>1. PICK r \in Request : Buffer(r)
      BY <1>1
    <2>2. pc'[r] = "buffered" /\ \A q \in Request \ {r} : pc'[q] = pc[q]
      BY <2>1, GotoMoves DEF Buffer, Place
    <2>3. queue \in Seq(Request) /\ queue' = Append(queue, r)
      BY <2>1 DEF Buffer, TypeOK
    <2>4. ASSUME NEW n \in 1..Len(queue') PROVE pc'[queue'[n]] = "buffered"
      <3>1. CASE n = Len(queue) + 1
        BY <2>2, <2>3, <3>1
      <3>2. CASE n \in 1..Len(queue)
        <4>1. queue'[n] = queue[n] /\ queue[n] \in Request /\ pc[queue[n]] = "buffered"
          BY <2>3, <3>2 DEF QueueIsBuffered
        <4>2. QED
          BY <2>2, <4>1
      <3>3. QED
        BY <2>3, <2>4, <3>1, <3>2
    <2>5. QED
      BY <2>4 DEF QueueIsBuffered
  <1>2. CASE Flush
    BY <1>2 DEF Flush, QueueIsBuffered
  <1>3. CASE queue' = queue /\ \A q \in Request : pc[q] = "buffered" => pc'[q] = "buffered"
    <2>1. \A n \in 1..Len(queue) : queue[n] \in Request /\ pc[queue[n]] = "buffered"
      BY DEF QueueIsBuffered, TypeOK
    <2>2. QED
      BY <1>3, <2>1 DEF QueueIsBuffered
  <1>4. ASSUME NEW r \in Request, Handle(r), ~Buffer(r)
        PROVE  queue' = queue /\ \A q \in Request : pc[q] = "buffered" => pc'[q] = "buffered"
    <2>1. queue' = queue
      BY <1>4 DEF Handle, Suppress, Pass, Arm, ListReceipts, Judge, Terminalize,
         ReconcileDone, Defer, Clear, Wake, Register, Coalesce, Recover, Sent, StoreFails
    <2>2. pc[r] # "buffered" \/ pc'[r] = pc[r]
      BY <1>4 DEF Handle, Suppress, Pass, Arm, ListReceipts, Judge, Terminalize,
         ReconcileDone, Defer, Clear, Wake, Register, Coalesce, Recover, Sent, StoreFails
    <2>3. QED
      BY <1>4, <2>1, <2>2, HandleMoves
  <1>5. CASE \E r \in Request, a \in Alert, f \in BOOLEAN, h \in Holds, c \in BOOLEAN :
               Arrive(r, a, f, h, c)
    <2>1. queue' = queue
      BY <1>5 DEF Arrive
    <2>2. \A q \in Request : pc[q] = "buffered" => pc'[q] = "buffered"
      BY <1>5, ArriveMoves DEF Arrives
    <2>3. QED
      BY <1>3, <2>1, <2>2
  <1>6. CASE \E r \in Request, s \in Rule, f \in BOOLEAN : ArriveSource(r, s, f)
    <2>1. queue' = queue
      BY <1>6 DEF ArriveSource
    <2>2. \A q \in Request : pc[q] = "buffered" => pc'[q] = "buffered"
      BY <1>6, ArriveSourceMoves DEF Arrives
    <2>3. QED
      BY <1>3, <2>1, <2>2
  <1>7. CASE Restart
    <2>1. queue' = queue
      BY <1>7 DEF Restart
    <2>2. QED
      BY <1>3, <1>7, <2>1, RestartMoves
  <1>8. CASE \/ \E s \in Rule : Expire(s)
             \/ \E a \in Alert : Silence(a) \/ Unsilence(a) \/ Close(a)
             \/ UNCHANGED vars
    BY <1>3, <1>8, OtherMoves
  <1>9. QED
    BY <1>1, <1>2, <1>3, <1>4, <1>5, <1>6, <1>7, <1>8 DEF Next, Environment

(* A request under way is about something, and so is what it sleeps under.  *)
LEMMA AboutAnAlert ==
  ASSUME TypeOK, Kinds, NEW r \in Request,
         pc[r] \in {"passed", "sleeping", "buffered", "cleared"}
  PROVE  alert[r] \in Alert
  <1>1. alert[r] # None
    BY DEF Kinds
  <1>2. alert[r] \in Alert \cup {None}
    BY DEF TypeOK
  <1>3. QED
    BY <1>1, <1>2

Asleep == {"sleeping", "dropped", "lost"}

(* Steps that do not concern deferrals.                                     *)
LEMMA DeferralsRest ==
  ASSUME TypeOK, PendingSleeps, SleepingIsPending, DeferralHonoured,
         UNCHANGED <<alert, pending, revoked>>,
         \A q \in Request : pc'[q] = pc[q] \/ (pc[q] \notin Asleep /\ pc'[q] \notin Asleep)
  PROVE  PendingSleeps' /\ SleepingIsPending' /\ DeferralHonoured'
  <1>1. \A a \in Alert : pending[a] \in Request \cup {None}
    BY DEF TypeOK
  <1>2. PendingSleeps'
    BY <1>1 DEF PendingSleeps, Asleep
  <1>3. SleepingIsPending'
    BY DEF SleepingIsPending, Current, Asleep
  <1>4. DeferralHonoured'
    BY DEF DeferralHonoured, Asleep
  <1>5. QED
    BY <1>2, <1>3, <1>4

LEMMA DeferralStep ==
  ASSUME TypeOK, Kinds, HeldPlaces, QueueIsBuffered, PendingSleeps, SleepingIsPending,
         DeferralHonoured, [Next]_vars
  PROVE  PendingSleeps' /\ SleepingIsPending' /\ DeferralHonoured'
  <1>1. /\ \A a \in Alert : pending[a] \in Request \cup {None}
        /\ DOMAIN pending = Alert
    BY DEF TypeOK
  <1>2. ASSUME NEW r \in Request, Handle(r), ~Defer(r), ~Wake(r)
        PROVE  PendingSleeps' /\ SleepingIsPending' /\ DeferralHonoured'
    <2>1. UNCHANGED <<alert, pending, revoked>>
      BY <1>2 DEF Handle, Suppress, Pass, Arm, ListReceipts, Judge, Terminalize,
         ReconcileDone, Buffer, Clear, Register, Coalesce, Recover, Sent, StoreFails
    <2>2. \/ pc' = pc
          \/ pc[r] \notin Asleep /\ \E place \in Place \ Asleep : Goto(r, place)
      BY <1>2 DEF Handle, Suppress, Pass, Arm, ListReceipts, Judge, Terminalize,
         ReconcileDone, Buffer, Clear, Register, Coalesce, Recover, Sent,
         StoreFails, Asleep, Place
    <2>3. pc' = pc \/ (pc[r] \notin Asleep /\ pc'[r] \notin Asleep)
      BY <2>2, GotoMoves
    <2>4. \A q \in Request \ {r} : pc'[q] = pc[q]
      BY <1>2, HandleMoves
    <2>5. QED
      BY <2>1, <2>3, <2>4, DeferralsRest
  <1>3. ASSUME NEW r \in Request, Defer(r)
        PROVE  PendingSleeps' /\ SleepingIsPending' /\ DeferralHonoured'
    <2>1. /\ pc'[r] = "sleeping"
          /\ \A q \in Request \ {r} : pc'[q] = pc[q]
      BY <1>3, GotoMoves DEF Defer, Place
    <2>2. pc[r] = "passed" /\ alert[r] \in Alert
      BY <1>3, AboutAnAlert DEF Defer
    <2>3. r \notin revoked /\ \A a \in Alert : pending[a] # r
      BY <1>1, <2>2, NoneAssumption DEF DeferralHonoured, PendingSleeps
    <2>4. /\ pending'[alert[r]] = r
          /\ \A a \in Alert \ {alert[r]} : pending'[a] = pending[a]
      BY <1>1, <1>3, <2>2 DEF Defer
    <2>5. revoked' = revoked \cup ({pending[alert[r]]} \ {None}) /\ alert' = alert
      BY <1>3 DEF Defer, Revoke
    <2>6. r \notin revoked'
      BY <2>2, <2>3, <2>5
    <2>7. PendingSleeps'
      <3>1. SUFFICES ASSUME NEW a \in Alert, pending'[a] # None
            PROVE  /\ pc'[pending'[a]] = "sleeping"
                   /\ alert[pending'[a]] = a
                   /\ pending'[a] \notin revoked'
        BY <2>5 DEF PendingSleeps
      <3>2. CASE a = alert[r]
        BY <2>1, <2>4, <2>6, <3>2
      <3>3. CASE a # alert[r]
        <4>1. /\ pending'[a] = pending[a] /\ pending[a] \in Request \ {r}
              /\ pc[pending[a]] = "sleeping" /\ alert[pending[a]] = a
              /\ pending[a] \notin revoked
          BY <1>1, <2>3, <2>4, <3>1, <3>3 DEF PendingSleeps
        <4>2. pending[alert[r]] # None => alert[pending[alert[r]]] = alert[r]
          BY <2>2 DEF PendingSleeps
        <4>3. pending[a] # pending[alert[r]]
          BY <3>1, <3>3, <4>1, <4>2
        <4>4. QED
          BY <2>1, <2>5, <4>1, <4>3
      <3>4. QED
        BY <3>2, <3>3
    <2>8. SleepingIsPending'
      <3>1. SUFFICES ASSUME NEW q \in Request, pc'[q] = "sleeping", q # r
            PROVE  pending'[alert[q]] = q \/ q \in revoked'
        BY <2>4, <2>5 DEF SleepingIsPending, Current
      <3>2. pc[q] = "sleeping"
        BY <2>1, <3>1
      <3>3. alert[q] \in Alert
        BY <3>2, AboutAnAlert
      <3>4. pending[alert[q]] = q \/ q \in revoked
        BY <3>2 DEF SleepingIsPending, Current
      <3>5. QED
        BY <2>4, <2>5, <3>3, <3>4, NoneAssumption
    <2>9. DeferralHonoured'
      <3>1. \A q \in Request : pending[alert[r]] = q => pc[q] = "sleeping"
        BY <2>2, NoneAssumption DEF PendingSleeps
      <3>2. QED
        BY <2>1, <2>3, <2>5, <3>1 DEF DeferralHonoured
    <2>10. QED
      BY <2>7, <2>8, <2>9
  <1>4. ASSUME NEW r \in Request, Wake(r)
        PROVE  PendingSleeps' /\ SleepingIsPending' /\ DeferralHonoured'
    <2>1. pc[r] = "sleeping" /\ UNCHANGED <<alert, revoked>> /\ alert[r] \in Alert
      BY <1>4, AboutAnAlert DEF Wake
    <2>2. CASE Current(r)
      <3>1. /\ pc'[r] = "cleared"
            /\ \A q \in Request \ {r} : pc'[q] = pc[q]
        BY <1>4, <2>2, GotoMoves DEF Wake, Place
      <3>2. /\ pending'[alert[r]] = None
            /\ \A a \in Alert \ {alert[r]} : pending'[a] = pending[a]
        BY <1>1, <1>4, <2>1, <2>2 DEF Wake
      <3>3. pending[alert[r]] = r /\ r \notin revoked
        BY <2>1, <2>2, NoneAssumption DEF Current, PendingSleeps
      <3>4. PendingSleeps'
        <4>1. SUFFICES ASSUME NEW a \in Alert \ {alert[r]}, pending[a] # None
              PROVE  /\ pc'[pending[a]] = "sleeping"
                     /\ alert[pending[a]] = a
                     /\ pending[a] \notin revoked
          BY <2>1, <3>2 DEF PendingSleeps
        <4>2. pc[pending[a]] = "sleeping" /\ alert[pending[a]] = a /\ pending[a] \notin revoked
          BY <4>1 DEF PendingSleeps
        <4>3. QED
          BY <1>1, <3>1, <4>1, <4>2
      <3>5. SleepingIsPending'
        <4>1. SUFFICES ASSUME NEW q \in Request \ {r}, pc[q] = "sleeping"
              PROVE  pending'[alert[q]] = q \/ q \in revoked
          BY <2>1, <3>1 DEF SleepingIsPending, Current
        <4>2. alert[q] \in Alert
          BY <4>1, AboutAnAlert
        <4>3. pending[alert[q]] = q \/ q \in revoked
          BY <4>1 DEF SleepingIsPending, Current
        <4>4. QED
          BY <3>2, <3>3, <4>2, <4>3
      <3>6. DeferralHonoured'
        BY <2>1, <3>1, <3>3 DEF DeferralHonoured
      <3>7. QED
        BY <3>4, <3>5, <3>6
    <2>3. CASE ~Current(r)
      <3>1. /\ pc'[r] = "dropped"
            /\ \A q \in Request \ {r} : pc'[q] = pc[q]
            /\ pending' = pending
        BY <1>4, <2>3, GotoMoves DEF Wake, Place
      <3>2. r \in revoked
        BY <2>1, <2>3 DEF SleepingIsPending
      <3>3. PendingSleeps'
        <4>1. \A a \in Alert : pending[a] # None => pending[a] \in Request \ {r}
          BY <1>1, <3>2 DEF PendingSleeps
        <4>2. QED
          BY <2>1, <3>1, <4>1 DEF PendingSleeps
      <3>4. SleepingIsPending' /\ DeferralHonoured'
        BY <2>1, <3>1, <3>2 DEF SleepingIsPending, DeferralHonoured, Current
      <3>5. QED
        BY <3>3, <3>4
    <2>4. QED
      BY <2>2, <2>3
  <1>5. CASE Flush
    <2>1. UNCHANGED <<alert, pending, revoked>>
      BY <1>5 DEF Flush
    <2>2. QED
      BY <1>5, <2>1, FlushMoves, DeferralsRest DEF Asleep
  <1>6. ASSUME NEW r \in Request, NEW a \in Alert, NEW f \in BOOLEAN, NEW h \in Holds,
               NEW c \in BOOLEAN, Arrive(r, a, f, h, c)
        PROVE  PendingSleeps' /\ SleepingIsPending' /\ DeferralHonoured'
    <2>1. /\ pc[r] = "idle" /\ pc'[r] = "arrived"
          /\ \A q \in Request \ {r} : pc'[q] = pc[q] /\ alert'[q] = alert[q]
      BY <1>6, ArriveMoves DEF Arrives, Keeps
    <2>2. /\ \A b \in Alert : pending[b] # r
          /\ r \notin revoked
      BY <1>1, <2>1, NoneAssumption DEF PendingSleeps, DeferralHonoured
    <2>3. \/ pending' = pending /\ revoked' = revoked
          \/ /\ pending' = [pending EXCEPT ![a] = None]
             /\ revoked' = revoked \cup ({pending[a]} \ {None})
      BY <1>6 DEF Arrive, Revoke
    <2>4. /\ \A b \in Alert \ {a} : pending'[b] = pending[b]
          /\ pending'[a] \in {pending[a], None}
          /\ revoked' = revoked \/ revoked' = revoked \cup ({pending[a]} \ {None})
          /\ pending'[a] = pending[a] => pending[a] = None \/ revoked' = revoked
          /\ pending'[a] # pending[a] => pending[a] \in revoked'
      BY <1>1, <2>3
    <2>5. PendingSleeps'
      <3>1. SUFFICES ASSUME NEW b \in Alert, pending'[b] # None
            PROVE  /\ pc'[pending'[b]] = "sleeping"
                   /\ alert'[pending'[b]] = b
                   /\ pending'[b] \notin revoked'
        BY DEF PendingSleeps
      <3>2. pending'[b] = pending[b] /\ pending[b] \in Request \ {r}
        BY <1>1, <2>2, <2>4, <3>1
      <3>3. pc[pending[b]] = "sleeping" /\ alert[pending[b]] = b /\ pending[b] \notin revoked
        BY <3>1, <3>2 DEF PendingSleeps
      <3>4. pending[b] \notin revoked'
        <4>1. CASE b = a
          BY <2>4, <3>1, <3>2, <3>3, <4>1
        <4>2. CASE b # a
          <5>1. pending[a] # None => alert[pending[a]] = a
            BY DEF PendingSleeps
          <5>2. QED
            BY <2>4, <3>1, <3>2, <3>3, <4>2, <5>1
        <4>3. QED
          BY <4>1, <4>2
      <3>5. QED
        BY <2>1, <3>2, <3>3, <3>4
    <2>6. SleepingIsPending'
      <3>1. SUFFICES ASSUME NEW q \in Request \ {r}, pc[q] = "sleeping"
            PROVE  pending'[alert[q]] = q \/ q \in revoked'
        BY <2>1 DEF SleepingIsPending, Current
      <3>2. alert[q] \in Alert
        BY <3>1, AboutAnAlert
      <3>3. pending[alert[q]] = q \/ q \in revoked
        BY <3>1 DEF SleepingIsPending, Current
      <3>4. QED
        BY <2>4, <3>2, <3>3
    <2>7. DeferralHonoured'
      <3>1. \A q \in Request : pending[a] = q => pc[q] = "sleeping"
        BY NoneAssumption DEF PendingSleeps
      <3>2. revoked \subseteq revoked' /\ \A q \in revoked' : q \in revoked \/ q = pending[a]
        BY <2>4
      <3>3. QED
        BY <2>1, <2>2, <3>1, <3>2 DEF DeferralHonoured
    <2>8. QED
      BY <2>5, <2>6, <2>7
  <1>7. ASSUME NEW r \in Request, NEW s \in Rule, NEW f \in BOOLEAN, ArriveSource(r, s, f)
        PROVE  PendingSleeps' /\ SleepingIsPending' /\ DeferralHonoured'
    <2>1. UNCHANGED <<alert, pending, revoked>>
      BY <1>7 DEF ArriveSource
    <2>2. QED
      BY <1>7, <2>1, ArriveSourceMoves, DeferralsRest DEF Arrives, Asleep
  <1>8. CASE Restart
    <2>1. (\A a \in Alert : pending'[a] = None) /\ revoked' = revoked
      BY <1>8 DEF Restart
    <2>2. \A q \in Request : pc'[q] # "sleeping" /\ (pc'[q] = "dropped" => pc[q] = "dropped")
            /\ (pc[q] \in Asleep => pc'[q] \in Asleep)
      BY <1>8, RestartMoves DEF Ended, Asleep
    <2>3. QED
      BY <2>1, <2>2 DEF PendingSleeps, SleepingIsPending, DeferralHonoured, Asleep
  <1>9. CASE \/ \E s \in Rule : Expire(s)
             \/ \E a \in Alert : Silence(a) \/ Unsilence(a) \/ Close(a)
             \/ UNCHANGED vars
    BY <1>9, OtherMoves, DeferralsRest
  <1>10. QED
    BY <1>2, <1>3, <1>4, <1>5, <1>6, <1>7, <1>8, <1>9 DEF Next, Environment

-----------------------------------------------------------------------------
(* The receipts.                                                            *)

Opens(a, r) ==
  /\ pc[r] = "cleared" /\ firing[r] /\ alert[r] = a
  /\ open'[a] = r /\ pc'[r] = "sending"

(* A step leaves a receipt alone, closes it, or opens one.                  *)
LEMMA OpenStep ==
  ASSUME TypeOK, Kinds, [Next]_vars, NEW a \in Alert
  PROVE  open'[a] \in {open[a], None} \/ \E r \in Request : Opens(a, r)
  <1>1. DOMAIN open = Alert
    BY DEF TypeOK
  <1>2. ASSUME NEW r \in Request, Register(r)
        PROVE  open'[a] \in {open[a], None} \/ \E x \in Request : Opens(a, x)
    <2>1. pc'[r] = "sending"
      BY <1>2, GotoMoves DEF Register, Place
    <2>2. alert[r] \in Alert
      BY <1>2, AboutAnAlert DEF Register
    <2>3. open' = [open EXCEPT ![alert[r]] = r]
      BY <1>2 DEF Register
    <2>4. CASE a = alert[r]
      BY <1>1, <1>2, <2>1, <2>3, <2>4 DEF Opens, Register
    <2>5. CASE a # alert[r]
      BY <1>1, <2>2, <2>3, <2>5
    <2>6. QED
      BY <2>4, <2>5
  <1>3. ASSUME NEW r \in Request, Recover(r)
        PROVE  open'[a] \in {open[a], None}
    <2>1. alert[r] \in Alert
      BY <1>3, AboutAnAlert DEF Recover
    <2>2. QED
      BY <1>1, <1>3, <2>1 DEF Recover, ClosedBy
  <1>4. ASSUME NEW r \in Request, Terminalize(r)
        PROVE  open'[a] \in {open[a], None}
    BY <1>4 DEF Terminalize
  <1>5. ASSUME NEW r \in Request, Handle(r), ~Register(r), ~Recover(r), ~Terminalize(r)
        PROVE  open' = open
    BY <1>5 DEF Handle, Suppress, Pass, Arm, ListReceipts, Judge, ReconcileDone, Defer,
       Buffer, Clear, Wake, Coalesce, Sent, StoreFails
  <1>6. ASSUME NEW b \in Alert, Close(b)
        PROVE  open'[a] \in {open[a], None}
    BY <1>1, <1>6 DEF Close
  <1>7. CASE Flush \/ Restart \/ UNCHANGED vars \/ \E s \in Rule : Expire(s)
    BY <1>7 DEF Flush, Restart, Expire, vars
  <1>8. CASE \/ \E r \in Request, b \in Alert, f \in BOOLEAN, h \in Holds, c \in BOOLEAN :
                 Arrive(r, b, f, h, c)
             \/ \E r \in Request, s \in Rule, f \in BOOLEAN : ArriveSource(r, s, f)
             \/ \E b \in Alert : Silence(b) \/ Unsilence(b)
    BY <1>8 DEF Arrive, ArriveSource, Silence, Unsilence
  <1>9. QED
    BY <1>2, <1>3, <1>4, <1>5, <1>6, <1>7, <1>8 DEF Next, Environment

(* A recovery that goes out has closed what was open.                       *)
LEMMA RecoverStep ==
  ASSUME TypeOK, Kinds, QueueIsBuffered, [Next]_vars, NEW q \in Request,
         pc[q] = "cleared", pc'[q] = "sending", ~firing[q],
         q \notin failed' \cup crowded'
  PROVE  open'[alert[q]] = None
  <1>1. CASE Recover(q)
    <2>1. alert[q] \in Alert
      BY AboutAnAlert
    <2>2. PICK seen \in Lists :
            open' = IF open[alert[q]] \in seen THEN ClosedBy(q) ELSE open
      BY <1>1 DEF Recover
    <2>3. seen = Open
      BY <1>1, ListsOpen DEF Recover
    <2>4. open[alert[q]] = None \/ open[alert[q]] \in Open
      BY <2>1 DEF Open
    <2>5. open' = open \/ open' = ClosedBy(q)
      BY <2>2
    <2>6. open[alert[q]] # None => open' = ClosedBy(q)
      BY <2>2, <2>3, <2>4
    <2>7. QED
      BY <2>1, <2>5, <2>6 DEF ClosedBy, TypeOK
  <1>2. ASSUME NEW r \in Request, Handle(r) PROVE r = q
    BY <1>2, HandleMoves
  <1>3. ~Suppress(q) /\ ~Pass(q) /\ ~Arm(q) /\ ~ListReceipts(q) /\ ~ReconcileDone(q)
    BY DEF Suppress, Pass, Arm, ListReceipts, ReconcileDone
  <1>4. ~Defer(q) /\ ~Buffer(q) /\ ~Clear(q) /\ ~Wake(q) /\ ~Sent(q) /\ ~StoreFails(q)
    BY DEF Defer, Buffer, Clear, Wake, Sent, StoreFails
  <1>5. ~Register(q) /\ ~Coalesce(q) /\ ~(\E x \in listed[q] : Judge(q, x)) /\ ~Terminalize(q)
    BY DEF Register, Coalesce, Judge, Terminalize
  <1>6. ~Flush
    BY FlushMoves
  <1>7. ~Restart
    BY RestartMoves
  <1>8. ASSUME NEW r \in Request, NEW a \in Alert, NEW f \in BOOLEAN, NEW h \in Holds,
               NEW c \in BOOLEAN, Arrive(r, a, f, h, c)
        PROVE  FALSE
    BY <1>8, ArriveMoves DEF Arrives
  <1>9. ASSUME NEW r \in Request, NEW s \in Rule, NEW f \in BOOLEAN, ArriveSource(r, s, f)
        PROVE  FALSE
    BY <1>9, ArriveSourceMoves DEF Arrives
  <1>10. ASSUME \/ \E s \in Rule : Expire(s)
                \/ \E a \in Alert : Silence(a) \/ Unsilence(a) \/ Close(a)
                \/ UNCHANGED vars
         PROVE  FALSE
    BY <1>10, OtherMoves
  <1>11. CASE \E r \in Request : Handle(r)
    <2>1. Handle(q)
      BY <1>2, <1>11
    <2>2. QED
      BY <1>1, <1>3, <1>4, <1>5, <2>1 DEF Handle
  <1>12. QED
    BY <1>6, <1>7, <1>8, <1>9, <1>10, <1>11 DEF Next, Environment

(* What is answered and not held back has opened its receipt, if at all.    *)
LEMMA OpensHeld ==
  ASSUME AnsweredIsOver, NEW a \in Alert, NEW f \in answered, Opens(a, f)
  PROVE  Held(f)
  BY DEF AnsweredIsOver, Opens

(* What an answered request is, it stays.                                   *)
LEMMA AnsweredKeeps ==
  ASSUME TypeOK, QueueIsBuffered, AnsweredIsOver, [Next]_vars, NEW f \in answered
  PROVE  f \in Request /\ Moves(f) /\ Keeps(f) /\ (Held(f) => Held(f)')
  <1>1. f \in Request /\ pc[f] # "idle"
    <2>1. f \in Request
      BY DEF TypeOK
    <2>2. QED
      BY <2>1 DEF AnsweredIsOver
  <1>2. Moves(f) /\ Keeps(f)
    BY <1>1, StepMoves DEF Arrives
  <1>3. hold'[f] = hold[f]
    BY <1>2 DEF Keeps
  <1>4. Held(f) => Held(f)'
    BY <1>3 DEF Held
  <1>5. QED
    BY <1>1, <1>2, <1>4

(* Where a receipt of f was ruled out or f held back, it stays so.          *)
LEMMA RuledOut ==
  ASSUME TypeOK, Kinds, QueueIsBuffered, AnsweredIsOver, [Next]_vars,
         NEW f \in answered, NEW a \in Alert, open[a] = f => Held(f),
         open'[a] = f
  PROVE  Held(f)'
  <1>1. CASE open'[a] = open[a]
    BY <1>1, AnsweredKeeps
  <1>2. CASE open'[a] = None
    <2>1. f \in Request
      BY AnsweredKeeps
    <2>2. QED
      BY <1>2, <2>1, NoneAssumption
  <1>3. CASE \E r \in Request : Opens(a, r)
    <2>1. Opens(a, f)
      BY <1>3 DEF Opens
    <2>2. Held(f)
      BY <2>1, OpensHeld
    <2>3. QED
      BY <2>2, AnsweredKeeps
  <1>4. QED
    BY <1>1, <1>2, <1>3, OpenStep

LEMMA OpenersStep ==
  ASSUME TypeOK, Kinds, QueueIsBuffered, Openers, [Next]_vars
  PROVE  Openers'
  <1>1. SUFFICES ASSUME NEW a \in Alert, open'[a] # None
        PROVE  /\ alert'[open'[a]] = a
               /\ firing'[open'[a]]
               /\ pc'[open'[a]] \in {"sending", "done", "lost"}
    BY DEF Openers
  <1>2. CASE open'[a] = open[a]
    <2>1. /\ open[a] \in Request
          /\ alert[open[a]] = a /\ firing[open[a]]
          /\ pc[open[a]] \in {"sending", "done", "lost"}
      BY <1>1, <1>2 DEF TypeOK, Openers
    <2>2. Moves(open[a]) /\ Keeps(open[a])
      BY <2>1, StepMoves DEF Arrives
    <2>3. QED
      BY <1>2, <2>1, <2>2 DEF Moves, Keeps
  <1>3. CASE \E r \in Request : Opens(a, r)
    <2>1. PICK r \in Request : Opens(a, r)
      BY <1>3
    <2>2. Keeps(r)
      BY <2>1, StepMoves DEF Arrives, Opens
    <2>3. QED
      BY <2>1, <2>2 DEF Opens, Keeps
  <1>4. QED
    BY <1>1, <1>2, <1>3, OpenStep

LEMMA RecoveryStep ==
  ASSUME TypeOK, Kinds, QueueIsBuffered, AnsweredIsOver, BeforeIsAnswered,
         RecoveryClosesUnheld, [Next]_vars
  PROVE  RecoveryClosesUnheld'
  <1>1. SUFFICES ASSUME NEW q \in Request, Recovered(q)', NEW f \in before'[q],
                        open'[alert'[q]] = f
        PROVE  Held(f)'
    BY DEF RecoveryClosesUnheld
  <1>2. Moves(q) /\ Keeps(q)
    BY <1>1, StepMoves DEF Recovered, Arrives
  <1>3. q \notin failed \cup crowded /\ q \notin failed' \cup crowded'
    BY <1>1, FailedGrows DEF Recovered
  <1>4. alert[q] \in Alert /\ ~firing[q] /\ f \in before[q] /\ alert'[q] = alert[q]
    BY <1>1, <1>2 DEF Recovered, Keeps, TypeOK
  <1>5. f \in answered /\ f # None
    BY <1>4, NoneAssumption DEF BeforeIsAnswered, TypeOK
  <1>6. CASE Recovered(q)
    <2>1. open[alert[q]] = f => Held(f)
      BY <1>4, <1>6 DEF RecoveryClosesUnheld
    <2>2. QED
      BY <1>1, <1>4, <1>5, <2>1, RuledOut
  <1>7. CASE ~Recovered(q)
    <2>1. alert[q] # None
      BY <1>4, NoneAssumption
    <2>2. pc[q] \notin {"sending", "done"} /\ pc'[q] \in {"sending", "done"}
      BY <1>1, <1>4, <1>7, <1>3, <2>1 DEF Recovered
    <2>3. pc[q] # "reconciling"
      BY <2>1 DEF Kinds
    <2>4. pc[q] = "cleared" /\ pc'[q] = "sending"
      BY <1>2, <1>3, <2>1, <2>2, <2>3 DEF Moves, Kinds
    <2>5. open'[alert[q]] = None
      BY <1>4, <1>3, <2>4, RecoverStep
    <2>6. QED
      BY <1>1, <1>4, <1>5, <2>5
  <1>8. QED
    BY <1>6, <1>7

-----------------------------------------------------------------------------
(* The reconciliation of an inhibition source.                              *)

(* How a step changes what q has still to look at.                          *)
Reconciles(q) ==
  \/ UNCHANGED <<listed[q], judged[q]>>
  \/ ListReceipts(q)
  \/ \E x \in listed[q] : Judge(q, x)
  \/ Terminalize(q)
  \/ StoreFails(q)
  \/ judged'[q] = None /\ pc'[q] # "reconciling"

LEMMA ReconcilesStep ==
  ASSUME TypeOK, [Next]_vars, NEW q \in Request
  PROVE  Reconciles(q)
  <1>1. DOMAIN listed = Request /\ DOMAIN judged = Request
    BY DEF TypeOK
  <1>2. ASSUME NEW r \in Request, Handle(r) PROVE Reconciles(q)
    <2>1. CASE r = q
      <3>1. CASE ListReceipts(r) \/ (\E x \in listed[r] : Judge(r, x)) \/ Terminalize(r)
                  \/ StoreFails(r)
        BY <2>1, <3>1 DEF Reconciles
      <3>2. CASE ~(ListReceipts(r) \/ (\E x \in listed[r] : Judge(r, x)) \/ Terminalize(r)
                    \/ StoreFails(r))
        <4>1. listed' = listed /\ judged' = judged
          BY <1>2, <3>2 DEF Handle, Suppress, Pass, Arm, ReconcileDone, Defer, Buffer,
             Clear, Wake, Register, Coalesce, Recover, Sent, StoreFails
        <4>2. QED
          BY <4>1 DEF Reconciles
      <3>3. QED
        BY <3>1, <3>2
    <2>2. CASE r # q
      <3>1. /\ listed' = listed \/ \E v : listed' = [listed EXCEPT ![r] = v]
            /\ judged' = judged \/ \E v : judged' = [judged EXCEPT ![r] = v]
        BY <1>2 DEF Handle, Suppress, Pass, Arm, ListReceipts, Judge, Terminalize,
           ReconcileDone, Defer, Buffer, Clear, Wake, Register, Coalesce, Recover, Sent, StoreFails
      <3>2. UNCHANGED <<listed[q], judged[q]>>
        BY <1>1, <2>2, <3>1
      <3>3. QED
        BY <3>2 DEF Reconciles
    <2>3. QED
      BY <2>1, <2>2
  <1>3. CASE Restart
    <2>1. judged'[q] = None /\ pc'[q] # "reconciling"
      BY <1>3, RestartMoves DEF Restart, Ended
    <2>2. QED
      BY <2>1 DEF Reconciles
  <1>4. ASSUME ~\E r \in Request : Handle(r), ~Restart
        PROVE  listed' = listed /\ judged' = judged
    BY <1>4 DEF Next, Environment, Flush, Arrive, ArriveSource, Expire, Silence, Unsilence,
       Close, vars
  <1>5. QED
    BY <1>2, <1>3, <1>4 DEF Reconciles

(* Only a restart loses a request.                                          *)
LEMMA OneLoses ==
  ASSUME TypeOK, QueueIsBuffered, [Next]_vars, ~Restart, NEW q \in Request, pc[q] # "lost"
  PROVE  pc'[q] # "lost"
  <1>1. ASSUME NEW r \in Request, Handle(r) PROVE pc'[q] # "lost"
    <2>1. pc' = pc \/ \E place \in Place \ {"lost"} : Goto(r, place)
      BY <1>1 DEF Handle, Suppress, Pass, Arm, ListReceipts, Judge, Terminalize,
         ReconcileDone, Defer, Buffer, Clear, Wake, Register, Coalesce, Recover, Sent,
         StoreFails, Place
    <2>2. QED
      BY <2>1, GotoMoves
  <1>2. CASE Flush
    BY <1>2, FlushMoves
  <1>3. CASE \E r \in Request, a \in Alert, f \in BOOLEAN, h \in Holds, c \in BOOLEAN :
               Arrive(r, a, f, h, c)
    BY <1>3, ArriveMoves DEF Arrives
  <1>4. CASE \E r \in Request, s \in Rule, f \in BOOLEAN : ArriveSource(r, s, f)
    BY <1>4, ArriveSourceMoves DEF Arrives
  <1>5. CASE \/ \E s \in Rule : Expire(s)
             \/ \E a \in Alert : Silence(a) \/ Unsilence(a) \/ Close(a)
             \/ UNCHANGED vars
    BY <1>5, OtherMoves
  <1>6. QED
    BY <1>1, <1>2, <1>3, <1>4, <1>5 DEF Next, Environment

(* A source gets from arming to reconciling by listing the receipts.        *)
LEMMA ListedByItself ==
  ASSUME TypeOK, QueueIsBuffered, [Next]_vars, NEW q \in Request,
         pc[q] = "armed", pc'[q] = "reconciling"
  PROVE  ListReceipts(q)
  <1>1. ASSUME NEW r \in Request, Handle(r) PROVE r = q
    BY <1>1, HandleMoves
  <1>2. ~Suppress(q) /\ ~Pass(q) /\ ~Arm(q) /\ ~ReconcileDone(q) /\ ~Defer(q) /\ ~Buffer(q)
    BY DEF Suppress, Pass, Arm, ReconcileDone, Defer, Buffer
  <1>3. ~Clear(q) /\ ~Wake(q) /\ ~Register(q) /\ ~Coalesce(q) /\ ~Recover(q) /\ ~Sent(q)
    BY DEF Clear, Wake, Register, Coalesce, Recover, Sent
  <1>4. ~(\E x \in listed[q] : Judge(q, x)) /\ ~Terminalize(q)
    BY DEF Judge, Terminalize
  <1>5. ~StoreFails(q)
    BY GotoMoves DEF StoreFails, Place
  <1>6. ~Flush
    BY FlushMoves
  <1>7. ~Restart
    BY RestartMoves
  <1>8. ASSUME NEW r \in Request, NEW a \in Alert, NEW f \in BOOLEAN, NEW h \in Holds,
               NEW c \in BOOLEAN, Arrive(r, a, f, h, c)
        PROVE  FALSE
    BY <1>8, ArriveMoves DEF Arrives
  <1>9. ASSUME NEW r \in Request, NEW s \in Rule, NEW f \in BOOLEAN, ArriveSource(r, s, f)
        PROVE  FALSE
    BY <1>9, ArriveSourceMoves DEF Arrives
  <1>10. ASSUME \/ \E s \in Rule : Expire(s)
                \/ \E a \in Alert : Silence(a) \/ Unsilence(a) \/ Close(a)
                \/ UNCHANGED vars
         PROVE  FALSE
    BY <1>10, OtherMoves
  <1>11. CASE \E r \in Request : Handle(r)
    <2>1. Handle(q)
      BY <1>1, <1>11
    <2>2. QED
      BY <1>2, <1>3, <1>4, <1>5, <2>1 DEF Handle
  <1>12. QED
    BY <1>6, <1>7, <1>8, <1>9, <1>10, <1>11 DEF Next, Environment

(* A rule stays armed as long as a request counts as steady.                *)
LEMMA SteadyStep ==
  ASSUME TypeOK, Kinds, QueueIsBuffered, SteadyIsArmed, [Next]_vars, NEW q \in steady'
  PROVE  /\ q \in Request /\ Moves(q) /\ Keeps(q)
         /\ rule[q] \in armed'
         /\ q \in steady \/ pc'[q] = "armed"
         /\ pc'[q] # "lost"
  <1>1. \A x \in steady : x \in Request /\ pc[x] # "idle" /\ rule[x] \in armed
    BY DEF SteadyIsArmed, TypeOK
  <1>2. ASSUME NEW r \in Request, Arm(r)
        PROVE  /\ q \in Request /\ pc[q] # "idle" /\ rule[q] \in armed'
               /\ q \in steady \/ pc'[q] = "armed"
    <2>1. pc'[r] = "armed" /\ pc[r] = "arrived"
      BY <1>2, GotoMoves DEF Arm, Place
    <2>2. CASE firing[r]
      BY <1>1, <1>2, <2>1, <2>2 DEF Arm
    <2>3. CASE ~firing[r]
      BY <1>1, <1>2, <2>3 DEF Arm, Steady
    <2>4. QED
      BY <2>2, <2>3
  <1>3. ASSUME NEW s \in Rule, Expire(s)
        PROVE  q \in steady /\ rule[q] \in armed'
    BY <1>1, <1>3 DEF Expire, Steady
  <1>4. ~Restart
    BY DEF Restart
  <1>5. ASSUME NEW r \in Request, Handle(r), ~Arm(r)
        PROVE  steady' = steady /\ armed' = armed
    BY <1>5 DEF Handle, Suppress, Pass, ListReceipts, Judge, Terminalize, ReconcileDone,
       Defer, Buffer, Clear, Wake, Register, Coalesce, Recover, Sent, StoreFails
  <1>6. ASSUME ~\E r \in Request : Handle(r), ~\E s \in Rule : Expire(s)
        PROVE  steady' = steady /\ armed' = armed
    BY <1>4, <1>6 DEF Next, Environment, Flush, Arrive, ArriveSource, Silence, Unsilence,
       Close, vars
  <1>7. /\ q \in Request /\ pc[q] # "idle" /\ rule[q] \in armed'
        /\ q \in steady \/ pc'[q] = "armed"
    BY <1>1, <1>2, <1>3, <1>5, <1>6
  <1>8. Moves(q) /\ Keeps(q)
    BY <1>7, StepMoves DEF Arrives
  <1>9. q \in steady => pc[q] # "lost"
    BY DEF SteadyIsArmed
  <1>10. pc'[q] # "lost"
    BY <1>4, <1>7, <1>9, OneLoses
  <1>11. QED
    BY <1>7, <1>8, <1>10

LEMMA ArmedStep ==
  ASSUME TypeOK, Kinds, QueueIsBuffered, SteadyIsArmed, [Next]_vars
  PROVE  SteadyIsArmed'
  <1>1. SUFFICES ASSUME NEW q \in steady'
        PROVE  rule'[q] \in armed' /\ pc'[q] \in {"armed", "reconciling", "sending", "done"}
    BY DEF SteadyIsArmed
  <1>2. /\ Moves(q) /\ Keeps(q) /\ rule[q] \in armed'
        /\ q \in steady \/ pc'[q] = "armed"
        /\ pc'[q] # "lost"
    BY SteadyStep
  <1>3. q \in steady => pc[q] \in {"armed", "reconciling", "sending", "done"}
    BY DEF SteadyIsArmed
  <1>4. QED
    BY <1>2, <1>3 DEF Moves, Keeps

LEMMA JudgedStep ==
  ASSUME TypeOK, QueueIsBuffered, JudgedIsReconciling, [Next]_vars
  PROVE  JudgedIsReconciling'
  <1>1. SUFFICES ASSUME NEW q \in Request, judged'[q] # None
        PROVE  pc'[q] = "reconciling"
    BY DEF JudgedIsReconciling
  <1>2. judged \in [Request -> Request \cup {None}]
    BY DEF TypeOK
  <1>3. Moves(q) \/ Arrives(q)
    BY StepMoves
  <1>4. CASE UNCHANGED <<listed[q], judged[q]>>
    <2>1. pc[q] = "reconciling" /\ judged[q] # None
      BY <1>1, <1>4 DEF JudgedIsReconciling
    <2>2. pc'[q] \in {"reconciling", "lost"}
      BY <1>3, <2>1 DEF Moves, Arrives
    <2>3. CASE Restart
      BY <1>1, <2>3 DEF Restart
    <2>4. ASSUME ~Restart PROVE pc'[q] # "lost"
      BY <2>1, <2>4, OneLoses
    <2>5. QED
      BY <2>2, <2>3, <2>4
  <1>5. CASE ListReceipts(q)
    <2>1. pc[q] = "armed" /\ judged'[q] = judged[q]
      BY <1>5 DEF ListReceipts
    <2>2. QED
      BY <1>1, <2>1 DEF JudgedIsReconciling
  <1>6. CASE \E x \in listed[q] : Judge(q, x)
    BY <1>6 DEF Judge
  <1>7. CASE Terminalize(q)
    BY <1>1, <1>2, <1>7 DEF Terminalize
  <1>8. CASE StoreFails(q)
    <2>1. CASE judged' = [judged EXCEPT ![q] = None]
      BY <1>1, <1>2, <2>1
    <2>2. CASE pc[q] \in {"armed", "cleared"} /\ judged' = judged
      BY <1>1, <2>2 DEF JudgedIsReconciling
    <2>3. QED
      BY <1>8, <2>1, <2>2 DEF StoreFails
  <1>9. CASE judged'[q] = None /\ pc'[q] # "reconciling"
    BY <1>1, <1>9
  <1>10. QED
    BY <1>4, <1>5, <1>6, <1>7, <1>9, <1>8, ReconcilesStep DEF Reconciles

LEMMA ListedStep ==
  ASSUME TypeOK, Kinds, QueueIsBuffered, Openers, AnsweredIsOver, BeforeIsAnswered,
         SteadyIsArmed, JudgedIsReconciling, ReconcilingIsListed, [Next]_vars
  PROVE  ReconcilingIsListed'
  <1>1. SUFFICES ASSUME NEW q \in steady' \ (failed' \cup crowded'), pc'[q] = "reconciling",
                        NEW a \in Covers[rule'[q]], open'[a] # None,
                        open'[a] \in before'[q],
                        hold'[open'[a]] \notin {"defer", "buffer"}
        PROVE  open'[a] \in listed'[q] \/ judged'[q] = open'[a]
    BY DEF ReconcilingIsListed, Held
  <1>2. /\ q \in Request /\ Moves(q) /\ Keeps(q)
        /\ rule[q] \in armed' /\ q \in steady \ (failed \cup crowded)
    BY <1>1, SteadyStep, FailedGrows
  <1>3. rule[q] \in Rule /\ rule[q] \in armed /\ rule'[q] = rule[q]
    BY <1>2 DEF SteadyIsArmed, TypeOK, Keeps
  <1>4. a \in Alert
    BY <1>1, <1>3, RuleAssumption
  <1>5. open'[a] \in before[q] /\ open'[a] \in answered
    BY <1>1, <1>2 DEF Keeps, BeforeIsAnswered
  <1>6. open'[a] = open[a]
    <2>1. ASSUME NEW r \in Request, Opens(a, r) PROVE FALSE
      <3>1. open'[a] = r
        BY <2>1 DEF Opens
      <3>2. Held(r)
        BY <1>4, <1>5, <2>1, <3>1, OpensHeld
      <3>3. hold'[r] = hold[r]
        BY <1>5, <3>1, AnsweredKeeps DEF Keeps
      <3>4. QED
        BY <1>1, <3>1, <3>2, <3>3 DEF Held
    <2>2. QED
      BY <1>1, <1>4, <2>1, OpenStep
  <1>7. open[a] \in before[q] /\ open[a] # None /\ ~Held(open[a])
    <2>1. hold'[open[a]] = hold[open[a]]
      BY <1>5, <1>6, AnsweredKeeps DEF Keeps
    <2>2. QED
      BY <1>1, <1>5, <1>6, <2>1 DEF Held
  <1>8. alert[open[a]] = a /\ open[a] \in Request
    BY <1>4, <1>7 DEF Openers, TypeOK
  <1>9. pc[q] = "reconciling" => open[a] \in listed[q] \/ judged[q] = open[a]
    BY <1>1, <1>2, <1>3, <1>7 DEF ReconcilingIsListed
  <1>10. pc[q] \in {"armed", "reconciling"}
    BY <1>1, <1>2 DEF Moves
  <1>11. CASE ListReceipts(q)
    <2>1. open[a] \in Open
      BY <1>4, <1>7 DEF Open
    <2>2. PICK seen \in Lists : listed' = [listed EXCEPT ![q] = seen]
      BY <1>11 DEF ListReceipts
    <2>3. seen = Open
      BY <1>1, <1>11, ListsOpen DEF ListReceipts
    <2>4. listed'[q] = Open
      BY <1>2, <2>2, <2>3 DEF TypeOK
    <2>5. QED
      BY <1>6, <2>1, <2>4
  <1>12. ASSUME NEW x \in listed[q], Judge(q, x)
         PROVE  open[a] \in listed'[q] \/ judged'[q] = open[a]
    <2>1. /\ listed'[q] = listed[q] \ {x}
          /\ judged'[q] = IF Covered(alert[x]) THEN x ELSE None
          /\ pc[q] = "reconciling" /\ judged[q] = None
      BY <1>2, <1>12 DEF Judge, TypeOK
    <2>2. open[a] \in listed[q]
      BY <1>7, <1>9, <2>1
    <2>3. CASE x = open[a]
      <3>1. Covered(alert[x])
        BY <1>1, <1>3, <1>8, <2>3 DEF Covered
      <3>2. QED
        BY <2>1, <2>3, <3>1
    <2>4. QED
      BY <2>1, <2>2, <2>3
  <1>13. CASE Terminalize(q)
    <2>1. pc[q] = "reconciling"
      BY <1>2, <1>13 DEF Terminalize, JudgedIsReconciling
    <2>2. judged[q] # open[a]
      BY <1>1, <1>4, <1>6, <1>13 DEF Terminalize
    <2>3. listed' = listed
      BY <1>13 DEF Terminalize
    <2>4. QED
      BY <1>6, <1>9, <2>1, <2>2, <2>3
  <1>14. CASE UNCHANGED <<listed[q], judged[q]>>
    <2>1. CASE pc[q] = "reconciling"
      BY <1>6, <1>9, <1>14, <2>1
    <2>2. CASE pc[q] = "armed"
      <3>1. ListReceipts(q)
        BY <1>1, <1>2, <2>2, ListedByItself
      <3>2. QED
        BY <1>11, <3>1
    <2>3. QED
      BY <1>10, <2>1, <2>2
  <1>15. QED
    <2>1. ~StoreFails(q)
      BY <1>1 DEF StoreFails
    <2>2. QED
      BY <1>1, <1>2, <1>6, <1>11, <1>12, <1>13, <1>14, <2>1, ReconcilesStep DEF Reconciles

LEMMA ClosesStep ==
  ASSUME TypeOK, Kinds, QueueIsBuffered, AnsweredIsOver, BeforeIsAnswered, SteadyIsArmed,
         ReconcilingIsListed, InhibitionCloses, [Next]_vars
  PROVE  InhibitionCloses'
  <1>1. SUFFICES ASSUME NEW q \in steady' \ (failed' \cup crowded'), pc'[q] \in {"sending", "done"},
                        NEW a \in Covers[rule'[q]], NEW f \in before'[q], open'[a] = f
        PROVE  Held(f)'
    BY DEF InhibitionCloses
  <1>2. q \in Request /\ Moves(q) /\ Keeps(q) /\ q \in steady \ (failed \cup crowded)
    BY <1>1, SteadyStep, FailedGrows
  <1>3. /\ rule[q] \in Rule /\ rule'[q] = rule[q]
        /\ pc[q] \in {"armed", "reconciling", "sending", "done"}
    BY <1>2 DEF SteadyIsArmed, TypeOK, Keeps
  <1>4. a \in Alert /\ a \in Covers[rule[q]]
    BY <1>1, <1>3, RuleAssumption
  <1>5. f \in before[q] /\ f \in answered /\ f # None
    BY <1>1, <1>2, NoneAssumption DEF Keeps, BeforeIsAnswered, TypeOK
  <1>6. open[a] = f => Held(f)
    <2>1. CASE pc[q] \in {"sending", "done"}
      BY <1>2, <1>4, <1>5, <2>1 DEF InhibitionCloses
    <2>2. CASE pc[q] \notin {"sending", "done"}
      <3>1. pc[q] = "reconciling" /\ listed[q] = {} /\ judged[q] = None
        BY <1>1, <1>2, <1>3, <2>2 DEF Moves
      <3>2. QED
        BY <1>2, <1>4, <1>5, <3>1 DEF ReconcilingIsListed
    <2>3. QED
      BY <2>1, <2>2
  <1>7. QED
    BY <1>1, <1>4, <1>5, <1>6, RuledOut

-----------------------------------------------------------------------------
LEMMA NextInvariant == IInv /\ [Next]_vars => IInv'
  <1>1. SUFFICES ASSUME IInv, [Next]_vars PROVE IInv'
    OBVIOUS
  <1>2. /\ TypeOK /\ Kinds /\ HeldPlaces /\ QueueIsBuffered /\ PendingSleeps
        /\ SleepingIsPending /\ DeferralHonoured /\ Openers /\ AnsweredIsOver
        /\ BeforeIsAnswered /\ RecoveryClosesUnheld /\ SteadyIsArmed
        /\ JudgedIsReconciling /\ ReconcilingIsListed /\ InhibitionCloses
    BY <1>1 DEF IInv
  <1>3. TypeOK' /\ Kinds' /\ HeldPlaces' /\ QueueIsBuffered'
    BY <1>1, <1>2, TypeStep, KindsStep, QueueStep
  <1>4. PendingSleeps' /\ SleepingIsPending' /\ DeferralHonoured'
    BY <1>1, <1>2, DeferralStep
  <1>5. Openers' /\ AnsweredIsOver' /\ BeforeIsAnswered'
    BY <1>1, <1>2, OpenersStep, AnsweredStep
  <1>6. RecoveryClosesUnheld'
    BY <1>1, <1>2, RecoveryStep
  <1>7. SteadyIsArmed' /\ JudgedIsReconciling'
    BY <1>1, <1>2, ArmedStep, JudgedStep
  <1>8. ReconcilingIsListed' /\ InhibitionCloses'
    BY <1>1, <1>2, ListedStep, ClosesStep
  <1>9. QED
    BY <1>3, <1>4, <1>5, <1>6, <1>7, <1>8 DEF IInv

(* The inductive invariant holds for any number of requests, alerts, rules  *)
(* and restarts, whatever of them is deferred, buffered or silenced.        *)
THEOREM Invariant == Spec => []IInv
  <1>1. QED
    BY InitInvariant, NextInvariant, PTL DEF Spec

(* A deferral that a later request cancels or supersedes is never delivered *)
(* by the timer of deferral.rs, and no deferral is dropped for any other    *)
(* reason.                                                                  *)
THEOREM CancelledIsNotDelivered == Spec => []DeferralHonoured
  <1>1. IInv => DeferralHonoured
    BY DEF IInv
  <1>2. QED
    BY <1>1, Invariant, PTL

(* A recovery that passes the gate of ingest.rs leaves no receipt of a      *)
(* firing that was answered before it came, held back ones apart.           *)
THEOREM RecoveryIsFinal == Spec => []RecoveryClosesUnheld
  <1>1. IInv => RecoveryClosesUnheld
    BY DEF IInv
  <1>2. QED
    BY <1>1, Invariant, PTL

(* A source whose rule stays armed leaves, once reconciled, no receipt its  *)
(* rule covers among those of firings answered before it came.              *)
THEOREM InhibitionIsApplied == Spec => []InhibitionCloses
  <1>1. IInv => InhibitionCloses
    BY DEF IInv
  <1>2. QED
    BY <1>1, Invariant, PTL
=============================================================================
