------------------------- MODULE RepeatSuppression -------------------------
(***************************************************************************)
(* The repeat gate in front of every delivery that is not an emergency:    *)
(* one row per notification fingerprint says when it was last delivered    *)
(* and who is delivering it now.  Requests of all instances go through one *)
(* transaction each (reserve), send outside of it, and write the outcome   *)
(* back only if the row still carries their reservation token.             *)
(*                                                                         *)
(* A request is also its token: token_urlsafe draws one per request.  The  *)
(* absence of a row is the row without a delivery and a reservation: the   *)
(* transaction treats both alike.  Times are whole numbers and 0 is NULL.  *)
(***************************************************************************)
EXTENDS Integers

CONSTANTS
  Request,      \* deliveries that ask the gate
  Fingerprint,  \* hashes of source, severity and the text of a notification
  Window,       \* cooldowns that sources and rules set
  SendBound,    \* longest time from the reservation to the last response
  TTL,          \* life of a reservation
  Retention,    \* age at which an unused row is pruned
  LastArrival,  \* bound: no request arrives later
  Horizon,      \* bound: the clock stops here
  MaxFaults,    \* bound: storage errors, lost replies, abandoned requests
  None

\* reservation_ttl_s is the sum of the timeouts of the tiers that may be tried
\* and of the rendering, plus 30 s.
ASSUME ReservationAssumption ==
  SendBound \in Nat /\ TTL \in Nat /\ SendBound < TTL

\* Windows are clamped to a week, the retention of a row.
ASSUME WindowAssumption ==
  Retention \in Nat /\ Window \subseteq 1..Retention

ASSUME BoundAssumption ==
  LastArrival \in Nat /\ Horizon \in Nat /\ MaxFaults \in Nat

ASSUME NoneAssumption == None \notin Request \cup Fingerprint

VARIABLES
  row,     \* klaxond_repeat_state
  pc,      \* where each request is,
  fp,      \*   the fingerprint it asks for,
  window,  \*   the cooldown that applies to it,
  start,   \*   when it was let through,
  ended,   \*   when its success was recorded, or it was suppressed
  clock,   \* now_epoch(), or the clock of PostgreSQL
  faults   \* storage errors, lost replies and abandoned requests so far

vars == <<row, pc, fp, window, start, ended, clock, faults>>

NoRow == [last |-> 0, suppressed |-> 0, until |-> 0, token |-> None]

RowType ==
  [last : Nat, suppressed : Nat, until : Nat, token : Request \cup {None}]

\* "recorded" is a delivery whose success is in the row; "unguarded" one that
\* was let through without a reservation; "over" any other end.
Place ==
  {"idle", "asking", "waiting", "sending", "succeeded", "failed", "recorded",
   "suppressed", "unguarded", "over"}

TypeOK ==
  /\ row \in [Fingerprint -> RowType]
  /\ pc \in [Request -> Place]
  /\ fp \in [Request -> Fingerprint \cup {None}]
  /\ window \in [Request -> Nat]
  /\ start \in [Request -> Nat]
  /\ ended \in [Request -> Nat]
  /\ clock \in Nat \ {0}
  /\ faults \in Nat

Init ==
  /\ row = [f \in Fingerprint |-> NoRow]
  /\ pc = [d \in Request |-> "idle"]
  /\ fp = [d \in Request |-> None]
  /\ window = [d \in Request |-> 0]
  /\ start = [d \in Request |-> 0]
  /\ ended = [d \in Request |-> 0]
  /\ clock = 1
  /\ faults = 0

Fault == faults < MaxFaults /\ faults' = faults + 1

Undecided(d) == pc[d] \in {"asking", "waiting"}

Goto(d, place) == pc' = [pc EXCEPT ![d] = place]

-----------------------------------------------------------------------------
(* Arrival.                                                                *)

\* select_policy finds a window for the request.
Arrive(d, f, w) ==
  /\ pc[d] = "idle"
  /\ clock <= LastArrival
  /\ Goto(d, "asking")
  /\ fp' = [fp EXCEPT ![d] = f]
  /\ window' = [window EXCEPT ![d] = w]
  /\ UNCHANGED <<row, start, ended, clock, faults>>

\* No window applies, or an emergency receipt stands for the request: it is
\* sent at once and never touches the row.
Bypass(d) ==
  /\ pc[d] = "idle"
  /\ clock <= LastArrival
  /\ Goto(d, "unguarded")
  /\ UNCHANGED <<row, fp, window, start, ended, clock, faults>>

-----------------------------------------------------------------------------
(* The transaction of reserve: prune, read the row, decide.                *)

StaleReservation(r) ==  \* mutant: the last delivery is not looked at
  r.until < clock - Retention /\ r.suppressed < clock - Retention

Stale(r) ==
  /\ r.until < clock - Retention
  /\ r.last < clock - Retention
  /\ r.suppressed < clock - Retention

\* The rows after prune_expired, which goes over all fingerprints.
Pruned == [f \in Fingerprint |-> IF Stale(row[f]) THEN NoRow ELSE row[f]]

Found(d) == Pruned[fp[d]]

\* The delivery on record is inside the window of the request.
Recent(d) == Found(d).last # 0 /\ Found(d).last >= clock - window[d]

BusyNever(d) == FALSE                    \* mutant: reservations are not seen
BusyForever(d) == Found(d).token # None  \* mutant: reservations do not end

\* Somebody is delivering the same notification.
Busy(d) == Found(d).until > clock

Suppress(d) ==
  /\ Undecided(d)
  /\ Found(d).token # d
  /\ Recent(d)
  /\ row' = [Pruned EXCEPT ![fp[d]] =
       [last |-> Found(d).last, suppressed |-> clock,
        until |-> Found(d).until, token |-> Found(d).token]]
  /\ Goto(d, "suppressed")
  /\ ended' = [ended EXCEPT ![d] = clock]
  /\ UNCHANGED <<fp, window, start, clock, faults>>

\* Poll again in 250 ms.
WaitForDelivery(d) ==
  /\ Undecided(d)
  /\ Found(d).token # d
  /\ ~Recent(d)
  /\ Busy(d)
  /\ row' = Pruned
  /\ Goto(d, "waiting")
  /\ UNCHANGED <<fp, window, start, ended, clock, faults>>

Free(d) == Found(d).token # d /\ ~Recent(d) /\ ~Busy(d)

\* The row carries the token of d from here on.
Reservation(d) ==
  row' = [Pruned EXCEPT ![fp[d]] =
    [last |-> Found(d).last, suppressed |-> Found(d).suppressed,
     until |-> clock + TTL, token |-> d]]

Sends(d) == Goto(d, "sending") /\ start' = [start EXCEPT ![d] = clock]

Reserve(d) ==
  /\ Undecided(d)
  /\ Free(d)
  /\ Reservation(d)
  /\ Sends(d)
  /\ UNCHANGED <<fp, window, ended, clock, faults>>

\* PostgreSQL commits but the reply is lost: postgres_with_retry runs the
\* transaction again, ...
ReserveReplyLost(d) ==
  /\ Undecided(d)
  /\ Free(d)
  /\ Fault
  /\ Reservation(d)
  /\ UNCHANGED <<pc, fp, window, start, ended, clock>>

\* ... which finds the token of its own request and renews the reservation.
Renew(d) ==
  /\ Undecided(d)
  /\ Found(d).token = d
  /\ Reservation(d)
  /\ Sends(d)
  /\ UNCHANGED <<fp, window, ended, clock, faults>>

\* The store fails: the request is sent without a reservation.
FailOpen(d) ==
  /\ Undecided(d)
  /\ Fault
  /\ Goto(d, "unguarded")
  /\ UNCHANGED <<row, fp, window, start, ended, clock>>

-----------------------------------------------------------------------------
(* Sending and the outcome.                                                *)

\* dispatch returns; any accepted channel makes it a success.
Answered(d, ok) ==
  /\ pc[d] = "sending"
  /\ Goto(d, IF ok THEN "succeeded" ELSE "failed")
  /\ UNCHANGED <<row, fp, window, start, ended, clock, faults>>

LastAlways(d) == clock  \* mutant: a failure counts as a delivery

\* What complete leaves as the time of the last delivery.
Last(d) == IF pc[d] = "succeeded" THEN clock ELSE row[fp[d]].last

HoldsAnyway(d) == TRUE  \* mutant: no token in the WHERE

Holds(d) == row[fp[d]].token = d

Complete(d) ==
  /\ pc[d] \in {"succeeded", "failed"}
  /\ row' = IF Holds(d)
       THEN [row EXCEPT ![fp[d]] =
              [last |-> Last(d), suppressed |-> row[fp[d]].suppressed,
               until |-> 0, token |-> None]]
       ELSE row
  /\ IF Holds(d) /\ pc[d] = "succeeded"
       THEN Goto(d, "recorded") /\ ended' = [ended EXCEPT ![d] = clock]
       ELSE Goto(d, "over") /\ UNCHANGED ended
  /\ UNCHANGED <<fp, window, start, clock, faults>>

\* The store fails: the reservation stays until its TTL is over.
CompleteFails(d) ==
  /\ pc[d] \in {"succeeded", "failed"}
  /\ Fault
  /\ Goto(d, "over")
  /\ UNCHANGED <<row, fp, window, start, ended, clock>>

\* The instance dies, or the producer hangs up and the server drops the
\* request with the delivery in it.  (A crash is several of these.)
Abandon(d) ==
  /\ pc[d] \in {"asking", "waiting", "sending", "succeeded", "failed"}
  /\ Fault
  /\ Goto(d, "over")
  /\ UNCHANGED <<row, fp, window, start, ended, clock>>

\* Timeouts end every sending within SendBound.  (Bound: after LastArrival the
\* clock does not run out on a request that nothing holds back.)
Tick ==
  /\ clock < Horizon
  /\ \A d \in Request : Undecided(d) /\ ~Busy(d) => clock < LastArrival
  /\ \A d \in Request : pc[d] = "sending" => clock < start[d] + SendBound
  /\ clock' = clock + 1
  /\ UNCHANGED <<row, pc, fp, window, start, ended, faults>>

-----------------------------------------------------------------------------
\* One round of reserve_until_decided.
Decide(d) ==
  \/ Suppress(d)
  \/ WaitForDelivery(d)
  \/ Reserve(d)
  \/ ReserveReplyLost(d)
  \/ Renew(d)
  \/ FailOpen(d)

Deliver(d) ==
  \/ \E ok \in BOOLEAN : Answered(d, ok)
  \/ Complete(d)
  \/ CompleteFails(d)

Next ==
  \/ \E d \in Request, f \in Fingerprint, w \in Window : Arrive(d, f, w)
  \/ \E d \in Request : Bypass(d) \/ Decide(d) \/ Deliver(d) \/ Abandon(d)
  \/ Tick

Spec == Init /\ [][Next]_vars

\* tokio polls every waiting request again and drives every sending to its
\* end; time passes.
FairSpec ==
  /\ Spec
  /\ \A d \in Request : WF_vars(Decide(d)) /\ WF_vars(Deliver(d))
  /\ WF_vars(Tick)

-----------------------------------------------------------------------------
(* What must hold.                                                         *)

\* Two requests that hold a reservation never send one notification at the
\* same time, whatever replies are lost and however often a holder dies.
OneReservedSender ==
  \A d, e \in Request :
    pc[d] = "sending" /\ pc[e] = "sending" /\ fp[d] = fp[e] => d = e

\* Nothing is suppressed on the strength of an attempt: somebody did receive
\* the notification, within the window of the request that was dropped.
SuppressedWasHeard ==
  \A d \in Request :
    pc[d] = "suppressed" =>
      \E e \in Request :
        /\ pc[e] = "recorded"
        /\ fp[e] = fp[d]
        /\ ended[e] \in (ended[d] - window[d])..ended[d]

\* d was sent when the cooldown of d, counted from the delivery of e, was over.
CooledDown(d, e) == ended[e] + window[d] < start[d]

\* Of two recorded deliveries of one notification the later one was sent after
\* its window: no waiting, pruning or late outcome lets a repeat through.
OneSuccessPerWindow ==
  \A d, e \in Request :
    pc[d] = "recorded" /\ pc[e] = "recorded" /\ fp[d] = fp[e] /\ d # e
      => CooledDown(d, e) \/ CooledDown(e, d)

\* Every request is sent or suppressed in the end (or died undecided): the
\* reservation of a dead holder does not outlive its TTL.
EventuallyDecided == \A d \in Request : Undecided(d) ~> ~Undecided(d)

-----------------------------------------------------------------------------
(* The inductive invariant behind the safety properties.                   *)

\* A request at the gate, or through it, has a fingerprint and a window.
Arrived ==
  \A d \in Request :
    pc[d] \notin {"idle", "unguarded", "over"} =>
      fp[d] \in Fingerprint /\ window[d] \in Window

\* The time of the last delivery is that of a recorded one.
LastIsReal ==
  \A f \in Fingerprint :
    /\ row[f].last <= clock
    /\ row[f].last # 0 =>
         \E e \in Request :
           pc[e] = "recorded" /\ fp[e] = f /\ ended[e] = row[f].last

\* A token in a row is that of a request about this row.
TokenIsKnown ==
  \A d \in Request, f \in Fingerprint :
    row[f].token = d => fp[d] = f /\ pc[d] # "idle"

\* A sender holds the token of its row beyond the end of its sending.
SenderHolds ==
  \A d \in Request :
    pc[d] = "sending" =>
      /\ row[fp[d]].token = d
      /\ clock <= start[d] + SendBound
      /\ start[d] + SendBound < row[fp[d]].until

\* A recorded delivery is in the row until the row was old enough to go.
RecordKept ==
  \A e \in Request :
    pc[e] = "recorded" =>
      /\ ended[e] # 0
      /\ ended[e] <= row[fp[e]].last \/ ended[e] < clock - Retention

\* When the holder of a token was granted it, every delivery on record was out
\* of its window.
HolderCooled ==
  \A d, e \in Request :
    /\ pc[e] = "recorded"
    /\ fp[d] = fp[e]
    /\ fp[d] \in Fingerprint
    /\ row[fp[d]].token = d
    => /\ pc[d] \in {"sending", "succeeded"} => CooledDown(d, e)
       /\ Undecided(d) => ended[e] + window[d] < clock

IInv ==
  /\ TypeOK
  /\ Arrived
  /\ LastIsReal
  /\ TokenIsKnown
  /\ SenderHolds
  /\ RecordKept
  /\ HolderCooled
  /\ SuppressedWasHeard
  /\ OneSuccessPerWindow
=============================================================================
