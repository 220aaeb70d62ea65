-------------------------- MODULE ReceiptContract --------------------------
(***************************************************************************)
(* What the emergency receipts promise to the people they page, whatever   *)
(* schedulers, leases and crashes are behind them: a condition has at most *)
(* one open incident, attempts are counted on an open incident only and at *)
(* most two above its limit, and an incident is closed once, for good.     *)
(***************************************************************************)
EXTENDS Integers

CONSTANTS Receipt, Fingerprint, Limits, Endings

VARIABLE incident  \* [Receipt -> [state, fp, tries, limit]]

Unopened(i) == i.state = "free" /\ i.tries = 0
Opened(r) == incident[r].state = "active"

Init == \A r \in Receipt : Unopened(incident[r])

\* A new incident; no other is open for the condition f.
Open(r, f, limit) ==
  /\ incident[r].state = "free"
  /\ \A q \in Receipt : Opened(q) => incident[q].fp # f
  /\ incident' = [incident EXCEPT ![r] =
       [state |-> "active", fp |-> f, tries |-> 0, limit |-> limit]]

\* One more attempt is on record.  The limit stops the retries; the first
\* notification is counted without a look at it, twice at worst.
Try(r) ==
  /\ Opened(r)
  /\ incident[r].tries < incident[r].limit + 2
  /\ incident' = [incident EXCEPT ![r].tries = @ + 1]

\* Some open incidents end, all in the same way.
End(ended, how) ==
  /\ ended # {}
  /\ incident' = [r \in Receipt |->
       IF r \in ended THEN [incident[r] EXCEPT !.state = how] ELSE incident[r]]

Next ==
  \/ \E r \in Receipt, f \in Fingerprint, limit \in Limits : Open(r, f, limit)
  \/ \E r \in Receipt : Try(r)
  \/ \E ended \in SUBSET {r \in Receipt : Opened(r)}, how \in Endings :
       End(ended, how)

Spec == Init /\ [][Next]_incident
=============================================================================
