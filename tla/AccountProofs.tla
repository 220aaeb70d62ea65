---------------------------- MODULE AccountProofs ----------------------------
(* What accounts are promised, by the two modules that keep the failures   *)
(* of FailureLimit.                                                        *)
(*                                                                         *)
(* A change of the history store forgets no session, no revocation and no  *)
(* failure that counts, leaves no reservation behind and shows no activity *)
(* of the store that is gone, for any stores, requests, changes, failures  *)
(* and crashes.                                                            *)
(*                                                                         *)
(* A sign-in ends in one session for each token, with the factor that was  *)
(* asked for, and credentials are guessed no more often than the limits    *)
(* allow, for any requests, tokens, times, failures and configurations.    *)
EXTENDS HistoryStores, SignIn, FiniteSetTheorems, TLAPS

Column == {"sessions", "revoked", "spent", "limit", "log", "held", "receipts"}
ChangeColumn == {"how", "to", "before", "snapshot", "pc"}
FactColumn == {"sessions", "revoked", "spent", "failed", "until"}

(* The part of the types that the proofs use.                              *)
Tables ==
  /\ db = [s \in Store |-> db[s]]
  /\ \A s \in Store : db[s] = [x \in Column |-> db[s][x]]
  /\ facts = [x \in FactColumn |-> facts[x]]

Places ==
  /\ file \in Store /\ open \in Store \cup {None}
  /\ generation \in Nat
  /\ task \in [Task -> [kind : {"idle", "log", "repeat", "gone", "query", "answer"},
                        store : Store \cup {None}, generation : Nat]]
  /\ \A w \in Task : task[w].kind \in {"log", "repeat", "gone"} => task[w].store \in Store
  /\ change = [x \in ChangeColumn |-> change[x]] /\ change.pc \in Stage
  /\ ~At("none") => change.to \in Store /\ change.before \in Store
  /\ ~Up => cache = None /\ At("none")

(* Before the target is opened its files are written, and the store in      *)
(* place after the swap is the target.                                     *)
ChangeOnDisk ==
  /\ change.pc \in {"written", "opened", "imported", "swapped"} => file = change.to
  /\ change.pc = "swapped" => open = change.to

(* What was read of a store is that of the open one, or too old to be      *)
(* cached.                                                                 *)
Answers ==
  /\ cache # None => At("swapped") \/ cache.store = open
  /\ \A w \in Task : task[w].kind \in {"query", "answer"} =>
       /\ Up /\ task[w].generation <= generation
       /\ task[w].kind = "answer" /\ task[w].generation = generation =>
            At("swapped") \/ task[w].store = open

(* The store that sign-ins use, and the one they will use, know the facts; *)
(* a snapshot has them until it is imported.                               *)
SnapshotKnows ==
  /\ facts.sessions \subseteq change.snapshot.sessions
  /\ facts.revoked \subseteq change.snapshot.revoked
  /\ facts.spent \subseteq change.snapshot.spent

Remembered == ~orphaned =>
  /\ Up => Knows(open)
  /\ ~Up => Knows(file)
  /\ change.pc \in {"snapped", "written", "opened"} => SnapshotKnows
  /\ change.pc \in {"imported", "swapped"} => Knows(change.to)

-----------------------------------------------------------------------------
(* What the steps do to the tables.                                        *)

LEMMA RowWritten ==
  ASSUME Tables, NEW s \in Store, NEW r, r = [x \in Column |-> r[x]],
         db' = [db EXCEPT ![s] = r]
  PROVE  /\ db' = [t \in Store |-> db'[t]]
         /\ \A t \in Store : db'[t] = [x \in Column |-> db'[t][x]]
         /\ db'[s] = r /\ \A t \in Store \ {s} : db'[t] = db[t]
  BY DEF Tables

\* The store that is open has the facts of a sign-in as soon as it is answered.
FactsGo == /\ Tables'
           /\ \A s \in Store : db'[s].held = db[s].held
           /\ Knows(open) => Knows(open)'

LEMMA SignInRows ==
  ASSUME Tables, Places, SignIn
  PROVE  FactsGo /\ Up /\ ~Exclusive /\ Others
  <1>1. ASSUME NEW x \in Session, CreateSession(x)
        PROVE  FactsGo /\ Up /\ ~Exclusive /\ Others
    <2> DEFINE r == [db[open] EXCEPT !.sessions = @ \cup {x}]
    <2>1. open \in Store /\ Up /\ ~Exclusive /\ Others
      BY <1>1 DEF CreateSession, MaySign, Up, Places
    <2>2. r = [y \in Column |-> r[y]]
      BY <2>1 DEF Tables, Column
    <2>3. db' = [db EXCEPT ![open] = r]
      BY <1>1 DEF CreateSession
    <2>4. facts' = [facts EXCEPT !.sessions = @ \cup {x}] /\ open' = open
      BY <1>1 DEF CreateSession, Others
    <2>5. Tables'
      BY <2>1, <2>2, <2>3, <2>4, RowWritten DEF Tables, FactColumn
    <2>6. db'[open] = r /\ \A t \in Store \ {open} : db'[t] = db[t]
      BY <2>1, <2>2, <2>3, RowWritten
    <2>7. /\ r.sessions = db[open].sessions \cup {x} /\ r.revoked = db[open].revoked
          /\ r.spent = db[open].spent /\ r.held = db[open].held
      BY <2>1 DEF Tables, Column
    <2>8. /\ facts'.sessions = facts.sessions \cup {x} /\ facts'.revoked = facts.revoked
          /\ facts'.spent = facts.spent
      BY <2>4 DEF Tables, FactColumn
    <2>9. QED
      BY <2>1, <2>4, <2>5, <2>6, <2>7, <2>8 DEF FactsGo, Knows
  <1>2. ASSUME NEW x \in Session, Revoke(x)
        PROVE  FactsGo /\ Up /\ ~Exclusive /\ Others
    <2> DEFINE r == [db[open] EXCEPT !.revoked = @ \cup {x}]
    <2>1. open \in Store /\ Up /\ ~Exclusive /\ Others
      BY <1>2 DEF Revoke, MaySign, Up, Places
    <2>2. r = [y \in Column |-> r[y]]
      BY <2>1 DEF Tables, Column
    <2>3. db' = [db EXCEPT ![open] = r]
      BY <1>2 DEF Revoke
    <2>4. facts' = [facts EXCEPT !.revoked = @ \cup {x}] /\ open' = open
      BY <1>2 DEF Revoke, Others
    <2>5. Tables'
      BY <2>1, <2>2, <2>3, <2>4, RowWritten DEF Tables, FactColumn
    <2>6. db'[open] = r /\ \A t \in Store \ {open} : db'[t] = db[t]
      BY <2>1, <2>2, <2>3, RowWritten
    <2>7. /\ r.sessions = db[open].sessions /\ r.revoked = db[open].revoked \cup {x}
          /\ r.spent = db[open].spent /\ r.held = db[open].held
      BY <2>1 DEF Tables, Column
    <2>8. /\ facts'.sessions = facts.sessions /\ facts'.revoked = facts.revoked \cup {x}
          /\ facts'.spent = facts.spent
      BY <2>4 DEF Tables, FactColumn
    <2>9. QED
      BY <2>1, <2>4, <2>5, <2>6, <2>7, <2>8 DEF FactsGo, Knows
  <1>3. ASSUME NEW k \in LogoutToken, ConsumeLogout(k)
        PROVE  FactsGo /\ Up /\ ~Exclusive /\ Others
    <2> DEFINE gone == Ends[k] \cap db[open].sessions
               r == [db[open] EXCEPT !.spent = @ \cup {k}, !.revoked = @ \cup gone]
    <2>1. open \in Store /\ Up /\ ~Exclusive /\ Others
      BY <1>3 DEF ConsumeLogout, MaySign, Up, Places
    <2>2. r = [y \in Column |-> r[y]]
      BY <2>1 DEF Tables, Column
    <2>3. db' = [db EXCEPT ![open] = r]
      BY <1>3, <2>1 DEF ConsumeLogout, Tables
    <2>4. /\ facts' = [facts EXCEPT !.spent = @ \cup {k}, !.revoked = @ \cup gone]
          /\ open' = open
      BY <1>3 DEF ConsumeLogout, Others
    <2>5. Tables'
      BY <2>1, <2>2, <2>3, <2>4, RowWritten DEF Tables, FactColumn
    <2>6. db'[open] = r /\ \A t \in Store \ {open} : db'[t] = db[t]
      BY <2>1, <2>2, <2>3, RowWritten
    <2>7. /\ r.sessions = db[open].sessions /\ r.revoked = db[open].revoked \cup gone
          /\ r.spent = db[open].spent \cup {k} /\ r.held = db[open].held
      BY <2>1 DEF Tables, Column
    <2>8. /\ facts'.sessions = facts.sessions /\ facts'.revoked = facts.revoked \cup gone
          /\ facts'.spent = facts.spent \cup {k}
      BY <2>4 DEF Tables, FactColumn
    <2>9. QED
      BY <2>1, <2>4, <2>5, <2>6, <2>7, <2>8 DEF FactsGo, Knows
  <1>4. ASSUME NEW a \in Account, CheckLimit(a) \/ RecordFailure(a) \/ ClearFailures(a)
        PROVE  FactsGo /\ Up /\ ~Exclusive /\ Others
    <2>1. open \in Store /\ Up /\ ~Exclusive /\ Others
      BY <1>4 DEF CheckLimit, RecordFailure, ClearFailures, MaySign, Up, Places
    <2>2. PICK v : db' = [db EXCEPT ![open].limit = v]
      BY <1>4 DEF CheckLimit, RecordFailure, ClearFailures
    <2> DEFINE r == [db[open] EXCEPT !.limit = v]
    <2>3. r = [y \in Column |-> r[y]]
      BY <2>1 DEF Tables, Column
    <2>4. db' = [db EXCEPT ![open] = r]
      BY <2>2
    <2>5. /\ facts' = [x \in FactColumn |-> facts'[x]] /\ open' = open
          /\ facts'.sessions = facts.sessions /\ facts'.revoked = facts.revoked
          /\ facts'.spent = facts.spent
      <3>1. CASE CheckLimit(a)
        BY <3>1 DEF CheckLimit, Others, Tables
      <3>2. CASE RecordFailure(a)
        BY <3>2 DEF RecordFailure, Others, Tables, FactColumn
      <3>3. CASE ClearFailures(a)
        BY <3>3 DEF ClearFailures, Others, Tables, FactColumn
      <3>4. QED
        BY <1>4, <3>1, <3>2, <3>3
    <2>6. Tables'
      BY <2>1, <2>3, <2>4, <2>5, RowWritten DEF Tables
    <2>7. db'[open] = r /\ \A t \in Store \ {open} : db'[t] = db[t]
      BY <2>1, <2>3, <2>4, RowWritten
    <2>8. /\ r.sessions = db[open].sessions /\ r.revoked = db[open].revoked
          /\ r.spent = db[open].spent /\ r.held = db[open].held
      BY <2>1 DEF Tables, Column
    <2>9. QED
      BY <2>1, <2>5, <2>6, <2>7, <2>8 DEF FactsGo, Knows
  <1>5. QED
    BY <1>1, <1>2, <1>3, <1>4 DEF SignIn

(* The columns of the facts, which only sign-ins and imports write.        *)
FactsStay ==
  /\ Tables' /\ facts' = facts
  /\ \A s \in Store : /\ db'[s].sessions = db[s].sessions
                      /\ db'[s].revoked = db[s].revoked
                      /\ db'[s].spent = db[s].spent
                      /\ db'[s].limit = db[s].limit

HeldStays == \A s \in Store : db'[s].held = db[s].held

LEMMA ColumnWritten ==
  ASSUME Tables, facts' = facts, NEW s \in Store, NEW v,
         \/ db' = [db EXCEPT ![s].held = v]
         \/ db' = [db EXCEPT ![s].log = v]
         \/ db' = [db EXCEPT ![s].receipts = v]
  PROVE  /\ FactsStay
         /\ db' = [db EXCEPT ![s].held = v] =>
              db'[s].held = v /\ \A t \in Store \ {s} : db'[t].held = db[t].held
         /\ db' = [db EXCEPT ![s].log = v] \/ db' = [db EXCEPT ![s].receipts = v] => HeldStays
  <1>1. ASSUME db' = [db EXCEPT ![s].held = v]
        PROVE  /\ FactsStay /\ db'[s].held = v
               /\ \A t \in Store \ {s} : db'[t].held = db[t].held
    <2> DEFINE r == [db[s] EXCEPT !.held = v]
    <2>1. r = [y \in Column |-> r[y]]
      BY DEF Tables, Column
    <2>2. /\ r.sessions = db[s].sessions /\ r.revoked = db[s].revoked
          /\ r.spent = db[s].spent /\ r.limit = db[s].limit /\ r.held = v
      BY DEF Tables, Column
    <2>3. db' = [db EXCEPT ![s] = r]
      BY <1>1
    <2>4. /\ Tables' /\ db'[s] = r /\ \A t \in Store \ {s} : db'[t] = db[t]
      BY <2>1, <2>3, RowWritten DEF Tables
    <2>5. QED
      BY <2>2, <2>4 DEF FactsStay
  <1>2. ASSUME db' = [db EXCEPT ![s].log = v]
        PROVE  FactsStay /\ HeldStays
    <2> DEFINE r == [db[s] EXCEPT !.log = v]
    <2>1. r = [y \in Column |-> r[y]]
      BY DEF Tables, Column
    <2>2. /\ r.sessions = db[s].sessions /\ r.revoked = db[s].revoked
          /\ r.spent = db[s].spent /\ r.limit = db[s].limit /\ r.held = db[s].held
      BY DEF Tables, Column
    <2>3. db' = [db EXCEPT ![s] = r]
      BY <1>2
    <2>4. /\ Tables' /\ db'[s] = r /\ \A t \in Store \ {s} : db'[t] = db[t]
      BY <2>1, <2>3, RowWritten DEF Tables
    <2>5. QED
      BY <2>2, <2>4 DEF FactsStay, HeldStays
  <1>3. ASSUME db' = [db EXCEPT ![s].receipts = v]
        PROVE  FactsStay /\ HeldStays
    <2> DEFINE r == [db[s] EXCEPT !.receipts = v]
    <2>1. r = [y \in Column |-> r[y]]
      BY DEF Tables, Column
    <2>2. /\ r.sessions = db[s].sessions /\ r.revoked = db[s].revoked
          /\ r.spent = db[s].spent /\ r.limit = db[s].limit /\ r.held = db[s].held
      BY DEF Tables, Column
    <2>3. db' = [db EXCEPT ![s] = r]
      BY <1>3
    <2>4. /\ Tables' /\ db'[s] = r /\ \A t \in Store \ {s} : db'[t] = db[t]
      BY <2>1, <2>3, RowWritten DEF Tables
    <2>5. QED
      BY <2>2, <2>4 DEF FactsStay, HeldStays
  <1>4. QED
    BY <1>1, <1>2, <1>3

LEMMA NothingWritten == ASSUME Tables, UNCHANGED <<db, facts>> PROVE FactsStay /\ HeldStays
  BY DEF Tables, FactsStay, HeldStays

(* The tasks that a store holds repeats back for.                          *)
Holding(s) == {w \in Task : task[w].kind \in {"repeat", "gone"} /\ task[w].store = s}

LEMMA UseRows ==
  ASSUME Tables, Places, ReservationsSettled, Use
  PROVE  FactsStay /\ Rest /\ ReservationsSettled'
  <1> USE DEF Work, Asked, Went
  <1>0. \A s \in Store : db[s].held = Holding(s)
    BY DEF ReservationsSettled, Holding
  <1>00. SUFFICES FactsStay /\ Rest /\ \A s \in Store : db'[s].held = Holding(s)'
    BY DEF ReservationsSettled, Holding
  <1>1. ASSUME NEW w \in Task, StartDelivery(w)
        PROVE  FactsStay /\ Rest /\ \A s \in Store : db'[s].held = Holding(s)'
    <2>1. FactsStay /\ HeldStays /\ Rest
      BY <1>1, NothingWritten DEF StartDelivery, Rest
    <2>2. task' = [task EXCEPT ![w] = [kind |-> "log", store |-> open, generation |-> 0]] /\ task[w] = Idle
      BY <1>1 DEF StartDelivery
    <2>3. \A s \in Store : Holding(s)' = Holding(s)
      BY <2>2 DEF Places, Holding, Idle
    <2>4. QED
      BY <1>0, <2>1, <2>3 DEF HeldStays
  <1>2. ASSUME NEW w \in Task, RecordDelivery(w)
        PROVE  FactsStay /\ Rest /\ \A s \in Store : db'[s].held = Holding(s)'
    <2>1. task[w].kind = "log" /\ task[w].store \in Store /\ Rest
      BY <1>2 DEF RecordDelivery, Places
    <2>2. FactsStay /\ HeldStays
      <3>1. CASE db' = [db EXCEPT ![task[w].store].log = @ \cup {w}]
        BY <2>1, <3>1, ColumnWritten DEF Rest
      <3>2. CASE UNCHANGED db
        BY <2>1, <3>2, NothingWritten DEF Rest
      <3>3. QED
        BY <1>2, <3>1, <3>2 DEF RecordDelivery
    <2>3. task' = [task EXCEPT ![w] = Idle]
      BY <1>2 DEF RecordDelivery
    <2>4. \A s \in Store : Holding(s)' = Holding(s)
      BY <2>1, <2>3 DEF Places, Holding, Idle
    <2>5. QED
      BY <1>0, <2>1, <2>2, <2>4 DEF HeldStays
  <1>3. ASSUME NEW w \in Task, ReserveRepeat(w)
        PROVE  FactsStay /\ Rest /\ \A s \in Store : db'[s].held = Holding(s)'
    <2>1. open \in Store /\ Rest /\ task[w] = Idle
      BY <1>3 DEF ReserveRepeat, Up, Places
    <2>2. /\ db' = [db EXCEPT ![open].held = db[open].held \cup {w}]
          /\ task' = [task EXCEPT ![w] = [kind |-> "repeat", store |-> open, generation |-> 0]]
      BY <1>3 DEF ReserveRepeat
    <2>3. FactsStay
      BY <2>1, <2>2, ColumnWritten DEF Rest
    <2>4. /\ db'[open].held = db[open].held \cup {w}
          /\ \A t \in Store \ {open} : db'[t].held = db[t].held
      BY <2>1, <2>2, ColumnWritten DEF Rest
    <2>5. \A s \in Store : Holding(s)' = IF s = open THEN Holding(s) \cup {w} ELSE Holding(s)
      BY <2>1, <2>2 DEF Places, Holding, Idle
    <2>6. QED
      BY <1>0, <2>1, <2>3, <2>4, <2>5
  <1>4. ASSUME NEW w \in Task, CompleteRepeat(w)
        PROVE  FactsStay /\ Rest /\ \A s \in Store : db'[s].held = Holding(s)'
    <2>1. task[w].kind = "repeat" /\ task[w].store \in Store /\ Rest
      BY <1>4 DEF CompleteRepeat, Places
    <2>2. CASE db' = [db EXCEPT ![Outcome(w)].held = @ \ {w}] /\ task' = [task EXCEPT ![w] = Idle]
      <3>1. db' = [db EXCEPT ![task[w].store].held = db[task[w].store].held \ {w}]
        BY <2>2 DEF Outcome
      <3>2. FactsStay
        BY <2>1, <3>1, ColumnWritten DEF Rest
      <3>3. /\ db'[task[w].store].held = db[task[w].store].held \ {w}
            /\ \A t \in Store \ {task[w].store} : db'[t].held = db[t].held
        BY <2>1, <3>1, ColumnWritten DEF Rest
      <3>4. \A s \in Store : Holding(s)' = Holding(s) \ {w}
        BY <2>1, <2>2 DEF Places, Holding, Idle
      <3>5. \A s \in Store \ {task[w].store} : w \notin Holding(s)
        BY DEF Holding
      <3>6. \A s \in Store : db'[s].held = Holding(s) \ {w}
        BY <1>0, <2>1, <3>3, <3>5
      <3>7. QED
        BY <2>1, <3>2, <3>4, <3>6
    <2>3. CASE UNCHANGED db /\ task' = [task EXCEPT ![w] = [task[w] EXCEPT !.kind = "gone"]]
      <3>1. FactsStay /\ HeldStays
        BY <2>1, <2>3, NothingWritten DEF Rest
      <3>2. task'[w].kind = "gone" /\ task'[w].store = task[w].store
        BY <2>3 DEF Places
      <3>3. \A s \in Store : Holding(s)' = Holding(s)
        BY <2>1, <2>3, <3>2 DEF Places, Holding
      <3>4. QED
        BY <1>0, <2>1, <3>1, <3>3 DEF HeldStays
    <2>4. QED
      BY <1>4, <2>2, <2>3 DEF CompleteRepeat
  <1>5. ASSUME NEW w \in Task, LeaseEnds(w)
        PROVE  FactsStay /\ Rest /\ \A s \in Store : db'[s].held = Holding(s)'
    <2>1. task[w].kind = "gone" /\ task[w].store \in Store /\ Rest
      BY <1>5 DEF LeaseEnds, Places
    <2>2. /\ db' = [db EXCEPT ![task[w].store].held = db[task[w].store].held \ {w}]
          /\ task' = [task EXCEPT ![w] = Idle]
      BY <1>5 DEF LeaseEnds
    <2>3. FactsStay
      BY <2>1, <2>2, ColumnWritten DEF Rest
    <2>4. /\ db'[task[w].store].held = db[task[w].store].held \ {w}
          /\ \A t \in Store \ {task[w].store} : db'[t].held = db[t].held
      BY <2>1, <2>2, ColumnWritten DEF Rest
    <2>5. \A s \in Store : Holding(s)' = Holding(s) \ {w}
      BY <2>1, <2>2 DEF Places, Holding, Idle
    <2>6. \A s \in Store \ {task[w].store} : w \notin Holding(s)
      BY DEF Holding
    <2>7. \A s \in Store : db'[s].held = Holding(s) \ {w}
      BY <1>0, <2>1, <2>4, <2>6
    <2>8. QED
      BY <2>1, <2>3, <2>5, <2>7
  <1>6. ASSUME NEW w \in Task, StartActivity(w) \/ ReadActivity(w) \/ CacheActivity(w)
        PROVE  FactsStay /\ Rest /\ \A s \in Store : db'[s].held = Holding(s)'
    <2>1. FactsStay /\ HeldStays /\ Rest
      BY <1>6, NothingWritten DEF StartActivity, ReadActivity, CacheActivity, Rest
    <2>2. /\ task[w].kind \notin {"repeat", "gone"} /\ task'[w].kind \notin {"repeat", "gone"}
          /\ \A v \in Task \ {w} : task'[v] = task[v]
      <3>1. CASE StartActivity(w)
        BY <3>1 DEF StartActivity, Idle, Places
      <3>2. CASE ReadActivity(w)
        BY <3>2 DEF ReadActivity, Places
      <3>3. CASE CacheActivity(w)
        BY <3>3 DEF CacheActivity, Idle, Places
      <3>4. QED
        BY <1>6, <3>1, <3>2, <3>3
    <2>3. \A s \in Store : Holding(s)' = Holding(s)
      BY <2>2 DEF Places, Holding
    <2>4. QED
      BY <1>0, <2>1, <2>3 DEF HeldStays
  <1>7. ASSUME ExpireCache
        PROVE  FactsStay /\ Rest /\ \A s \in Store : db'[s].held = Holding(s)'
    <2>1. FactsStay /\ HeldStays /\ Rest /\ task' = task
      BY <1>7, NothingWritten DEF ExpireCache, Rest
    <2>2. QED
      BY <1>0, <2>1 DEF HeldStays, Holding
  <1>8. ASSUME NEW e \in Receipt, OpenReceipt(e) \/ CloseReceipt(e)
        PROVE  FactsStay /\ Rest /\ \A s \in Store : db'[s].held = Holding(s)'
    <2>1. open \in Store /\ Rest /\ task' = task
      BY <1>8 DEF OpenReceipt, CloseReceipt, Up, Places
    <2>2. \E v : db' = [db EXCEPT ![open].receipts = v]
      BY <1>8 DEF OpenReceipt, CloseReceipt
    <2>3. FactsStay /\ HeldStays
      BY <2>1, <2>2, ColumnWritten DEF Rest
    <2>4. QED
      BY <1>0, <2>1, <2>3 DEF HeldStays, Holding
  <1>9. QED
    BY <1>1, <1>2, <1>3, <1>4, <1>5, <1>6, <1>7, <1>8 DEF Use

(* An import adds to the store what the snapshot has.                      *)
LEMMA ImportedRow ==
  ASSUME NEW d, d = [x \in Column |-> d[x]], NEW a
  PROVE  /\ Imported(d, a) = [x \in Column |-> Imported(d, a)[x]]
         /\ Imported(d, a).sessions = d.sessions \cup a.sessions
         /\ Imported(d, a).revoked = d.revoked \cup a.revoked
         /\ Imported(d, a).spent = d.spent \cup a.spent
         /\ Imported(d, a).held = d.held
         /\ Imported(d, a).limit = [c \in Account |-> Merged(d.limit[c], a.limit[c])]
  <1> DEFINE m == MergedSessions(d, a)
  <1>1. /\ m = [x \in Column |-> m[x]]
        /\ m.sessions = d.sessions \cup a.sessions /\ m.revoked = d.revoked \cup a.revoked
        /\ m.spent = d.spent \cup a.spent /\ m.held = d.held /\ m.limit = d.limit
    BY DEF MergedSessions, Column
  <1>2. PICK v : /\ v = [c \in Account |-> Merged(d.limit[c], a.limit[c])]
                 /\ Imported(d, a) = [m EXCEPT !.limit = v]
    BY <1>1 DEF Imported
  <1> HIDE DEF m
  <1>3. QED
    BY <1>1, <1>2 DEF Column

LEMMA MigratedRow ==
  ASSUME NEW d, d = [x \in Column |-> d[x]], NEW e
  PROVE  /\ Migrated(d, e) = [x \in Column |-> Migrated(d, e)[x]]
         /\ Migrated(d, e).sessions = d.sessions \cup e.sessions
         /\ Migrated(d, e).revoked = d.revoked \cup e.revoked
         /\ Migrated(d, e).spent = d.spent \cup e.spent
         /\ Migrated(d, e).held = d.held
         /\ Migrated(d, e).limit = [c \in Account |-> Merged(d.limit[c], e.limit[c])]
  <1> DEFINE m == Imported(d, AuthOf(e))
  <1>1. /\ m = [x \in Column |-> m[x]]
        /\ m.sessions = d.sessions \cup e.sessions /\ m.revoked = d.revoked \cup e.revoked
        /\ m.spent = d.spent \cup e.spent /\ m.held = d.held
        /\ m.limit = [c \in Account |-> Merged(d.limit[c], e.limit[c])]
    BY ImportedRow DEF AuthOf
  <1>2. PICK v, u : Migrated(d, e) = [m EXCEPT !.log = v, !.receipts = u]
    BY DEF Migrated
  <1> HIDE DEF m
  <1>3. QED
    BY <1>1, <1>2 DEF Column

LEMMA ImportRows ==
  ASSUME Tables, Places, Import
  PROVE  /\ Tables' /\ HeldStays
         /\ db'[change.to].limit =
              [c \in Account |-> Merged(db[change.to].limit[c], change.snapshot.limit[c])]
         /\ \A s \in Store \ {change.to} : db'[s] = db[s]
         /\ \A s \in Store : Knows(s) => Knows(s)'
         /\ SnapshotKnows => Knows(change.to)'
  <1> DEFINE r == Imported(db[change.to], change.snapshot)
  <1>1. change.to \in Store /\ facts' = facts
    BY DEF Import, At, Places, Same
  <1>2. db' = [db EXCEPT ![change.to] = r]
    BY <1>1 DEF Import, Tables
  <1>3. /\ r = [x \in Column |-> r[x]]
        /\ r.sessions = db[change.to].sessions \cup change.snapshot.sessions
        /\ r.revoked = db[change.to].revoked \cup change.snapshot.revoked
        /\ r.spent = db[change.to].spent \cup change.snapshot.spent
        /\ r.held = db[change.to].held
        /\ r.limit = [c \in Account |-> Merged(db[change.to].limit[c], change.snapshot.limit[c])]
    BY <1>1, ImportedRow DEF Tables
  <1> HIDE DEF r
  <1>4. /\ Tables' /\ db'[change.to] = r /\ \A t \in Store \ {change.to} : db'[t] = db[t]
    BY <1>1, <1>2, <1>3, RowWritten DEF Tables
  <1>5. change'.to = change.to
    BY DEF Import, Goto, At, Places, ChangeColumn
  <1>6. QED
    BY <1>1, <1>3, <1>4, <1>5 DEF HeldStays, Knows, SnapshotKnows

LEMMA MigrateRows ==
  ASSUME Tables, Places, NEW s \in Store, Migrate(s)
  PROVE  /\ Tables' /\ HeldStays
         /\ \A t \in Store \ {s} : db'[t] = db[t]
         /\ \/ file' = file /\ db'[s].limit = db[s].limit
            \/ /\ file' = s /\ file \in Store \ {s}
               /\ db'[s].limit =
                    [c \in Account |-> Merged(db[s].limit[c], db[file].limit[c])]
         /\ Knows(file) => Knows(file)'
  <1>1. s # file /\ file \in Store /\ facts' = facts
    BY DEF Migrate, Places
  <1>2. CASE db' = [db EXCEPT ![s] = Migrated(@, db[file])] /\ file' = s
    <2> DEFINE r == Migrated(db[s], db[file])
    <2>1. db' = [db EXCEPT ![s] = r]
      BY <1>1, <1>2 DEF Tables
    <2>2. /\ r = [x \in Column |-> r[x]]
          /\ r.sessions = db[s].sessions \cup db[file].sessions
          /\ r.revoked = db[s].revoked \cup db[file].revoked
          /\ r.spent = db[s].spent \cup db[file].spent
          /\ r.held = db[s].held
          /\ r.limit = [c \in Account |-> Merged(db[s].limit[c], db[file].limit[c])]
      <3>1. PICK d, e : d = db[s] /\ e = db[file]
        OBVIOUS
      <3>2. d = [x \in Column |-> d[x]]
        BY <3>1 DEF Tables
      <3>3. r = Migrated(d, e)
        BY <3>1
      <3> HIDE DEF r
      <3>4. QED
        BY <3>1, <3>2, <3>3, MigratedRow
    <2> HIDE DEF r
    <2>3. /\ Tables' /\ db'[s] = r /\ \A t \in Store \ {s} : db'[t] = db[t]
      BY <1>1, <2>1, <2>2, RowWritten DEF Tables
    <2>4. QED
      BY <1>1, <1>2, <2>2, <2>3 DEF HeldStays, Knows
  <1>3. CASE file' = file /\ \E R \in {{}, db[file].receipts} :
               db' = [db EXCEPT ![s].log = @ \cup db[file].log, ![s].receipts = @ \cup R]
    <2>1. PICK u, v : db' = [db EXCEPT ![s].log = u, ![s].receipts = v]
      BY <1>3
    <2> DEFINE r == [db[s] EXCEPT !.log = u, !.receipts = v]
    <2>2. db' = [db EXCEPT ![s] = r]
      BY <2>1 DEF Tables
    <2>3. r = [x \in Column |-> r[x]] /\ r.held = db[s].held /\ r.limit = db[s].limit
      BY DEF Tables, Column
    <2>4. /\ Tables' /\ db'[s] = r /\ \A t \in Store \ {s} : db'[t] = db[t]
      BY <1>1, <2>2, <2>3, RowWritten DEF Tables
    <2>5. QED
      BY <1>1, <1>3, <2>3, <2>4 DEF HeldStays, Knows
  <1>4. QED
    BY <1>2, <1>3 DEF Migrate

-----------------------------------------------------------------------------
(* The change of the store, the process, and what they leave alone.        *)

Where == Places /\ ChangeOnDisk /\ Answers

SameCourse == UNCHANGED <<file, open, generation, change, cache, task>>

LEMMA SameWhere == ASSUME Where, SameCourse PROVE Where'
  BY DEF Where, SameCourse, Places, ChangeOnDisk, Answers, Up, At

LEMMA UseWhere == ASSUME Where, Use PROVE Where'
  <1> USE DEF Work, Asked, Went, Rest
  <1>1. ASSUME NEW w \in Task, \/ StartDelivery(w) \/ ReserveRepeat(w)
                              \/ RecordDelivery(w) \/ CompleteRepeat(w) \/ LeaseEnds(w)
        PROVE  Where'
    <2>1. /\ UNCHANGED <<file, open, generation, change, cache>>
          /\ \A v \in Task \ {w} : task'[v] = task[v]
          /\ task'[w].kind \notin {"query", "answer"}
          /\ task' \in [Task -> [kind : {"idle", "log", "repeat", "gone", "query", "answer"},
                                 store : Store \cup {None}, generation : Nat]]
          /\ task'[w].kind \in {"log", "repeat", "gone"} => task'[w].store \in Store
      <3>1. CASE StartDelivery(w) \/ ReserveRepeat(w)
        BY <3>1 DEF StartDelivery, ReserveRepeat, Where, Places, Up
      <3>2. CASE RecordDelivery(w) \/ LeaseEnds(w)
        BY <3>2 DEF RecordDelivery, LeaseEnds, Idle, Where, Places
      <3>3. CASE CompleteRepeat(w)
        BY <3>3 DEF CompleteRepeat, Idle, Where, Places
      <3>4. QED
        BY <1>1, <3>1, <3>2, <3>3
    <2>2. QED
      BY <2>1 DEF Where, Places, ChangeOnDisk, Answers, Up, At
  <1>2. ASSUME NEW w \in Task, StartActivity(w)
        PROVE  Where'
    BY <1>2 DEF StartActivity, Where, Places, ChangeOnDisk, Answers, Up, At
  <1>3. ASSUME NEW w \in Task, ReadActivity(w)
        PROVE  Where'
    <2>1. /\ UNCHANGED <<file, open, generation, change, cache>> /\ Up
          /\ \A v \in Task \ {w} : task'[v] = task[v]
          /\ task'[w].kind = "answer" /\ task'[w].store = open
          /\ task'[w].generation = task[w].generation /\ task[w].generation <= generation
          /\ task' \in [Task -> [kind : {"idle", "log", "repeat", "gone", "query", "answer"},
                                 store : Store \cup {None}, generation : Nat]]
      BY <1>3 DEF ReadActivity, Where, Places, Answers
    <2>2. QED
      BY <2>1 DEF Where, Places, ChangeOnDisk, Answers, Up, At
  <1>4. ASSUME NEW w \in Task, CacheActivity(w)
        PROVE  Where'
    <2>1. /\ UNCHANGED <<file, open, generation, change>> /\ Up /\ ~At("swapped")
          /\ \A v \in Task \ {w} : task'[v] = task[v]
          /\ task'[w] = Idle
          /\ task' \in [Task -> [kind : {"idle", "log", "repeat", "gone", "query", "answer"},
                                 store : Store \cup {None}, generation : Nat]]
          /\ cache' = cache \/ cache'.store = open
      BY <1>4 DEF CacheActivity, Idle, Where, Places, Answers
    <2>2. QED
      BY <2>1 DEF Where, Places, ChangeOnDisk, Answers, Up, At, Idle
  <1>5. ASSUME ExpireCache
        PROVE  Where'
    BY <1>5 DEF ExpireCache, Where, Places, ChangeOnDisk, Answers, Up, At
  <1>6. ASSUME NEW e \in Receipt, OpenReceipt(e) \/ CloseReceipt(e)
        PROVE  Where'
    BY <1>6, SameWhere DEF OpenReceipt, CloseReceipt, SameCourse
  <1>7. QED
    BY <1>1, <1>2, <1>3, <1>4, <1>5, <1>6 DEF Use

LEMMA ChangeWhere == ASSUME Where, Change PROVE Where'
  <1> USE DEF Same, Goto
  <1>1. ASSUME NEW s \in Store, NEW how \in {"reload", "restore"}, Begin(s, how)
        PROVE  Where'
    BY <1>1, NoneAssumption DEF Begin, Where, Places, ChangeOnDisk, Answers, Up, At, ChangeColumn, Stage
  <1>2. ASSUME Snapshot \/ Commit \/ OpenTarget \/ Import
        PROVE  Where'
    <2>1. /\ UNCHANGED <<open, generation, cache, task>> /\ change.pc # "none" /\ Up
          /\ file' \in {file, change.to}
          /\ change'.pc \in {"written", "opened", "imported"} => file' = change.to
          /\ change' = [x \in ChangeColumn |-> change'[x]]
          /\ change'.to = change.to /\ change'.before = change.before
          /\ change'.pc \in {"snapped", "written", "opened", "imported"}
          /\ change.pc # "swapped"
      <3>1. CASE Snapshot
        BY <3>1 DEF Snapshot, At, Where, Places, ChangeColumn
      <3>2. CASE Commit
        BY <3>2 DEF Commit, At, Where, Places, ChangeColumn
      <3>3. CASE OpenTarget
        BY <3>3 DEF OpenTarget, At, Where, Places, ChangeOnDisk, ChangeColumn
      <3>4. CASE Import
        BY <3>4 DEF Import, At, Where, Places, ChangeOnDisk, ChangeColumn
      <3>5. QED
        BY <1>2, <3>1, <3>2, <3>3, <3>4
    <2>2. QED
      BY <2>1 DEF Where, Places, ChangeOnDisk, Answers, Up, At, Stage
  <1>3. ASSUME Swap
        PROVE  Where'
    <2>1. /\ UNCHANGED <<file, generation, cache, task>> /\ change.pc # "none" /\ Up
          /\ file = change.to /\ open' = change.to /\ change.to \in Store
          /\ change' = [x \in ChangeColumn |-> change'[x]]
          /\ change'.to = change.to /\ change'.before = change.before
          /\ change'.pc = "swapped"
      BY <1>3 DEF Swap, At, Where, Places, ChangeOnDisk, ChangeColumn
    <2>2. QED
      BY <2>1, NoneAssumption DEF Where, Places, ChangeOnDisk, Answers, Up, At, Stage
  <1>4. ASSUME Publish
        PROVE  Where'
    BY <1>4 DEF Publish, NoChange, ChangeColumn, Stage, Where, Places, ChangeOnDisk, Answers, Up, At
  <1>5. ASSUME ChangeFails
        PROVE  Where'
    <2>1. /\ UNCHANGED <<file, open, generation, cache, task>> /\ change.pc # "none" /\ Up
          /\ change.pc # "swapped"
      BY <1>5 DEF ChangeFails, Where, Places, At
    <2>2. /\ change' = [x \in ChangeColumn |-> change'[x]]
          /\ \/ change'.pc = "none"
             \/ /\ change'.to = change.to /\ change'.before = change.before
                /\ change'.pc = "undo"
      BY <1>5, <2>1 DEF ChangeFails, NoChange, Where, Places, ChangeColumn
    <2>3. QED
      BY <2>1, <2>2 DEF Where, Places, ChangeOnDisk, Answers, Up, At, Stage
  <1>6. ASSUME Undo
        PROVE  Where'
    BY <1>6 DEF Undo, NoChange, ChangeColumn, Stage, Where, Places, ChangeOnDisk, Answers, Up, At
  <1>7. QED
    BY <1>1, <1>2, <1>3, <1>4, <1>5, <1>6 DEF Change

LEMMA ProcessWhere ==
  ASSUME Where, Crash \/ Start \/ Tick \/ \E s \in Store : Migrate(s)
  PROVE  Where'
  <1>1. ASSUME Crash
        PROVE  Where'
    <2>1. /\ open' = None /\ change' = NoChange /\ cache' = None /\ generation' = 0
          /\ file' = file
      BY <1>1 DEF Crash
    <2>2. \A w \in Task :
            task'[w] = IF task[w].kind \in {"repeat", "gone"}
                       THEN [task[w] EXCEPT !.kind = "gone"] ELSE Idle
      BY <1>1 DEF Crash
    <2>3. \A w \in Task :
            /\ task'[w] \in [kind : {"idle", "log", "repeat", "gone", "query", "answer"},
                             store : Store \cup {None}, generation : Nat]
            /\ task'[w].kind \in {"log", "repeat", "gone"} => task'[w].store \in Store
            /\ task'[w].kind \notin {"query", "answer"}
      <3> SUFFICES ASSUME NEW w \in Task
                   PROVE  /\ task'[w] \in [kind : {"idle", "log", "repeat", "gone", "query", "answer"},
                                            store : Store \cup {None}, generation : Nat]
                          /\ task'[w].kind \in {"log", "repeat", "gone"} => task'[w].store \in Store
                          /\ task'[w].kind \notin {"query", "answer"}
        OBVIOUS
      <3>1. task[w] \in [kind : {"idle", "log", "repeat", "gone", "query", "answer"},
                         store : Store \cup {None}, generation : Nat]
        BY DEF Where, Places
      <3>2. CASE task[w].kind \in {"repeat", "gone"}
        <4>1. task'[w] = [task[w] EXCEPT !.kind = "gone"] /\ task[w].store \in Store
          BY <2>2, <3>2 DEF Where, Places
        <4>2. QED
          BY <3>1, <4>1
      <3>3. CASE task[w].kind \notin {"repeat", "gone"}
        <4>1. task'[w] = Idle
          BY <2>2, <3>3
        <4>2. QED
          BY <3>3, <4>1 DEF Idle
      <3>4. QED
        BY <3>2, <3>3
    <2>4. task' = [w \in Task |-> task'[w]]
      BY <1>1 DEF Crash
    <2>5. QED
      BY <2>1, <2>3, <2>4
      DEF Where, Places, ChangeOnDisk, Answers, Up, At, NoChange, ChangeColumn, Stage
  <1>2. ASSUME Start
        PROVE  Where'
    BY <1>2, NoneAssumption DEF Start, Where, Places, ChangeOnDisk, Answers, Up, At
  <1>3. ASSUME Tick
        PROVE  Where'
    BY <1>3, SameWhere DEF Tick, SameCourse
  <1>4. ASSUME NEW s \in Store, Migrate(s)
        PROVE  Where'
    <2>1. /\ file' \in Store /\ UNCHANGED <<open, generation, change, cache, task>> /\ ~Up
      BY <1>4 DEF Migrate, Where, Places
    <2>2. QED
      BY <2>1 DEF Where, Places, ChangeOnDisk, Answers, Up, At
  <1>5. QED
    BY <1>1, <1>2, <1>3, <1>4

-----------------------------------------------------------------------------
(* The invariant.                                                          *)

IInv == Tables /\ Where /\ ReservationsSettled /\ Remembered

LEMMA SameHolding ==
  ASSUME ReservationsSettled, HeldStays, task' = task
  PROVE  ReservationsSettled'
  BY DEF ReservationsSettled, HeldStays

(* The steps of a change before the import write nothing that the facts     *)
(* depend on; the snapshot is taken of a store that knows them.            *)
LEMMA ChangeKeeps ==
  ASSUME IInv, Change
  PROVE  Tables' /\ HeldStays /\ Remembered'
  <1> USE DEF Same, Goto, IInv
  <1>1. ASSUME NEW s \in Store, NEW how \in {"reload", "restore"}, Begin(s, how)
        PROVE  Tables' /\ HeldStays /\ Remembered'
    <2>1. FactsStay /\ HeldStays
      BY <1>1, NothingWritten DEF Begin
    <2>2. UNCHANGED <<open, orphaned, db, facts>> /\ Up /\ change'.pc = "begun"
      BY <1>1 DEF Begin
    <2>3. QED
      BY <2>1, <2>2 DEF FactsStay, Remembered, Up, Knows
  <1>2. ASSUME Snapshot
        PROVE  Tables' /\ HeldStays /\ Remembered'
    <2>1. FactsStay /\ HeldStays
      BY <1>2, NothingWritten DEF Snapshot
    <2>2. /\ UNCHANGED <<open, orphaned, db, facts>>
          /\ change'.pc = "snapped" /\ change'.snapshot = AuthOf(db[open])
          /\ Up
      BY <1>2 DEF Snapshot, Where, Places, At, ChangeColumn
    <2>3. QED
      BY <2>1, <2>2 DEF FactsStay, Remembered, SnapshotKnows, AuthOf, Up, Knows
  <1>3. ASSUME Commit \/ OpenTarget
        PROVE  Tables' /\ HeldStays /\ Remembered'
    <2>1. FactsStay /\ HeldStays
      BY <1>3, NothingWritten DEF Commit, OpenTarget
    <2>2. /\ UNCHANGED <<open, orphaned, db, facts>> /\ Up
          /\ change.pc \in {"snapped", "written"} /\ change'.pc \in {"written", "opened"}
          /\ change'.snapshot = change.snapshot
      BY <1>3 DEF Commit, OpenTarget, Where, Places, At, ChangeColumn
    <2>3. QED
      BY <2>1, <2>2 DEF FactsStay, Remembered, SnapshotKnows, Up, Knows
  <1>4. ASSUME Import
        PROVE  Tables' /\ HeldStays /\ Remembered'
    <2>1. /\ Tables' /\ HeldStays
          /\ \A s \in Store : Knows(s) => Knows(s)'
          /\ SnapshotKnows => Knows(change.to)'
      BY <1>4, ImportRows DEF Where
    <2>2. /\ UNCHANGED <<open, orphaned>> /\ Up /\ open \in Store
          /\ change.pc = "opened" /\ change'.pc = "imported"
      BY <1>4 DEF Import, Where, Places, At, Up, ChangeColumn
    <2>3. QED
      BY <2>1, <2>2 DEF Remembered, Up, Knows
  <1>5. ASSUME Swap
        PROVE  Tables' /\ HeldStays /\ Remembered'
    <2>1. FactsStay /\ HeldStays
      BY <1>5, NothingWritten DEF Swap
    <2>2. /\ UNCHANGED <<orphaned, db, facts>>
          /\ change.pc = "imported" /\ change'.pc = "swapped"
          /\ open' = change.to /\ change'.to = change.to /\ change.to \in Store
      BY <1>5 DEF Swap, Where, Places, At, ChangeColumn
    <2>3. QED
      BY <2>1, <2>2, NoneAssumption DEF FactsStay, Remembered, Up, Knows
  <1>6. ASSUME Publish \/ ChangeFails \/ Undo
        PROVE  Tables' /\ HeldStays /\ Remembered'
    <2>1. FactsStay /\ HeldStays
      BY <1>6, NothingWritten DEF Publish, ChangeFails, Undo
    <2>2. /\ UNCHANGED <<open, orphaned, db, facts>>
          /\ change'.pc \in {"none", "undo"} /\ Up
      BY <1>6 DEF Publish, ChangeFails, Undo, NoChange, Where, Places, At, ChangeColumn
    <2>3. QED
      BY <2>1, <2>2 DEF FactsStay, Remembered, Up, Knows
  <1>7. QED
    BY <1>1, <1>2, <1>3, <1>4, <1>5, <1>6 DEF Change

(* A store is chosen by the file when the process starts, and a process     *)
(* that ends before the new one has the facts is recorded in "orphaned".   *)
LEMMA ProcessKeeps ==
  ASSUME IInv, Crash \/ Start \/ Tick \/ \E s \in Store : Migrate(s)
  PROVE  Tables' /\ ReservationsSettled' /\ Remembered'
  <1> USE DEF IInv
  <1>1. ASSUME Crash
        PROVE  Tables' /\ ReservationsSettled' /\ Remembered'
    <2>1. Tables' /\ HeldStays
      BY <1>1, NothingWritten DEF Crash, FactsStay
    <2>2. \A w \in Task :
            task'[w] = IF task[w].kind \in {"repeat", "gone"}
                       THEN [task[w] EXCEPT !.kind = "gone"] ELSE Idle
      BY <1>1 DEF Crash
    <2>3. \A w \in Task :
            /\ task'[w].kind \in {"repeat", "gone"} <=> task[w].kind \in {"repeat", "gone"}
            /\ task[w].kind \in {"repeat", "gone"} => task'[w].store = task[w].store
      <3> SUFFICES ASSUME NEW w \in Task
                   PROVE  /\ task'[w].kind \in {"repeat", "gone"} <=>
                               task[w].kind \in {"repeat", "gone"}
                          /\ task[w].kind \in {"repeat", "gone"} =>
                               task'[w].store = task[w].store
        OBVIOUS
      <3>1. task[w] \in [kind : {"idle", "log", "repeat", "gone", "query", "answer"},
                         store : Store \cup {None}, generation : Nat]
        BY DEF Where, Places
      <3>2. CASE task[w].kind \in {"repeat", "gone"}
        <4>1. task'[w] = [task[w] EXCEPT !.kind = "gone"]
          BY <2>2, <3>2
        <4>2. QED
          BY <3>1, <3>2, <4>1
      <3>3. CASE task[w].kind \notin {"repeat", "gone"}
        <4>1. task'[w] = Idle
          BY <2>2, <3>3
        <4>2. QED
          BY <3>3, <4>1 DEF Idle
      <3>4. QED
        BY <3>2, <3>3
    <2>4. ReservationsSettled'
      BY <2>1, <2>3 DEF ReservationsSettled, HeldStays
    <2>5. ~orphaned' => ~orphaned /\ (file = open \/ At("imported"))
      BY <1>1 DEF Crash
    <2>6. UNCHANGED <<file, db, facts>> /\ Up /\ ~Up' /\ change'.pc = "none"
      BY <1>1 DEF Crash, Up, NoChange
    <2>7. At("imported") => file = change.to
      BY DEF Where, ChangeOnDisk, At
    <2>8. Remembered'
      BY <2>5, <2>6, <2>7 DEF Remembered, Knows, At
    <2>9. QED
      BY <2>1, <2>4, <2>8
  <1>2. ASSUME Start
        PROVE  Tables' /\ ReservationsSettled' /\ Remembered'
    <2>1. FactsStay /\ HeldStays
      BY <1>2, NothingWritten DEF Start
    <2>2. UNCHANGED <<file, db, facts, change, orphaned, task>> /\ ~Up /\ open' = file
      BY <1>2 DEF Start
    <2>3. change.pc = "none" /\ Up'
      BY <2>2, NoneAssumption DEF Where, Places, At, Up
    <2>4. QED
      BY <2>1, <2>2, <2>3, SameHolding DEF FactsStay, Remembered, Knows
  <1>3. ASSUME Tick
        PROVE  Tables' /\ ReservationsSettled' /\ Remembered'
    <2>1. FactsStay /\ HeldStays
      BY <1>3, NothingWritten DEF Tick
    <2>2. UNCHANGED <<file, open, db, facts, change, orphaned, task>>
      BY <1>3 DEF Tick
    <2>3. QED
      BY <2>1, <2>2, SameHolding DEF FactsStay, Remembered, SnapshotKnows, Knows, Up
  <1>4. ASSUME NEW s \in Store, Migrate(s)
        PROVE  Tables' /\ ReservationsSettled' /\ Remembered'
    <2>1. Tables' /\ HeldStays /\ (Knows(file) => Knows(file)')
      BY <1>4, MigrateRows DEF Where
    <2>2. UNCHANGED <<open, change, orphaned, task>> /\ ~Up
      BY <1>4 DEF Migrate
    <2>3. change.pc = "none"
      BY <2>2 DEF Where, Places, At
    <2>4. QED
      BY <2>1, <2>2, <2>3, SameHolding DEF Remembered, Up
  <1>5. QED
    BY <1>1, <1>2, <1>3, <1>4

LEMMA IInvStep == IInv /\ [Next]_vars => IInv'
  <1> SUFFICES ASSUME IInv, [Next]_vars PROVE IInv'
    OBVIOUS
  <1>1. CASE SignIn
    <2>1. FactsGo /\ Up /\ ~Exclusive /\ Others
      BY <1>1, SignInRows DEF IInv, Where
    <2>2. SameCourse /\ orphaned' = orphaned
      BY <2>1 DEF Others, SameCourse
    <2>3. Where' /\ ReservationsSettled'
      BY <2>1, <2>2, SameWhere, SameHolding DEF IInv, FactsGo, HeldStays, SameCourse
    <2>4. Remembered'
      BY <2>1, <2>2 DEF IInv, Remembered, FactsGo, Exclusive, SameCourse, Up
    <2>5. QED
      BY <2>1, <2>3, <2>4 DEF IInv, FactsGo
  <1>2. CASE Use
    <2>1. FactsStay /\ Rest /\ ReservationsSettled'
      BY <1>2, UseRows DEF IInv, Where
    <2>2. Where'
      BY <1>2, UseWhere DEF IInv
    <2>3. /\ open \in Store \cup {None} /\ file \in Store
          /\ change.pc # "none" => change.to \in Store
      BY DEF IInv, Where, Places, At
    <2>4. Remembered'
      BY <2>1, <2>3 DEF IInv, Remembered, FactsStay, Rest, Knows, SnapshotKnows, Up
    <2>5. QED
      BY <2>1, <2>2, <2>4 DEF IInv, FactsStay
  <1>3. CASE Change
    <2>1. Tables' /\ HeldStays /\ Remembered'
      BY <1>3, ChangeKeeps
    <2>2. Where'
      BY <1>3, ChangeWhere DEF IInv
    <2>3. task' = task
      BY <1>3 DEF Change, Begin, Snapshot, Commit, OpenTarget, Import, Swap, Publish,
                  ChangeFails, Undo, Same
    <2>4. QED
      BY <2>1, <2>2, <2>3, SameHolding DEF IInv
  <1>4. CASE Crash \/ Start \/ Tick \/ \E s \in Store : Migrate(s)
    BY <1>4, ProcessKeeps, ProcessWhere DEF IInv
  <1>5. CASE UNCHANGED vars
    <2>1. SameCourse /\ UNCHANGED <<db, facts, orphaned>>
      BY <1>5 DEF vars, SameCourse
    <2>2. FactsStay /\ HeldStays
      BY <2>1, NothingWritten DEF IInv
    <2>3. Where' /\ ReservationsSettled'
      BY <2>1, <2>2, SameWhere, SameHolding DEF IInv, SameCourse
    <2>4. Remembered'
      BY <2>1 DEF IInv, Remembered, Knows, SnapshotKnows, Up, SameCourse
    <2>5. QED
      BY <2>2, <2>3, <2>4 DEF IInv, FactsStay
  <1>6. QED
    BY <1>1, <1>2, <1>3, <1>4, <1>5 DEF Next

LEMMA IInvInit == Init => IInv
  <1> SUFFICES ASSUME Init PROVE IInv
    OBVIOUS
  <1>1. Tables
    BY DEF Init, Empty, Tables, Column, FactColumn
  <1>2. /\ file \in Store /\ open = file /\ open # None
        /\ change = NoChange /\ cache = None /\ generation = 0
        /\ task = [w \in Task |-> Idle]
    BY NoneAssumption DEF Init
  <1>3. Where
    BY <1>2 DEF Where, Places, ChangeOnDisk, Answers, Up, At, Idle, NoChange, ChangeColumn, Stage
  <1>4. ReservationsSettled
    BY <1>2 DEF Init, Empty, Idle, ReservationsSettled
  <1>5. Remembered
    BY <1>2 DEF Init, Empty, Remembered, Knows, Up, NoChange
  <1>6. QED
    BY <1>1, <1>3, <1>4, <1>5 DEF IInv

(* Every reachable state has the invariant.                                *)
THEOREM Invariant == Spec => []IInv
  <1>1. Init => IInv
    BY IInvInit
  <1>2. IInv /\ [Next]_vars => IInv'
    BY IInvStep
  <1>3. QED
    BY <1>1, <1>2, PTL DEF Spec

-----------------------------------------------------------------------------
(* The limits of the accounts.                                             *)

\* Seconds in the order in which they were recorded, up to the time t.
Ascending(s, t) ==
  /\ s \in Seq(Nat)
  /\ \A n \in 1..Len(s) : s[n] <= t
  /\ \A m, n \in 1..Len(s) : m < n => s[m] <= s[n]

\* A record as the code can have written it by the time t.
RecordOK(r, t) ==
  Ascending(r.fails, t) /\ r.until \in Nat /\ r.until <= t + Lockout

\* A record has the failures F but those that are too old, or will be when
\* the lockout they caused is over, and a lockout until u.
Covers(r, t, F, u) ==
  /\ \A f \in F : f \in ToSet(r.fails) \/ f < t - FailureWindow \/ f < r.until - FailureWindow
  /\ u > t => r.until >= u

RowsOK(rows, t) ==
  rows = [a \in Account |-> rows[a]] /\ \A a \in Account : RecordOK(rows[a], t)

Counted(rows, t, failed, until) ==
  \A a \in Account : Covers(rows[a], t, failed[a], until[a])

\* What was answered, with the lockouts that were announced.
Answered(failed, until) ==
  /\ failed = [a \in Account |-> failed[a]] /\ until = [a \in Account |-> until[a]]
  /\ \A a \in Account : failed[a] \subseteq Nat /\ until[a] \in Nat

Limits ==
  /\ clock \in Nat /\ Answered(facts.failed, facts.until)
  /\ \A s \in Store : RowsOK(db[s].limit, clock)
  /\ change.pc \in {"snapped", "written", "opened"} => RowsOK(change.snapshot.limit, clock)

CountsFor(rows) == Counted(rows, clock, facts.failed, facts.until)

CountsRemembered == ~orphaned =>
  /\ Up => CountsFor(db[open].limit)
  /\ ~Up => CountsFor(db[file].limit)
  /\ change.pc \in {"snapped", "written", "opened"} => CountsFor(change.snapshot.limit)
  /\ change.pc \in {"imported", "swapped"} => CountsFor(db[change.to].limit)

LimitsInv == Limits /\ CountsRemembered

LEMMA Rank ==
  ASSUME NEW S, IsFiniteSet(S), S \subseteq Nat
  PROVE  /\ Cardinality(S) \in Nat
         /\ \A x \in S : Cardinality({z \in S : z <= x}) \in 1..Cardinality(S)
         /\ \A x, y \in S : x < y => Cardinality({z \in S : z <= x}) < Cardinality({z \in S : z <= y})
         /\ \A n \in 1..Cardinality(S) : \E x \in S : Cardinality({z \in S : z <= x}) = n
  <1> DEFINE below(x) == {z \in S : z <= x}
             rank == [x \in S |-> Cardinality(below(x))]
  <1>1. Cardinality(S) \in Nat
    BY FS_CardinalityType
  <1>2. ASSUME NEW x \in S
        PROVE  IsFiniteSet(below(x)) /\ Cardinality(below(x)) \in 1..Cardinality(S)
    <2>1. IsFiniteSet(below(x)) /\ Cardinality(below(x)) <= Cardinality(S)
      BY FS_Subset
    <2>2. Cardinality(below(x)) \in Nat
      BY <2>1, FS_CardinalityType
    <2>3. x \in below(x)
      BY <1>2
    <2>4. Cardinality(below(x)) # 0
      BY <2>1, <2>3, FS_EmptySet
    <2>5. QED
      BY <1>1, <2>1, <2>2, <2>4
  <1>3. ASSUME NEW x \in S, NEW y \in S, x < y
        PROVE  Cardinality(below(x)) < Cardinality(below(y))
    <2>1. below(x) \subseteq below(y) /\ y \in below(y) /\ y \notin below(x)
      <3>1. x \in Nat /\ y \in Nat /\ \A z \in S : z \in Nat
        OBVIOUS
      <3>2. \A z \in S : z <= x => z <= y
        BY <1>3, <3>1
      <3>3. y <= y /\ ~ y <= x
        BY <1>3, <3>1
      <3>4. QED
        BY <3>2, <3>3
    <2>2. IsFiniteSet(below(y)) /\ Cardinality(below(x)) \in Nat /\ Cardinality(below(y)) \in Nat
      BY <1>2
    <2>3. Cardinality(below(x)) <= Cardinality(below(y)) /\ Cardinality(below(x)) # Cardinality(below(y))
      BY <2>1, <2>2, FS_Subset
    <2>4. QED
      BY <2>2, <2>3
  <1>4. rank \in Injection(S, 1..Cardinality(S))
    <2>1. rank \in [S -> 1..Cardinality(S)]
      BY <1>2
    <2>2. \A x, y \in S : rank[x] = rank[y] => x = y
      <3>1. SUFFICES ASSUME NEW x \in S, NEW y \in S, x # y
                     PROVE  rank[x] # rank[y]
        OBVIOUS
      <3>2. x < y \/ y < x
        BY <3>1
      <3>3. rank[x] \in Nat /\ rank[y] \in Nat
        BY <2>1, <1>1
      <3>4. rank[x] < rank[y] \/ rank[y] < rank[x]
        BY <1>3, <3>2
      <3>5. QED
        BY <3>3, <3>4
    <2> HIDE DEF rank
    <2>3. QED
      BY <2>1, <2>2 DEF Injection, IsInjective
  <1>5. rank \in Surjection(S, 1..Cardinality(S))
    <2>1. IsFiniteSet(1..Cardinality(S)) /\ Cardinality(1..Cardinality(S)) = Cardinality(S)
      BY <1>1, FS_Interval
    <2>2. QED
      BY <1>4, <2>1, FS_Injection
  <1>6. \A n \in 1..Cardinality(S) : \E x \in S : rank[x] = n
    BY <1>5 DEF Surjection
  <1>7. QED
    BY <1>1, <1>2, <1>3, <1>6

LEMMA OrderedSet ==
  ASSUME NEW S, IsFiniteSet(S), S \subseteq Nat
  PROVE  /\ InOrder(S) \in Seq(Nat) /\ ToSet(InOrder(S)) = S
         /\ \A m, n \in 1..Len(InOrder(S)) : m < n => InOrder(S)[m] <= InOrder(S)[n]
  <1> DEFINE rank(x) == Cardinality({z \in S : z <= x})
             q == InOrder(S)
  <1>1. PICK k \in Nat : k = Cardinality(S)
    BY Rank
  <1>2. /\ \A x \in S : rank(x) \in 1..k
        /\ \A x, y \in S : x < y => rank(x) < rank(y)
        /\ \A n \in 1..k : \E x \in S : rank(x) = n
    BY <1>1, Rank
  <1>3. q = [n \in 1..k |-> CHOOSE x \in S : rank(x) = n]
    BY <1>1 DEF InOrder
  <1> HIDE DEF q, rank
  <1>4. \A n \in 1..k : q[n] \in S /\ rank(q[n]) = n
    BY <1>2, <1>3
  <1>5. DOMAIN q = 1..k
    BY <1>3
  <1>6. q \in Seq(Nat)
    <2>1. q \in [1..k -> Nat]
      BY <1>3, <1>4
    <2>2. QED
      BY <2>1
  <1>7. ASSUME NEW x \in S
        PROVE  rank(x) \in 1..k /\ q[rank(x)] = x
    <2>1. rank(x) \in 1..k
      BY <1>2
    <2>2. PICK y \in S : y = q[rank(x)] /\ rank(y) = rank(x)
      BY <1>4, <2>1
    <2>3. x \in Nat /\ y \in Nat /\ ~ x < y /\ ~ y < x
      BY <1>2, <2>1, <2>2
    <2>4. QED
      BY <2>1, <2>2, <2>3
  <1>8. ToSet(q) = S
    BY <1>4, <1>5, <1>7 DEF ToSet
  <1>9. ASSUME NEW m \in 1..k, NEW n \in 1..k, m < n
        PROVE  q[m] <= q[n]
    <2>1. PICK x \in S, y \in S : x = q[m] /\ y = q[n] /\ rank(x) = m /\ rank(y) = n
      BY <1>4
    <2>2. ~ y < x /\ x \in Nat /\ y \in Nat
      BY <1>2, <1>9, <2>1
    <2>3. QED
      BY <2>1, <2>2
  <1>10. Len(q) = k
    BY <1>5, <1>6
  <1>11. QED
    BY <1>6, <1>8, <1>9, <1>10 DEF q

LEMMA RowsFinite ==
  ASSUME NEW s \in Seq(Nat)
  PROVE  IsFiniteSet(ToSet(s)) /\ ToSet(s) \subseteq Nat
  <1>1. Len(s) \in Nat /\ DOMAIN s = 1..Len(s) /\ s \in [1..Len(s) -> Nat]
    OBVIOUS
  <1>2. IsFiniteSet(1..Len(s))
    BY <1>1, FS_Interval
  <1>3. s \in Surjection(1..Len(s), ToSet(s))
    BY <1>1 DEF Surjection, ToSet
  <1>4. QED
    BY <1>1, <1>2, <1>3, FS_Surjection DEF ToSet

LEMMA Suffix ==
  ASSUME NEW s, NEW t \in Nat, Ascending(s, t), NEW k \in Nat,
         NEW d, d = SubSeq(s, k + 1, Len(s))
  PROVE  Ascending(d, t) /\ \A n \in 1..Len(s) : k < n => s[n] \in ToSet(d)
  <1>1. s \in Seq(Nat) /\ Len(s) \in Nat
    BY DEF Ascending
  <1>2. /\ d \in Seq(Nat) /\ DOMAIN d = 1..Len(d) /\ Len(d) \in Nat
        /\ Len(d) = IF k < Len(s) THEN Len(s) - k ELSE 0
        /\ \A n \in 1..Len(d) : d[n] = s[n + k]
    BY <1>1
  <1>3. \A n \in 1..Len(d) : n + k \in 1..Len(s) /\ d[n] <= t
    BY <1>1, <1>2 DEF Ascending
  <1>4. ASSUME NEW m \in 1..Len(d), NEW n \in 1..Len(d), m < n
        PROVE  d[m] <= d[n]
    <2>1. m + k \in 1..Len(s) /\ n + k \in 1..Len(s) /\ m + k < n + k
      BY <1>2, <1>3, <1>4
    <2>2. s[m + k] <= s[n + k]
      BY <2>1 DEF Ascending
    <2>3. QED
      BY <1>2, <2>2
  <1>5. ASSUME NEW n \in 1..Len(s), k < n
        PROVE  s[n] \in ToSet(d)
    <2>1. n \in Nat /\ n <= Len(s)
      BY <1>1
    <2>2. Len(d) = Len(s) - k
      <3>1. k < Len(s)
        BY <1>1, <1>5, <2>1
      <3>2. QED
        BY <1>2, <3>1
    <2>3. n - k \in 1..Len(d) /\ (n - k) + k = n
      BY <1>1, <1>5, <2>1, <2>2
    <2>4. d[n - k] = s[n]
      BY <1>2, <2>3
    <2>5. QED
      BY <1>2, <2>3, <2>4 DEF ToSet
  <1>6. QED
    BY <1>2, <1>3, <1>4, <1>5 DEF Ascending

LEMMA OldFirst ==
  ASSUME NEW s, NEW t \in Nat, Ascending(s, t), NEW c \in Int
  PROVE  /\ Before(s, c) \in Nat
         /\ \A n \in 1..Len(s) : s[n] >= c => Before(s, c) < n
  <1> DEFINE old == {n \in DOMAIN s : s[n] < c}
  <1>1. s \in Seq(Nat) /\ Len(s) \in Nat /\ DOMAIN s = 1..Len(s)
    BY DEF Ascending
  <1>2. Before(s, c) = Cardinality(old)
    BY DEF Before
  <1>3. IsFiniteSet(1..Len(s)) /\ old \subseteq 1..Len(s)
    BY <1>1, FS_Interval
  <1>4. IsFiniteSet(old) /\ Cardinality(old) \in Nat
    BY <1>3, FS_Subset, FS_CardinalityType
  <1>5. ASSUME NEW n \in 1..Len(s), s[n] >= c
        PROVE  Cardinality(old) < n
    <2>1. ASSUME NEW m \in old
          PROVE  m \in 1..(n - 1)
      <3>1. m \in 1..Len(s) /\ s[m] < c /\ s[m] \in Nat /\ s[n] \in Nat
        BY <1>1, <2>1
      <3>2. ~ n < m /\ m # n
        BY <1>5, <3>1 DEF Ascending
      <3>3. QED
        BY <3>1, <3>2
    <2>2. IsFiniteSet(1..(n - 1)) /\ Cardinality(1..(n - 1)) = n - 1
      BY FS_Interval
    <2>3. Cardinality(old) <= n - 1
      BY <2>1, <2>2, FS_Subset
    <2>4. QED
      BY <1>4, <2>3
  <1>6. QED
    BY <1>2, <1>4, <1>5

LEMMA Appended ==
  ASSUME NEW s, NEW t \in Nat, Ascending(s, t), NEW d, d = Append(s, t)
  PROVE  /\ Ascending(d, t) /\ Len(d) \in Nat /\ Len(d) > 0
         /\ ToSet(d) = ToSet(s) \cup {t}
  <1>1. s \in Seq(Nat) /\ Len(s) \in Nat /\ DOMAIN s = 1..Len(s)
    BY DEF Ascending
  <1>2. /\ d \in Seq(Nat) /\ Len(d) = Len(s) + 1 /\ DOMAIN d = 1..Len(d)
        /\ d[Len(d)] = t /\ \A n \in 1..Len(s) : d[n] = s[n]
    BY <1>1
  <1>3. \A n \in 1..Len(d) : n \in 1..Len(s) \/ n = Len(d)
    BY <1>1, <1>2
  <1>4. \A n \in 1..Len(d) : d[n] <= t
    BY <1>2, <1>3 DEF Ascending
  <1>5. ASSUME NEW m \in 1..Len(d), NEW n \in 1..Len(d), m < n
        PROVE  d[m] <= d[n]
    <2>1. CASE n = Len(d)
      BY <1>2, <1>4, <2>1
    <2>2. CASE n \in 1..Len(s)
      <3>1. m \in 1..Len(s)
        BY <1>1, <1>5, <2>2
      <3>2. QED
        BY <1>2, <1>5, <2>2, <3>1 DEF Ascending
    <2>3. QED
      BY <1>3, <2>1, <2>2
  <1>6. ToSet(d) = ToSet(s) \cup {t}
    <2>1. ToSet(d) \subseteq ToSet(s) \cup {t}
      BY <1>1, <1>2, <1>3 DEF ToSet
    <2>2. \A n \in 1..Len(s) : n \in 1..Len(d)
      BY <1>1, <1>2
    <2>3. Len(d) \in 1..Len(d)
      BY <1>1, <1>2
    <2>4. QED
      BY <1>1, <1>2, <2>1, <2>2, <2>3 DEF ToSet
  <1>7. QED
    BY <1>1, <1>2, <1>4, <1>5, <1>6 DEF Ascending

(* What a check forgets is too old to count.                               *)
LEMMA PrunedRecord ==
  ASSUME NEW t \in Nat, NEW r, RecordOK(r, t), NEW p, p = Pruned(r, t)
  PROVE  /\ RecordOK(p, t)
         /\ \A F \in SUBSET Nat, u \in Nat : Covers(r, t, F, u) => Covers(p, t, F, u)
  <1>1. PICK s, v : s = r.fails /\ v = r.until
    OBVIOUS
  <1>2. PICK d, w : d = p.fails /\ w = p.until
    OBVIOUS
  <1>3. PICK c \in Int : c = t - FailureWindow
    BY LimitAssumption
  <1>4. Ascending(s, t) /\ v \in Nat /\ v <= t + Lockout
    BY <1>1 DEF RecordOK
  <1>5. PICK k \in Nat : k = Before(s, c) /\ \A n \in 1..Len(s) : s[n] >= c => k < n
    BY <1>4, OldFirst
  <1>6. d = SubSeq(s, k + 1, Len(s)) /\ w = IF v > t THEN v ELSE 0
    BY <1>1, <1>2, <1>3, <1>5 DEF Pruned, Since
  <1>7. Ascending(d, t) /\ \A n \in 1..Len(s) : k < n => s[n] \in ToSet(d)
    BY <1>4, <1>6, Suffix
  <1>8. RecordOK(p, t)
    BY <1>2, <1>4, <1>6, <1>7, LimitAssumption DEF RecordOK
  <1>9. ASSUME NEW f \in Nat, f \in ToSet(s)
        PROVE  f \in ToSet(d) \/ f < c
    <2>1. DOMAIN s = 1..Len(s)
      BY <1>4 DEF Ascending
    <2>2. PICK n \in 1..Len(s) : f = s[n]
      BY <1>9, <2>1 DEF ToSet
    <2>3. f \in ToSet(d) \/ ~ f >= c
      BY <1>5, <1>7, <2>2
    <2>4. QED
      BY <2>3
  <1>10. ASSUME NEW F \in SUBSET Nat, NEW u \in Nat, Covers(r, t, F, u)
         PROVE  Covers(p, t, F, u)
    <2>1. ASSUME NEW f \in F
          PROVE  f \in ToSet(d) \/ f < c \/ f < w - FailureWindow
      <3>1. CASE f \in ToSet(s)
        BY <1>9, <3>1
      <3>2. CASE f < v - FailureWindow
        BY <1>3, <1>4, <1>6, <3>2, LimitAssumption
      <3>3. QED
        BY <1>1, <1>3, <1>10, <3>1, <3>2 DEF Covers
    <2>2. u > t => w >= u
      BY <1>1, <1>4, <1>6, <1>10 DEF Covers
    <2>3. QED
      BY <1>2, <1>3, <2>1, <2>2 DEF Covers
  <1>11. QED
    BY <1>8, <1>10

(* What a failure drops, its lockout outlives.                             *)
LEMMA FailedRecord ==
  ASSUME NEW t \in Nat, NEW r, RecordOK(r, t), NEW q, q = Failed(r, t)
  PROVE  /\ RecordOK(q, t)
         /\ \A F \in SUBSET Nat, u \in Nat :
              Covers(r, t, F, u) => Covers(q, t, F \cup {t}, Later(u, q.until))
  <1>1. PICK p : p = Pruned(r, t)
    OBVIOUS
  <1>2. PICK s, v : s = p.fails /\ v = p.until
    OBVIOUS
  <1>3. PICK d, w : d = q.fails /\ w = q.until
    OBVIOUS
  <1>4. PICK all : all = Append(s, t)
    OBVIOUS
  <1>5. RecordOK(p, t)
    BY <1>1, PrunedRecord
  <1>6. Ascending(s, t) /\ v \in Nat /\ v <= t + Lockout
    BY <1>2, <1>5 DEF RecordOK
  <1>7. /\ Ascending(all, t) /\ Len(all) \in Nat /\ Len(all) > 0
        /\ ToSet(all) = ToSet(s) \cup {t}
    BY <1>4, <1>6, Appended
  <1>8. PICK x \in Nat : x = IF Len(all) > MaxFailures THEN Len(all) - MaxFailures ELSE 0
    <2>1. CASE Len(all) > MaxFailures
      BY <1>7, <2>1, LimitAssumption
    <2>2. CASE ~ Len(all) > MaxFailures
      BY <2>2
    <2>3. QED
      BY <2>1, <2>2
  <1>9. /\ d = SubSeq(all, x + 1, Len(all))
        /\ w = IF Len(all) >= MaxFailures THEN t + Lockout ELSE v
    BY <1>1, <1>2, <1>3, <1>4, <1>8 DEF Failed
  <1>10. Ascending(d, t) /\ \A n \in 1..Len(all) : x < n => all[n] \in ToSet(d)
    BY <1>7, <1>9, Suffix
  <1>11. w \in Nat /\ w <= t + Lockout /\ (w = t + Lockout \/ (w = v /\ x = 0))
    BY <1>6, <1>8, <1>9, LimitAssumption
  <1>12. RecordOK(q, t)
    BY <1>3, <1>10, <1>11 DEF RecordOK
  <1>13. ASSUME NEW f \in ToSet(all)
         PROVE  f \in ToSet(d) \/ f < w - FailureWindow
    <2>1. DOMAIN all = 1..Len(all) /\ \A n \in 1..Len(all) : all[n] \in Nat /\ all[n] <= t
      BY <1>7 DEF Ascending
    <2>2. PICK n \in 1..Len(all) : f = all[n]
      BY <2>1 DEF ToSet
    <2>3. CASE w = t + Lockout
      BY <2>1, <2>2, <2>3, LimitAssumption, LockoutAssumption
    <2>4. CASE x = 0
      BY <1>10, <2>2, <2>4
    <2>5. QED
      BY <1>11, <2>3, <2>4
  <1>14. ASSUME NEW F \in SUBSET Nat, NEW u \in Nat, Covers(r, t, F, u)
         PROVE  Covers(q, t, F \cup {t}, Later(u, w))
    <2>1. Covers(p, t, F, u)
      BY <1>1, <1>14, PrunedRecord
    <2>2. ASSUME NEW f \in F \cup {t}
          PROVE  f \in ToSet(d) \/ f < t - FailureWindow \/ f < w - FailureWindow
      <3>1. CASE f \in ToSet(s) \/ f = t
        BY <1>7, <1>13, <3>1
      <3>2. CASE f \in F /\ f < v - FailureWindow
        BY <1>6, <1>11, <3>2, LimitAssumption
      <3>3. QED
        BY <1>2, <2>1, <3>1, <3>2 DEF Covers
    <2>3. Later(u, w) > t => w >= Later(u, w)
      BY <1>2, <1>6, <1>11, <2>1, LimitAssumption DEF Covers, Later
    <2>4. QED
      BY <1>3, <2>2, <2>3 DEF Covers
  <1>15. QED
    BY <1>3, <1>12, <1>14

(* An import keeps what either store has.                                  *)
LEMMA MergedRecord ==
  ASSUME NEW t \in Nat, NEW r, NEW i, RecordOK(r, t), RecordOK(i, t)
  PROVE  /\ RecordOK(Merged(r, i), t)
         /\ \A F \in SUBSET Nat, u \in Nat :
              Covers(r, t, F, u) \/ Covers(i, t, F, u) => Covers(Merged(r, i), t, F, u)
  <1> DEFINE S == ToSet(r.fails) \cup ToSet(i.fails)
             w == Merged(r, i)
  <1>1. IsFiniteSet(S) /\ S \subseteq Nat
    BY RowsFinite, FS_Union DEF RecordOK, Ascending
  <1>2. w.fails = InOrder(S) /\ w.until = Later(r.until, i.until)
    BY DEF Merged
  <1> HIDE DEF w, S
  <1>3. /\ w.fails \in Seq(Nat) /\ ToSet(w.fails) = S
        /\ \A m, n \in 1..Len(w.fails) : m < n => w.fails[m] <= w.fails[n]
    BY <1>1, <1>2, OrderedSet
  <1>4. \A n \in 1..Len(w.fails) : w.fails[n] <= t
    <2>1. \A n \in 1..Len(w.fails) : w.fails[n] \in S
      BY <1>3 DEF ToSet
    <2>2. \A f \in S : f <= t
      BY DEF S, ToSet, RecordOK, Ascending
    <2>3. QED
      BY <2>1, <2>2
  <1>5. /\ w.until \in Nat /\ w.until <= t + Lockout /\ w.until >= r.until /\ w.until >= i.until
        /\ r.until \in Nat /\ i.until \in Nat
    BY <1>2, LimitAssumption DEF Later, RecordOK
  <1>6. RecordOK(w, t)
    BY <1>3, <1>4, <1>5 DEF RecordOK, Ascending
  <1>7. ToSet(r.fails) \subseteq ToSet(w.fails) /\ ToSet(i.fails) \subseteq ToSet(w.fails)
    BY <1>3 DEF S
  <1>8. ASSUME NEW F \in SUBSET Nat, NEW u \in Nat, Covers(r, t, F, u) \/ Covers(i, t, F, u)
        PROVE  Covers(w, t, F, u)
    <2>1. \A f \in F : f \in ToSet(w.fails) \/ f < t - FailureWindow \/ f < w.until - FailureWindow
      BY <1>5, <1>7, <1>8, LimitAssumption DEF Covers
    <2>2. u > t => w.until >= u
      BY <1>5, <1>8 DEF Covers
    <2>3. QED
      BY <2>1, <2>2 DEF Covers
  <1>9. QED
    BY <1>6, <1>8 DEF w

LEMMA LaterRecord ==
  ASSUME NEW t \in Nat, NEW r, RecordOK(r, t)
  PROVE  /\ RecordOK(r, t + 1)
         /\ \A F \in SUBSET Nat, u \in Nat : Covers(r, t, F, u) => Covers(r, t + 1, F, u)
  <1>1. RecordOK(r, t + 1)
    <2>1. \A n \in 1..Len(r.fails) : r.fails[n] \in Nat
      BY DEF RecordOK, Ascending
    <2>2. QED
      BY <2>1, LimitAssumption DEF RecordOK, Ascending
  <1>2. ASSUME NEW F \in SUBSET Nat, NEW u \in Nat, Covers(r, t, F, u)
        PROVE  Covers(r, t + 1, F, u)
    BY <1>2, LimitAssumption DEF Covers
  <1>3. QED
    BY <1>1, <1>2

LEMMA NothingToCover ==
  ASSUME NEW t \in Nat
  PROVE  /\ RecordOK(NoLimit, t)
         /\ \A r : Covers(r, t, {}, 0)
  BY LimitAssumption DEF RecordOK, Ascending, Covers, NoLimit

-----------------------------------------------------------------------------
(* What the steps do to the limits.                                        *)

LEMMA MergedLimits ==
  ASSUME NEW t \in Nat, NEW l, NEW m, RowsOK(l, t), RowsOK(m, t),
         NEW failed, NEW until, Answered(failed, until),
         NEW n, n = [c \in Account |-> Merged(l[c], m[c])]
  PROVE  /\ RowsOK(n, t)
         /\ Counted(l, t, failed, until) \/ Counted(m, t, failed, until) =>
              Counted(n, t, failed, until)
  <1>1. ASSUME NEW a \in Account
        PROVE  /\ RecordOK(n[a], t)
               /\ \/ Covers(l[a], t, failed[a], until[a])
                  \/ Covers(m[a], t, failed[a], until[a])
                  => Covers(n[a], t, failed[a], until[a])
    <2>1. RecordOK(l[a], t) /\ RecordOK(m[a], t) /\ n[a] = Merged(l[a], m[a])
      BY DEF RowsOK
    <2>2. failed[a] \in SUBSET Nat /\ until[a] \in Nat
      BY DEF Answered
    <2>3. QED
      BY <2>1, <2>2, MergedRecord
  <1>2. QED
    BY <1>1 DEF RowsOK, Counted

LEMMA LaterLimits ==
  ASSUME NEW t \in Nat, NEW l, RowsOK(l, t), NEW failed, NEW until, Answered(failed, until)
  PROVE  /\ RowsOK(l, t + 1)
         /\ Counted(l, t, failed, until) => Counted(l, t + 1, failed, until)
  <1>1. ASSUME NEW a \in Account
        PROVE  /\ RecordOK(l[a], t + 1)
               /\ Covers(l[a], t, failed[a], until[a]) => Covers(l[a], t + 1, failed[a], until[a])
    <2>1. RecordOK(l[a], t) /\ failed[a] \in SUBSET Nat /\ until[a] \in Nat
      BY DEF RowsOK, Answered
    <2>2. QED
      BY <2>1, LaterRecord
  <1>2. QED
    BY <1>1 DEF RowsOK, Counted

LEMMA OneLimit ==
  ASSUME NEW t \in Nat, NEW l, RowsOK(l, t), NEW a \in Account, NEW r, RecordOK(r, t),
         NEW failed, NEW until, Answered(failed, until),
         NEW f \in SUBSET Nat, NEW u \in Nat,
         Covers(l[a], t, failed[a], until[a]) => Covers(r, t, f, u)
  PROVE  /\ RowsOK([l EXCEPT ![a] = r], t)
         /\ Answered([failed EXCEPT ![a] = f], [until EXCEPT ![a] = u])
         /\ Counted(l, t, failed, until) =>
              Counted([l EXCEPT ![a] = r], t, [failed EXCEPT ![a] = f], [until EXCEPT ![a] = u])
  <1>0. PICK n, failed2, until2 :
          /\ n = [l EXCEPT ![a] = r]
          /\ failed2 = [failed EXCEPT ![a] = f] /\ until2 = [until EXCEPT ![a] = u]
    OBVIOUS
  <1>1. /\ n = [c \in Account |-> n[c]] /\ n[a] = r /\ \A c \in Account \ {a} : n[c] = l[c]
    BY <1>0 DEF RowsOK
  <1>2. /\ failed2 = [c \in Account |-> failed2[c]] /\ until2 = [c \in Account |-> until2[c]]
        /\ failed2[a] = f /\ until2[a] = u
        /\ \A c \in Account \ {a} : failed2[c] = failed[c] /\ until2[c] = until[c]
    BY <1>0 DEF Answered
  <1>3. RowsOK(n, t)
    BY <1>1 DEF RowsOK
  <1>4. Answered(failed2, until2)
    BY <1>2 DEF Answered
  <1>5. ASSUME Counted(l, t, failed, until), NEW c \in Account
        PROVE  Covers(n[c], t, failed2[c], until2[c])
    <2>1. CASE c = a
      BY <1>1, <1>2, <1>5, <2>1 DEF Counted
    <2>2. CASE c # a
      BY <1>1, <1>2, <1>5, <2>2 DEF Counted
    <2>3. QED
      BY <2>1, <2>2
  <1>6. QED
    BY <1>0, <1>3, <1>4, <1>5 DEF Counted

(* The record of the account in the open store after a sign-in, and what    *)
(* was answered of it.                                                     *)
LimitWritten(a, r, f, u) ==
  /\ db'[open].limit = [db[open].limit EXCEPT ![a] = r]
  /\ facts'.failed = [facts.failed EXCEPT ![a] = f]
  /\ facts'.until = [facts.until EXCEPT ![a] = u]
  /\ \A s \in Store \ {open} : db'[s] = db[s]

LEMMA LimitRows ==
  ASSUME Tables, Places, Limits, NEW a \in Account,
         CheckLimit(a) \/ RecordFailure(a) \/ ClearFailures(a)
  PROVE  \E r : \E f \in SUBSET Nat, u \in Nat :
           /\ LimitWritten(a, r, f, u) /\ RecordOK(r, clock)
           /\ Covers(db[open].limit[a], clock, facts.failed[a], facts.until[a]) =>
                Covers(r, clock, f, u)
  <1>1. open \in Store
    BY DEF CheckLimit, RecordFailure, ClearFailures, MaySign, Up, Places
  <1>2. PICK l, o, F, U : l = db[open].limit /\ o = l[a] /\ F = facts.failed[a] /\ U = facts.until[a]
    OBVIOUS
  <1>3. /\ clock \in Nat /\ RecordOK(o, clock) /\ l = [c \in Account |-> l[c]]
        /\ F \in SUBSET Nat /\ U \in Nat
        /\ facts.failed = [c \in Account |-> facts.failed[c]]
        /\ facts.until = [c \in Account |-> facts.until[c]]
    BY <1>1, <1>2 DEF Limits, RowsOK, Answered
  <1>4. ASSUME NEW r, db' = [db EXCEPT ![open].limit[a] = r]
        PROVE  /\ db'[open].limit = [l EXCEPT ![a] = r] /\ db'[open].limit[a] = r
               /\ \A s \in Store \ {open} : db'[s] = db[s]
    <2>1. PICK v : v = [l EXCEPT ![a] = r]
      OBVIOUS
    <2>2. PICK row : row = [db[open] EXCEPT !.limit = v]
      OBVIOUS
    <2>3. row = [x \in Column |-> row[x]] /\ row.limit = v
      BY <1>1, <2>2 DEF Tables, Column
    <2>4. db' = [db EXCEPT ![open] = row]
      BY <1>1, <1>2, <1>4, <2>1, <2>2 DEF Tables
    <2>5. db'[open] = row /\ \A s \in Store \ {open} : db'[s] = db[s]
      BY <1>1, <2>3, <2>4, RowWritten
    <2>6. v[a] = r
      BY <1>3, <2>1
    <2>7. QED
      BY <2>1, <2>3, <2>5, <2>6
  <1>5. CASE CheckLimit(a)
    <2>1. PICK r : r = Pruned(o, clock)
      OBVIOUS
    <2>2. db' = [db EXCEPT ![open].limit[a] = r] /\ facts' = facts
      BY <1>1, <1>2, <1>5, <2>1 DEF CheckLimit, Tables
    <2>3. facts.failed = [facts.failed EXCEPT ![a] = F] /\ facts.until = [facts.until EXCEPT ![a] = U]
      BY <1>2, <1>3
    <2>4. LimitWritten(a, r, F, U)
      BY <1>2, <1>4, <2>2, <2>3 DEF LimitWritten
    <2>5. RecordOK(r, clock) /\ (Covers(o, clock, F, U) => Covers(r, clock, F, U))
      BY <1>3, <2>1, PrunedRecord
    <2>6. QED
      BY <1>2, <1>3, <2>4, <2>5
  <1>6. CASE RecordFailure(a)
    <2>1. PICK q : q = Failed(o, clock)
      OBVIOUS
    <2>2. PICK q2 : q2 = Failed(q, clock)
      OBVIOUS
    <2>3. PICK r \in {q, q2} : db' = [db EXCEPT ![open].limit[a] = r]
      <3>1. CASE db' = [db EXCEPT ![open].limit[a] = Failed(@, clock)]
        BY <1>1, <1>2, <2>1, <3>1 DEF Tables
      <3>2. CASE db' = [db EXCEPT ![open].limit[a] = Failed(Failed(@, clock), clock)]
        BY <1>1, <1>2, <2>1, <2>2, <3>2 DEF Tables
      <3>3. QED
        BY <1>6, <3>1, <3>2 DEF RecordFailure
    <2>4. PICK f, u : f = F \cup {clock} /\ u = Later(U, r.until)
      OBVIOUS
    <2>5. db'[open].limit[a] = r
      BY <1>4, <2>3
    <2>6. facts' = [facts EXCEPT !.failed[a] = @ \cup {clock}, !.until[a] = Later(@, r.until)]
      BY <1>6, <2>5 DEF RecordFailure
    <2>7. /\ facts'.failed = [facts.failed EXCEPT ![a] = f]
          /\ facts'.until = [facts.until EXCEPT ![a] = u]
      BY <1>2, <2>4, <2>6 DEF Tables, FactColumn
    <2>8. LimitWritten(a, r, f, u)
      BY <1>2, <1>4, <2>3, <2>7 DEF LimitWritten
    <2>9. /\ RecordOK(q, clock)
          /\ Covers(o, clock, F, U) => Covers(q, clock, f, Later(U, q.until))
      BY <1>3, <2>1, <2>4, FailedRecord
    <2>10. RecordOK(q2, clock)
      BY <1>3, <2>2, <2>9, FailedRecord
    <2>11. q.until \in Nat /\ q2.until \in Nat /\ f \in SUBSET Nat /\ u \in Nat
      BY <1>3, <2>3, <2>4, <2>9, <2>10 DEF RecordOK, Later
    <2>12. ASSUME Covers(o, clock, F, U)
           PROVE  Covers(q2, clock, f, Later(U, q2.until))
      <3>1. PICK w \in Nat : w = Later(U, q.until)
        BY <1>3, <2>11 DEF Later
      <3>2. Covers(q, clock, f, w)
        BY <2>9, <2>12, <3>1
      <3>3. Covers(q2, clock, f \cup {clock}, Later(w, q2.until))
        BY <1>3, <2>2, <2>9, <2>11, <3>2, FailedRecord
      <3>4. f \cup {clock} = f
        BY <2>4
      <3>5. Covers(q2, clock, f, Later(w, q2.until))
        BY <3>3, <3>4
      <3>6. Later(U, q2.until) > clock => q2.until >= Later(U, q2.until)
        BY <1>3, <2>11, <3>1, <3>5 DEF Covers, Later
      <3>7. QED
        BY <3>5, <3>6 DEF Covers
    <2>13. RecordOK(r, clock) /\ (Covers(o, clock, F, U) => Covers(r, clock, f, u))
      BY <2>3, <2>4, <2>9, <2>10, <2>12
    <2>14. QED
      BY <1>2, <2>8, <2>11, <2>13
  <1>7. CASE ClearFailures(a)
    <2>1. db' = [db EXCEPT ![open].limit[a] = NoLimit]
      BY <1>7 DEF ClearFailures
    <2>2. facts' = [facts EXCEPT !.failed[a] = {}, !.until[a] = 0]
      BY <1>7 DEF ClearFailures
    <2>3. /\ facts'.failed = [facts.failed EXCEPT ![a] = {}]
          /\ facts'.until = [facts.until EXCEPT ![a] = 0]
      BY <2>2 DEF Tables, FactColumn
    <2>4. LimitWritten(a, NoLimit, {}, 0)
      BY <1>2, <1>4, <2>1, <2>3 DEF LimitWritten
    <2>5. RecordOK(NoLimit, clock) /\ Covers(NoLimit, clock, {}, 0)
      BY <1>3, NothingToCover
    <2>6. QED
      BY <2>4, <2>5
  <1>8. QED
    BY <1>5, <1>6, <1>7

LEMMA SignInLimits ==
  ASSUME Tables, Places, LimitsInv, SignIn
  PROVE  LimitsInv'
  <1>1. /\ Up /\ open \in Store
        /\ UNCHANGED <<open, file, change, orphaned, clock>>
        /\ change.pc \notin {"snapped", "written", "opened", "imported", "swapped"}
    BY SignInRows DEF Others, Exclusive, Places, Up
  <1>2. SUFFICES /\ Answered(facts'.failed, facts'.until)
                 /\ \A s \in Store : RowsOK(db'[s].limit, clock)
                 /\ CountsFor(db[open].limit) =>
                      Counted(db'[open].limit, clock, facts'.failed, facts'.until)
    BY <1>1 DEF LimitsInv, Limits, CountsRemembered, CountsFor, Up
  <1>3. CASE \E x \in Session : CreateSession(x) \/ Revoke(x)
    <2>1. PICK v : \/ db' = [db EXCEPT ![open].sessions = v]
                   \/ db' = [db EXCEPT ![open].revoked = v]
      BY <1>3 DEF CreateSession, Revoke
    <2>2. facts'.failed = facts.failed /\ facts'.until = facts.until
      BY <1>3 DEF CreateSession, Revoke, Tables, FactColumn
    <2>3. \A s \in Store : db'[s].limit = db[s].limit
      BY <1>1, <2>1 DEF Tables, Column
    <2>4. QED
      BY <1>1, <2>2, <2>3 DEF LimitsInv, Limits, CountsFor
  <1>4. CASE \E k \in LogoutToken : ConsumeLogout(k)
    <2>1. PICK u, v : db' = [db EXCEPT ![open].spent = u, ![open].revoked = v]
      BY <1>4 DEF ConsumeLogout
    <2>2. facts'.failed = facts.failed /\ facts'.until = facts.until
      BY <1>4 DEF ConsumeLogout, Tables, FactColumn
    <2>3. \A s \in Store : db'[s].limit = db[s].limit
      BY <1>1, <2>1 DEF Tables, Column
    <2>4. QED
      BY <1>1, <2>2, <2>3 DEF LimitsInv, Limits, CountsFor
  <1>5. ASSUME NEW a \in Account, CheckLimit(a) \/ RecordFailure(a) \/ ClearFailures(a)
        PROVE  /\ Answered(facts'.failed, facts'.until)
               /\ \A s \in Store : RowsOK(db'[s].limit, clock)
               /\ CountsFor(db[open].limit) =>
                    Counted(db'[open].limit, clock, facts'.failed, facts'.until)
    <2>0. PICK r : \E f \in SUBSET Nat, u \in Nat :
                      /\ LimitWritten(a, r, f, u) /\ RecordOK(r, clock)
                      /\ Covers(db[open].limit[a], clock, facts.failed[a], facts.until[a]) =>
                           Covers(r, clock, f, u)
      BY <1>5, LimitRows DEF LimitsInv
    <2>1. PICK f \in SUBSET Nat, u \in Nat :
             /\ LimitWritten(a, r, f, u) /\ RecordOK(r, clock)
             /\ Covers(db[open].limit[a], clock, facts.failed[a], facts.until[a]) =>
                  Covers(r, clock, f, u)
      BY <2>0
    <2>2. /\ clock \in Nat /\ RowsOK(db[open].limit, clock)
          /\ Answered(facts.failed, facts.until)
      BY <1>1 DEF LimitsInv, Limits
    <2>3. /\ RowsOK(db'[open].limit, clock) /\ Answered(facts'.failed, facts'.until)
          /\ Counted(db[open].limit, clock, facts.failed, facts.until) =>
               Counted(db'[open].limit, clock, facts'.failed, facts'.until)
      <3>1. PICK l, n, F, G, U, V :
              /\ l = db[open].limit /\ n = db'[open].limit
              /\ F = facts.failed /\ G = facts'.failed /\ U = facts.until /\ V = facts'.until
        OBVIOUS
      <3>2. n = [l EXCEPT ![a] = r] /\ G = [F EXCEPT ![a] = f] /\ V = [U EXCEPT ![a] = u]
        BY <2>1, <3>1 DEF LimitWritten
      <3>3. RowsOK(l, clock) /\ Answered(F, U) /\ RecordOK(r, clock)
            /\ (Covers(l[a], clock, F[a], U[a]) => Covers(r, clock, f, u))
        BY <2>1, <2>2, <3>1
      <3>4. /\ RowsOK(n, clock) /\ Answered(G, V)
            /\ Counted(l, clock, F, U) => Counted(n, clock, G, V)
        BY <2>2, <3>2, <3>3, OneLimit
      <3>5. QED
        BY <3>1, <3>4
    <2>4. \A s \in Store \ {open} : RowsOK(db'[s].limit, clock)
      BY <2>1 DEF LimitsInv, Limits, LimitWritten
    <2>5. QED
      BY <1>1, <2>3, <2>4 DEF CountsFor
  <1>6. QED
    BY <1>3, <1>4, <1>5 DEF SignIn

LEMMA SameLimits ==
  ASSUME LimitsInv, FactsStay, Places, UNCHANGED <<open, file, change, orphaned, clock>>
  PROVE  LimitsInv'
  <1>1. /\ open \in Store \cup {None} /\ file \in Store
        /\ change.pc \in {"imported", "swapped"} => change.to \in Store
    BY DEF Places, At
  <1>2. /\ \A s \in Store : db'[s].limit = db[s].limit
        /\ facts' = facts
    BY DEF FactsStay
  <1>3. Limits'
    BY <1>2 DEF LimitsInv, Limits
  <1>4. CountsRemembered'
    BY <1>1, <1>2 DEF LimitsInv, CountsRemembered, CountsFor, Up
  <1>5. QED
    BY <1>3, <1>4 DEF LimitsInv

LEMMA ChangeLimits ==
  ASSUME Tables, Where, LimitsInv, Change
  PROVE  LimitsInv'
  <1> USE DEF Same, Goto, Where
  <1>0. Limits /\ CountsRemembered
    BY DEF LimitsInv
  <1>1. ASSUME \/ \E s \in Store, how \in {"reload", "restore"} : Begin(s, how)
               \/ Publish \/ ChangeFails \/ Undo
        PROVE  LimitsInv'
    <2>1. /\ UNCHANGED <<open, orphaned, clock, db, facts>> /\ Up /\ open \in Store
          /\ change'.pc \in {"none", "begun", "undo"}
      BY <1>1 DEF Begin, Publish, ChangeFails, Undo, NoChange, Places, At, Up, ChangeColumn
    <2>2. Limits'
      BY <1>0, <2>1 DEF Limits
    <2>3. CountsRemembered'
      BY <1>0, <2>1 DEF CountsRemembered, CountsFor, Up
    <2>4. QED
      BY <2>2, <2>3 DEF LimitsInv
  <1>2. ASSUME Snapshot
        PROVE  LimitsInv'
    <2>1. /\ UNCHANGED <<open, orphaned, clock, db, facts>> /\ Up /\ open \in Store
          /\ change'.pc = "snapped" /\ change'.snapshot.limit = db[open].limit
      BY <1>2 DEF Snapshot, AuthOf, Places, At, Up, ChangeColumn
    <2>2. Limits'
      BY <1>0, <2>1 DEF Limits
    <2>3. CountsRemembered'
      BY <1>0, <2>1 DEF CountsRemembered, CountsFor, Up
    <2>4. QED
      BY <2>2, <2>3 DEF LimitsInv
  <1>3. ASSUME Commit \/ OpenTarget
        PROVE  LimitsInv'
    <2>1. /\ UNCHANGED <<open, orphaned, clock, db, facts>> /\ Up /\ open \in Store
          /\ change.pc \in {"snapped", "written"} /\ change'.pc \in {"written", "opened"}
          /\ change'.snapshot = change.snapshot
      BY <1>3 DEF Commit, OpenTarget, Places, At, Up, ChangeColumn
    <2>2. Limits'
      BY <1>0, <2>1 DEF Limits
    <2>3. CountsRemembered'
      BY <1>0, <2>1 DEF CountsRemembered, CountsFor, Up
    <2>4. QED
      BY <2>2, <2>3 DEF LimitsInv
  <1>4. ASSUME Import
        PROVE  LimitsInv'
    <2>1. PICK l, m : l = db[change.to].limit /\ m = change.snapshot.limit
      OBVIOUS
    <2>2. /\ UNCHANGED <<open, orphaned, clock, facts>> /\ Up /\ open \in Store
          /\ change.pc = "opened" /\ change'.pc = "imported"
          /\ change'.to = change.to /\ change.to \in Store
      BY <1>4 DEF Import, Places, At, Up, ChangeColumn
    <2>3. PICK n : n = [c \in Account |-> Merged(l[c], m[c])]
      OBVIOUS
    <2>4. db'[change.to].limit = n /\ \A s \in Store \ {change.to} : db'[s] = db[s]
      BY <1>4, <2>1, <2>3, ImportRows
    <2>5. clock \in Nat /\ RowsOK(l, clock) /\ RowsOK(m, clock) /\ Answered(facts.failed, facts.until)
      BY <1>0, <2>1, <2>2 DEF Limits
    <2>6. RowsOK(n, clock) /\ (CountsFor(l) \/ CountsFor(m) => CountsFor(n))
      BY <2>3, <2>5, MergedLimits DEF CountsFor
    <2>7. \A s \in Store : RowsOK(db'[s].limit, clock)
      BY <1>0, <2>4, <2>6 DEF Limits
    <2>8. Limits'
      BY <2>2, <2>5, <2>7 DEF Limits
    <2>9. ~orphaned => CountsFor(db[open].limit) /\ CountsFor(n)
      BY <1>0, <2>1, <2>2, <2>6 DEF CountsRemembered
    <2>10. \A s \in Store : db'[s].limit \in {db[s].limit, n}
      BY <2>4
    <2>11. ~orphaned => CountsFor(db'[open].limit) /\ CountsFor(db'[change.to].limit)
      BY <2>2, <2>4, <2>9, <2>10
    <2>12. CountsRemembered'
      BY <2>2, <2>11 DEF CountsRemembered, CountsFor, Up
    <2>13. QED
      BY <2>8, <2>12 DEF LimitsInv
  <1>5. ASSUME Swap
        PROVE  LimitsInv'
    <2>1. /\ UNCHANGED <<orphaned, clock, db, facts>>
          /\ change.pc = "imported" /\ change'.pc = "swapped"
          /\ open' = change.to /\ change'.to = change.to /\ change.to \in Store
      BY <1>5 DEF Swap, Places, At, ChangeColumn
    <2>2. Limits'
      BY <1>0, <2>1 DEF Limits
    <2>3. CountsRemembered'
      BY <1>0, <2>1, NoneAssumption DEF CountsRemembered, CountsFor, Up
    <2>4. QED
      BY <2>2, <2>3 DEF LimitsInv
  <1>6. QED
    BY <1>1, <1>2, <1>3, <1>4, <1>5 DEF Change

LEMMA ProcessLimits ==
  ASSUME Tables, Where, LimitsInv, Crash \/ Start \/ Tick \/ \E s \in Store : Migrate(s)
  PROVE  LimitsInv'
  <1> USE DEF Where
  <1>0. Limits /\ CountsRemembered /\ file \in Store
    BY DEF LimitsInv, Places
  <1>1. ASSUME Crash
        PROVE  LimitsInv'
    <2>1. UNCHANGED <<file, clock, db, facts>> /\ Up /\ ~Up' /\ change'.pc = "none"
      BY <1>1 DEF Crash, Up, NoChange
    <2>2. ~orphaned' => ~orphaned /\ (file = open \/ (At("imported") /\ file = change.to))
      BY <1>1 DEF Crash, ChangeOnDisk, At
    <2>3. Limits'
      BY <1>0, <2>1 DEF Limits
    <2>4. CountsRemembered'
      BY <1>0, <2>1, <2>2 DEF CountsRemembered, CountsFor, At
    <2>5. QED
      BY <2>3, <2>4 DEF LimitsInv
  <1>2. ASSUME Start
        PROVE  LimitsInv'
    <2>1. /\ UNCHANGED <<file, db, facts, clock, change, orphaned>> /\ ~Up /\ open' = file
          /\ change.pc = "none"
      BY <1>2 DEF Start, Places, At
    <2>2. Up'
      BY <1>0, <2>1, NoneAssumption DEF Up
    <2>3. Limits'
      BY <1>0, <2>1 DEF Limits
    <2>4. CountsRemembered'
      BY <1>0, <2>1, <2>2 DEF CountsRemembered, CountsFor
    <2>5. QED
      BY <2>3, <2>4 DEF LimitsInv
  <1>3. ASSUME Tick
        PROVE  LimitsInv'
    <2>1. /\ UNCHANGED <<file, open, db, facts, change, orphaned>> /\ clock' = clock + 1
          /\ clock \in Nat /\ clock + 1 \in Nat /\ Answered(facts.failed, facts.until)
      BY <1>0, <1>3 DEF Tick, Limits
    <2>2. ASSUME NEW l, RowsOK(l, clock)
          PROVE  /\ RowsOK(l, clock')
                 /\ CountsFor(l) => Counted(l, clock', facts.failed, facts.until)
      BY <2>1, <2>2, LaterLimits DEF CountsFor
    <2>3. Limits'
      BY <1>0, <2>1, <2>2 DEF Limits
    <2>4. /\ Up => open \in Store
          /\ change.pc \in {"imported", "swapped"} => change.to \in Store
      BY DEF Places, Up, At
    <2>5. /\ \A s \in Store : RowsOK(db[s].limit, clock)
          /\ change.pc \in {"snapped", "written", "opened"} => RowsOK(change.snapshot.limit, clock)
      BY <1>0 DEF Limits
    <2>6. ~orphaned =>
            /\ Up => Counted(db[open].limit, clock', facts.failed, facts.until)
            /\ ~Up => Counted(db[file].limit, clock', facts.failed, facts.until)
            /\ change.pc \in {"snapped", "written", "opened"} =>
                 Counted(change.snapshot.limit, clock', facts.failed, facts.until)
            /\ change.pc \in {"imported", "swapped"} =>
                 Counted(db[change.to].limit, clock', facts.failed, facts.until)
      BY <1>0, <2>2, <2>4, <2>5 DEF CountsRemembered
    <2>7. CountsRemembered'
      BY <2>1, <2>6 DEF CountsRemembered, CountsFor, Up
    <2>8. QED
      BY <2>3, <2>7 DEF LimitsInv
  <1>4. ASSUME NEW s \in Store, Migrate(s)
        PROVE  LimitsInv'
    <2>1. UNCHANGED <<open, change, orphaned, facts, clock>> /\ ~Up /\ change.pc = "none"
      BY <1>4 DEF Migrate, Places, At
    <2>2. /\ \A t \in Store \ {s} : db'[t] = db[t]
          /\ \/ file' = file /\ db'[s].limit = db[s].limit
             \/ /\ file' = s /\ file \in Store \ {s}
                /\ db'[s].limit = [c \in Account |-> Merged(db[s].limit[c], db[file].limit[c])]
      BY <1>4, MigrateRows
    <2>3. /\ clock \in Nat /\ Answered(facts.failed, facts.until)
          /\ \A t \in Store : RowsOK(db[t].limit, clock)
      BY <1>0 DEF Limits
    <2>4. ~orphaned => CountsFor(db[file].limit)
      BY <1>0, <2>1 DEF CountsRemembered
    <2>5. RowsOK(db'[s].limit, clock) /\ (~orphaned => CountsFor(db'[file'].limit))
      <3>1. CASE file' = file /\ db'[s].limit = db[s].limit
        BY <1>0, <2>2, <2>3, <2>4, <3>1
      <3>2. CASE /\ file' = s /\ file \in Store \ {s}
                 /\ db'[s].limit = [c \in Account |-> Merged(db[s].limit[c], db[file].limit[c])]
        <4>1. PICK l, m : l = db[s].limit /\ m = db[file].limit
          OBVIOUS
        <4>2. RowsOK(l, clock) /\ RowsOK(m, clock)
          BY <1>0, <2>3, <4>1
        <4>3. PICK n : n = [c \in Account |-> Merged(l[c], m[c])]
          OBVIOUS
        <4>4. RowsOK(n, clock) /\ (CountsFor(m) => CountsFor(n))
          BY <2>3, <4>2, <4>3, MergedLimits DEF CountsFor
        <4>5. db'[s].limit = n
          BY <3>2, <4>1, <4>3
        <4>6. QED
          BY <2>4, <3>2, <4>1, <4>4, <4>5
      <3>3. QED
        BY <2>2, <3>1, <3>2
    <2>6. Limits'
      BY <2>1, <2>2, <2>3, <2>5 DEF Limits
    <2>7. CountsRemembered'
      BY <2>1, <2>5 DEF CountsRemembered, CountsFor, Up
    <2>8. QED
      BY <2>6, <2>7 DEF LimitsInv
  <1>5. QED
    BY <1>1, <1>2, <1>3, <1>4

LEMMA LimitsStep == IInv /\ LimitsInv /\ [Next]_vars => LimitsInv'
  <1> SUFFICES ASSUME IInv, LimitsInv, [Next]_vars PROVE LimitsInv'
    OBVIOUS
  <1>0. Tables /\ Where /\ Places /\ ReservationsSettled
    BY DEF IInv, Where
  <1>1. CASE SignIn
    BY <1>0, <1>1, SignInLimits
  <1>2. CASE Use
    <2>1. FactsStay /\ Rest
      BY <1>0, <1>2, UseRows
    <2>2. QED
      BY <1>0, <2>1, SameLimits DEF Rest
  <1>3. CASE Change
    BY <1>0, <1>3, ChangeLimits
  <1>4. CASE Crash \/ Start \/ Tick \/ \E s \in Store : Migrate(s)
    BY <1>0, <1>4, ProcessLimits
  <1>5. CASE UNCHANGED vars
    <2>1. UNCHANGED <<db, facts, open, file, change, orphaned, clock>>
      BY <1>5 DEF vars
    <2>2. QED
      BY <1>0, <2>1, NothingWritten, SameLimits
  <1>6. QED
    BY <1>1, <1>2, <1>3, <1>4, <1>5 DEF Next

LEMMA LimitsInit == Init => LimitsInv
  <1> SUFFICES ASSUME Init PROVE LimitsInv
    OBVIOUS
  <1>1. /\ open \in Store /\ Up /\ change.pc = "none" /\ clock = 1
        /\ facts.failed = [a \in Account |-> {}] /\ facts.until = [a \in Account |-> 0]
        /\ \A s \in Store : db[s].limit = [a \in Account |-> NoLimit]
    BY NoneAssumption DEF Init, Up, NoChange, Empty
  <1>2. RecordOK(NoLimit, 1) /\ Covers(NoLimit, 1, {}, 0)
    BY NothingToCover
  <1>3. Limits
    BY <1>1, <1>2 DEF Limits, RowsOK, Answered
  <1>4. CountsRemembered
    BY <1>1, <1>2 DEF CountsRemembered, CountsFor, Counted
  <1>5. QED
    BY <1>3, <1>4 DEF LimitsInv

(* The activity that is served is that of the open store, however long a    *)
(* query took: cache_delivery_activity compares the generation of before   *)
(* the query with the one that holds when it stores the answer.            *)
THEOREM CacheIsCurrent == Spec => []ActivityCurrent
  <1>1. IInv => ActivityCurrent
    BY DEF IInv, Where, Answers, ActivityCurrent, Cached
  <1>2. QED
    BY <1>1, Invariant, PTL

(* A store holds a repeat back for deliveries only that were admitted there *)
(* and have not ended, whatever store is open by then: RepeatReservation.  *)
THEOREM NothingHeldForGood == Spec => []ReservationsSettled
  <1>1. IInv => ReservationsSettled
    BY DEF IInv
  <1>2. QED
    BY <1>1, Invariant, PTL

(* The open store knows every session that was created, every revocation    *)
(* and every logout token that was used, and counts every failure and      *)
(* lockout that is not over, after any number of changes, failing changes, *)
(* crashes and migrations: commit_config_replacement.                      *)
THEOREM NothingForgotten == Spec => []AuthKept
  <1>1. Init => LimitsInv
    BY LimitsInit
  <1>2. IInv /\ LimitsInv /\ [Next]_vars => LimitsInv'
    BY LimitsStep
  <1>3. IInv => SessionsKept
    BY DEF IInv, Remembered, SessionsKept
  <1>4. IInv /\ LimitsInv => FailuresKept
    <2> SUFFICES ASSUME IInv, LimitsInv, Up, ~orphaned PROVE Counts(open)
      BY DEF FailuresKept
    <2>1. open \in Store /\ clock \in Nat /\ CountsFor(db[open].limit)
      BY DEF IInv, Where, Places, Up, LimitsInv, Limits, CountsRemembered
    <2>2. ASSUME NEW a \in Account, NEW r, r = db[open].limit[a]
          PROVE  /\ facts.until[a] > clock => r.until >= facts.until[a]
                 /\ \/ {f \in facts.failed[a] : f >= clock - FailureWindow} \subseteq ToSet(r.fails)
                    \/ r.until > clock
      <3>1. Covers(r, clock, facts.failed[a], facts.until[a])
        BY <2>1, <2>2 DEF CountsFor, Counted
      <3>2. r.until \in Nat /\ facts.failed[a] \subseteq Nat
        BY <2>1, <2>2 DEF LimitsInv, Limits, RowsOK, RecordOK, Answered
      <3>3. ASSUME NEW f \in facts.failed[a], f >= clock - FailureWindow, f \notin ToSet(r.fails)
            PROVE  r.until > clock
        <4>1. f \in Nat /\ f < r.until - FailureWindow
          BY <2>1, <3>1, <3>2, <3>3, LimitAssumption DEF Covers
        <4>2. QED
          BY <2>1, <3>2, <3>3, <4>1, LimitAssumption
      <3>4. QED
        BY <3>1, <3>3 DEF Covers
    <2>3. QED
      BY <2>2 DEF Counts
  <1>5. IInv /\ LimitsInv => AuthKept
    BY <1>3, <1>4 DEF AuthKept
  <1>6. QED
    BY <1>1, <1>2, <1>5, Invariant, PTL DEF Spec

-----------------------------------------------------------------------------
(* SignIn: what the requests do to the tokens.                             *)

\* The tokens that a request may open a session with.
TokensOf(j) ==
  IF \/ j.pc \in {"verify", "assert", "finish"}
     \/ j.pc = "clear" /\ j.then = "finish"
    THEN j.s.used
    ELSE IF j.pc = "exchange" THEN {j.of} ELSE {}

Carried(r) == IF r \in Request THEN TokensOf(job[r]) ELSE {}

\* The tokens that what is pending stands for: its own, and those that led to it.
TokensAt(u, p) ==
  CASE p.kind = "used" -> {}
    [] p.kind = "step" -> {u} \cup p.of.used
    [] OTHER -> {u}

StandsFor(u) == IF u \in DOMAIN pending THEN TokensAt(u, pending[u]) ELSE {}

\* A token is in one place, until it has led to a session.
OnePlace ==
  /\ \A r, q \in Request : r # q => Carried(r) \cap Carried(q) = {}
  /\ \A r \in Request, u \in Token : Carried(r) \cap StandsFor(u) = {}
  /\ \A u, v \in Token : u # v => StandsFor(u) \cap StandsFor(v) = {}

Unused(T) == \A t \in T : t \in DOMAIN uses /\ uses[t] = 0

TokensKept ==
  /\ OnePlace /\ OneShot
  /\ \A r \in Request : Unused(Carried(r))
  /\ \A u \in Token : Unused(StandsFor(u))

Rows ==
  /\ DOMAIN pending \subseteq DOMAIN uses /\ DOMAIN uses \subseteq Token
  /\ pending = [t \in DOMAIN pending |-> pending[t]] /\ uses \in [DOMAIN uses -> Nat]
  /\ \A t \in DOMAIN pending : Awaited(pending[t])

LEMMA NoJobTyped == NoJob \in Job /\ TokensOf(NoJob) = {}
  BY DEF NoJob, NoSignIn, Job, SignIns, Policy, TokensOf

LEMMA JobFields ==
  ASSUME NEW j \in Job
  PROVE  /\ j = [pc |-> j.pc, key |-> j.key, of |-> j.of, then |-> j.then, s |-> j.s]
         /\ j.key \in Key \cup {Nil} /\ j.of \in Token \cup {Nil} /\ j.s \in SignIns
         /\ j.then \in {"finish", "totp", "passkey", Nil}
         /\ j.pc \in Limitable => j.key \in Key /\ j.then \in {"finish", Nil}
         /\ j.pc \in {"exchange", "enrol"} => j.of \in Token
  BY DEF Job, Limitable

LEMMA JobWritten ==
  ASSUME SignInType, NEW r \in Request, NEW j \in Job, To(r, j)
  PROVE  /\ job' \in [Request -> Job] /\ job'[r] = j
         /\ \A q \in Request : q # r => job'[q] = job[q]
  BY DEF SignInType, To

LEMMA JobStays ==
  ASSUME SignInType, NEW r \in Request, UNCHANGED job
  PROVE  job[r] \in Job /\ To(r, job[r])
  BY DEF SignInType, To

LEMMA PrimaryTyped ==
  ASSUME SignInType, NEW how \in {"password", "sudo", "link", "oidc", "passkey"},
         NEW used \in SUBSET Token
  PROVE  Primary(how, used) \in SignIns /\ Primary(how, used).used = used
  BY DEF SignInType, Primary, SignIns, Policy

LEMMA RowFields ==
  ASSUME SignInType, NEW t, t \in DOMAIN pending
  PROVE  /\ t \in Token /\ t \in DOMAIN uses
         /\ pending[t] = [kind |-> pending[t].kind, born |-> pending[t].born, of |-> pending[t].of]
         /\ pending[t].kind = "step" => pending[t].of \in SignIns
         /\ pending[t].kind = "setup" => pending[t].of \in Token
         /\ pending[t].kind \in {"passkey", "register"} => pending[t].of \in Token \cup {Nil}
  BY DEF SignInType, Awaited, Subject

LEMMA CompletedTyped ==
  ASSUME SignInType, NEW t, NEW factor, Joins(t, factor)
  PROVE  /\ t \in DOMAIN pending /\ pending[t].kind = "step"
         /\ Completed(t) \in SignIns /\ Completed(t).used = pending[t].of.used \cup {t}
  <1>1. t \in DOMAIN pending /\ pending[t].kind = "step"
    BY DEF Joins, Live, Has
  <1>2. pending[t].of \in SignIns /\ t \in Token
    BY <1>1, RowFields
  <1>3. QED
    BY <1>1, <1>2 DEF Completed, SignIns

LEMMA Signed ==
  ASSUME NEW s \in SignIns
  PROVE  [NoJob EXCEPT !.pc = "finish", !.s = s] \in Job
  BY DEF NoJob, Job

LEMMA Cleared ==
  ASSUME NEW s \in SignIns, NEW then \in {"finish", Nil}
  PROVE  /\ [NoJob EXCEPT !.pc = "clear", !.key = "passkey", !.then = then, !.s = s] \in Job
         /\ [NoJob EXCEPT !.pc = "clear", !.key = "passkey", !.s = s, !.then = then] \in Job
  BY DEF NoJob, Job, Limitable, Key

LEMMA Proving ==
  ASSUME NEW q \in Token, NEW used \in SUBSET Token
  PROVE  /\ [NoJob EXCEPT !.pc = "enrol", !.of = q, !.s.used = used] \in Job
         /\ \A t \in Token \cup {Nil} :
              [NoJob EXCEPT !.pc = "assert", !.key = "passkey", !.of = t, !.s.used = used] \in Job
  <1>1. [NoSignIn EXCEPT !.used = used] \in SignIns
    BY DEF NoSignIn, SignIns, Policy
  <1>2. \A j : j.s = NoSignIn => [j EXCEPT !.s.used = used] = [j EXCEPT !.s = [NoSignIn EXCEPT !.used = used]]
    OBVIOUS
  <1>3. QED
    BY <1>1 DEF NoJob, Job, Limitable, Key

\* The steps of a request end in its next step.
LEMMA JobSteps ==
  ASSUME SignInType, NEW r \in Request, Step(r)
  PROVE  \E j \in Job : To(r, j)
  <1>1. job[r] \in Job /\ NoJob \in Job
    BY NoJobTyped DEF SignInType
  <1>2. cfg.policy \in Policy /\ cfg.totp \in BOOLEAN
    BY DEF SignInType
  <1>3. CASE PasswordStarts(r)
    BY <1>1, <1>3, PrimaryTyped DEF PasswordStarts, NoJob, Job, Limitable, Key
  <1>4. CASE SudoStarts(r)
    BY <1>1, <1>4, PrimaryTyped DEF SudoStarts, NoJob, Job, Limitable, Key
  <1>5. CASE VerifyRight(r)
    <2> DEFINE factor == IF cfg.totp THEN "totp" ELSE Nil
               s == [job[r].s EXCEPT !.factor = factor]
               j == [job[r] EXCEPT !.pc = "clear", !.then = "finish", !.s.factor = factor]
    <2>1. Done(r) \/ To(r, j)
      BY <1>5 DEF VerifyRight
    <2>2. factor \in Policy
      BY DEF Policy
    <2>3. s \in SignIns
      BY <1>1, <2>2, JobFields DEF SignIns
    <2>4. j = [job[r] EXCEPT !.pc = "clear", !.then = "finish", !.s = s]
      OBVIOUS
    <2>5. j \in Job
      <3> HIDE DEF factor, s
      <3>1. job[r].key \in Key
        BY <1>1, <1>5, JobFields DEF VerifyRight, Limitable
      <3>2. QED
        BY <1>1, <2>3, <2>4, <3>1, JobFields DEF Job, Limitable
    <2> HIDE DEF j
    <2>6. QED
      BY <1>1, <2>1, <2>5 DEF Done
  <1>6. CASE VerifyWrong(r)
    BY <1>1, <1>6, JobFields DEF VerifyWrong, Tried, AfterWrong, Goes, Job, Limitable
  <1>7. CASE Record(r)
    BY <1>1, <1>7, JobFields DEF Record, Goes, Job, Limitable
  <1>8. CASE RecordFails(r) \/ RecordAddress(r) \/ StepUp(r) \/ Issue(r) \/ StoreFails(r)
    BY <1>1, <1>8 DEF RecordFails, RecordAddress, StepUp, Issue, StoreFails, Done
  <1>9. CASE Clear(r)
    BY <1>1, <1>9, JobFields DEF Clear, Done, Goes, Job, Limitable
  <1>10. CASE Join(r)
    BY <1>1, <1>10, CompletedTyped DEF Join, Done, NoJob, Job
  <1>11. CASE Exchange(r)
    <2>1. Done(r) \/ To(r, [NoJob EXCEPT !.pc = "finish", !.s = Primary("oidc", {job[r].of})])
      BY <1>11 DEF Exchange
    <2>2. Primary("oidc", {job[r].of}) \in SignIns
      BY <1>1, <1>11, PrimaryTyped, JobFields DEF Exchange
    <2>3. QED
      BY <1>1, <2>1, <2>2, Signed DEF Done
  <1>12. CASE Enrol(r)
    BY <1>1, <1>12, JobFields DEF Enrol, Done, NoJob, Job, SignIns
  <1>13. CASE PersistRefused(r)
    BY <1>1, <1>13, JobFields DEF PersistRefused, Goes, Job, Limitable
  <1>14. CASE PersistStep(r)
    <2> DEFINE s == [Completed(job[r].of) EXCEPT !.used = @ \cup job[r].s.used]
    <2>1. \/ Done(r)
          \/ To(r, [NoJob EXCEPT !.pc = "clear", !.key = "passkey", !.then = "finish", !.s = s])
      BY <1>14 DEF PersistStep
    <2>2. s \in SignIns
      BY <1>1, <1>14, CompletedTyped, JobFields DEF PersistStep, SignIns
    <2> HIDE DEF s
    <2>3. QED
      BY <1>1, <2>1, <2>2, Cleared DEF Done
  <1>15. CASE PersistPrimary(r)
    <2> DEFINE s == Primary("passkey", job[r].s.used)
               then == IF MustStepUp(s) THEN Nil ELSE "finish"
    <2>1. \/ Done(r)
          \/ To(r, [NoJob EXCEPT !.pc = "clear", !.key = "passkey", !.s = s, !.then = then])
      BY <1>15 DEF PersistPrimary
    <2>2. s \in SignIns /\ then \in {"finish", Nil}
      BY <1>1, PrimaryTyped, JobFields DEF SignIns
    <2> HIDE DEF s, then
    <2>3. QED
      BY <1>1, <2>1, <2>2, Cleared DEF Done
  <1>16. CASE Attest(r)
    BY <1>1, <1>16, JobFields DEF Attest, Done, Goes, Job, Limitable
  <1>17. CASE PasskeyUnknown(r)
    BY <1>1, <1>17 DEF PasskeyUnknown, NoJob, Job, Limitable, Key
  <1>18. CASE \E t \in Token \cup {Nil} : PasskeyStarts(r, t)
    <2>1. UNCHANGED job \/ To(r, [NoJob EXCEPT !.pc = "record", !.key = "passkey"])
      BY <1>18 DEF PasskeyStarts
    <2>2. QED
      BY <1>1, <2>1, JobStays DEF NoJob, Job, Limitable, Key
  <1>19. CASE \E t \in Token : UseLink(r, t)
    <2>1. PICK t \in Token : UseLink(r, t)
      BY <1>19
    <2>2. \/ Done(r)
          \/ To(r, [NoJob EXCEPT !.pc = "finish", !.s = Primary("link", {t})])
      BY <2>1 DEF UseLink, Done
    <2>3. Primary("link", {t}) \in SignIns
      BY PrimaryTyped
    <2>4. QED
      BY <1>1, <2>2, <2>3, Signed DEF Done
  <1>20. CASE \E t \in Token : OidcReturns(r, t)
    BY <1>1, <1>20 DEF OidcReturns, NoJob, Job
  <1>21. CASE \E t \in Token : TotpStarts(r, t)
    BY <1>1, <1>21 DEF TotpStarts, NoJob, Job
  <1>22. CASE \E t \in Token : SetupConfirms(r, t)
    <2>1. PICK q \in Token : SetupConfirms(r, q)
      BY <1>22
    <2>2. pending[q].of \in Token
      BY <2>1, RowFields DEF SetupConfirms, Live, Has
    <2>3. QED
      BY <2>1, <2>2, Proving DEF SetupConfirms
  <1>23. CASE \E t \in Token : PasskeyReturns(r, t)
    <2>1. PICK q \in Token : PasskeyReturns(r, q)
      BY <1>23
    <2>2. UNCHANGED job \/ To(r, [NoJob EXCEPT !.pc = "assert", !.key = "passkey",
                                              !.of = pending[q].of, !.s.used = {q}])
      BY <2>1 DEF PasskeyReturns
    <2>3. pending[q].of \in Token \cup {Nil}
      BY <2>1, RowFields DEF PasskeyReturns, Has
    <2>4. QED
      BY <1>1, <2>2, <2>3, JobStays, Proving
  <1>24. CASE \E t \in Token : RegisterReturns(r, t)
    BY <1>1, <1>24, RowFields DEF RegisterReturns, Has, NoJob, Job
  <1>25. QED
    BY <1>3, <1>4, <1>5, <1>6, <1>7, <1>8, <1>9, <1>10, <1>11, <1>12, <1>13, <1>14, <1>15,
       <1>16, <1>17, <1>18, <1>19, <1>20, <1>21, <1>22, <1>23, <1>24 DEF Step

(* A token is drawn for something new, of which those of its kind that have *)
(* expired are removed.                                                    *)
LEMMA DrawnRow ==
  ASSUME SignInType, NEW t \in Token, NEW kind \in DOMAIN Subject, kind # "used",
         NEW of \in Subject[kind], Draw(t, kind, of)
  PROVE  /\ Rows' /\ t \notin DOMAIN uses /\ DOMAIN uses' = DOMAIN uses \cup {t}
         /\ uses'[t] = 0 /\ \A u \in DOMAIN uses : uses'[u] = uses[u]
         /\ StandsFor(t)' = TokensAt(t, [kind |-> kind, born |-> now, of |-> of])
         /\ \A u \in Token : u # t => StandsFor(u)' \subseteq StandsFor(u)
  <1> DEFINE p == [kind |-> kind, born |-> now, of |-> of]
             stay == Kept(kind)
  <1>1. /\ DOMAIN pending \subseteq DOMAIN uses /\ DOMAIN uses \subseteq Token /\ now \in Nat
        /\ uses \in [DOMAIN uses -> Nat] /\ \A u \in DOMAIN pending : Awaited(pending[u])
    BY DEF SignInType
  <1>2. stay \subseteq DOMAIN pending
    BY DEF Kept
  <1>3. Awaited(p)
    BY <1>1 DEF Awaited
  <1> HIDE DEF p, stay
  <1>4. /\ t \notin DOMAIN uses
        /\ uses' = [u \in DOMAIN uses \cup {t} |-> IF u = t THEN 0 ELSE uses[u]]
        /\ pending' = [u \in stay \cup {t} |-> IF u = t THEN p ELSE pending[u]]
    BY DEF Draw, Drawn, p, stay
  <1>5. /\ DOMAIN pending' = stay \cup {t} /\ pending'[t] = p
        /\ \A u \in stay : pending'[u] = pending[u]
    BY <1>1, <1>2, <1>4
  <1>6. /\ DOMAIN uses' = DOMAIN uses \cup {t} /\ uses'[t] = 0
        /\ \A u \in DOMAIN uses : uses'[u] = uses[u]
    BY <1>4
  <1>7. uses' \in [DOMAIN uses' -> Nat]
    BY <1>1, <1>4, <1>6
  <1>8. pending' = [u \in DOMAIN pending' |-> pending'[u]]
    BY <1>4
  <1>9. \A u \in DOMAIN pending' : Awaited(pending'[u])
    BY <1>1, <1>2, <1>3, <1>5
  <1>10. Rows'
    BY <1>1, <1>2, <1>5, <1>6, <1>7, <1>8, <1>9 DEF Rows, Awaited, Subject, SignIns, Policy
  <1>11. StandsFor(t)' = TokensAt(t, p)
    BY <1>5 DEF StandsFor, TokensAt
  <1>12. ASSUME NEW u \in Token, u # t
         PROVE  StandsFor(u)' \subseteq StandsFor(u)
    BY <1>2, <1>5, <1>12 DEF StandsFor, TokensAt
  <1>13. QED
    BY <1>4, <1>6, <1>10, <1>11, <1>12 DEF p

LEMMA TakenRow ==
  ASSUME SignInType, NEW t, pending' = Without(t), UNCHANGED uses
  PROVE  /\ Rows' /\ StandsFor(t)' = {}
         /\ \A u \in Token : u # t => StandsFor(u)' = StandsFor(u)
  <1>1. /\ DOMAIN pending' = DOMAIN pending \ {t}
        /\ \A u \in DOMAIN pending \ {t} : pending'[u] = pending[u]
        /\ pending' = [u \in DOMAIN pending' |-> pending'[u]]
    BY DEF Without, Restrict
  <1>2. Rows'
    BY <1>1 DEF SignInType, Rows, Awaited, Subject, SignIns, Policy
  <1>3. QED
    BY <1>1, <1>2 DEF StandsFor, TokensAt

LEMMA LeftRows ==
  ASSUME SignInType, NEW S, pending' = Restrict(pending, S), S \subseteq DOMAIN pending, UNCHANGED uses
  PROVE  /\ Rows' /\ \A u \in Token : StandsFor(u)' \subseteq StandsFor(u)
  <1>1. /\ DOMAIN pending' = S /\ \A u \in S : pending'[u] = pending[u]
        /\ pending' = [u \in DOMAIN pending' |-> pending'[u]]
    BY DEF Restrict
  <1>2. Rows'
    BY <1>1 DEF SignInType, Rows, Awaited, Subject, SignIns, Policy
  <1>3. QED
    BY <1>1, <1>2 DEF StandsFor, TokensAt

LEMMA UsedRow ==
  ASSUME SignInType, NEW t \in Token, Has(t, "link"), pending' = [pending EXCEPT ![t].kind = "used"],
         UNCHANGED uses
  PROVE  /\ Rows' /\ StandsFor(t)' = {} /\ StandsFor(t) = {t}
         /\ \A u \in Token : u # t => StandsFor(u)' = StandsFor(u)
  <1>1. t \in DOMAIN pending /\ pending[t].kind = "link" /\ Awaited(pending[t])
    BY DEF Has, SignInType
  <1>2. pending[t] \in [kind : {"link"}, born : Nat, of : Name]
    BY <1>1 DEF Awaited, Subject
  <1>3. pending' = [pending EXCEPT ![t] = [pending[t] EXCEPT !.kind = "used"]]
    OBVIOUS
  <1>4. [pending[t] EXCEPT !.kind = "used"] = [kind |-> "used", born |-> pending[t].born, of |-> pending[t].of]
    BY <1>2
  <1>5. /\ DOMAIN pending' = DOMAIN pending /\ pending' = [u \in DOMAIN pending' |-> pending'[u]]
        /\ pending'[t] = [kind |-> "used", born |-> pending[t].born, of |-> pending[t].of]
        /\ \A u \in DOMAIN pending : u # t => pending'[u] = pending[u]
    BY <1>1, <1>3, <1>4 DEF SignInType
  <1>6. Awaited(pending'[t])
    BY <1>2, <1>5 DEF Awaited, Subject
  <1>7. \A u \in DOMAIN pending' : Awaited(pending'[u])
    BY <1>5, <1>6 DEF SignInType
  <1>8. Rows'
    BY <1>5, <1>7 DEF SignInType, Rows, Awaited, Subject, SignIns, Policy
  <1>9. StandsFor(t)' = {} /\ StandsFor(t) = {t}
    BY <1>1, <1>5 DEF StandsFor, TokensAt
  <1>10. QED
    BY <1>5, <1>8, <1>9 DEF StandsFor, TokensAt

\* A step moves tokens between the request r, what is pending as u and nowhere.
Moves(r, u, fresh, moved) ==
  /\ fresh \cap DOMAIN uses = {} /\ DOMAIN uses' = DOMAIN uses \cup fresh
  /\ \A t \in fresh : uses'[t] = 0
  /\ \A t \in DOMAIN uses : uses'[t] = uses[t]
  /\ \A q \in Request : q # r => Carried(q)' \subseteq Carried(q)
  /\ \A v \in Token : v # u => StandsFor(v)' \subseteq StandsFor(v)
  /\ \A t \in moved : \/ t \in fresh
                      \/ r \in Request /\ t \in Carried(r)
                      \/ u \in Token /\ t \in StandsFor(u)
  /\ r \in Request => Carried(r)' \subseteq moved
  /\ u \in Token => StandsFor(u)' \subseteq moved
  /\ r \in Request /\ u \in Token => Carried(r)' \cap StandsFor(u)' = {}

(* Tokens that move are still in one place.                                *)
LEMMA Handed ==
  ASSUME TokensKept, NEW r, NEW u, NEW fresh, NEW moved, Moves(r, u, fresh, moved)
  PROVE  TokensKept'
  <1>1. /\ \A q \in Request : q # r => Carried(q) \cap moved = {}
        /\ \A v \in Token : v # u => StandsFor(v) \cap moved = {}
    BY DEF TokensKept, OnePlace, Unused, Moves
  <1>2. \A t \in moved : t \in DOMAIN uses' /\ uses'[t] = 0
    BY DEF TokensKept, Unused, Moves
  <1>3. \A q \in Request : Unused(Carried(q))'
    BY <1>2 DEF TokensKept, Unused, Moves
  <1>4. \A v \in Token : Unused(StandsFor(v))'
    BY <1>2 DEF TokensKept, Unused, Moves
  <1>5. OneShot'
    BY DEF TokensKept, OneShot, Moves
  <1>6. \A p, q \in Request : p # q => (Carried(p) \cap Carried(q) = {})'
    BY <1>1 DEF TokensKept, OnePlace, Moves
  <1>7. \A q \in Request, v \in Token : (Carried(q) \cap StandsFor(v) = {})'
    BY <1>1 DEF TokensKept, OnePlace, Moves
  <1>8. \A v, w \in Token : v # w => (StandsFor(v) \cap StandsFor(w) = {})'
    BY <1>1 DEF TokensKept, OnePlace, Moves
  <1>9. QED
    BY <1>3, <1>4, <1>5, <1>6, <1>7, <1>8 DEF TokensKept, OnePlace

LEMMA CarriedOn ==
  ASSUME SignInType, NEW r \in Request, NEW j \in Job, To(r, j)
  PROVE  Carried(r)' = TokensOf(j) /\ \A q \in Request : q # r => Carried(q)' = Carried(q)
  BY JobWritten DEF Carried, TokensOf

LEMMA RowsStay ==
  ASSUME SignInType, UNCHANGED <<pending, uses>>
  PROVE  Rows' /\ \A u \in Token : StandsFor(u)' = StandsFor(u)
  BY DEF SignInType, Rows, Awaited, Subject, SignIns, Policy, StandsFor, TokensAt

\* A request goes on with no more tokens than it had.
LEMMA GoesOn ==
  ASSUME SignInType, TokensKept, NEW r \in Request, NEW j \in Job, To(r, j),
         TokensOf(j) \subseteq TokensOf(job[r]), UNCHANGED <<pending, uses>>
  PROVE  Rows' /\ TokensKept'
  <1>1. Carried(r)' \subseteq Carried(r) /\ \A q \in Request : q # r => Carried(q)' = Carried(q)
    BY CarriedOn DEF Carried
  <1>2. Rows' /\ \A u \in Token : StandsFor(u)' = StandsFor(u)
    BY RowsStay
  <1>3. PICK u : u \notin Token
    BY NilAssumption
  <1>4. Moves(r, u, {}, Carried(r)')
    BY <1>1, <1>2, <1>3 DEF Moves
  <1>5. QED
    BY <1>2, <1>4, Handed

LEMMA Stops ==
  ASSUME SignInType, TokensKept, NEW r \in Request, Done(r), UNCHANGED <<pending, uses>>
  PROVE  Rows' /\ TokensKept'
  BY NoJobTyped, GoesOn DEF Done

\* Something new is pending, perhaps with the tokens of a request.
LEMMA DrawsOn ==
  ASSUME SignInType, TokensKept, NEW r, r \in Request => Carried(r)' \subseteq Carried(r),
         \A q \in Request : q # r => Carried(q)' = Carried(q),
         NEW t \in Token, NEW kind \in DOMAIN Subject, kind # "used",
         NEW of \in Subject[kind], Draw(t, kind, of),
         kind = "step" => r \in Request /\ of.used \subseteq Carried(r) /\ Carried(r)' = {}
  PROVE  Rows' /\ TokensKept'
  <1> DEFINE moved == TokensAt(t, [kind |-> kind, born |-> now, of |-> of])
  <1>1. /\ Rows' /\ t \notin DOMAIN uses /\ DOMAIN uses' = DOMAIN uses \cup {t}
        /\ uses'[t] = 0 /\ \A u \in DOMAIN uses : uses'[u] = uses[u]
        /\ StandsFor(t)' = moved
        /\ \A u \in Token : u # t => StandsFor(u)' \subseteq StandsFor(u)
    BY DrawnRow
  <1>2. moved \subseteq {t} \cup (IF r \in Request THEN Carried(r) ELSE {})
    BY DEF TokensAt
  <1>3. r \in Request => moved \cap Carried(r)' = {}
    <2>1. r \in Request => Carried(r) \subseteq DOMAIN uses
      BY DEF TokensKept, Unused
    <2>2. kind # "step" => moved = {t}
      BY DEF TokensAt
    <2>3. QED
      BY <1>1, <2>1, <2>2
  <1> HIDE DEF moved
  <1>4. r \in Request => Carried(r)' \subseteq Carried(r)
    OBVIOUS
  <1>5. Moves(r, t, {t}, moved \cup (IF r \in Request THEN Carried(r)' ELSE {}))
    BY <1>1, <1>2, <1>3, <1>4 DEF Moves
  <1>6. QED
    BY <1>1, <1>5, Handed

\* A request takes what is pending, and its tokens, or none of them.
LEMMA TakesOn ==
  ASSUME SignInType, TokensKept, NEW r \in Request, NEW j \in Job, To(r, j),
         NEW t \in Token, UNCHANGED uses, Rows', StandsFor(t)' = {},
         \A u \in Token : u # t => StandsFor(u)' = StandsFor(u),
         TokensOf(j) \subseteq TokensOf(job[r]) \cup StandsFor(t)
  PROVE  TokensKept'
  <1>1. Carried(r)' = TokensOf(j) /\ \A q \in Request : q # r => Carried(q)' = Carried(q)
    BY CarriedOn
  <1>2. Carried(r) = TokensOf(job[r])
    BY DEF Carried
  <1>3. Moves(r, t, {}, TokensOf(j))
    BY <1>1, <1>2 DEF Moves
  <1>4. QED
    BY <1>3, Handed

\* The steps of a request, of the administrator and of what is pending leave
\* each token in one place.
LEMMA StepTokens ==
  ASSUME SignInType, TokensKept, NEW r \in Request, Step(r)
  PROVE  Rows' /\ TokensKept' /\ sessions' \subseteq SignIns
  <1>1. job[r] \in Job /\ NoJob \in Job /\ sessions \subseteq SignIns
    BY NoJobTyped DEF SignInType
  <1>2. PICK j \in Job : To(r, j)
    BY JobSteps
  <1>3. \A x : To(r, x) => x = j
    BY <1>2, JobWritten DEF To, SignInType
  <1>4. CASE UNCHANGED <<pending, uses, sessions>> /\ TokensOf(j) \subseteq TokensOf(job[r])
    BY <1>1, <1>2, <1>4, GoesOn
  <1>5. CASE UNCHANGED <<pending, uses, sessions>> /\ Done(r)
    BY <1>1, <1>5, Stops
  <1>6. CASE \/ PasswordStarts(r) \/ SudoStarts(r) \/ VerifyRight(r) \/ VerifyWrong(r) \/ Record(r)
             \/ RecordFails(r) \/ RecordAddress(r) \/ Clear(r) \/ StoreFails(r)
             \/ Exchange(r) \/ PersistRefused(r) \/ Attest(r) \/ PasskeyUnknown(r)
    <2>1. UNCHANGED <<pending, uses, sessions>>
      BY <1>6 DEF PasswordStarts, SudoStarts, VerifyRight, VerifyWrong, Record, RecordFails,
            RecordAddress, Clear, StoreFails, Exchange, PersistRefused, Attest, PasskeyUnknown, outcome
    <2>2. CASE PasswordStarts(r) \/ SudoStarts(r)
      <3>1. PICK key, how : To(r, [NoJob EXCEPT !.pc = "verify", !.key = key, !.s = Primary(how, {})])
        BY <2>2 DEF PasswordStarts, SudoStarts
      <3>2. j = [NoJob EXCEPT !.pc = "verify", !.key = key, !.s = Primary(how, {})]
        BY <1>3, <3>1
      <3>3. j.pc = "verify" /\ j.s.used = {}
        BY <3>2 DEF NoJob, Primary
      <3>4. QED
        BY <1>4, <2>1, <3>3 DEF TokensOf
    <2>3. CASE VerifyRight(r)
      <3>1. PICK factor : \/ Done(r)
                          \/ To(r, [job[r] EXCEPT !.pc = "clear", !.then = "finish", !.s.factor = factor])
        BY <2>3 DEF VerifyRight
      <3>2. CASE j = [job[r] EXCEPT !.pc = "clear", !.then = "finish", !.s.factor = factor]
        <4>1. j.s.used = job[r].s.used /\ j.pc = "clear" /\ j.then = "finish"
          BY <1>1, <3>2, JobFields DEF SignIns
        <4>2. job[r].pc = "verify"
          BY <2>3 DEF VerifyRight
        <4>3. TokensOf(j) = TokensOf(job[r])
          BY <4>1, <4>2 DEF TokensOf
        <4>4. QED
          BY <1>4, <2>1, <4>3
      <3>3. QED
        BY <1>3, <1>5, <2>1, <3>1, <3>2
    <2>4. CASE VerifyWrong(r) \/ Record(r) \/ PersistRefused(r) \/ Attest(r)
      <3>1. PICK pc \in {"record", "burst", "join"} : Done(r) \/ To(r, [job[r] EXCEPT !.pc = pc])
        BY <2>4 DEF VerifyWrong, Tried, AfterWrong, Goes, Record, PersistRefused, Attest
      <3>2. CASE j = [job[r] EXCEPT !.pc = pc]
        <4>1. j.pc = pc
          BY <1>1, <3>2, JobFields
        <4>2. QED
          BY <1>4, <2>1, <4>1 DEF TokensOf
      <3>3. QED
        BY <1>3, <1>5, <2>1, <3>1, <3>2
    <2>5. CASE PasskeyUnknown(r)
      <3>1. j = [NoJob EXCEPT !.pc = "record", !.key = "unknown"]
        BY <1>3, <2>5 DEF PasskeyUnknown
      <3>2. j.pc = "record"
        BY <3>1 DEF NoJob
      <3>3. QED
        BY <1>4, <2>1, <3>2 DEF TokensOf
    <2>6. CASE Clear(r)
      <3>1. Done(r) \/ (To(r, [job[r] EXCEPT !.pc = "finish"]) /\ job[r].pc = "clear" /\ job[r].then = "finish")
        BY <2>6 DEF Clear, Goes
      <3>2. CASE j = [job[r] EXCEPT !.pc = "finish"] /\ job[r].pc = "clear" /\ job[r].then = "finish"
        <4>1. j.pc = "finish" /\ j.s = job[r].s
          BY <1>1, <3>2, JobFields
        <4>2. QED
          BY <1>4, <2>1, <3>2, <4>1 DEF TokensOf
      <3>3. QED
        BY <1>3, <1>5, <2>1, <3>1, <3>2
    <2>7. CASE Exchange(r)
      <3>1. Done(r) \/ To(r, [NoJob EXCEPT !.pc = "finish", !.s = Primary("oidc", {job[r].of})])
        BY <2>7 DEF Exchange
      <3>2. TokensOf(job[r]) = {job[r].of}
        BY <2>7 DEF Exchange, TokensOf
      <3>3. CASE j = [NoJob EXCEPT !.pc = "finish", !.s = Primary("oidc", {job[r].of})]
        <4>1. j.pc = "finish" /\ j.s.used = {job[r].of}
          BY <3>3 DEF NoJob, Primary
        <4>2. QED
          BY <1>4, <2>1, <3>2, <4>1 DEF TokensOf
      <3>4. QED
        BY <1>3, <1>5, <2>1, <3>1, <3>3
    <2>8. CASE RecordFails(r) \/ RecordAddress(r) \/ StoreFails(r)
      BY <1>5, <2>1, <2>8 DEF RecordFails, RecordAddress, StoreFails
    <2>9. QED
      BY <1>6, <2>2, <2>3, <2>4, <2>5, <2>6, <2>7, <2>8
  <1>7. CASE StepUp(r)
    <2>1. PICK t \in Token : Draw(t, "step", job[r].s)
      BY <1>7 DEF StepUp
    <2>2. job[r].s \in SignIns /\ job[r].pc = "finish" /\ Done(r) /\ UNCHANGED sessions
      BY <1>1, <1>7, JobFields DEF StepUp
    <2>3. Carried(r) = job[r].s.used
      BY <2>2 DEF Carried, TokensOf
    <2>4. Carried(r)' = {} /\ \A q \in Request : q # r => Carried(q)' = Carried(q)
      BY <2>2, NoJobTyped, CarriedOn DEF Done
    <2>5. Rows' /\ TokensKept'
      BY <2>1, <2>2, <2>3, <2>4, DrawsOn DEF Subject
    <2>6. QED
      BY <1>1, <2>2, <2>5
  <1>8. CASE Issue(r)
    <2> DEFINE s == job[r].s
    <2>1. Done(r) /\ job[r].pc = "finish" /\ UNCHANGED pending /\ s \in SignIns
      BY <1>1, <1>8, JobFields DEF Issue, Earned
    <2>2. CASE UNCHANGED outcome
      BY <1>5, <2>1, <2>2 DEF outcome
    <2>3. CASE /\ sessions' = sessions \cup {s}
               /\ uses' = [t \in DOMAIN uses |-> uses[t] + IF t \in s.used THEN 1 ELSE 0]
      <3>1. Carried(r) = s.used
        BY <2>1 DEF Carried, TokensOf
      <3>2. Carried(r)' = {} /\ \A q \in Request : q # r => Carried(q)' = Carried(q)
        BY <2>1, NoJobTyped, CarriedOn DEF Done
      <3>3. \A u \in Token : StandsFor(u)' = StandsFor(u)
        BY <2>1 DEF StandsFor, TokensAt
      <3>4. \A t \in s.used : t \in DOMAIN uses /\ uses[t] = 0
        BY <3>1 DEF TokensKept, Unused
      <3>5. /\ \A q \in Request : q # r => Carried(q) \cap s.used = {}
            /\ \A u \in Token : StandsFor(u) \cap s.used = {}
        BY <3>1 DEF TokensKept, OnePlace
      <3>6. /\ DOMAIN uses' = DOMAIN uses /\ uses \in [DOMAIN uses -> Nat]
            /\ \A t \in DOMAIN uses : uses'[t] = IF t \in s.used THEN 1 ELSE uses[t]
        BY <2>3, <3>4 DEF SignInType
      <3>7. Rows'
        <4>1. uses' \in [DOMAIN uses' -> Nat]
          BY <2>3, <3>6
        <4>2. DOMAIN pending \subseteq DOMAIN uses /\ DOMAIN uses \subseteq Token
          BY DEF SignInType
        <4>3. /\ DOMAIN pending' \subseteq DOMAIN uses' /\ DOMAIN uses' \subseteq Token
              /\ pending' = [t \in DOMAIN pending' |-> pending'[t]]
          BY <2>1, <3>6, <4>2 DEF SignInType
        <4>4. \A t \in DOMAIN pending' : Awaited(pending'[t])
          BY <2>1 DEF SignInType
        <4>5. QED
          BY <4>1, <4>3, <4>4 DEF Rows, Awaited, Subject, SignIns, Policy
      <3>8. OneShot'
        BY <3>6 DEF TokensKept, OneShot
      <3>9. \A q \in Request : Unused(Carried(q))'
        BY <3>2, <3>5, <3>6 DEF TokensKept, Unused
      <3>10. \A u \in Token : Unused(StandsFor(u))'
        BY <3>3, <3>5, <3>6 DEF TokensKept, Unused
      <3>11. OnePlace'
        BY <3>2, <3>3 DEF TokensKept, OnePlace
      <3>12. QED
        BY <1>1, <2>1, <2>3, <3>7, <3>8, <3>9, <3>10, <3>11 DEF TokensKept
    <2>4. QED
      BY <1>8, <2>2, <2>3 DEF Issue
  <1>9. CASE Join(r)
    <2>0. PICK t : t = job[r].of
      OBVIOUS
    <2>1. CASE Joins(t, job[r].then)
      <3>1. pending' = Without(t) /\ To(r, [NoJob EXCEPT !.pc = "finish", !.s = Completed(t)])
        BY <1>9, <2>0, <2>1 DEF Join, AfterStep
      <3>2. UNCHANGED <<uses, sessions>>
        BY <1>9 DEF Join, outcome
      <3>3. /\ t \in DOMAIN pending /\ pending[t].kind = "step"
            /\ Completed(t).used = pending[t].of.used \cup {t}
        BY <2>1, CompletedTyped
      <3>4. t \in Token /\ StandsFor(t) = Completed(t).used
        BY <3>3, RowFields DEF StandsFor, TokensAt
      <3>5. j.pc = "finish" /\ j.s = Completed(t)
        BY <1>3, <3>1 DEF NoJob
      <3>6. TokensOf(j) \subseteq StandsFor(t)
        BY <3>4, <3>5 DEF TokensOf
      <3>7. /\ Rows' /\ StandsFor(t)' = {}
            /\ \A u \in Token : u # t => StandsFor(u)' = StandsFor(u)
        BY <3>1, <3>2, TakenRow
      <3>8. TokensKept'
        BY <1>2, <3>2, <3>4, <3>6, <3>7, TakesOn
      <3>9. QED
        BY <1>1, <3>2, <3>7, <3>8
    <2>2. CASE ~Joins(t, job[r].then)
      BY <1>5, <1>9, <2>0, <2>2 DEF Join, outcome
    <2>3. QED
      BY <2>1, <2>2
  <1>10. CASE Enrol(r)
    <2>0. PICK t : t = job[r].of
      OBVIOUS
    <2>1. CASE UNCHANGED pending
      <3>1. UNCHANGED <<uses, sessions>> /\ (Done(r) \/ pending' = Without(t))
        BY <1>10, <2>0 DEF Enrol, outcome
      <3>2. Done(r) \/ \E x \in job[r].s.used : To(r, [NoJob EXCEPT !.pc = "join", !.of = x, !.then = "totp"])
        BY <1>10 DEF Enrol
      <3>3. Done(r) \/ j.pc = "join"
        BY <1>3, <3>2 DEF NoJob
      <3>4. QED
        BY <1>4, <1>5, <2>1, <3>1, <3>3 DEF TokensOf
    <2>2. CASE pending' = Without(t)
      <3>1. UNCHANGED <<uses, sessions>>
        BY <1>10, <2>0 DEF Enrol, outcome
      <3>2. Done(r) \/ \E x \in job[r].s.used : To(r, [NoJob EXCEPT !.pc = "join", !.of = x, !.then = "totp"])
        BY <1>10 DEF Enrol
      <3>3. j = NoJob \/ j.pc = "join"
        BY <1>3, <3>2 DEF NoJob, Done
      <3>4. TokensOf(j) = {}
        BY <3>3, NoJobTyped DEF TokensOf
      <3>5. t \in Token
        BY <1>1, <1>10, <2>0, JobFields DEF Enrol
      <3>6. /\ Rows' /\ StandsFor(t)' = {}
            /\ \A u \in Token : u # t => StandsFor(u)' = StandsFor(u)
        BY <2>2, <3>1, TakenRow
      <3>7. TokensKept'
        BY <1>2, <3>1, <3>4, <3>5, <3>6, TakesOn
      <3>8. QED
        BY <1>1, <3>1, <3>6, <3>7
    <2>3. QED
      BY <1>10, <2>0, <2>1, <2>2 DEF Enrol
  <1>11. CASE PersistStep(r)
    <2>0. PICK t : t = job[r].of
      OBVIOUS
    <2> DEFINE s == [Completed(t) EXCEPT !.used = @ \cup job[r].s.used]
    <2>1. /\ pending' = Without(t) /\ UNCHANGED <<uses, sessions>> /\ Joins(t, "passkey")
          /\ job[r].pc = "assert"
          /\ \/ Done(r)
             \/ To(r, [NoJob EXCEPT !.pc = "clear", !.key = "passkey", !.then = "finish", !.s = s])
      BY <1>11, <2>0 DEF PersistStep, AfterStep, outcome
    <2>2. /\ t \in DOMAIN pending /\ pending[t].kind = "step" /\ Completed(t) \in SignIns
          /\ Completed(t).used = pending[t].of.used \cup {t}
      BY <2>1, CompletedTyped
    <2>3. t \in Token /\ StandsFor(t) = Completed(t).used
      BY <2>2, RowFields DEF StandsFor, TokensAt
    <2>4. s.used = Completed(t).used \cup TokensOf(job[r])
      BY <2>1, <2>2 DEF TokensOf, SignIns
    <2>5. TokensOf(j) \subseteq TokensOf(job[r]) \cup StandsFor(t)
      <3> HIDE DEF s
      <3>1. j = NoJob \/ (j.pc = "clear" /\ j.s = s)
        BY <1>3, <2>1 DEF NoJob, Done
      <3>2. QED
        BY <2>3, <2>4, <3>1, NoJobTyped DEF TokensOf
    <2>6. /\ Rows' /\ StandsFor(t)' = {}
          /\ \A u \in Token : u # t => StandsFor(u)' = StandsFor(u)
      BY <2>1, TakenRow
    <2>7. TokensKept'
      BY <1>2, <2>1, <2>3, <2>5, <2>6, TakesOn
    <2>8. QED
      BY <1>1, <2>1, <2>6, <2>7
  <1>12. CASE PersistPrimary(r)
    <2> DEFINE s == Primary("passkey", job[r].s.used)
    <2>1. UNCHANGED sessions /\ job[r].pc = "assert" /\ job[r].s.used \in SUBSET Token
      BY <1>1, <1>12, JobFields DEF PersistPrimary, SignIns
    <2>2. s \in SignIns /\ s.used = job[r].s.used
      BY <2>1, PrimaryTyped
    <2>3. /\ Carried(r) = s.used /\ TokensOf(job[r]) = s.used
      BY <2>1, <2>2 DEF Carried, TokensOf
    <2>4. \/ j = NoJob
          \/ /\ j.pc = "clear" /\ j.s = s
             /\ j.then = IF MustStepUp(s) THEN Nil ELSE "finish"
      BY <1>3, <1>12 DEF PersistPrimary, NoJob, Done
    <2> HIDE DEF s
    <2>5. CASE MustStepUp(s)
      <3>1. PICK t \in Token : Draw(t, "step", s)
        BY <1>12, <2>5 DEF PersistPrimary, s
      <3>2. TokensOf(j) = {}
        BY <2>4, <2>5, NoJobTyped, NilAssumption DEF TokensOf
      <3>3. Carried(r)' = {} /\ \A q \in Request : q # r => Carried(q)' = Carried(q)
        BY <1>2, <3>2, CarriedOn
      <3>4. Rows' /\ TokensKept'
        BY <2>2, <2>3, <3>1, <3>3, DrawsOn DEF Subject
      <3>5. QED
        BY <1>1, <2>1, <3>4
    <2>6. CASE ~MustStepUp(s)
      <3>1. UNCHANGED <<pending, uses>>
        BY <1>12, <2>6 DEF PersistPrimary, s
      <3>2. TokensOf(j) \subseteq TokensOf(job[r])
        BY <2>3, <2>4, NoJobTyped DEF TokensOf
      <3>3. QED
        BY <1>4, <2>1, <3>1, <3>2
    <2>7. QED
      BY <2>5, <2>6
  <1>13. CASE \E t \in Token \cup {Nil} : PasskeyStarts(r, t)
    <2>1. PICK t \in Token \cup {Nil} : PasskeyStarts(r, t)
      BY <1>13
    <2>2. UNCHANGED sessions
      BY <2>1 DEF PasskeyStarts
    <2>3. CASE cfg.passkeys = {}
      <3>1. j = [NoJob EXCEPT !.pc = "record", !.key = "passkey"] /\ UNCHANGED <<pending, uses>>
        BY <1>3, <2>1, <2>3 DEF PasskeyStarts
      <3>2. j.pc = "record"
        BY <3>1 DEF NoJob
      <3>3. QED
        BY <1>4, <2>2, <3>1, <3>2 DEF TokensOf
    <2>4. CASE cfg.passkeys # {}
      <3>1. PICK q \in Token : Draw(q, "passkey", t) /\ UNCHANGED job
        BY <2>1, <2>4 DEF PasskeyStarts
      <3>2. \A q2 \in Request : Carried(q2)' = Carried(q2)
        BY <3>1 DEF Carried, TokensOf
      <3>3. Rows' /\ TokensKept'
        BY <3>1, <3>2, DrawsOn DEF Subject
      <3>4. QED
        BY <1>1, <2>2, <3>3
    <2>5. QED
      BY <2>3, <2>4
  <1>14. CASE \E t \in Token : UseLink(r, t)
    <2>1. PICK t \in Token : UseLink(r, t)
      BY <1>14
    <2>2. /\ Has(t, "link") /\ pending' = [pending EXCEPT ![t].kind = "used"]
          /\ UNCHANGED <<uses, sessions>>
      BY <2>1 DEF UseLink, Live, outcome
    <2>3. /\ Rows' /\ StandsFor(t)' = {} /\ StandsFor(t) = {t}
          /\ \A u \in Token : u # t => StandsFor(u)' = StandsFor(u)
      BY <2>2, UsedRow
    <2>4. j = NoJob \/ j = [NoJob EXCEPT !.pc = "finish", !.s = Primary("link", {t})]
      BY <1>3, <2>1 DEF UseLink
    <2>5. TokensOf(j) \subseteq {t}
      <3>1. CASE j = [NoJob EXCEPT !.pc = "finish", !.s = Primary("link", {t})]
        <4>1. j.pc = "finish" /\ j.s.used = {t}
          BY <3>1 DEF NoJob, Primary
        <4>2. QED
          BY <4>1 DEF TokensOf
      <3>2. QED
        BY <2>4, <3>1, NoJobTyped
    <2>6. TokensKept'
      BY <1>2, <2>2, <2>3, <2>5, TakesOn
    <2>7. QED
      BY <1>1, <2>2, <2>3, <2>6
  <1>15. CASE \E t \in Token : OidcReturns(r, t) \/ RegisterReturns(r, t) \/ PasskeyReturns(r, t)
    <2>1. PICK t \in Token : OidcReturns(r, t) \/ RegisterReturns(r, t) \/ PasskeyReturns(r, t)
      BY <1>15
    <2>2. /\ pending' = Without(t) /\ UNCHANGED <<uses, sessions>> /\ t \in DOMAIN pending
          /\ pending[t].kind \in {"oidc", "register", "passkey"}
      BY <2>1 DEF OidcReturns, RegisterReturns, PasskeyReturns, outcome, Has
    <2>3. /\ Rows' /\ StandsFor(t)' = {}
          /\ \A u \in Token : u # t => StandsFor(u)' = StandsFor(u)
      BY <2>2, TakenRow
    <2>4. StandsFor(t) = {t}
      BY <2>2 DEF StandsFor, TokensAt
    <2>5. TokensOf(j) \subseteq TokensOf(job[r]) \cup {t}
      <3>1. CASE OidcReturns(r, t)
        <4>1. j = [NoJob EXCEPT !.pc = "exchange", !.of = t]
          BY <1>3, <3>1 DEF OidcReturns
        <4>2. j.pc = "exchange" /\ j.of = t
          BY <4>1 DEF NoJob
        <4>3. QED
          BY <4>2 DEF TokensOf
      <3>2. CASE RegisterReturns(r, t)
        <4>1. j = [NoJob EXCEPT !.pc = "attest", !.of = pending[t].of, !.then = "passkey"]
          BY <1>3, <3>2 DEF RegisterReturns
        <4>2. j.pc = "attest"
          BY <4>1 DEF NoJob
        <4>3. QED
          BY <4>2 DEF TokensOf
      <3>3. CASE PasskeyReturns(r, t)
        <4>1. \/ UNCHANGED job
              \/ j = [NoJob EXCEPT !.pc = "assert", !.key = "passkey", !.of = pending[t].of,
                                   !.s.used = {t}]
          BY <1>3, <3>3 DEF PasskeyReturns
        <4>2. CASE UNCHANGED job
          BY <1>2, <4>2, JobWritten
        <4>3. CASE j = [NoJob EXCEPT !.pc = "assert", !.key = "passkey", !.of = pending[t].of,
                                     !.s.used = {t}]
          <5>1. j.pc = "assert" /\ j.s.used = {t}
            BY <4>3 DEF NoJob, NoSignIn
          <5>2. QED
            BY <5>1 DEF TokensOf
        <4>4. QED
          BY <4>1, <4>2, <4>3
      <3>4. QED
        BY <2>1, <3>1, <3>2, <3>3
    <2>6. TokensKept'
      BY <1>2, <2>2, <2>3, <2>4, <2>5, TakesOn
    <2>7. QED
      BY <1>1, <2>2, <2>3, <2>6
  <1>16. CASE \E t \in Token : TotpStarts(r, t) \/ SetupConfirms(r, t)
    <2>1. PICK t \in Token : TotpStarts(r, t) \/ SetupConfirms(r, t)
      BY <1>16
    <2>2. UNCHANGED <<pending, uses, sessions>>
      BY <2>1 DEF TotpStarts, SetupConfirms, outcome
    <2>3. \/ j = [NoJob EXCEPT !.pc = "join", !.of = t, !.then = "totp"]
          \/ j = [NoJob EXCEPT !.pc = "enrol", !.of = t, !.s.used = {pending[t].of}]
      BY <1>3, <2>1 DEF TotpStarts, SetupConfirms
    <2>4. j.pc \in {"join", "enrol"}
      BY <2>3 DEF NoJob
    <2>5. QED
      BY <1>4, <2>2, <2>4 DEF TokensOf
  <1>17. QED
    BY <1>6, <1>7, <1>8, <1>9, <1>10, <1>11, <1>12, <1>13, <1>14, <1>15, <1>16 DEF Step

LEMMA OtherTokens ==
  ASSUME SignInType, TokensKept,
         \/ \E n \in Name : RequestLink(n)
         \/ \E t \in Token : SetupStarts(t)
         \/ \E t \in Token \cup {Nil} : RegisterStarts(t)
         \/ OidcStarts \/ ChangeAuth \/ DeletePasskey \/ Second \/ UNCHANGED signInVars
  PROVE  Rows' /\ TokensKept' /\ UNCHANGED <<job, sessions>>
  <1>1. UNCHANGED <<job, sessions>>
    BY DEF RequestLink, SetupStarts, RegisterStarts, OidcStarts, ChangeAuth, DeletePasskey, Second,
           signInVars, outcome
  <1>2. \A q \in Request : Carried(q)' = Carried(q)
    BY <1>1 DEF Carried, TokensOf
  <1>3. ASSUME NEW t \in Token, NEW kind \in {"link", "oidc", "setup", "register"},
               NEW of \in Subject[kind], Draw(t, kind, of)
        PROVE  Rows' /\ TokensKept'
    BY <1>2, <1>3, DrawsOn DEF Subject
  <1>4. CASE UNCHANGED <<pending, uses>>
    <2>1. Rows' /\ \A u \in Token : StandsFor(u)' = StandsFor(u)
      BY <1>4, RowsStay
    <2>2. TokensKept'
      BY <1>2, <1>4, <2>1 DEF TokensKept, OnePlace, OneShot, Unused
    <2>3. QED
      BY <1>1, <2>1, <2>2
  <1>5. ASSUME NEW n \in Name, RequestLink(n)
        PROVE  Rows' /\ TokensKept'
    <2>1. CASE n = cfg.name
      <3>1. PICK t \in Token : Draw(t, "link", n)
        BY <1>5, <2>1 DEF RequestLink
      <3>2. n \in Subject["link"]
        BY DEF Subject
      <3>3. QED
        BY <1>3, <3>1, <3>2
    <2>2. CASE n # cfg.name
      <3>1. pending' = Restrict(pending, Kept("link")) /\ UNCHANGED uses
        BY <1>5, <2>2 DEF RequestLink
      <3>2. Kept("link") \subseteq DOMAIN pending
        BY DEF Kept
      <3>3. Rows' /\ \A u \in Token : StandsFor(u)' \subseteq StandsFor(u)
        <4> DEFINE S == Kept("link")
        <4> HIDE DEF S
        <4>1. pending' = Restrict(pending, S) /\ S \subseteq DOMAIN pending
          BY <3>1, <3>2 DEF S
        <4>2. QED
          BY <3>1, <4>1, LeftRows
      <3>4. TokensKept'
        BY <1>2, <3>1, <3>3 DEF TokensKept, OnePlace, OneShot, Unused
      <3>5. QED
        BY <3>3, <3>4
    <2>3. QED
      BY <2>1, <2>2
  <1>6. ASSUME NEW t \in Token, SetupStarts(t)
        PROVE  Rows' /\ TokensKept'
    BY <1>3, <1>6 DEF SetupStarts, Subject
  <1>7. ASSUME NEW t \in Token \cup {Nil}, RegisterStarts(t)
        PROVE  Rows' /\ TokensKept'
    BY <1>3, <1>7 DEF RegisterStarts, Subject
  <1>8. ASSUME OidcStarts
        PROVE  Rows' /\ TokensKept'
    BY <1>3, <1>8 DEF OidcStarts, Subject
  <1>9. CASE ChangeAuth \/ DeletePasskey \/ Second \/ UNCHANGED signInVars
    BY <1>4, <1>9 DEF ChangeAuth, DeletePasskey, Second, signInVars, outcome
  <1>10. QED
    BY <1>1, <1>5, <1>6, <1>7, <1>8, <1>9

-----------------------------------------------------------------------------
(* The types of the rest.                                                  *)

LEMMA SinceTyped ==
  ASSUME NEW s \in Seq(Nat), NEW c \in Int
  PROVE  Before(s, c) \in Nat /\ Since(s, c) \in Seq(Nat)
  <1>1. Len(s) \in Nat /\ DOMAIN s = 1..Len(s)
    OBVIOUS
  <1>2. IsFiniteSet(1..Len(s)) /\ {n \in DOMAIN s : s[n] < c} \subseteq 1..Len(s)
    BY <1>1, FS_Interval
  <1>3. Before(s, c) \in Nat
    BY <1>2, FS_Subset, FS_CardinalityType DEF Before
  <1>4. PICK k \in Nat : k = Before(s, c)
    BY <1>3
  <1>5. SubSeq(s, k + 1, Len(s)) \in Seq(Nat)
    OBVIOUS
  <1>6. QED
    BY <1>3, <1>4, <1>5 DEF Since

RecordType == [fails : Seq(Nat), until : Nat]

LEMMA FailedTyped ==
  ASSUME NEW r \in RecordType, NEW t \in Nat
  PROVE  Failed(r, t) \in RecordType
  <1>1. t - FailureWindow \in Int
    BY LimitAssumption
  <1>2. PICK s : s = Since(r.fails, t - FailureWindow)
    OBVIOUS
  <1>3. s \in Seq(Nat)
    BY <1>1, <1>2, SinceTyped DEF RecordType
  <1>4. PICK all, v : all = Append(s, t) /\ v = IF r.until > t THEN r.until ELSE 0
    OBVIOUS
  <1>5. all \in Seq(Nat) /\ Len(all) \in Nat /\ v \in Nat
    BY <1>3, <1>4 DEF RecordType
  <1>6. Pruned(r, t) = [fails |-> s, until |-> v]
    BY <1>2, <1>4 DEF Pruned
  <1>7. PICK x \in Nat : x = IF Len(all) > MaxFailures THEN Len(all) - MaxFailures ELSE 0
    <2>1. CASE Len(all) > MaxFailures
      BY <1>5, <2>1, LimitAssumption
    <2>2. CASE ~ Len(all) > MaxFailures
      BY <2>2
    <2>3. QED
      BY <2>1, <2>2
  <1>8. Failed(r, t) = [fails |-> SubSeq(all, x + 1, Len(all)),
                        until |-> IF Len(all) >= MaxFailures THEN t + Lockout ELSE v]
    BY <1>4, <1>6, <1>7 DEF Failed
  <1>9. SubSeq(all, x + 1, Len(all)) \in Seq(Nat)
    BY <1>5
  <1>10. t + Lockout \in Nat
    BY LimitAssumption
  <1>11. (IF Len(all) >= MaxFailures THEN t + Lockout ELSE v) \in Nat
    BY <1>5, <1>10
  <1>12. QED
    BY <1>8, <1>9, <1>11 DEF RecordType

CountTypes ==
  /\ limit \in [Key -> RecordType] /\ burst \in [Key \cup Name -> Seq(Nat)]
  /\ tries \in [Key -> Seq(Nat)] /\ cleared \in [Key -> Nat] /\ lost \in [Key -> Nat]

\* The steps that count or forget a failure or an attempt.
Counting(r) == VerifyWrong(r) \/ Record(r) \/ RecordFails(r) \/ RecordAddress(r) \/ Clear(r)

LEMMA CountsStay ==
  ASSUME [SignInNext]_signInVars
  PROVE  \/ UNCHANGED failures
         \/ \E r \in Request : Counting(r)
         \/ \E n \in Name : RequestLink(n)
  <1>1. ASSUME NEW r \in Request, Step(r)
        PROVE  UNCHANGED failures \/ Counting(r)
    BY <1>1 DEF Step, Counting, PasswordStarts, SudoStarts, VerifyRight, StepUp, Issue, StoreFails, Join,
         Exchange, Enrol, PersistRefused, PersistStep, PersistPrimary, Attest, PasskeyUnknown,
         PasskeyStarts, UseLink, OidcReturns, TotpStarts, SetupConfirms, PasskeyReturns, RegisterReturns
  <1>2. QED
    BY <1>1 DEF SignInNext, SetupStarts, RegisterStarts, OidcStarts, ChangeAuth, DeletePasskey, Second,
         signInVars, failures

LEMMA CountsTyped ==
  ASSUME SignInType, [SignInNext]_signInVars
  PROVE  CountTypes'
  <1>1. CountTypes /\ now \in Nat
    BY DEF SignInType, CountTypes, RecordType
  <1>2. ASSUME NEW k \in Key \cup Name
        PROVE  Append(Recent(k, now), now) \in Seq(Nat)
    <2>1. burst[k] \in Seq(Nat) /\ now - BurstWindow \in Int
      BY <1>1, BurstAssumption DEF CountTypes
    <2>2. Recent(k, now) \in Seq(Nat)
      BY <2>1, SinceTyped DEF Recent
    <2>3. QED
      BY <1>1, <2>2
  <1>3. ASSUME NEW r \in Request, Counting(r)
        PROVE  CountTypes'
    <2>1. job[r].pc \in Limitable /\ job[r] \in Job
      BY <1>3 DEF SignInType, Counting, VerifyWrong, Record, RecordFails, RecordAddress, Clear, Limitable
    <2>2. PICK k \in Key : k = job[r].key
      BY <2>1, JobFields
    <2>3. CASE VerifyWrong(r)
      BY <1>1, <2>2, <2>3 DEF VerifyWrong, Tried, CountTypes
    <2>4. CASE Record(r)
      BY <1>1, <2>2, <2>4, FailedTyped DEF Record, CountTypes
    <2>5. CASE RecordFails(r)
      BY <1>1, <2>2, <2>5 DEF RecordFails, CountTypes
    <2>6. CASE RecordAddress(r)
      BY <1>1, <1>2, <2>2, <2>6 DEF RecordAddress, CountTypes
    <2>7. CASE Clear(r)
      BY <1>1, <2>2, <2>7 DEF Clear, NoLimit, RecordType, CountTypes
    <2>8. QED
      BY <1>3, <2>3, <2>4, <2>5, <2>6, <2>7 DEF Counting
  <1>4. ASSUME NEW n \in Name, RequestLink(n)
        PROVE  CountTypes'
    BY <1>1, <1>2, <1>4 DEF RequestLink, CountTypes
  <1>5. CASE UNCHANGED failures
    BY <1>1, <1>5 DEF failures, CountTypes
  <1>6. QED
    BY <1>3, <1>4, <1>5, CountsStay

LEMMA ClockTyped ==
  ASSUME SignInType, [SignInNext]_signInVars
  PROVE  /\ {now, requests, upsets}' \subseteq Nat
         /\ UNCHANGED now \/ (Second /\ now' = now + 1)
         /\ cfg' \in [policy : Policy, totp : BOOLEAN, name : Name, passkeys : SUBSET Credential]
  <1>1. ASSUME NEW r \in Request, Step(r)
        PROVE  UNCHANGED now
    BY <1>1 DEF Step, PasswordStarts, SudoStarts, VerifyRight, VerifyWrong,
         Record, RecordFails, RecordAddress, Clear, StepUp, Issue, StoreFails, Join, Exchange, Enrol,
         PersistRefused, PersistStep, PersistPrimary, Attest, PasskeyUnknown, PasskeyStarts, UseLink,
         OidcReturns, TotpStarts, SetupConfirms, PasskeyReturns, RegisterReturns
  <1>2. ASSUME NEW r \in Request, Step(r)
        PROVE  UNCHANGED requests \/ Asks
    BY <1>2 DEF Step, PasswordStarts, SudoStarts, VerifyRight, VerifyWrong,
         Record, RecordFails, RecordAddress, Clear, StepUp, Issue, StoreFails, Join, Exchange, Enrol,
         PersistRefused, PersistStep, PersistPrimary, Attest, PasskeyUnknown, PasskeyStarts, UseLink,
         OidcReturns, TotpStarts, SetupConfirms, PasskeyReturns, RegisterReturns
  <1>3. ASSUME NEW r \in Request, Step(r)
        PROVE  UNCHANGED upsets \/ Upset
    BY <1>3 DEF Step, PasswordStarts, SudoStarts, VerifyRight, VerifyWrong,
         Record, RecordFails, RecordAddress, Clear, StepUp, Issue, StoreFails, Join, Exchange, Enrol,
         PersistRefused, PersistStep, PersistPrimary, Attest, PasskeyUnknown, PasskeyStarts, UseLink,
         OidcReturns, TotpStarts, SetupConfirms, PasskeyReturns, RegisterReturns
  <1>4. ASSUME NEW r \in Request, Step(r)
        PROVE  UNCHANGED cfg \/ Attest(r)
    BY <1>4 DEF Step, PasswordStarts, SudoStarts, VerifyRight, VerifyWrong,
         Record, RecordFails, RecordAddress, Clear, StepUp, Issue, StoreFails, Join, Exchange, Enrol,
         PersistRefused, PersistStep, PersistPrimary, PasskeyUnknown, PasskeyStarts, UseLink,
         OidcReturns, TotpStarts, SetupConfirms, PasskeyReturns, RegisterReturns
  <1>5. CASE ~ \E r \in Request : Step(r)
    <2>1. UNCHANGED now \/ Second
      BY <1>5 DEF SignInNext, signInVars, RequestLink, SetupStarts, RegisterStarts,
         OidcStarts, ChangeAuth, DeletePasskey, Second
    <2>2. UNCHANGED requests \/ Asks
      BY <1>5 DEF SignInNext, signInVars, RequestLink, SetupStarts, RegisterStarts,
         OidcStarts, ChangeAuth, DeletePasskey, Second
    <2>3. UNCHANGED upsets \/ Upset
      BY <1>5 DEF SignInNext, signInVars, RequestLink, SetupStarts, RegisterStarts,
         OidcStarts, ChangeAuth, DeletePasskey, Second
    <2>4. UNCHANGED cfg \/ ChangeAuth \/ DeletePasskey
      BY <1>5 DEF SignInNext, signInVars, RequestLink, SetupStarts, RegisterStarts,
         OidcStarts, Second
    <2>5. cfg' \in [policy : Policy, totp : BOOLEAN, name : Name, passkeys : SUBSET Credential]
      BY <2>4 DEF ChangeAuth, DeletePasskey, SignInType
    <2>6. QED
      BY <2>1, <2>2, <2>3, <2>5 DEF SignInType, Asks, Upset, Second
  <1>6. CASE \E r \in Request : Step(r)
    <2>1. PICK r \in Request : Step(r)
      BY <1>6
    <2>2. UNCHANGED now /\ (UNCHANGED requests \/ Asks) /\ (UNCHANGED upsets \/ Upset)
      BY <1>1, <1>2, <1>3, <2>1
    <2>3. CASE Attest(r)
      <3>1. UNCHANGED cfg \/ \E c \in Credential : cfg' = [cfg EXCEPT !.passkeys = @ \cup {c}]
        BY <2>3 DEF Attest
      <3>2. cfg' \in [policy : Policy, totp : BOOLEAN, name : Name, passkeys : SUBSET Credential]
        BY <3>1 DEF SignInType
      <3>3. QED
        BY <2>2, <3>2 DEF SignInType, Asks, Upset
    <2>4. QED
      BY <1>4, <2>1, <2>2, <2>3 DEF SignInType, Asks, Upset
  <1>7. QED
    BY <1>5, <1>6

\* Each step keeps the types and leaves each token in one place.
LEMMA TypeStep ==
  ASSUME SignInType, TokensKept, [SignInNext]_signInVars
  PROVE  SignInType' /\ TokensKept'
  <1>1. CountTypes'
    BY CountsTyped
  <1>2. /\ {now, requests, upsets}' \subseteq Nat
        /\ cfg' \in [policy : Policy, totp : BOOLEAN, name : Name, passkeys : SUBSET Credential]
    BY ClockTyped
  <1>3. Rows' /\ TokensKept' /\ sessions' \subseteq SignIns /\ job' \in [Request -> Job]
    <2>1. ASSUME NEW r \in Request, Step(r)
          PROVE  Rows' /\ TokensKept' /\ sessions' \subseteq SignIns /\ job' \in [Request -> Job]
      BY <2>1, StepTokens, JobSteps, JobWritten
    <2>2. CASE ~ \E r \in Request : Step(r)
      <3>1. Rows' /\ TokensKept' /\ UNCHANGED <<job, sessions>>
        BY <2>2, OtherTokens DEF SignInNext
      <3>2. QED
        BY <3>1 DEF SignInType
    <2>3. QED
      BY <2>1, <2>2
  <1>4. QED
    BY <1>1, <1>2, <1>3 DEF SignInType, Rows, CountTypes, RecordType, Awaited, Subject, SignIns, Policy, Job,
         Limitable, Key

LEMMA TypeInit == SignInInit => SignInType /\ TokensKept
  <1> SUFFICES ASSUME SignInInit
               PROVE  SignInType /\ TokensKept
    OBVIOUS
  <1>1. SignInType
    BY NoJobTyped DEF SignInInit, SignInType, NoLimit
  <1>2. /\ \A r \in Request : Carried(r) = {}
        /\ \A u \in Token : StandsFor(u) = {}
    BY NoJobTyped DEF SignInInit, Carried, StandsFor
  <1>3. QED
    BY <1>1, <1>2 DEF SignInInit, TokensKept, OnePlace, OneShot, Unused

\* A session has its factor when it is issued.
LEMMA FactorStep ==
  ASSUME SignInType, FactorKept, [SignInNext]_signInVars
  PROVE  FactorKept'
  <1>1. ASSUME NEW r \in Request, Step(r)
        PROVE  UNCHANGED sessions \/ Issue(r)
    BY <1>1 DEF Step, PasswordStarts, SudoStarts, VerifyRight, VerifyWrong,
         Record, RecordFails, RecordAddress, Clear, StepUp, StoreFails, Join, Exchange, Enrol,
         PersistRefused, PersistStep, PersistPrimary, Attest, PasskeyUnknown, PasskeyStarts, UseLink,
         OidcReturns, TotpStarts, SetupConfirms, PasskeyReturns, RegisterReturns, outcome
  <1>2. ASSUME NEW r \in Request, Issue(r)
        PROVE  FactorKept'
    <2> DEFINE s == job[r].s
    <2>1. s.need \in Policy
      BY JobFields DEF SignInType, SignIns
    <2>2. UNCHANGED sessions \/ (sessions' = sessions \cup {s} /\ ~MustStepUp(s))
      BY <1>2 DEF Issue, Earned, outcome
    <2>3. ~MustStepUp(s) => s.need \in {Nil, s.factor} \/ (s.how = "passkey" /\ s.need = "passkey")
      BY <2>1 DEF MustStepUp, Policy
    <2> HIDE DEF s
    <2>4. QED
      BY <2>2, <2>3 DEF FactorKept
  <1>3. CASE ~ \E r \in Request : Step(r)
    BY <1>3 DEF SignInNext, signInVars, RequestLink, SetupStarts, RegisterStarts,
         OidcStarts, ChangeAuth, DeletePasskey, Second, outcome, FactorKept
  <1>4. QED
    BY <1>1, <1>2, <1>3 DEF FactorKept

(* The pending tables, the requests and the counts of failures are what the *)
(* code can read back: a request that may record a failure has a rate key, *)
(* and a token that is pending was drawn.                                  *)
THEOREM SignInTyped == SignInSpec => []SignInType
  <1>1. SignInInit => SignInType /\ TokensKept
    BY TypeInit
  <1>2. (SignInType /\ TokensKept) /\ [SignInNext]_signInVars => (SignInType /\ TokensKept)'
    BY TypeStep
  <1>3. QED
    BY <1>1, <1>2, PTL DEF SignInSpec

(* Each link, OIDC state, challenge and step-up request leads to one        *)
(* session at most, which has the factor that was asked for.               *)
THEOREM SessionsFollow == SignInSpec => []SessionsEarned
  <1> DEFINE Inv == SignInType /\ TokensKept /\ FactorKept
  <1>1. SignInInit => Inv
    BY TypeInit DEF SignInInit, FactorKept
  <1>2. Inv /\ [SignInNext]_signInVars => Inv'
    BY TypeStep, FactorStep
  <1>3. Inv => SessionsEarned
    BY DEF TokensKept, SessionsEarned
  <1>4. QED
    BY <1>1, <1>2, <1>3, PTL DEF SignInSpec

-----------------------------------------------------------------------------
(* What the limits of SignIn count.                                        *)

\* How many of s, after the first n, are not before c.
CountFrom(s, n, c) == Cardinality({i \in (n + 1)..Len(s) : s[i] >= c})

LEMMA CountType ==
  ASSUME NEW s, Len(s) \in Nat, NEW n \in Nat, NEW c
  PROVE  /\ CountFrom(s, n, c) \in Nat
         /\ IsFiniteSet({i \in (n + 1)..Len(s) : s[i] >= c})
         /\ n <= Len(s) => CountFrom(s, n, c) <= Len(s) - n
         /\ n = Len(s) => CountFrom(s, n, c) = 0
         /\ (\A i \in (n + 1)..Len(s) : ~(s[i] >= c)) => CountFrom(s, n, c) = 0
  <1> DEFINE S == {i \in (n + 1)..Len(s) : s[i] >= c}
  <1>1. IsFiniteSet((n + 1)..Len(s)) /\ S \subseteq (n + 1)..Len(s)
    BY FS_Interval
  <1>2. IsFiniteSet(S) /\ Cardinality(S) \in Nat /\ Cardinality(S) <= Cardinality((n + 1)..Len(s))
    BY <1>1, FS_Subset, FS_CardinalityType
  <1>3. n <= Len(s) => Cardinality((n + 1)..Len(s)) = Len(s) - n
    <2>1. PICK a \in Int, b \in Int : a = n + 1 /\ b = Len(s)
      OBVIOUS
    <2>2. Cardinality(a..b) = IF a > b THEN 0 ELSE b - a + 1
      BY FS_Interval
    <2>3. QED
      BY <2>1, <2>2
  <1>4. (\A i \in (n + 1)..Len(s) : ~(s[i] >= c)) => S = {}
    OBVIOUS
  <1>5. n = Len(s) => S = {}
    OBVIOUS
  <1>6. QED
    BY <1>2, <1>3, <1>4, <1>5, FS_EmptySet DEF CountFrom

\* One more is counted if it is not before c.
LEMMA CountAppend ==
  ASSUME NEW s \in Seq(Nat), NEW x \in Nat, NEW n \in Nat, n <= Len(s), NEW c \in Int
  PROVE  CountFrom(Append(s, x), n, c) = CountFrom(s, n, c) + IF x >= c THEN 1 ELSE 0
  <1> DEFINE d == Append(s, x)
             S == {i \in (n + 1)..Len(s) : s[i] >= c}
             D == {i \in (n + 1)..Len(d) : d[i] >= c}
  <1>1. /\ Len(s) \in Nat /\ Len(d) = Len(s) + 1 /\ d[Len(s) + 1] = x
        /\ \A i \in 1..Len(s) : d[i] = s[i]
    OBVIOUS
  <1> HIDE DEF d
  <1>2. \A i \in (n + 1)..Len(d) : i = Len(s) + 1 \/ (i \in (n + 1)..Len(s) /\ d[i] = s[i])
    BY <1>1
  <1>3. \A i \in (n + 1)..Len(s) : i \in (n + 1)..Len(d) /\ d[i] = s[i] /\ i # Len(s) + 1
    BY <1>1
  <1>4. Len(s) + 1 \in (n + 1)..Len(d)
    BY <1>1
  <1>5. D = IF x >= c THEN S \cup {Len(s) + 1} ELSE S
    BY <1>1, <1>2, <1>3, <1>4
  <1>6. Len(s) + 1 \notin S
    BY <1>1
  <1>7. IsFiniteSet(S) /\ Cardinality(S) \in Nat
    BY <1>1, CountType DEF CountFrom
  <1>8. CountFrom(d, n, c) = Cardinality(D) /\ CountFrom(s, n, c) = Cardinality(S)
    BY DEF CountFrom
  <1> HIDE DEF S, D
  <1>9. x >= c => Cardinality(D) = Cardinality(S) + 1
    BY <1>5, <1>6, <1>7, FS_AddElement
  <1>10. QED
    BY <1>5, <1>7, <1>8, <1>9 DEF d

\* Fewer are counted as time goes on.
LEMMA CountLess ==
  ASSUME NEW s \in Seq(Nat), NEW n \in Nat, NEW c \in Int, NEW d \in Int, c <= d
  PROVE  CountFrom(s, n, d) <= CountFrom(s, n, c)
  <1> DEFINE S == {i \in (n + 1)..Len(s) : s[i] >= c}
             D == {i \in (n + 1)..Len(s) : s[i] >= d}
  <1>1. Len(s) \in Nat /\ \A i \in (n + 1)..Len(s) : s[i] \in Nat
    OBVIOUS
  <1>2. D \subseteq S
    BY <1>1
  <1>3. IsFiniteSet(S)
    BY <1>1, CountType
  <1>4. QED
    BY <1>2, <1>3, FS_Subset DEF CountFrom

\* What is too old to be kept was not counted.
LEMMA CountSince ==
  ASSUME NEW t \in Nat, NEW s, Ascending(s, t), NEW c \in Int, NEW e \in Int, e <= c
  PROVE  /\ Ascending(Since(s, e), t)
         /\ CountFrom(s, 0, c) <= CountFrom(Since(s, e), 0, c)
  <1>1. PICK k \in Nat : k = Before(s, e) /\ \A n \in 1..Len(s) : s[n] >= e => k < n
    BY OldFirst
  <1>2. PICK d : d = SubSeq(s, k + 1, Len(s))
    OBVIOUS
  <1>3. d = Since(s, e) /\ Ascending(d, t)
    BY <1>1, <1>2, Suffix DEF Since
  <1>4. s \in Seq(Nat) /\ Len(s) \in Nat /\ \A n \in 1..Len(s) : s[n] \in Nat
    BY DEF Ascending
  <1>5. /\ d \in Seq(Nat) /\ Len(d) = IF k < Len(s) THEN Len(s) - k ELSE 0
        /\ \A n \in 1..Len(d) : d[n] = s[n + k]
    BY <1>2, <1>4
  <1> DEFINE S == {i \in (0 + 1)..Len(s) : s[i] >= c}
             D == {i \in (0 + 1)..Len(d) : d[i] >= c}
             f == [i \in S |-> i - k]
  <1>6. ASSUME NEW i \in S
        PROVE  i \in Nat /\ i - k \in D
    <2>1. i \in 1..Len(s) /\ s[i] >= c /\ s[i] \in Nat
      BY <1>4
    <2>2. k < i
      BY <1>1, <2>1
    <2>3. i - k \in 1..Len(d)
      BY <1>4, <1>5, <2>1, <2>2
    <2>4. d[i - k] = s[(i - k) + k] /\ (i - k) + k = i
      BY <1>5, <2>1, <2>3
    <2>5. QED
      BY <2>1, <2>3, <2>4
  <1>7. IsFiniteSet(D)
    <2>1. Len(d) \in Nat
      BY <1>4, <1>5
    <2>2. IsFiniteSet(1..Len(d)) /\ D \subseteq 1..Len(d)
      BY <2>1, FS_Interval
    <2>3. QED
      BY <2>2, FS_Subset
  <1>8. CountFrom(s, 0, c) = Cardinality(S) /\ CountFrom(d, 0, c) = Cardinality(D)
    BY DEF CountFrom
  <1> HIDE DEF S, D
  <1>9. f \in Injection(S, D)
    BY <1>6 DEF Injection, IsInjective
  <1>10. Cardinality(S) <= Cardinality(D)
    BY <1>7, <1>9, FS_Injection
  <1>11. QED
    BY <1>3, <1>8, <1>10

LEMMA CountAll ==
  ASSUME NEW s, Len(s) \in Nat, NEW c
  PROVE  CountFrom(s, 0, c) \in Nat /\ CountFrom(s, 0, c) <= Len(s)
  <1>1. PICK n, a : n = 0 /\ a = CountFrom(s, n, c)
    OBVIOUS
  <1>2. a \in Nat /\ (n <= Len(s) => a <= Len(s) - n)
    BY <1>1, CountType
  <1>3. QED
    BY <1>1, <1>2

\* After t nothing was tried yet.
LEMMA CountFuture ==
  ASSUME NEW t \in Nat, NEW s, Ascending(s, t), NEW n \in Nat, NEW c \in Int, c > t
  PROVE  CountFrom(s, n, c) = 0
  <1>1. /\ Len(s) \in Nat
        /\ \A i \in (n + 1)..Len(s) : i \in 1..Len(s)
    BY DEF Ascending
  <1>2. \A i \in 1..Len(s) : s[i] \in Nat /\ s[i] <= t
    BY DEF Ascending
  <1>3. \A i \in (n + 1)..Len(s) : ~(s[i] >= c)
    BY <1>1, <1>2
  <1>4. QED
    BY <1>1, <1>3, CountType

(* The tries s of an account, after the n that were cleared, are in its     *)
(* record l, all but more of them, or the lockout they caused outlives      *)
(* them; and there are no more of them than the limit and room.             *)
CountedSince(l, s, n, c, more) ==
  \/ l.until > c + FailureWindow
  \/ /\ CountFrom(l.fails, 0, c) < MaxFailures
     /\ CountFrom(s, n, c) <= CountFrom(l.fails, 0, c) + more

AccountOK(l, s, n, t, more, room) ==
  /\ \A c \in Int : c >= t - FailureWindow => CountedSince(l, s, n, c, more)
  /\ CountFrom(s, n, t - FailureWindow) <= MaxFailures - 1 + room

\* And those of an address are in its attempts b.
AddressOK(b, s, t, more, room) ==
  /\ \A c \in Int : c >= t - BurstWindow => CountFrom(s, 0, c) <= CountFrom(b, 0, c) + more
  /\ CountFrom(s, 0, t - BurstWindow) <= MaxBurst - 1 + room

LEMMA AccountEases ==
  ASSUME NEW l, l.fails \in Seq(Nat), NEW s \in Seq(Nat), NEW n \in Nat, NEW t \in Nat, NEW u \in Nat,
         NEW more \in Int, NEW some \in Int, NEW room \in Int, NEW space \in Int,
         t <= u, more <= some, room <= space, AccountOK(l, s, n, t, more, room)
  PROVE  AccountOK(l, s, n, u, some, space)
  <1>1. Len(s) \in Nat /\ Len(l.fails) \in Nat
    OBVIOUS
  <1>2. ASSUME NEW c \in Int, c >= u - FailureWindow
        PROVE  CountedSince(l, s, n, c, some)
    <2>1. CountedSince(l, s, n, c, more)
      BY <1>2, LimitAssumption DEF AccountOK
    <2>2. CountFrom(s, n, c) \in Nat /\ CountFrom(l.fails, 0, c) \in Nat
      BY <1>1, CountType
    <2>3. QED
      BY <2>1, <2>2 DEF CountedSince
  <1>3. PICK a \in Int, b \in Int : a = t - FailureWindow /\ b = u - FailureWindow
    BY LimitAssumption
  <1>4. a <= b
    BY <1>3, LimitAssumption
  <1>5. CountFrom(s, n, b) <= CountFrom(s, n, a)
    BY <1>4, CountLess
  <1>6. CountFrom(s, n, a) \in Nat /\ CountFrom(s, n, b) \in Nat
    BY <1>1, CountType
  <1>7. CountFrom(s, n, a) <= MaxFailures - 1 + room
    BY <1>3 DEF AccountOK
  <1>8. CountFrom(s, n, b) <= MaxFailures - 1 + space
    BY <1>5, <1>6, <1>7, LimitAssumption
  <1>9. QED
    BY <1>2, <1>3, <1>8 DEF AccountOK

LEMMA AddressEases ==
  ASSUME NEW b \in Seq(Nat), NEW s \in Seq(Nat), NEW t \in Nat, NEW u \in Nat,
         NEW more \in Int, NEW some \in Int, NEW room \in Int, NEW space \in Int,
         t <= u, more <= some, room <= space, AddressOK(b, s, t, more, room)
  PROVE  AddressOK(b, s, u, some, space)
  <1>1. Len(s) \in Nat /\ Len(b) \in Nat
    OBVIOUS
  <1>2. ASSUME NEW c \in Int, c >= u - BurstWindow
        PROVE  CountFrom(s, 0, c) <= CountFrom(b, 0, c) + some
    <2>1. CountFrom(s, 0, c) <= CountFrom(b, 0, c) + more
      BY <1>2, BurstAssumption DEF AddressOK
    <2>2. CountFrom(s, 0, c) \in Nat /\ CountFrom(b, 0, c) \in Nat
      BY <1>1, CountType
    <2>3. QED
      BY <2>1, <2>2
  <1>3. PICK a \in Int, d \in Int : a = t - BurstWindow /\ d = u - BurstWindow
    BY BurstAssumption
  <1>4. a <= d
    BY <1>3, BurstAssumption
  <1>5. CountFrom(s, 0, d) <= CountFrom(s, 0, a)
    BY <1>4, CountLess
  <1>6. CountFrom(s, 0, a) \in Nat /\ CountFrom(s, 0, d) \in Nat
    BY <1>1, CountType
  <1>7. CountFrom(s, 0, a) <= MaxBurst - 1 + room
    BY <1>3 DEF AddressOK
  <1>8. CountFrom(s, 0, d) <= MaxBurst - 1 + space
    BY <1>5, <1>6, <1>7, BurstAssumption
  <1>9. QED
    BY <1>2, <1>3, <1>8 DEF AddressOK

\* One more is tried, which is still to be recorded.
LEMMA OneMore ==
  ASSUME NEW s \in Seq(Nat), NEW x \in Nat, NEW n \in Nat, n <= Len(s), NEW c \in Int
  PROVE  /\ CountFrom(s, n, c) \in Nat /\ CountFrom(Append(s, x), n, c) \in Nat
         /\ CountFrom(s, n, c) <= CountFrom(Append(s, x), n, c)
         /\ CountFrom(Append(s, x), n, c) <= CountFrom(s, n, c) + 1
         /\ x >= c => CountFrom(Append(s, x), n, c) = CountFrom(s, n, c) + 1
  <1>1. Len(s) \in Nat
    OBVIOUS
  <1>2. PICK a : a = CountFrom(s, n, c)
    OBVIOUS
  <1>3. a \in Nat
    BY <1>1, <1>2, CountType
  <1>4. CountFrom(Append(s, x), n, c) = a + IF x >= c THEN 1 ELSE 0
    BY <1>2, CountAppend
  <1>5. QED
    BY <1>2, <1>3, <1>4

LEMMA AccountTries ==
  ASSUME NEW l, l.fails \in Seq(Nat), NEW s \in Seq(Nat), NEW n \in Nat, n <= Len(s), NEW t \in Nat,
         NEW more \in Int, NEW room \in Int, AccountOK(l, s, n, t, more, room)
  PROVE  AccountOK(l, Append(s, t), n, t, more + 1, room + 1)
  <1>1. Len(s) \in Nat /\ Len(l.fails) \in Nat
    OBVIOUS
  <1>2. ASSUME NEW c \in Int, c >= t - FailureWindow
        PROVE  CountedSince(l, Append(s, t), n, c, more + 1)
    <2>1. CountedSince(l, s, n, c, more)
      BY <1>2 DEF AccountOK
    <2>2. CountFrom(l.fails, 0, c) \in Nat
      BY <1>1, CountType
    <2>3. PICK a, b : a = CountFrom(s, n, c) /\ b = CountFrom(Append(s, t), n, c)
      OBVIOUS
    <2>4. a \in Nat /\ b \in Nat /\ b <= a + 1
      BY <2>3, OneMore
    <2>5. QED
      BY <2>1, <2>2, <2>3, <2>4 DEF CountedSince
  <1>3. PICK e \in Int : e = t - FailureWindow
    BY LimitAssumption
  <1>4. PICK a, b : a = CountFrom(s, n, e) /\ b = CountFrom(Append(s, t), n, e)
    OBVIOUS
  <1>5. a \in Nat /\ b \in Nat /\ b <= a + 1
    BY <1>4, OneMore
  <1>6. a <= MaxFailures - 1 + room
    BY <1>3, <1>4 DEF AccountOK
  <1>7. b <= MaxFailures - 1 + (room + 1)
    BY <1>5, <1>6, LimitAssumption
  <1>8. QED
    BY <1>2, <1>3, <1>4, <1>7 DEF AccountOK

LEMMA AddressTries ==
  ASSUME NEW b \in Seq(Nat), NEW s \in Seq(Nat), NEW t \in Nat,
         NEW more \in Int, NEW room \in Int, AddressOK(b, s, t, more, room)
  PROVE  AddressOK(b, Append(s, t), t, more + 1, room + 1)
  <1>1. Len(s) \in Nat /\ Len(b) \in Nat
    OBVIOUS
  <1>2. ASSUME NEW c \in Int, c >= t - BurstWindow
        PROVE  CountFrom(Append(s, t), 0, c) <= CountFrom(b, 0, c) + (more + 1)
    <2>1. PICK x, y, z : /\ x = CountFrom(s, 0, c) /\ y = CountFrom(Append(s, t), 0, c)
                         /\ z = CountFrom(b, 0, c)
      OBVIOUS
    <2>2. x <= z + more
      BY <1>2, <2>1 DEF AddressOK
    <2>3. x \in Nat /\ y \in Nat /\ y <= x + 1
      BY <1>1, <2>1, OneMore
    <2>4. z \in Nat
      BY <1>1, <2>1, CountType
    <2>5. QED
      BY <2>1, <2>2, <2>3, <2>4
  <1>3. PICK e \in Int : e = t - BurstWindow
    BY BurstAssumption
  <1>4. PICK x, y : x = CountFrom(s, 0, e) /\ y = CountFrom(Append(s, t), 0, e)
    OBVIOUS
  <1>5. x \in Nat /\ y \in Nat /\ y <= x + 1
    BY <1>1, <1>4, OneMore
  <1>6. x <= MaxBurst - 1 + room
    BY <1>3, <1>4 DEF AddressOK
  <1>7. y <= MaxBurst - 1 + (room + 1)
    BY <1>5, <1>6, BurstAssumption
  <1>8. QED
    BY <1>2, <1>3, <1>4, <1>7 DEF AddressOK

(* The record of a failure: the tries since c are as many as the failures   *)
(* it has, or as many failures as there may be have led to a lockout.       *)
LEMMA AccountRecords ==
  ASSUME NEW t \in Nat, NEW l, RecordOK(l, t), NEW s, Ascending(s, t), NEW n \in Nat, n <= Len(s),
         NEW more \in Int, more >= 1, NEW room \in Int, AccountOK(l, s, n, t, more, room)
  PROVE  AccountOK(Failed(l, t), s, n, t, more - 1, room)
  <1>1. /\ l.fails \in Seq(Nat) /\ Ascending(l.fails, t) /\ l.until \in Nat /\ s \in Seq(Nat)
        /\ Len(s) \in Nat
    BY DEF RecordOK, Ascending
  <1>2. PICK e \in Int : e = t - FailureWindow
    BY LimitAssumption
  <1>3. PICK g, v : g = Since(l.fails, e) /\ v = Pruned(l, t).until
    OBVIOUS
  <1>4. Pruned(l, t) = [fails |-> g, until |-> v] /\ v = IF l.until > t THEN l.until ELSE 0
    BY <1>2, <1>3 DEF Pruned
  <1>5. PICK all, h : all = Append(g, t) /\ h = Failed(l, t)
    OBVIOUS
  <1>6. e <= e /\ Ascending(g, t)
    BY <1>1, <1>2, <1>3, CountSince
  <1>7. Ascending(all, t) /\ all \in Seq(Nat) /\ g \in Seq(Nat) /\ Len(g) \in Nat /\ Len(all) = Len(g) + 1
    BY <1>5, <1>6, Appended DEF Ascending
  <1>8. ASSUME NEW c \in Int, c >= t - FailureWindow
        PROVE  CountedSince(h, s, n, c, more - 1)
    <2>1. CASE c > t
      <3>1. RecordOK(h, t)
        BY <1>5, FailedRecord
      <3>2. Ascending(h.fails, t)
        BY <3>1 DEF RecordOK
      <3>3. CountFrom(s, n, c) = 0 /\ CountFrom(h.fails, 0, c) = 0
        BY <2>1, <3>2, CountFuture
      <3>4. QED
        BY <3>3, LimitAssumption DEF CountedSince
    <2>2. CASE c <= t /\ Len(all) >= MaxFailures
      <3>1. h.until = t + Lockout
        BY <1>4, <1>5, <2>2 DEF Failed
      <3>2. QED
        BY <2>2, <3>1, LimitAssumption, LockoutAssumption DEF CountedSince
    <2>3. CASE c <= t /\ ~(Len(all) >= MaxFailures)
      <3>1. h = [fails |-> SubSeq(all, 1, Len(all)), until |-> v]
        <4>1. PICK i : i = IF Len(all) > MaxFailures THEN Len(all) - MaxFailures ELSE 0
          OBVIOUS
        <4>2. i = 0
          BY <1>7, <2>3, <4>1, LimitAssumption
        <4>3. h = [fails |-> SubSeq(all, i + 1, Len(all)),
                   until |-> IF Len(all) >= MaxFailures THEN t + Lockout ELSE v]
          <5>1. Pruned(l, t).fails = g /\ Pruned(l, t).until = v
            BY <1>4
          <5>2. h = [fails |-> SubSeq(Append(g, t), i + 1, Len(Append(g, t))),
                     until |-> IF Len(Append(g, t)) >= MaxFailures THEN t + Lockout ELSE v]
            BY <1>5, <4>1, <5>1, Zenon DEF Failed
          <5>3. QED
            BY <1>5, <5>2
        <4>4. i + 1 = 1
          BY <4>2
        <4>5. QED
          BY <2>3, <4>3, <4>4
      <3>2. SubSeq(all, 1, Len(all)) = all
        BY <1>7
      <3>3. h.fails = all /\ h.until = v
        BY <3>1, <3>2
      <3>4. CountedSince(l, s, n, c, more)
        BY <1>8 DEF AccountOK
      <3>5. PICK x, y, z, w : /\ x = CountFrom(l.fails, 0, c) /\ y = CountFrom(g, 0, c)
                              /\ z = CountFrom(all, 0, c) /\ w = CountFrom(s, n, c)
        OBVIOUS
      <3>6. x <= y
        BY <1>1, <1>2, <1>3, <1>8, <3>5, CountSince
      <3>7. z = y + 1
        BY <1>5, <1>7, <2>3, <3>5, OneMore
      <3>8. w \in Nat
        BY <1>1, <3>5, CountType
      <3>9. x \in Nat /\ y \in Nat /\ z \in Nat /\ z <= Len(all)
        <4>1. Len(l.fails) \in Nat /\ Len(all) \in Nat
          BY <1>1, <1>7
        <4>2. QED
          BY <1>7, <3>5, <4>1, CountAll
      <3>10. z < MaxFailures
        BY <1>7, <2>3, <3>9, LimitAssumption
      <3>11. CASE l.until > c + FailureWindow
        <4>1. l.until > t
          BY <1>1, <1>8, <3>11, LimitAssumption
        <4>2. h.until = l.until
          BY <1>4, <3>3, <4>1
        <4>3. QED
          BY <3>11, <4>2 DEF CountedSince
      <3>12. CASE w <= x + more
        <4>1. w <= z + (more - 1)
          BY <3>6, <3>7, <3>8, <3>9, <3>12
        <4>2. QED
          BY <3>3, <3>5, <3>10, <4>1 DEF CountedSince
      <3>13. QED
        BY <3>4, <3>5, <3>11, <3>12 DEF CountedSince
    <2>4. QED
      BY <2>1, <2>2, <2>3
  <1>9. QED
    BY <1>5, <1>8 DEF AccountOK

LEMMA AddressRecords ==
  ASSUME NEW t \in Nat, NEW b, Ascending(b, t), NEW s, Ascending(s, t),
         NEW more \in Int, more >= 1, NEW room \in Int, AddressOK(b, s, t, more, room)
  PROVE  AddressOK(Append(Since(b, t - BurstWindow), t), s, t, more - 1, room)
  <1>1. b \in Seq(Nat) /\ s \in Seq(Nat) /\ Len(s) \in Nat /\ Len(b) \in Nat
    BY DEF Ascending
  <1>2. PICK e \in Int : e = t - BurstWindow
    BY BurstAssumption
  <1>3. PICK g, all : g = Since(b, e) /\ all = Append(g, t)
    OBVIOUS
  <1>4. e <= e /\ Ascending(g, t)
    BY <1>2, <1>3, CountSince
  <1>5. Len(all) \in Nat /\ g \in Seq(Nat) /\ Len(g) \in Nat
    <2>1. Len(all) \in Nat
      BY <1>3, <1>4, Appended
    <2>2. QED
      BY <1>4, <2>1 DEF Ascending
  <1>6. ASSUME NEW c \in Int, c >= t - BurstWindow
        PROVE  CountFrom(s, 0, c) <= CountFrom(all, 0, c) + (more - 1)
    <2>1. PICK x, y, z, w : /\ x = CountFrom(b, 0, c) /\ y = CountFrom(g, 0, c)
                            /\ z = CountFrom(all, 0, c) /\ w = CountFrom(s, 0, c)
      OBVIOUS
    <2>2. x \in Nat /\ y \in Nat /\ w \in Nat /\ z \in Nat
      BY <1>1, <1>5, <2>1, CountAll
    <2>3. CASE c > t
      <3>1. w = 0
        BY <2>1, <2>3, CountFuture
      <3>2. QED
        BY <2>1, <2>2, <3>1
    <2>4. CASE c <= t
      <3>1. x <= y
        BY <1>2, <1>3, <1>6, <2>1, CountSince
      <3>2. z = y + 1
        BY <1>3, <1>5, <2>1, <2>4, OneMore
      <3>3. w <= x + more
        BY <1>6, <2>1 DEF AddressOK
      <3>4. QED
        BY <2>1, <2>2, <3>1, <3>2, <3>3
    <2>5. QED
      BY <2>3, <2>4
  <1>7. QED
    BY <1>2, <1>3, <1>6 DEF AddressOK

\* After a clear nothing is counted.
LEMMA AccountClears ==
  ASSUME NEW s \in Seq(Nat), NEW t \in Nat, NEW more \in Nat, NEW room \in Nat
  PROVE  AccountOK(NoLimit, s, Len(s), t, more, room)
  <1>1. Len(s) \in Nat /\ Len(NoLimit.fails) = 0 /\ t - FailureWindow \in Int
    BY LimitAssumption DEF NoLimit
  <1>2. \A c \in Int : CountFrom(s, Len(s), c) = 0 /\ CountFrom(NoLimit.fails, 0, c) = 0
    BY <1>1, CountType
  <1>3. QED
    BY <1>1, <1>2, LimitAssumption DEF AccountOK, CountedSince

(* A request that passes the check: the tries are fewer than the limit but  *)
(* for those that are not recorded, and those have had their request.       *)
LEMMA AccountStarts ==
  ASSUME NEW t \in Nat, NEW l, RecordOK(l, t), ~Locked(l, t), NEW s, Ascending(s, t), NEW n \in Nat,
         NEW more \in Int, NEW room \in Int, NEW space \in Int, more <= space,
         AccountOK(l, s, n, t, more, room)
  PROVE  AccountOK(l, s, n, t, more, space)
  <1>1. PICK e \in Int : e = t - FailureWindow
    BY LimitAssumption
  <1>2. Len(s) \in Nat /\ Len(l.fails) \in Nat /\ l.until \in Nat
    BY DEF RecordOK, Ascending
  <1>3. l.until <= e + FailureWindow
    <2>1. l.until <= t
      BY <1>2 DEF Locked, Pruned
    <2>2. QED
      BY <1>1, <2>1, LimitAssumption
  <1>4. CountedSince(l, s, n, e, more)
    BY <1>1 DEF AccountOK
  <1>5. PICK x, w : x = CountFrom(l.fails, 0, e) /\ w = CountFrom(s, n, e)
    OBVIOUS
  <1>6. x \in Nat /\ w \in Nat
    BY <1>2, <1>5, CountType
  <1>7. x < MaxFailures /\ w <= x + more
    BY <1>2, <1>3, <1>4, <1>5, LimitAssumption DEF CountedSince
  <1>8. w <= MaxFailures - 1 + space
    BY <1>6, <1>7, LimitAssumption
  <1>9. QED
    BY <1>1, <1>5, <1>8 DEF AccountOK

LEMMA AddressStarts ==
  ASSUME NEW t \in Nat, NEW b, Ascending(b, t), Len(Since(b, t - BurstWindow)) < MaxBurst,
         NEW s, Ascending(s, t), NEW more \in Int, NEW room \in Int, NEW space \in Int, more <= space,
         AddressOK(b, s, t, more, room)
  PROVE  AddressOK(b, s, t, more, space)
  <1>1. PICK e \in Int : e = t - BurstWindow
    BY BurstAssumption
  <1>2. Len(s) \in Nat /\ Len(b) \in Nat
    BY DEF Ascending
  <1>3. PICK g : g = Since(b, e)
    OBVIOUS
  <1>4. PICK x, y, w : x = CountFrom(b, 0, e) /\ y = CountFrom(g, 0, e) /\ w = CountFrom(s, 0, e)
    OBVIOUS
  <1>5. e <= e /\ Ascending(g, t) /\ x <= y
    BY <1>1, <1>3, <1>4, CountSince
  <1>6. Len(g) \in Nat /\ Len(g) < MaxBurst
    BY <1>1, <1>3, <1>5 DEF Ascending
  <1>7. x \in Nat /\ y \in Nat /\ w \in Nat /\ y <= Len(g)
    BY <1>2, <1>4, <1>6, CountAll
  <1>8. w <= x + more
    BY <1>1, <1>4 DEF AddressOK
  <1>9. w <= MaxBurst - 1 + space
    BY <1>5, <1>6, <1>7, <1>8, BurstAssumption
  <1>10. QED
    BY <1>1, <1>4, <1>9 DEF AddressOK

-----------------------------------------------------------------------------
(* What the requests do to the counts.                                     *)

\* The requests that are at one of the places pcs, for the key k.
Underway(k, pcs) == {r \in Request : job[r].pc \in pcs /\ job[r].key = k}

HowMany(k, pcs) == Cardinality(Underway(k, pcs))

Trying == {"verify", "assert"}
Recording == {"record"}
Failing == {"record", "burst"}

Ordered ==
  /\ \A k \in Key : /\ RecordOK(limit[k], now) /\ Ascending(tries[k], now)
                    /\ cleared[k] <= Len(tries[k])
  /\ \A k \in Key \cup Name : Ascending(burst[k], now)

\* The slack of a key: each request may have passed the check.
Room(k) == lost[k] + Cardinality(Request) - HowMany(k, Trying)

AccountKept(k) ==
  AccountOK(limit[k], tries[k], cleared[k], now, lost[k] + HowMany(k, Recording), Room(k))

AddressKept(k) == AddressOK(burst[k], tries[k], now, lost[k] + HowMany(k, Failing), Room(k))

GuessesKept == Ordered /\ \A k \in Key : AccountKept(k) /\ AddressKept(k)

LEMMA HowManyTyped ==
  ASSUME NEW k, NEW pcs
  PROVE  /\ HowMany(k, pcs) \in Nat /\ HowMany(k, pcs)' \in Nat /\ Cardinality(Request) \in Nat
         /\ IsFiniteSet(Underway(k, pcs)) /\ HowMany(k, pcs) <= Cardinality(Request)
  <1>1. Underway(k, pcs) \subseteq Request /\ Underway(k, pcs)' \subseteq Request
    BY DEF Underway
  <1>2. IsFiniteSet(Underway(k, pcs)) /\ IsFiniteSet(Underway(k, pcs)')
    BY <1>1, RequestAssumption, FS_Subset
  <1>3. Cardinality(Underway(k, pcs)) <= Cardinality(Request)
    BY <1>1, RequestAssumption, FS_Subset
  <1>4. /\ Cardinality(Underway(k, pcs)) \in Nat /\ Cardinality(Underway(k, pcs)') \in Nat
        /\ Cardinality(Request) \in Nat
    BY <1>2, RequestAssumption, FS_CardinalityType
  <1>5. QED
    BY <1>2, <1>3, <1>4 DEF HowMany

\* A free request, those that try and those that failed are different ones.
LEMMA HowManyApart ==
  ASSUME NEW k, NEW r \in Request, Free(r)
  PROVE  HowMany(k, Failing) + HowMany(k, Trying) + 1 <= Cardinality(Request)
  <1> DEFINE A == Underway(k, Trying) \cup {r}
             B == Underway(k, Failing)
  <1>1. A \subseteq Request /\ B \subseteq Request /\ A \cap B = {} /\ r \notin Underway(k, Trying)
    BY DEF Underway, Trying, Failing, Free
  <1>2. IsFiniteSet(A) /\ IsFiniteSet(B) /\ IsFiniteSet(A \cup B)
    BY <1>1, RequestAssumption, FS_Subset, FS_Union
  <1>3. Cardinality(A) = HowMany(k, Trying) + 1
    BY <1>1, HowManyTyped, FS_AddElement DEF HowMany
  <1>4. Cardinality(B) = HowMany(k, Failing)
    BY DEF HowMany
  <1> HIDE DEF A, B
  <1>5. Cardinality(A \cup B) = Cardinality(A) + Cardinality(B) - Cardinality(A \cap B)
    BY <1>2, FS_Union
  <1>6. Cardinality(A \cap B) = 0
    BY <1>1, FS_EmptySet
  <1>7. Cardinality(A \cup B) <= Cardinality(Request)
    BY <1>1, RequestAssumption, FS_Subset
  <1>8. Cardinality(A) \in Nat /\ Cardinality(B) \in Nat
    BY <1>2, FS_CardinalityType
  <1>9. PICK a, b, x, c : /\ a = Cardinality(A) /\ b = Cardinality(B) /\ x = Cardinality(A \cup B)
                          /\ c = Cardinality(Request)
    OBVIOUS
  <1>10. a \in Nat /\ b \in Nat /\ x = a + b /\ x <= c /\ c \in Nat
    BY <1>5, <1>6, <1>7, <1>8, <1>9, HowManyTyped
  <1>11. QED
    BY <1>3, <1>4, <1>9, <1>10, HowManyTyped

LEMMA MoreRecordings ==
  ASSUME NEW k
  PROVE  HowMany(k, Recording) <= HowMany(k, Failing)
  <1>1. Underway(k, Recording) \subseteq Underway(k, Failing)
    BY DEF Underway, Recording, Failing
  <1>2. QED
    BY <1>1, HowManyTyped, FS_Subset DEF HowMany

\* Whether a request counts among those.
OneIf(j, k, pcs) == IF j.pc \in pcs /\ j.key = k THEN 1 ELSE 0

LEMMA HowManyMove ==
  ASSUME SignInType, NEW r \in Request, NEW j \in Job, To(r, j), NEW k, NEW pcs
  PROVE  /\ HowMany(k, pcs)' = HowMany(k, pcs) + OneIf(j, k, pcs) - OneIf(job[r], k, pcs)
         /\ OneIf(job[r], k, pcs) <= HowMany(k, pcs)
  <1>1. job'[r] = j /\ \A q \in Request : q # r => job'[q] = job[q]
    BY JobWritten
  <1>2. PICK H, D : H = Underway(k, pcs) /\ D = Underway(k, pcs)'
    OBVIOUS
  <1>3. /\ IsFiniteSet(H) /\ Cardinality(H) \in Nat
        /\ Cardinality(H) = HowMany(k, pcs) /\ Cardinality(D) = HowMany(k, pcs)'
    BY <1>2, HowManyTyped DEF HowMany
  <1>4. H = {q \in Request : job[q].pc \in pcs /\ job[q].key = k}
    BY <1>2 DEF Underway
  <1>5. D = {q \in Request : job'[q].pc \in pcs /\ job'[q].key = k}
    BY <1>2 DEF Underway
  <1>6. OneIf(j, k, pcs) = IF r \in D THEN 1 ELSE 0
    BY <1>1, <1>5 DEF OneIf
  <1>7. OneIf(job[r], k, pcs) = IF r \in H THEN 1 ELSE 0
    BY <1>4 DEF OneIf
  <1>8. D \ {r} = H \ {r}
    BY <1>1, <1>4, <1>5
  <1>9. CASE r \in H /\ r \in D
    <2>1. D = H
      BY <1>8, <1>9
    <2>2. Cardinality(H \ {r}) = Cardinality(H) - 1 /\ IsFiniteSet(H \ {r})
      BY <1>3, <1>9, FS_RemoveElement
    <2>3. Cardinality(H \ {r}) \in Nat
      BY <2>2, FS_CardinalityType
    <2>4. QED
      BY <1>3, <1>6, <1>7, <1>9, <2>1, <2>2, <2>3
  <1>10. CASE r \in H /\ r \notin D
    <2>1. D = H \ {r}
      BY <1>8, <1>10
    <2>2. Cardinality(D) = Cardinality(H) - 1 /\ IsFiniteSet(D)
      BY <1>3, <1>10, <2>1, FS_RemoveElement
    <2>3. Cardinality(D) \in Nat
      BY <2>2, FS_CardinalityType
    <2>4. QED
      BY <1>3, <1>6, <1>7, <1>10, <2>2, <2>3
  <1>11. CASE r \notin H /\ r \in D
    <2>1. D = H \cup {r}
      BY <1>8, <1>11
    <2>2. Cardinality(D) = Cardinality(H) + 1
      BY <1>3, <1>11, <2>1, FS_AddElement
    <2>3. QED
      BY <1>3, <1>6, <1>7, <1>11, <2>2
  <1>12. CASE r \notin H /\ r \notin D
    <2>1. D = H
      BY <1>8, <1>12
    <2>2. QED
      BY <1>3, <1>6, <1>7, <1>12, <2>1
  <1>13. QED
    BY <1>9, <1>10, <1>11, <1>12

LEMMA KeyTyped ==
  ASSUME SignInType, NEW k \in Key
  PROVE  /\ now \in Nat /\ lost[k] \in Nat /\ cleared[k] \in Nat
         /\ limit[k].fails \in Seq(Nat) /\ limit[k].until \in Nat
         /\ tries[k] \in Seq(Nat) /\ burst[k] \in Seq(Nat)
         /\ HowMany(k, Trying) \in Nat /\ HowMany(k, Recording) \in Nat /\ HowMany(k, Failing) \in Nat
         /\ Cardinality(Request) \in Nat
         /\ Room(k) = lost[k] + Cardinality(Request) - HowMany(k, Trying) /\ Room(k) \in Int
  <1>1. /\ now \in Nat /\ lost[k] \in Nat /\ cleared[k] \in Nat
        /\ limit[k].fails \in Seq(Nat) /\ limit[k].until \in Nat
        /\ tries[k] \in Seq(Nat) /\ burst[k] \in Seq(Nat)
    BY DEF SignInType
  <1>2. QED
    BY <1>1, HowManyTyped DEF Room

\* Both counts of a key when nothing of it is written.
LEMMA AccountEased ==
  ASSUME SignInType, SignInType', NEW k \in Key, AccountKept(k), now <= now',
         limit'[k] = limit[k], tries'[k] = tries[k], cleared'[k] = cleared[k],
         lost[k] + HowMany(k, Recording) <= lost'[k] + HowMany(k, Recording)',
         lost[k] - HowMany(k, Trying) <= lost'[k] - HowMany(k, Trying)'
  PROVE  AccountKept(k)'
  <1>1. cleared[k] \in Nat /\ limit[k].fails \in Seq(Nat) /\ tries[k] \in Seq(Nat)
    BY KeyTyped
  <1>2. now \in Nat /\ now' \in Nat
    BY DEF SignInType
  <1>3. PICK p, q, h, j, x, y, z :
          /\ p = lost[k] /\ q = lost'[k] /\ h = HowMany(k, Recording) /\ j = HowMany(k, Recording)'
          /\ x = HowMany(k, Trying) /\ y = HowMany(k, Trying)' /\ z = Cardinality(Request)
    OBVIOUS
  <1>4. /\ p \in Nat /\ q \in Nat /\ h \in Nat /\ j \in Nat /\ x \in Nat /\ y \in Nat /\ z \in Nat
        /\ p + h <= q + j /\ p - x <= q - y
    <2>1. p \in Nat /\ q \in Nat
      BY <1>3 DEF SignInType
    <2>2. QED
      BY <1>3, <2>1, HowManyTyped
  <1>5. /\ p + h \in Int /\ q + j \in Int /\ p + z - x \in Int /\ q + z - y \in Int
        /\ p + z - x <= q + z - y
    BY <1>4
  <1>6. /\ AccountKept(k) <=> AccountOK(limit[k], tries[k], cleared[k], now, p + h, p + z - x)
        /\ AccountKept(k)' <=> AccountOK(limit[k], tries[k], cleared[k], now', q + j, q + z - y)
    BY <1>3 DEF AccountKept, Room
  <1>7. QED
    BY <1>1, <1>2, <1>4, <1>5, <1>6, AccountEases

LEMMA AddressEased ==
  ASSUME SignInType, SignInType', NEW k \in Key, AddressKept(k), now <= now',
         burst'[k] = burst[k], tries'[k] = tries[k],
         lost[k] + HowMany(k, Failing) <= lost'[k] + HowMany(k, Failing)',
         lost[k] - HowMany(k, Trying) <= lost'[k] - HowMany(k, Trying)'
  PROVE  AddressKept(k)'
  <1>1. burst[k] \in Seq(Nat) /\ tries[k] \in Seq(Nat)
    BY KeyTyped
  <1>2. now \in Nat /\ now' \in Nat
    BY DEF SignInType
  <1>3. PICK p, q, h, j, x, y, z :
          /\ p = lost[k] /\ q = lost'[k] /\ h = HowMany(k, Failing) /\ j = HowMany(k, Failing)'
          /\ x = HowMany(k, Trying) /\ y = HowMany(k, Trying)' /\ z = Cardinality(Request)
    OBVIOUS
  <1>4. /\ p \in Nat /\ q \in Nat /\ h \in Nat /\ j \in Nat /\ x \in Nat /\ y \in Nat /\ z \in Nat
        /\ p + h <= q + j /\ p - x <= q - y
    <2>1. p \in Nat /\ q \in Nat
      BY <1>3 DEF SignInType
    <2>2. QED
      BY <1>3, <2>1, HowManyTyped
  <1>5. /\ p + h \in Int /\ q + j \in Int /\ p + z - x \in Int /\ q + z - y \in Int
        /\ p + z - x <= q + z - y
    BY <1>4
  <1>6. /\ AddressKept(k) <=> AddressOK(burst[k], tries[k], now, p + h, p + z - x)
        /\ AddressKept(k)' <=> AddressOK(burst[k], tries[k], now', q + j, q + z - y)
    BY <1>3 DEF AddressKept, Room
  <1>7. QED
    BY <1>1, <1>2, <1>4, <1>5, <1>6, AddressEases

LEMMA OrderedLater ==
  ASSUME SignInType, SignInType', Ordered, UNCHANGED failures, now <= now'
  PROVE  Ordered'
  <1>1. now \in Nat /\ now' \in Nat
    BY DEF SignInType
  <1>2. ASSUME NEW s, Ascending(s, now)
        PROVE  Ascending(s, now')
    <2>1. \A n \in 1..Len(s) : s[n] \in Nat /\ s[n] <= now
      BY <1>2 DEF Ascending
    <2>2. \A n \in 1..Len(s) : s[n] <= now'
      BY <1>1, <2>1
    <2>3. QED
      BY <1>2, <2>2 DEF Ascending
  <1>3. \A l : RecordOK(l, now) => RecordOK(l, now')
    BY <1>1, <1>2, LimitAssumption DEF RecordOK
  <1>4. QED
    BY <1>2, <1>3 DEF Ordered, failures

\* Nothing is written of a key, and no request begins to try it.
LEMMA KeyQuiet ==
  ASSUME SignInType, SignInType', NEW k \in Key, AccountKept(k), AddressKept(k),
         NEW r \in Request, NEW j \in Job, To(r, j), now' = now,
         limit'[k] = limit[k], tries'[k] = tries[k], cleared'[k] = cleared[k],
         burst'[k] = burst[k], lost'[k] = lost[k],
         OneIf(j, k, Trying) <= OneIf(job[r], k, Trying),
         OneIf(job[r], k, Recording) <= OneIf(j, k, Recording),
         OneIf(job[r], k, Failing) <= OneIf(j, k, Failing)
  PROVE  AccountKept(k)' /\ AddressKept(k)'
  <1>1. now \in Nat /\ lost[k] \in Nat
    BY DEF SignInType
  <1>2. ASSUME NEW pcs
        PROVE  /\ HowMany(k, pcs) \in Nat
               /\ OneIf(j, k, pcs) \in Nat /\ OneIf(job[r], k, pcs) \in Nat
               /\ HowMany(k, pcs)' = HowMany(k, pcs) + OneIf(j, k, pcs) - OneIf(job[r], k, pcs)
    BY HowManyTyped, HowManyMove DEF OneIf
  <1>3. PICK t, u : t = HowMany(k, Trying) /\ u = HowMany(k, Trying)'
    OBVIOUS
  <1>4. t \in Nat /\ u \in Int /\ u <= t
    BY <1>2, <1>3
  <1>5. PICK p, q : p = HowMany(k, Recording) /\ q = HowMany(k, Recording)'
    OBVIOUS
  <1>6. p \in Nat /\ q \in Int /\ p <= q
    BY <1>2, <1>5
  <1>7. PICK f, g : f = HowMany(k, Failing) /\ g = HowMany(k, Failing)'
    OBVIOUS
  <1>8. f \in Nat /\ g \in Int /\ f <= g
    BY <1>2, <1>7
  <1>9. now <= now' /\ lost[k] - t <= lost'[k] - u
    BY <1>1, <1>4
  <1>10. lost[k] + p <= lost'[k] + q /\ lost[k] + f <= lost'[k] + g
    BY <1>1, <1>6, <1>8
  <1>11. AccountKept(k)'
    BY <1>3, <1>5, <1>9, <1>10, AccountEased
  <1>12. AddressKept(k)'
    BY <1>3, <1>7, <1>9, <1>10, AddressEased
  <1>13. QED
    BY <1>11, <1>12

LEMMA QuietStep ==
  ASSUME SignInType, SignInType', GuessesKept, UNCHANGED <<failures, now>>,
         NEW r \in Request, NEW j \in Job, To(r, j), j.pc \notin Trying, job[r].pc \notin Failing
  PROVE  GuessesKept'
  <1>1. now <= now'
    BY DEF SignInType
  <1>2. Ordered'
    BY <1>1, OrderedLater DEF GuessesKept
  <1>3. ASSUME NEW k \in Key
        PROVE  AccountKept(k)' /\ AddressKept(k)'
    <2>1. /\ OneIf(j, k, Trying) <= OneIf(job[r], k, Trying)
          /\ OneIf(job[r], k, Recording) <= OneIf(j, k, Recording)
          /\ OneIf(job[r], k, Failing) <= OneIf(j, k, Failing)
      BY DEF OneIf, Failing, Recording
    <2>2. QED
      BY <2>1, KeyQuiet DEF GuessesKept, failures
  <1>4. QED
    BY <1>2, <1>3 DEF GuessesKept

\* No request moves.
LEMMA IdleStep ==
  ASSUME SignInType, SignInType', GuessesKept, UNCHANGED <<failures, job>>, now <= now'
  PROVE  GuessesKept'
  <1>1. Ordered'
    BY OrderedLater DEF GuessesKept
  <1>2. ASSUME NEW k \in Key
        PROVE  AccountKept(k)' /\ AddressKept(k)'
    <2>1. \A pcs : HowMany(k, pcs) \in Nat /\ HowMany(k, pcs)' = HowMany(k, pcs)
      BY HowManyTyped DEF HowMany, Underway
    <2>2. lost[k] \in Nat
      BY DEF SignInType
    <2>3. UNCHANGED <<limit[k], burst[k], tries[k], cleared[k], lost[k]>>
      BY DEF failures
    <2>4. /\ lost[k] + HowMany(k, Recording) <= lost'[k] + HowMany(k, Recording)'
          /\ lost[k] + HowMany(k, Failing) <= lost'[k] + HowMany(k, Failing)'
          /\ lost[k] - HowMany(k, Trying) <= lost'[k] - HowMany(k, Trying)'
      BY <2>1, <2>2, <2>3
    <2>5. AccountKept(k) /\ AddressKept(k)
      BY DEF GuessesKept
    <2>6. QED
      BY <2>3, <2>4, <2>5, AccountEased, AddressEased
  <1>3. QED
    BY <1>1, <1>2 DEF GuessesKept

\* A free request passes the check and begins to try.
LEMMA StartStep ==
  ASSUME SignInType, SignInType', GuessesKept, UNCHANGED <<failures, now>>,
         NEW r \in Request, Free(r), NEW j \in Job, To(r, j), j.pc \in Trying,
         NEW k \in Key, j.key = k, ~Limited(k)
  PROVE  GuessesKept'
  <1>1. now <= now'
    BY DEF SignInType
  <1>2. Ordered'
    BY <1>1, OrderedLater DEF GuessesKept
  <1>3. ASSUME NEW o \in Key, o # k
        PROVE  AccountKept(o)' /\ AddressKept(o)'
    <2>1. /\ OneIf(j, o, Trying) <= OneIf(job[r], o, Trying)
          /\ OneIf(job[r], o, Recording) <= OneIf(j, o, Recording)
          /\ OneIf(job[r], o, Failing) <= OneIf(j, o, Failing)
      BY <1>3 DEF OneIf, Failing, Recording, Free
    <2>2. QED
      BY <2>1, KeyQuiet DEF GuessesKept, failures
  <1>4. PICK t, p, f, z, w : /\ t = HowMany(k, Trying) /\ p = HowMany(k, Recording) /\ f = HowMany(k, Failing)
                             /\ z = Cardinality(Request) /\ w = lost[k]
    OBVIOUS
  <1>5. t \in Nat /\ p \in Nat /\ f \in Nat /\ z \in Nat /\ w \in Nat
    BY <1>4, HowManyTyped DEF SignInType
  <1>6. HowMany(k, Trying)' = t + 1 /\ HowMany(k, Recording)' = p /\ HowMany(k, Failing)' = f
    <2>1. /\ OneIf(j, k, Trying) = 1 /\ OneIf(j, k, Recording) = 0 /\ OneIf(j, k, Failing) = 0
          /\ OneIf(job[r], k, Trying) = 0 /\ OneIf(job[r], k, Recording) = 0 /\ OneIf(job[r], k, Failing) = 0
      BY DEF OneIf, Trying, Recording, Failing, Free
    <2>2. QED
      BY <1>4, <1>5, <2>1, HowManyMove
  <1>7. f + t + 1 <= z /\ p <= f
    BY <1>4, HowManyApart, MoreRecordings
  <1>8. PICK more, some, room, space : more = w + p /\ some = w + f /\ room = w + z - t
                                       /\ space = w + z - (t + 1)
    OBVIOUS
  <1>9. more \in Int /\ some \in Int /\ room \in Int /\ space \in Int /\ more <= space /\ some <= space
    BY <1>5, <1>7, <1>8
  <1>10. AccountOK(limit[k], tries[k], cleared[k], now, more, room) /\ AddressOK(burst[k], tries[k], now, some, room)
    BY <1>4, <1>8 DEF GuessesKept, AccountKept, AddressKept, Room
  <1>11. /\ now \in Nat /\ cleared[k] \in Nat /\ RecordOK(limit[k], now) /\ Ascending(tries[k], now)
         /\ Ascending(burst[k], now)
    BY DEF SignInType, GuessesKept, Ordered
  <1>12. ~Locked(limit[k], now) /\ Len(Since(burst[k], now - BurstWindow)) < MaxBurst
    <2>1. PICK g : g = Since(burst[k], now - BurstWindow)
      OBVIOUS
    <2>2. now - BurstWindow \in Int /\ now - BurstWindow <= now - BurstWindow
      BY <1>11, BurstAssumption
    <2>3. Ascending(g, now)
      BY <1>11, <2>1, <2>2, CountSince
    <2>4. Len(g) \in Nat
      BY <2>3 DEF Ascending
    <2>5. QED
      BY <2>1, <2>4, BurstAssumption DEF Limited, Recent
  <1>13. /\ AccountOK(limit[k], tries[k], cleared[k], now, more, space)
         /\ AddressOK(burst[k], tries[k], now, some, space)
    <2>1. AccountOK(limit[k], tries[k], cleared[k], now, more, space)
      BY <1>9, <1>10, <1>11, <1>12, AccountStarts
    <2>2. AddressOK(burst[k], tries[k], now, some, space)
      BY <1>9, <1>10, <1>11, <1>12, AddressStarts
    <2>3. QED
      BY <2>1, <2>2
  <1>14. AccountKept(k)' /\ AddressKept(k)'
    BY <1>4, <1>6, <1>8, <1>13 DEF AccountKept, AddressKept, Room, failures
  <1>15. QED
    BY <1>2, <1>3, <1>14 DEF GuessesKept

\* The other keys, when a request at key k goes on with it or ends.
LEMMA OtherKeys ==
  ASSUME SignInType, SignInType', GuessesKept, now' = now,
         NEW r \in Request, NEW j \in Job, To(r, j), NEW k \in Key, job[r].key = k,
         j.key = k \/ j.pc = "idle",
         \A o \in Key : o # k =>
           /\ limit'[o] = limit[o] /\ tries'[o] = tries[o] /\ cleared'[o] = cleared[o]
           /\ burst'[o] = burst[o] /\ lost'[o] = lost[o]
  PROVE  \A o \in Key : o # k => AccountKept(o)' /\ AddressKept(o)'
  <1>1. ASSUME NEW o \in Key, o # k
        PROVE  AccountKept(o)' /\ AddressKept(o)'
    <2>1. /\ OneIf(j, o, Trying) <= OneIf(job[r], o, Trying)
          /\ OneIf(job[r], o, Recording) <= OneIf(j, o, Recording)
          /\ OneIf(job[r], o, Failing) <= OneIf(j, o, Failing)
      BY <1>1 DEF OneIf, Trying, Failing, Recording
    <2>2. QED
      BY <1>1, <2>1, KeyQuiet DEF GuessesKept
  <1>2. QED
    BY <1>1

\* Where a request counts.
LEMMA OnePlaces ==
  ASSUME NEW j
  PROVE  /\ j.pc \in Trying => /\ OneIf(j, j.key, Trying) = 1 /\ OneIf(j, j.key, Recording) = 0
                               /\ OneIf(j, j.key, Failing) = 0
         /\ j.pc = "record" => /\ OneIf(j, j.key, Trying) = 0 /\ OneIf(j, j.key, Recording) = 1
                               /\ OneIf(j, j.key, Failing) = 1
         /\ j.pc = "burst" => /\ OneIf(j, j.key, Trying) = 0 /\ OneIf(j, j.key, Recording) = 0
                              /\ OneIf(j, j.key, Failing) = 1
         /\ j.pc \in {"idle", "clear", "finish"} =>
              \A k : /\ OneIf(j, k, Trying) = 0 /\ OneIf(j, k, Recording) = 0 /\ OneIf(j, k, Failing) = 0
  BY DEF OneIf, Trying, Recording, Failing

LEMMA WrongStep ==
  ASSUME SignInType, SignInType', GuessesKept, NEW r \in Request, VerifyWrong(r)
  PROVE  GuessesKept'
  <1>1. PICK k : k = job[r].key
    OBVIOUS
  <1>2. PICK j : j = [job[r] EXCEPT !.pc = "record"]
    OBVIOUS
  <1>3. /\ job[r].pc \in Trying /\ job[r].pc \in Limitable
        /\ To(r, j) /\ tries' = [tries EXCEPT ![k] = Append(@, now)]
        /\ UNCHANGED <<limit, burst, cleared, lost, now>>
    BY <1>1, <1>2 DEF VerifyWrong, Tried, Goes, AfterWrong, Trying, Limitable
  <1>4. job[r] \in Job /\ k \in Key
    BY <1>1, <1>3, JobFields DEF SignInType
  <1>5. j \in Job /\ j.pc = "record" /\ j.key = k
    BY <1>1, <1>2, <1>3, <1>4, JobFields DEF Job, Limitable
  <1>6. now \in Nat /\ tries[k] \in Seq(Nat) /\ cleared[k] \in Nat /\ limit[k].fails \in Seq(Nat)
        /\ burst[k] \in Seq(Nat)
    BY <1>4 DEF SignInType
  <1>7. tries'[k] = Append(tries[k], now) /\ \A o \in Key : o # k => tries'[o] = tries[o]
    BY <1>3, <1>4 DEF SignInType
  <1>8. \A o \in Key : o # k => AccountKept(o)' /\ AddressKept(o)'
    BY <1>1, <1>3, <1>4, <1>5, <1>7, OtherKeys
  <1>9. Ordered'
    <2>1. Ascending(tries[k], now) /\ cleared[k] <= Len(tries[k])
      BY <1>4 DEF GuessesKept, Ordered
    <2>2. Ascending(tries'[k], now)
      BY <1>6, <1>7, <2>1, Appended
    <2>3. cleared[k] <= Len(tries'[k])
      BY <1>6, <1>7, <2>1
    <2>4. QED
      BY <1>3, <1>7, <2>2, <2>3 DEF GuessesKept, Ordered
  <1>10. PICK t, p, f, z, w : /\ t = HowMany(k, Trying) /\ p = HowMany(k, Recording) /\ f = HowMany(k, Failing)
                              /\ z = Cardinality(Request) /\ w = lost[k]
    OBVIOUS
  <1>11. t \in Nat /\ p \in Nat /\ f \in Nat /\ z \in Nat /\ w \in Nat
    BY <1>4, <1>10, HowManyTyped DEF SignInType
  <1>12. HowMany(k, Trying)' = t - 1 /\ HowMany(k, Recording)' = p + 1 /\ HowMany(k, Failing)' = f + 1
    <2>1. /\ OneIf(j, k, Trying) = 0 /\ OneIf(j, k, Recording) = 1 /\ OneIf(j, k, Failing) = 1
          /\ OneIf(job[r], k, Trying) = 1 /\ OneIf(job[r], k, Recording) = 0 /\ OneIf(job[r], k, Failing) = 0
      BY <1>1, <1>3, <1>5, OnePlaces
    <2>2. QED
      BY <1>3, <1>5, <1>10, <1>11, <2>1, HowManyMove
  <1>13. PICK more, some, room : more = w + p /\ some = w + f /\ room = w + z - t
    OBVIOUS
  <1>14. more \in Int /\ some \in Int /\ room \in Int
    BY <1>11, <1>13
  <1>15. AccountOK(limit[k], tries[k], cleared[k], now, more, room) /\ AddressOK(burst[k], tries[k], now, some, room)
    BY <1>4, <1>10, <1>13 DEF GuessesKept, AccountKept, AddressKept, Room
  <1>16. cleared[k] <= Len(tries[k])
    BY <1>4 DEF GuessesKept, Ordered
  <1>17. AccountOK(limit[k], tries'[k], cleared[k], now, more + 1, room + 1)
    BY <1>6, <1>7, <1>14, <1>15, <1>16, AccountTries
  <1>18. AddressOK(burst[k], tries'[k], now, some + 1, room + 1)
    BY <1>6, <1>7, <1>14, <1>15, AddressTries
  <1>19. more + 1 = w + (p + 1) /\ some + 1 = w + (f + 1) /\ room + 1 = w + z - (t - 1)
    BY <1>11, <1>13
  <1>20. AccountKept(k)' /\ AddressKept(k)'
    BY <1>3, <1>10, <1>12, <1>17, <1>18, <1>19 DEF AccountKept, AddressKept, Room
  <1>21. QED
    BY <1>8, <1>9, <1>20 DEF GuessesKept

LEMMA RecordStep ==
  ASSUME SignInType, SignInType', GuessesKept, NEW r \in Request, Record(r)
  PROVE  GuessesKept'
  <1>1. PICK k : k = job[r].key
    OBVIOUS
  <1>2. PICK j : j = [job[r] EXCEPT !.pc = "burst"]
    OBVIOUS
  <1>3. /\ job[r].pc = "record" /\ job[r].pc \in Limitable
        /\ To(r, j) /\ limit' = [limit EXCEPT ![k] = Failed(@, now)]
        /\ UNCHANGED <<tries, burst, cleared, lost, now>>
    BY <1>1, <1>2 DEF Record, Goes, Limitable
  <1>4. job[r] \in Job /\ k \in Key
    BY <1>1, <1>3, JobFields DEF SignInType
  <1>5. j \in Job /\ j.pc = "burst" /\ j.key = k
    BY <1>1, <1>2, <1>3, <1>4, JobFields DEF Job, Limitable
  <1>6. now \in Nat /\ cleared[k] \in Nat
    BY <1>4 DEF SignInType
  <1>7. limit'[k] = Failed(limit[k], now) /\ \A o \in Key : o # k => limit'[o] = limit[o]
    BY <1>3, <1>4 DEF SignInType
  <1>8. \A o \in Key : o # k => AccountKept(o)' /\ AddressKept(o)'
    BY <1>1, <1>3, <1>4, <1>5, <1>7, OtherKeys
  <1>9. RecordOK(limit[k], now) /\ Ascending(tries[k], now) /\ cleared[k] <= Len(tries[k])
    BY <1>4 DEF GuessesKept, Ordered
  <1>10. RecordOK(limit'[k], now)
    BY <1>6, <1>7, <1>9, FailedRecord
  <1>11. Ordered'
    BY <1>3, <1>7, <1>10 DEF GuessesKept, Ordered
  <1>12. PICK t, p, f, z, w : /\ t = HowMany(k, Trying) /\ p = HowMany(k, Recording) /\ f = HowMany(k, Failing)
                              /\ z = Cardinality(Request) /\ w = lost[k]
    OBVIOUS
  <1>13. t \in Nat /\ p \in Nat /\ f \in Nat /\ z \in Nat /\ w \in Nat
    BY <1>4, <1>12, HowManyTyped DEF SignInType
  <1>14. HowMany(k, Trying)' = t /\ HowMany(k, Recording)' = p - 1 /\ HowMany(k, Failing)' = f /\ p >= 1
    <2>1. /\ OneIf(j, k, Trying) = 0 /\ OneIf(j, k, Recording) = 0 /\ OneIf(j, k, Failing) = 1
          /\ OneIf(job[r], k, Trying) = 0 /\ OneIf(job[r], k, Recording) = 1 /\ OneIf(job[r], k, Failing) = 1
      BY <1>1, <1>3, <1>5, OnePlaces
    <2>2. QED
      BY <1>3, <1>5, <1>12, <1>13, <2>1, HowManyMove
  <1>15. AddressKept(k)'
    <2>1. now <= now' /\ w + f <= w + f /\ w - t <= w - t
      BY <1>3, <1>6, <1>13
    <2>2. AddressKept(k)
      BY <1>4 DEF GuessesKept
    <2>3. QED
      BY <1>3, <1>4, <1>12, <1>14, <2>1, <2>2, AddressEased
  <1>16. PICK more, room : more = w + p /\ room = w + z - t
    OBVIOUS
  <1>17. more \in Int /\ room \in Int /\ more >= 1 /\ more - 1 = w + (p - 1)
    BY <1>13, <1>14, <1>16
  <1>18. AccountOK(limit[k], tries[k], cleared[k], now, more, room)
    BY <1>4, <1>12, <1>16 DEF GuessesKept, AccountKept, Room
  <1>19. AccountOK(limit'[k], tries[k], cleared[k], now, more - 1, room)
    BY <1>6, <1>7, <1>9, <1>17, <1>18, AccountRecords
  <1>20. AccountKept(k)'
    BY <1>3, <1>12, <1>14, <1>16, <1>17, <1>19 DEF AccountKept, Room
  <1>21. QED
    BY <1>8, <1>11, <1>15, <1>20 DEF GuessesKept

LEMMA LostStep ==
  ASSUME SignInType, SignInType', GuessesKept, NEW r \in Request, RecordFails(r)
  PROVE  GuessesKept'
  <1>1. PICK k : k = job[r].key
    OBVIOUS
  <1>2. /\ job[r].pc = "record" /\ job[r].pc \in Limitable
        /\ To(r, NoJob) /\ lost' = [lost EXCEPT ![k] = @ + 1]
        /\ UNCHANGED <<limit, tries, burst, cleared, now>>
    BY <1>1 DEF RecordFails, Done, Limitable
  <1>3. job[r] \in Job /\ k \in Key /\ NoJob \in Job /\ NoJob.pc = "idle"
    BY <1>1, <1>2, JobFields, NoJobTyped DEF SignInType, NoJob
  <1>4. now \in Nat /\ lost[k] \in Nat
    BY <1>3 DEF SignInType
  <1>5. lost'[k] = lost[k] + 1 /\ \A o \in Key : o # k => lost'[o] = lost[o]
    BY <1>2, <1>3 DEF SignInType
  <1>6. \A o \in Key : o # k => AccountKept(o)' /\ AddressKept(o)'
    BY <1>1, <1>2, <1>3, <1>5, OtherKeys
  <1>7. Ordered'
    BY <1>2 DEF GuessesKept, Ordered
  <1>8. PICK t, p, f, w : /\ t = HowMany(k, Trying) /\ p = HowMany(k, Recording) /\ f = HowMany(k, Failing)
                          /\ w = lost[k]
    OBVIOUS
  <1>9. t \in Nat /\ p \in Nat /\ f \in Nat /\ w \in Nat
    BY <1>4, <1>8, HowManyTyped
  <1>10. HowMany(k, Trying)' = t /\ HowMany(k, Recording)' = p - 1 /\ HowMany(k, Failing)' = f - 1
    <2>1. /\ OneIf(NoJob, k, Trying) = 0 /\ OneIf(NoJob, k, Recording) = 0 /\ OneIf(NoJob, k, Failing) = 0
          /\ OneIf(job[r], k, Trying) = 0 /\ OneIf(job[r], k, Recording) = 1 /\ OneIf(job[r], k, Failing) = 1
      BY <1>1, <1>2, <1>3, OnePlaces
    <2>2. QED
      BY <1>2, <1>3, <1>8, <1>9, <2>1, HowManyMove
  <1>11. now <= now' /\ w + p <= (w + 1) + (p - 1) /\ w + f <= (w + 1) + (f - 1) /\ w - t <= (w + 1) - t
    BY <1>2, <1>4, <1>9
  <1>12. AccountKept(k) /\ AddressKept(k)
    BY <1>3 DEF GuessesKept
  <1>13. AccountKept(k)'
    BY <1>2, <1>3, <1>5, <1>8, <1>10, <1>11, <1>12, AccountEased
  <1>14. AddressKept(k)'
    BY <1>2, <1>3, <1>5, <1>8, <1>10, <1>11, <1>12, AddressEased
  <1>15. QED
    BY <1>6, <1>7, <1>13, <1>14 DEF GuessesKept

LEMMA AddressStep ==
  ASSUME SignInType, SignInType', GuessesKept, NEW r \in Request, RecordAddress(r)
  PROVE  GuessesKept'
  <1>1. PICK k : k = job[r].key
    OBVIOUS
  <1>2. /\ job[r].pc = "burst" /\ job[r].pc \in Limitable
        /\ To(r, NoJob)
        /\ burst' = [burst EXCEPT ![k] = Append(Since(burst[k], now - BurstWindow), now)]
        /\ UNCHANGED <<limit, tries, lost, cleared, now>>
    BY <1>1 DEF RecordAddress, Recent, Done, Limitable
  <1>3. job[r] \in Job /\ k \in Key /\ NoJob \in Job /\ NoJob.pc = "idle"
    BY <1>1, <1>2, JobFields, NoJobTyped DEF SignInType, NoJob
  <1>4. now \in Nat
    BY DEF SignInType
  <1>5. PICK e \in Int : e = now - BurstWindow /\ e <= e
    BY <1>4, BurstAssumption
  <1>6. /\ burst'[k] = Append(Since(burst[k], e), now)
        /\ \A o \in Key \cup Name : o # k => burst'[o] = burst[o]
    BY <1>2, <1>3, <1>5 DEF SignInType
  <1>7. \A o \in Key : o # k => AccountKept(o)' /\ AddressKept(o)'
    BY <1>1, <1>2, <1>3, <1>6, OtherKeys
  <1>8. Ascending(burst[k], now) /\ Ascending(tries[k], now)
    BY <1>3 DEF GuessesKept, Ordered
  <1>9. Ascending(Since(burst[k], e), now)
    BY <1>4, <1>5, <1>8, CountSince
  <1>10. Ascending(burst'[k], now)
    BY <1>4, <1>6, <1>9, Appended
  <1>11. Ordered'
    BY <1>2, <1>6, <1>10 DEF GuessesKept, Ordered
  <1>12. PICK t, p, f, z, w : /\ t = HowMany(k, Trying) /\ p = HowMany(k, Recording) /\ f = HowMany(k, Failing)
                              /\ z = Cardinality(Request) /\ w = lost[k]
    OBVIOUS
  <1>13. t \in Nat /\ p \in Nat /\ f \in Nat /\ z \in Nat /\ w \in Nat
    BY <1>3, <1>12, HowManyTyped DEF SignInType
  <1>14. HowMany(k, Trying)' = t /\ HowMany(k, Recording)' = p /\ HowMany(k, Failing)' = f - 1 /\ f >= 1
    <2>1. /\ OneIf(NoJob, k, Trying) = 0 /\ OneIf(NoJob, k, Recording) = 0 /\ OneIf(NoJob, k, Failing) = 0
          /\ OneIf(job[r], k, Trying) = 0 /\ OneIf(job[r], k, Recording) = 0 /\ OneIf(job[r], k, Failing) = 1
      BY <1>1, <1>2, <1>3, OnePlaces
    <2>2. QED
      BY <1>2, <1>3, <1>12, <1>13, <2>1, HowManyMove
  <1>15. AccountKept(k)'
    <2>1. now <= now' /\ w + p <= w + p /\ w - t <= w - t
      BY <1>2, <1>4, <1>13
    <2>2. AccountKept(k)
      BY <1>3 DEF GuessesKept
    <2>3. QED
      BY <1>2, <1>3, <1>12, <1>14, <2>1, <2>2, AccountEased
  <1>16. PICK more, room : more = w + f /\ room = w + z - t
    OBVIOUS
  <1>17. more \in Int /\ room \in Int /\ more >= 1 /\ more - 1 = w + (f - 1)
    BY <1>13, <1>14, <1>16
  <1>18. AddressOK(burst[k], tries[k], now, more, room)
    BY <1>3, <1>12, <1>16 DEF GuessesKept, AddressKept, Room
  <1>19. AddressOK(burst'[k], tries[k], now, more - 1, room)
    BY <1>4, <1>5, <1>6, <1>8, <1>17, <1>18, AddressRecords
  <1>20. AddressKept(k)'
    BY <1>2, <1>12, <1>14, <1>16, <1>17, <1>19 DEF AddressKept, Room
  <1>21. QED
    BY <1>7, <1>11, <1>15, <1>20 DEF GuessesKept

LEMMA ClearStep ==
  ASSUME SignInType, SignInType', GuessesKept, NEW r \in Request, Clear(r)
  PROVE  GuessesKept'
  <1>1. PICK k : k = job[r].key
    OBVIOUS
  <1>2. PICK j : To(r, j) /\ (j = NoJob \/ j = [job[r] EXCEPT !.pc = "finish"])
    BY DEF Clear, Done, Goes
  <1>3. /\ job[r].pc = "clear" /\ job[r].pc \in Limitable
        /\ limit' = [limit EXCEPT ![k] = NoLimit]
        /\ cleared' = [cleared EXCEPT ![k] = Len(tries[k])]
        /\ UNCHANGED <<tries, burst, lost, now>>
    BY <1>1 DEF Clear, Limitable
  <1>4. job[r] \in Job /\ k \in Key
    BY <1>1, <1>3, JobFields DEF SignInType
  <1>5. j \in Job /\ (j.pc = "idle" \/ (j.pc = "finish" /\ j.key = k))
    BY <1>1, <1>2, <1>3, <1>4, JobFields, NoJobTyped DEF Job, Limitable, NoJob
  <1>6. now \in Nat /\ tries[k] \in Seq(Nat) /\ Len(tries[k]) \in Nat
    BY <1>4 DEF SignInType
  <1>7. /\ limit'[k] = NoLimit /\ cleared'[k] = Len(tries[k])
        /\ \A o \in Key : o # k => limit'[o] = limit[o] /\ cleared'[o] = cleared[o]
    BY <1>3, <1>4 DEF SignInType
  <1>8. \A o \in Key : o # k => AccountKept(o)' /\ AddressKept(o)'
    BY <1>1, <1>2, <1>3, <1>4, <1>5, <1>7, OtherKeys
  <1>9. RecordOK(NoLimit, now)
    BY <1>6, LimitAssumption DEF RecordOK, Ascending, NoLimit
  <1>10. Ordered'
    BY <1>3, <1>6, <1>7, <1>9 DEF GuessesKept, Ordered
  <1>11. PICK t, p, f, z, w : /\ t = HowMany(k, Trying) /\ p = HowMany(k, Recording) /\ f = HowMany(k, Failing)
                              /\ z = Cardinality(Request) /\ w = lost[k]
    OBVIOUS
  <1>12. t \in Nat /\ p \in Nat /\ f \in Nat /\ z \in Nat /\ w \in Nat /\ t <= z
    BY <1>4, <1>11, HowManyTyped DEF SignInType
  <1>13. HowMany(k, Trying)' = t /\ HowMany(k, Recording)' = p /\ HowMany(k, Failing)' = f
    <2>1. /\ OneIf(j, k, Trying) = 0 /\ OneIf(j, k, Recording) = 0 /\ OneIf(j, k, Failing) = 0
          /\ OneIf(job[r], k, Trying) = 0 /\ OneIf(job[r], k, Recording) = 0 /\ OneIf(job[r], k, Failing) = 0
      BY <1>3, <1>5, OnePlaces
    <2>2. QED
      BY <1>2, <1>5, <1>11, <1>12, <2>1, HowManyMove
  <1>14. AddressKept(k)'
    <2>1. now <= now' /\ w + f <= w + f /\ w - t <= w - t
      BY <1>3, <1>6, <1>12
    <2>2. AddressKept(k)
      BY <1>4 DEF GuessesKept
    <2>3. QED
      BY <1>3, <1>4, <1>11, <1>13, <2>1, <2>2, AddressEased
  <1>15. PICK more, room : more = w + p /\ room = w + z - t
    OBVIOUS
  <1>16. more \in Nat /\ room \in Nat
    BY <1>12, <1>15
  <1>17. AccountOK(NoLimit, tries[k], Len(tries[k]), now, more, room)
    BY <1>6, <1>16, AccountClears
  <1>18. AccountKept(k)'
    BY <1>3, <1>7, <1>11, <1>13, <1>15, <1>17 DEF AccountKept, Room
  <1>19. QED
    BY <1>8, <1>10, <1>14, <1>18 DEF GuessesKept

\* A link counts as an attempt; a name may be one of the keys.
LEMMA LinkStep ==
  ASSUME SignInType, SignInType', GuessesKept, NEW n \in Name, RequestLink(n)
  PROVE  GuessesKept'
  <1>1. /\ burst' = [burst EXCEPT ![n] = Append(Since(burst[n], now - BurstWindow), now)]
        /\ UNCHANGED <<limit, tries, lost, cleared, job, now>>
    BY DEF RequestLink, Recent
  <1>2. now \in Nat
    BY DEF SignInType
  <1>3. PICK e \in Int : e = now - BurstWindow /\ e <= e
    BY <1>2, BurstAssumption
  <1>4. /\ burst'[n] = Append(Since(burst[n], e), now)
        /\ \A o \in Key \cup Name : o # n => burst'[o] = burst[o]
    BY <1>1, <1>3 DEF SignInType
  <1>5. Ascending(burst[n], now)
    BY DEF GuessesKept, Ordered
  <1>6. Ascending(Since(burst[n], e), now)
    BY <1>2, <1>3, <1>5, CountSince
  <1>7. Ascending(burst'[n], now)
    BY <1>2, <1>4, <1>6, Appended
  <1>8. Ordered'
    BY <1>1, <1>4, <1>7 DEF GuessesKept, Ordered
  <1>9. ASSUME NEW k \in Key
        PROVE  AccountKept(k)' /\ AddressKept(k)'
    <2>1. \A pcs : HowMany(k, pcs) \in Nat /\ HowMany(k, pcs)' = HowMany(k, pcs)
      BY <1>1, HowManyTyped DEF HowMany, Underway
    <2>2. lost[k] \in Nat /\ lost'[k] = lost[k] /\ now <= now'
      BY <1>1, <1>2 DEF SignInType
    <2>3. /\ lost[k] + HowMany(k, Recording) <= lost'[k] + HowMany(k, Recording)'
          /\ lost[k] + HowMany(k, Failing) <= lost'[k] + HowMany(k, Failing)'
          /\ lost[k] - HowMany(k, Trying) <= lost'[k] - HowMany(k, Trying)'
      BY <2>1, <2>2
    <2>4. AccountKept(k) /\ AddressKept(k)
      BY DEF GuessesKept
    <2>5. AccountKept(k)'
      BY <1>1, <2>2, <2>3, <2>4, AccountEased
    <2>6. CASE k # n
      BY <1>1, <1>4, <2>2, <2>3, <2>4, <2>5, <2>6, AddressEased
    <2>7. CASE k = n
      <3>1. PICK t, f, z, w : /\ t = HowMany(k, Trying) /\ f = HowMany(k, Failing)
                              /\ z = Cardinality(Request) /\ w = lost[k]
        OBVIOUS
      <3>2. t \in Nat /\ f \in Nat /\ z \in Nat /\ w \in Nat
        BY <2>2, <3>1, HowManyTyped
      <3>3. PICK more, some, room : more = w + f /\ some = more + 1 /\ room = w + z - t
        OBVIOUS
      <3>4. /\ more \in Int /\ some \in Int /\ room \in Int
            /\ more <= some /\ some >= 1 /\ some - 1 = more /\ room <= room
        BY <3>2, <3>3
      <3>5. /\ burst[k] \in Seq(Nat) /\ tries[k] \in Seq(Nat) /\ Ascending(tries[k], now)
            /\ Ascending(burst[k], now) /\ now <= now
        BY <1>2, <1>5, <2>7 DEF SignInType, GuessesKept, Ordered
      <3>6. AddressOK(burst[k], tries[k], now, more, room)
        BY <2>4, <3>1, <3>3 DEF AddressKept, Room
      <3>7. AddressOK(burst[k], tries[k], now, some, room)
        BY <1>2, <3>4, <3>5, <3>6, AddressEases
      <3>8. AddressOK(burst'[k], tries[k], now, more, room)
        BY <1>2, <1>3, <1>4, <2>7, <3>4, <3>5, <3>7, AddressRecords
      <3>9. AddressKept(k)'
        BY <1>1, <2>1, <3>1, <3>3, <3>8 DEF AddressKept, Room
      <3>10. QED
        BY <2>5, <3>9
    <2>8. QED
      BY <2>6, <2>7
  <1>10. QED
    BY <1>8, <1>9 DEF GuessesKept

(* Every step of a request keeps its counts: it is one of those above, or   *)
(* writes none of them and neither begins to try nor leaves a failure.      *)
LEMMA RequestStep ==
  ASSUME SignInType, SignInType', GuessesKept, NEW r \in Request, Step(r)
  PROVE  GuessesKept'
  <1>1. PICK j \in Job : To(r, j)
    BY JobSteps
  <1>2. \A x : To(r, x) => x = j
    BY <1>1, JobWritten DEF To, SignInType
  <1>3. job[r] \in Job /\ NoJob.pc = "idle" /\ "pc" \in DOMAIN NoJob
    BY DEF SignInType, NoJob
  <1>4. CASE UNCHANGED <<failures, now>> /\ j.pc \notin Trying /\ job[r].pc \notin Failing
    BY <1>1, <1>4, QuietStep
  <1>5. CASE PasswordStarts(r) \/ SudoStarts(r)
    <2>1. PICK k, how : /\ k \in Key /\ ~Limited(k) /\ Free(r) /\ UNCHANGED <<failures, now>>
                        /\ To(r, [NoJob EXCEPT !.pc = "verify", !.key = k, !.s = Primary(how, {})])
      BY <1>5 DEF PasswordStarts, SudoStarts, Key
    <2>2. j = [NoJob EXCEPT !.pc = "verify", !.key = k, !.s = Primary(how, {})]
      BY <1>2, <2>1
    <2>3. j.pc \in Trying /\ j.key = k
      BY <2>2 DEF NoJob, Trying
    <2>4. QED
      BY <1>1, <2>1, <2>3, StartStep
  <1>6. CASE VerifyWrong(r) \/ Record(r) \/ RecordFails(r) \/ RecordAddress(r) \/ Clear(r)
    BY <1>6, WrongStep, RecordStep, LostStep, AddressStep, ClearStep
  <1>7. CASE VerifyRight(r)
    <2>1. PICK factor : \/ Done(r)
                        \/ To(r, [job[r] EXCEPT !.pc = "clear", !.then = "finish", !.s.factor = factor])
      BY <1>7 DEF VerifyRight
    <2>2. j = NoJob \/ j = [job[r] EXCEPT !.pc = "clear", !.then = "finish", !.s.factor = factor]
      BY <1>2, <2>1 DEF Done
    <2>3. j.pc \in {"idle", "clear"}
      BY <1>3, <2>2, JobFields
    <2>4. job[r].pc = "verify" /\ UNCHANGED <<failures, now>>
      BY <1>7 DEF VerifyRight
    <2>5. QED
      BY <1>4, <2>3, <2>4 DEF Trying, Failing
  <1>8. CASE StepUp(r) \/ Issue(r) \/ StoreFails(r)
    <2>1. j = NoJob /\ job[r].pc \in {"clear", "finish"} /\ UNCHANGED <<failures, now>>
      BY <1>2, <1>8 DEF StepUp, Issue, StoreFails, Earned, Done
    <2>2. QED
      BY <1>3, <1>4, <2>1 DEF Trying, Failing
  <1>9. CASE Join(r) \/ Exchange(r) \/ Enrol(r)
    <2>1. ASSUME Join(r)
          PROVE  j.pc \in {"idle", "finish", "join"}
      <3>1. \/ Done(r)
            \/ To(r, [NoJob EXCEPT !.pc = "finish", !.s = Completed(job[r].of)])
        BY <2>1 DEF Join
      <3>2. j = NoJob \/ j = [NoJob EXCEPT !.pc = "finish", !.s = Completed(job[r].of)]
        BY <1>2, <3>1 DEF Done
      <3>3. QED
        BY <1>3, <3>2
    <2>2. ASSUME Exchange(r)
          PROVE  j.pc \in {"idle", "finish", "join"}
      <3>1. \/ Done(r)
            \/ To(r, [NoJob EXCEPT !.pc = "finish", !.s = Primary("oidc", {job[r].of})])
        BY <2>2 DEF Exchange
      <3>2. j = NoJob \/ j = [NoJob EXCEPT !.pc = "finish", !.s = Primary("oidc", {job[r].of})]
        BY <1>2, <3>1 DEF Done
      <3>3. QED
        BY <1>3, <3>2
    <2>3. ASSUME Enrol(r)
          PROVE  j.pc \in {"idle", "finish", "join"}
      <3>1. PICK t : \/ Done(r)
                     \/ To(r, [NoJob EXCEPT !.pc = "join", !.of = t, !.then = "totp"])
        BY <2>3 DEF Enrol
      <3>2. j = NoJob \/ j = [NoJob EXCEPT !.pc = "join", !.of = t, !.then = "totp"]
        BY <1>2, <3>1 DEF Done
      <3>3. QED
        BY <1>3, <3>2
    <2>4. j.pc \in {"idle", "finish", "join"}
      BY <1>9, <2>1, <2>2, <2>3
    <2>5. job[r].pc \in {"join", "exchange", "enrol"} /\ UNCHANGED <<failures, now>>
      BY <1>9 DEF Join, Exchange, Enrol
    <2>6. QED
      BY <1>4, <2>4, <2>5 DEF Trying, Failing
  <1>10. CASE PersistRefused(r) \/ Attest(r)
    <2>1. PICK pc \in {"record", "join"} : Done(r) \/ To(r, [job[r] EXCEPT !.pc = pc])
      BY <1>10 DEF PersistRefused, Attest, Goes
    <2>2. j = NoJob \/ j = [job[r] EXCEPT !.pc = pc]
      BY <1>2, <2>1 DEF Done
    <2>3. j.pc \in {"idle", "record", "join"}
      BY <1>3, <2>2, JobFields
    <2>4. job[r].pc \in {"assert", "attest"} /\ UNCHANGED <<failures, now>>
      BY <1>10 DEF PersistRefused, Attest
    <2>5. QED
      BY <1>4, <2>3, <2>4 DEF Trying, Failing
  <1>11. CASE PersistStep(r) \/ PersistPrimary(r)
    <2>1. PICK s, then : \/ Done(r)
                         \/ To(r, [NoJob EXCEPT !.pc = "clear", !.key = "passkey", !.then = then, !.s = s])
                         \/ To(r, [NoJob EXCEPT !.pc = "clear", !.key = "passkey", !.s = s, !.then = then])
      BY <1>11 DEF PersistStep, PersistPrimary
    <2>2. \/ j = NoJob
          \/ j = [NoJob EXCEPT !.pc = "clear", !.key = "passkey", !.then = then, !.s = s]
          \/ j = [NoJob EXCEPT !.pc = "clear", !.key = "passkey", !.s = s, !.then = then]
      BY <1>2, <2>1 DEF Done
    <2>3. j.pc \in {"idle", "clear"}
      BY <1>3, <2>2
    <2>4. job[r].pc = "assert" /\ UNCHANGED <<failures, now>>
      BY <1>11 DEF PersistStep, PersistPrimary
    <2>5. QED
      BY <1>4, <2>3, <2>4 DEF Trying, Failing
  <1>12. CASE PasskeyUnknown(r) \/ \E t \in Token \cup {Nil} : PasskeyStarts(r, t)
    <2>1. PICK k : UNCHANGED job \/ To(r, [NoJob EXCEPT !.pc = "record", !.key = k])
      BY <1>12 DEF PasskeyUnknown, PasskeyStarts
    <2>2. j = job[r] \/ j = [NoJob EXCEPT !.pc = "record", !.key = k]
      BY <1>2, <2>1, JobStays
    <2>3. job[r].pc = "idle" /\ UNCHANGED <<failures, now>>
      BY <1>12 DEF PasskeyUnknown, PasskeyStarts, Free
    <2>4. j.pc \in {"idle", "record"}
      BY <2>2, <2>3 DEF NoJob
    <2>5. QED
      BY <1>4, <2>3, <2>4 DEF Trying, Failing
  <1>13. CASE \E t \in Token : \/ UseLink(r, t) \/ OidcReturns(r, t) \/ TotpStarts(r, t)
                               \/ SetupConfirms(r, t) \/ RegisterReturns(r, t)
    <2>1. PICK t \in Token : \/ UseLink(r, t) \/ OidcReturns(r, t) \/ TotpStarts(r, t)
                             \/ SetupConfirms(r, t) \/ RegisterReturns(r, t)
      BY <1>13
    <2>2. job[r].pc = "idle" /\ UNCHANGED <<failures, now>>
      BY <2>1 DEF UseLink, OidcReturns, TotpStarts, SetupConfirms, RegisterReturns, Free
    <2>3. ASSUME UseLink(r, t)
          PROVE  j.pc \in {"idle", "finish", "exchange", "join", "enrol", "attest"}
      <3>1. To(r, NoJob) \/ To(r, [NoJob EXCEPT !.pc = "finish", !.s = Primary("link", {t})])
        BY <2>3 DEF UseLink
      <3>2. j = NoJob \/ j = [NoJob EXCEPT !.pc = "finish", !.s = Primary("link", {t})]
        BY <1>2, <3>1
      <3>3. QED
        BY <1>3, <3>2
    <2>4. ASSUME OidcReturns(r, t)
          PROVE  j.pc \in {"idle", "finish", "exchange", "join", "enrol", "attest"}
      <3>1. j = [NoJob EXCEPT !.pc = "exchange", !.of = t]
        BY <1>2, <2>4 DEF OidcReturns
      <3>2. QED
        BY <1>3, <3>1
    <2>5. ASSUME TotpStarts(r, t)
          PROVE  j.pc \in {"idle", "finish", "exchange", "join", "enrol", "attest"}
      <3>1. j = [NoJob EXCEPT !.pc = "join", !.of = t, !.then = "totp"]
        BY <1>2, <2>5 DEF TotpStarts
      <3>2. QED
        BY <1>3, <3>1
    <2>6. ASSUME SetupConfirms(r, t)
          PROVE  j.pc \in {"idle", "finish", "exchange", "join", "enrol", "attest"}
      <3>1. j = [NoJob EXCEPT !.pc = "enrol", !.of = t, !.s.used = {pending[t].of}]
        BY <1>2, <2>6 DEF SetupConfirms
      <3>2. QED
        BY <1>3, <3>1
    <2>7. ASSUME RegisterReturns(r, t)
          PROVE  j.pc \in {"idle", "finish", "exchange", "join", "enrol", "attest"}
      <3>1. j = [NoJob EXCEPT !.pc = "attest", !.of = pending[t].of, !.then = "passkey"]
        BY <1>2, <2>7 DEF RegisterReturns
      <3>2. QED
        BY <1>3, <3>1
    <2>8. QED
      BY <1>4, <2>1, <2>2, <2>3, <2>4, <2>5, <2>6, <2>7 DEF Trying, Failing
  <1>14. CASE \E t \in Token : PasskeyReturns(r, t)
    <2>1. PICK t \in Token : PasskeyReturns(r, t)
      BY <1>14
    <2>2. PICK of : of = pending[t].of
      OBVIOUS
    <2>3. /\ Free(r) /\ UNCHANGED <<failures, now>>
          /\ \/ /\ ~Limited("passkey")
                /\ To(r, [NoJob EXCEPT !.pc = "assert", !.key = "passkey", !.of = of, !.s.used = {t}])
             \/ UNCHANGED job
      BY <2>1, <2>2 DEF PasskeyReturns
    <2>4. CASE UNCHANGED job
      <3>1. j = job[r]
        BY <1>2, <2>4, JobStays
      <3>2. QED
        BY <1>4, <2>3, <3>1 DEF Trying, Failing, Free
    <2>5. CASE /\ ~Limited("passkey")
               /\ To(r, [NoJob EXCEPT !.pc = "assert", !.key = "passkey", !.of = of, !.s.used = {t}])
      <3>1. j = [NoJob EXCEPT !.pc = "assert", !.key = "passkey", !.of = of, !.s.used = {t}]
        BY <1>2, <2>5
      <3>2. j.pc \in Trying /\ j.key = "passkey" /\ "passkey" \in Key
        BY <3>1 DEF NoJob, Trying, Key
      <3>3. QED
        BY <1>1, <2>3, <2>5, <3>2, StartStep
    <2>6. QED
      BY <2>3, <2>4, <2>5
  <1>15. QED
    BY <1>5, <1>6, <1>7, <1>8, <1>9, <1>10, <1>11, <1>12, <1>13, <1>14 DEF Step

LEMMA GuessesStep ==
  ASSUME SignInType, SignInType', GuessesKept, [SignInNext]_signInVars
  PROVE  GuessesKept'
  <1>1. now \in Nat
    BY DEF SignInType
  <1>2. CASE \E r \in Request : Step(r)
    BY <1>2, RequestStep
  <1>3. CASE \E n \in Name : RequestLink(n)
    BY <1>3, LinkStep
  <1>4. CASE \/ \E t \in Token : SetupStarts(t)
             \/ \E t \in Token \cup {Nil} : RegisterStarts(t)
             \/ OidcStarts \/ ChangeAuth \/ DeletePasskey \/ Second \/ UNCHANGED signInVars
    <2>1. UNCHANGED <<failures, job>> /\ (now' = now \/ now' = now + 1)
      BY <1>4 DEF SetupStarts, RegisterStarts, OidcStarts, ChangeAuth, DeletePasskey, Second,
           signInVars, failures
    <2>2. now <= now'
      BY <1>1, <2>1
    <2>3. QED
      BY <2>1, <2>2, IdleStep
  <1>5. QED
    BY <1>2, <1>3, <1>4 DEF SignInNext

LEMMA GuessesInit ==
  ASSUME SignInInit, SignInType
  PROVE  GuessesKept
  <1>1. /\ \A k \in Key : limit[k] = NoLimit /\ tries[k] = <<>> /\ cleared[k] = 0 /\ lost[k] = 0
        /\ \A k \in Key \cup Name : burst[k] = <<>>
        /\ now \in Nat /\ \A r \in Request : job[r].pc = "idle"
    BY DEF SignInInit, NoJob
  <1>2. Ascending(<<>>, now) /\ RecordOK(NoLimit, now) /\ Len(<<>>) = 0 /\ <<>> \in Seq(Nat)
    BY <1>1, LimitAssumption DEF Ascending, RecordOK, NoLimit
  <1>3. ASSUME NEW k \in Key
        PROVE  AccountKept(k) /\ AddressKept(k)
    <2>1. Underway(k, Trying) = {} /\ Underway(k, Recording) = {} /\ Underway(k, Failing) = {}
      BY <1>1 DEF Underway, Trying, Recording, Failing
    <2>2. HowMany(k, Trying) = 0 /\ HowMany(k, Recording) = 0 /\ HowMany(k, Failing) = 0
      BY <2>1, FS_EmptySet DEF HowMany
    <2>3. PICK z \in Nat : z = Cardinality(Request)
      BY HowManyTyped
    <2>4. lost[k] + HowMany(k, Recording) = 0 /\ lost[k] + HowMany(k, Failing) = 0 /\ Room(k) = z
      BY <1>1, <2>2, <2>3 DEF Room
    <2>5. AccountOK(NoLimit, <<>>, Len(<<>>), now, 0, z)
      BY <1>1, <1>2, AccountClears
    <2>6. AddressOK(<<>>, <<>>, now, 0, z)
      <3>1. \A c : CountFrom(<<>>, 0, c) = 0
        BY <1>2, CountType
      <3>2. QED
        BY <1>1, <3>1, BurstAssumption DEF AddressOK
    <2>7. QED
      BY <1>1, <1>2, <2>4, <2>5, <2>6 DEF AccountKept, AddressKept
  <1>4. QED
    BY <1>1, <1>2, <1>3 DEF GuessesKept, Ordered

(* However the requests interleave, an account is guessed at and an address *)
(* guesses no more often in a window than the limit allows, but for one     *)
(* guess of each request under way and each failure that could not be       *)
(* stored.                                                                  *)
THEOREM GuessesCounted == SignInSpec => []GuessesBounded
  <1> DEFINE Inv == SignInType /\ TokensKept /\ GuessesKept
  <1>1. SignInInit => Inv
    BY TypeInit, GuessesInit
  <1>2. Inv /\ [SignInNext]_signInVars => Inv'
    BY TypeStep, GuessesStep
  <1>3. Inv => GuessesBounded
    <2> SUFFICES ASSUME SignInType, GuessesKept, NEW k \in Key
                 PROVE  LET slack == Cardinality(Request) + lost[k] - 1
                        IN  /\ TriedIn(k, cleared[k], FailureWindow) <= MaxFailures + slack
                            /\ TriedIn(k, 0, BurstWindow) <= MaxBurst + slack
      BY DEF GuessesBounded
    <2>1. PICK t, w, z : t = HowMany(k, Trying) /\ w = lost[k] /\ z = Cardinality(Request)
      OBVIOUS
    <2>2. t \in Nat /\ w \in Nat /\ z \in Nat
      BY <2>1, HowManyTyped DEF SignInType
    <2>3. now \in Nat /\ tries[k] \in Seq(Nat) /\ cleared[k] \in Nat
      BY DEF SignInType
    <2>4. \A n, width \in Nat : TriedIn(k, n, width) = CountFrom(tries[k], n, now - width)
      <3> SUFFICES ASSUME NEW n \in Nat, NEW width \in Nat
                   PROVE  TriedIn(k, n, width) = CountFrom(tries[k], n, now - width)
        OBVIOUS
      <3>1. \A i \in (n + 1)..Len(tries[k]) : tries[k][i] \in Nat
        BY <2>3
      <3>2. \A i \in (n + 1)..Len(tries[k]) : now - tries[k][i] <= width <=> tries[k][i] >= now - width
        BY <2>3, <3>1
      <3>3. QED
        BY <3>2 DEF TriedIn, CountFrom
    <2>5. PICK a, b : a = TriedIn(k, cleared[k], FailureWindow) /\ b = TriedIn(k, 0, BurstWindow)
      OBVIOUS
    <2>6. /\ a = CountFrom(tries[k], cleared[k], now - FailureWindow)
          /\ b = CountFrom(tries[k], 0, now - BurstWindow)
      BY <2>3, <2>4, <2>5, LimitAssumption, BurstAssumption
    <2>7. a \in Nat /\ b \in Nat
      <3>1. Len(tries[k]) \in Nat
        BY <2>3
      <3>2. QED
        BY <2>3, <2>6, <3>1, CountType
    <2>8. a <= MaxFailures - 1 + (w + z - t) /\ b <= MaxBurst - 1 + (w + z - t)
      BY <2>1, <2>6 DEF GuessesKept, AccountKept, AddressKept, AccountOK, AddressOK, Room
    <2>9. a <= MaxFailures + (z + w - 1) /\ b <= MaxBurst + (z + w - 1)
      BY <2>2, <2>7, <2>8, LimitAssumption, BurstAssumption
    <2>10. QED
      BY <2>1, <2>5, <2>9
  <1>4. QED
    BY <1>1, <1>2, <1>3, PTL DEF SignInSpec

=============================================================================
