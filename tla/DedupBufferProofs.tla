-------------------------- MODULE DedupBufferProofs --------------------------
(* The safety properties of DedupBuffer hold for any items, sources, windows *)
(* and number of failures.                                                   *)
EXTENDS DedupBuffer, TLAPS

LEMMA InitInvariant == Init => IInv
  <1>1. SUFFICES ASSUME Init PROVE IInv
    OBVIOUS
  <1>2. TypeOK
    BY <1>1 DEF Init, TypeOK, Torn
  <1>3. NothingInMemory /\ ActiveHasTimer /\ TimersNear
    BY <1>1 DEF Init, NothingInMemory, ActiveHasTimer, TimersNear
  <1>4. QueueIsNew /\ FileIsNew /\ OnlyAccepted /\ UnreadableIsEmpty /\ FileIsQueued
    BY <1>1 DEF Init, QueueIsNew, FileIsNew, OnlyAccepted, UnreadableIsEmpty, FileIsQueued
  <1>7. HandedIsKnown /\ FlightsHanded
    BY <1>1 DEF Init, HandedIsKnown, FlightsHanded
  <1>5. HeldOneWindow /\ OnceUnlessKept /\ NotForgotten
    BY <1>1 DEF Init, HeldOneWindow, OnceUnlessKept, NotForgotten
  <1>6. QED
    BY <1>2, <1>3, <1>4, <1>5, <1>7 DEF IInv

-----------------------------------------------------------------------------
(* Submission.                                                               *)

(* The line of the new item is in the file, or lost; other files are left    *)
(* alone, and a line leaves this one only by being lost.                     *)
LEMMA PersistEffect ==
  ASSUME TypeOK, UnreadableIsEmpty, NEW s \in Source, NEW i \in Item, Persist(s, i)
  PROVE  /\ file' \in [Source -> SUBSET Item]
         /\ torn' \in [Source -> Torn]
         /\ unsaved' \in SUBSET Item
         /\ faults' \in Nat
         /\ unsaved \subseteq unsaved'
         /\ file'[s] \subseteq file[s] \cup {i}
         /\ file[s] \subseteq file'[s] \cup unsaved'
         /\ i \in file'[s] \/ i \in unsaved'
         /\ \A r \in Source \ {s} : file'[r] = file[r] /\ torn'[r] = torn[r]
         /\ torn'[s] = "bytes" => file'[s] = {}
  <1>1. file \in [Source -> SUBSET Item] /\ torn \in [Source -> Torn]
          /\ unsaved \in SUBSET Item /\ faults \in Nat
          /\ (torn[s] = "bytes" => file[s] = {})
    BY DEF TypeOK, UnreadableIsEmpty
  <1>2. CASE Appended(s, i)
    <2>1. torn[s] \in Torn /\ torn' = [torn EXCEPT ![s] = IF @ = "line" THEN "no" ELSE @]
            /\ faults' = faults
      BY <1>1, <1>2 DEF Appended
    <2>2. torn' \in [Source -> Torn] /\ \A r \in Source \ {s} : torn'[r] = torn[r]
      BY <1>1, <2>1 DEF Torn
    <2>3. CASE torn[s] = "no"
      <3>1. file' = [file EXCEPT ![s] = @ \cup {i}] /\ unsaved' = unsaved
        BY <1>2, <2>3 DEF Appended
      <3>2. torn'[s] = "no"
        BY <1>1, <2>1, <2>3
      <3>3. QED
        BY <1>1, <2>1, <2>2, <3>1, <3>2
    <2>4. CASE torn[s] # "no"
      <3>1. unsaved' = unsaved \cup {i} /\ file' = file
        BY <1>2, <2>4 DEF Appended
      <3>2. torn'[s] = "bytes" => torn[s] = "bytes"
        BY <1>1, <2>1
      <3>3. QED
        BY <1>1, <2>1, <2>2, <3>1, <3>2
    <2>5. QED
      BY <2>3, <2>4
  <1>3. CASE NotAppended(s, i)
    <2>1. faults' \in Nat
      BY <1>1, <1>3 DEF NotAppended, Fault
    <2>2. CASE unsaved' = unsaved \cup {i} /\ UNCHANGED <<file, torn>>
      BY <1>1, <2>1, <2>2
    <2>3. CASE /\ unsaved' = unsaved \cup {i}
               /\ torn' = [torn EXCEPT ![s] = IF @ = "bytes" THEN @ ELSE "line"]
               /\ UNCHANGED file
      <3>1. torn' \in [Source -> Torn] /\ (torn'[s] = "bytes" => torn[s] = "bytes")
              /\ \A r \in Source \ {s} : torn'[r] = torn[r]
        BY <1>1, <2>3 DEF Torn
      <3>2. QED
        BY <1>1, <2>1, <2>3, <3>1
    <2>4. CASE /\ unsaved' = unsaved \cup {i} \cup file[s]
               /\ torn' = [torn EXCEPT ![s] = "bytes"]
               /\ file' = [file EXCEPT ![s] = {}]
      <3>1. torn' \in [Source -> Torn] /\ file' \in [Source -> SUBSET Item]
              /\ file'[s] = {}
              /\ \A r \in Source \ {s} : file'[r] = file[r] /\ torn'[r] = torn[r]
        BY <1>1, <2>4 DEF Torn
      <3>2. unsaved' \in SUBSET Item
        BY <1>1, <2>4
      <3>3. QED
        BY <1>1, <2>1, <2>4, <3>1, <3>2
    <2>5. QED
      BY <1>3, <2>2, <2>3, <2>4 DEF NotAppended
  <1>4. QED
    BY <1>2, <1>3 DEF Persist

(* After a submission the source is active, and a timer within the longest   *)
(* window of the new item is asleep.                                         *)
LEMMA StartTimerEffect ==
  ASSUME TypeOK, ActiveHasTimer, TimersNear,
         NEW s \in Source, NEW w \in Windows, StartTimer(s, w)
  PROVE  /\ active' \in [Source -> BOOLEAN]
         /\ timers' \in [Source -> SUBSET Nat]
         /\ active'[s] = TRUE
         /\ \A r \in Source : timers[r] \subseteq timers'[r]
         /\ \A r \in Source : \A t \in timers'[r] : t <= clock + Longest
         /\ timers'[s] # {}
         /\ \A r \in Source \ {s} : active'[r] = active[r]
  <1>1. clock \in Nat /\ w \in Nat /\ Longest \in Nat /\ w <= Longest
    BY WindowAssumption DEF TypeOK
  <1>2. active \in [Source -> BOOLEAN] /\ timers \in [Source -> SUBSET Nat]
    BY DEF TypeOK
  <1>3. \A r \in Source : \A t \in timers[r] : t <= clock + Longest
    BY DEF TimersNear
  <1>4. CASE active[s]
    <2>1. active' = active /\ timers' = timers
      BY <1>4 DEF StartTimer
    <2>2. timers[s] # {} /\ active[s] = TRUE
      BY <1>2, <1>4 DEF ActiveHasTimer
    <2>3. QED
      BY <1>2, <1>3, <2>1, <2>2
  <1>5. CASE ~active[s]
    <2>1. active' = [active EXCEPT ![s] = TRUE]
            /\ timers' = [timers EXCEPT ![s] = @ \cup {clock + w}]
      BY <1>5 DEF StartTimer
    <2>2. clock + w \in Nat /\ clock + w <= clock + Longest
      BY <1>1
    <2>3. active' \in [Source -> BOOLEAN] /\ active'[s] = TRUE
            /\ \A r \in Source \ {s} : active'[r] = active[r]
      BY <1>2, <2>1
    <2>4. timers' \in [Source -> SUBSET Nat] /\ timers'[s] = timers[s] \cup {clock + w}
            /\ \A r \in Source \ {s} : timers'[r] = timers[r]
      BY <1>2, <2>1, <2>2
    <2>5. QED
      BY <1>3, <2>2, <2>3, <2>4
  <1>6. QED
    BY <1>4, <1>5

LEMMA SubmitInvariant ==
  ASSUME IInv, NEW i \in Item, NEW w \in Windows, Submit(i, w)
  PROVE  IInv'
  <1> DEFINE s == SourceOf[i]
  <1>1. s \in Source
    BY ItemAssumption
  <1>2. /\ Serving /\ accepted[i] = 0
        /\ queue' = [queue EXCEPT ![s] = @ \cup {i}]
        /\ Persist(s, i) /\ StartTimer(s, w)
        /\ accepted' = [accepted EXCEPT ![i] = clock]
        /\ UNCHANGED <<phase, todo, awaited, flights, kept, taken, calls, dropped,
                       delivered, clock>>
    BY DEF Submit
  <1> HIDE DEF s
  <1>3. TypeOK /\ QueueIsNew /\ FileIsNew /\ NotForgotten
    BY DEF IInv
  <1>4. queue \in [Source -> SUBSET Item] /\ accepted \in [Item -> Nat]
          /\ calls \in [Item -> Nat] /\ clock \in Nat /\ clock # 0
    BY <1>3 DEF TypeOK
  <1>5. /\ file' \in [Source -> SUBSET Item]
        /\ torn' \in [Source -> Torn]
        /\ unsaved' \in SUBSET Item
        /\ faults' \in Nat
        /\ unsaved \subseteq unsaved'
        /\ file'[s] \subseteq file[s] \cup {i}
        /\ file[s] \subseteq file'[s] \cup unsaved'
        /\ i \in file'[s] \/ i \in unsaved'
        /\ \A r \in Source \ {s} : file'[r] = file[r] /\ torn'[r] = torn[r]
        /\ torn'[s] = "bytes" => file'[s] = {}
    BY <1>1, <1>2, PersistEffect DEF IInv
  <1>6. /\ active' \in [Source -> BOOLEAN]
        /\ timers' \in [Source -> SUBSET Nat]
        /\ active'[s] = TRUE
        /\ \A r \in Source : timers[r] \subseteq timers'[r]
        /\ \A r \in Source : \A t \in timers'[r] : t <= clock + Longest
        /\ timers'[s] # {}
        /\ \A r \in Source \ {s} : active'[r] = active[r]
    BY <1>1, <1>2, StartTimerEffect DEF IInv
  <1>7. /\ queue' \in [Source -> SUBSET Item]
        /\ queue'[s] = queue[s] \cup {i}
        /\ \A r \in Source \ {s} : queue'[r] = queue[r]
    BY <1>1, <1>2, <1>4
  <1>8. /\ accepted' \in [Item -> Nat] /\ accepted'[i] = clock
        /\ \A j \in Item \ {i} : accepted'[j] = accepted[j]
    BY <1>2, <1>4
  <1>9. i \notin UNION {queue[r] : r \in Source} /\ calls[i] \in Nat
    BY <1>2, <1>3, <1>4 DEF QueueIsNew
  <1>10. calls[i] = 0
    BY <1>2, <1>4 DEF IInv, OnlyAccepted
  <1>11. TypeOK'
    BY <1>2, <1>3, <1>5, <1>6, <1>7, <1>8 DEF TypeOK
  <1>12. NothingInMemory'
    BY <1>2 DEF NothingInMemory, Serving
  <1>13. ActiveHasTimer'
    BY <1>6 DEF IInv, ActiveHasTimer
  <1>14. TimersNear'
    BY <1>2, <1>6 DEF TimersNear
  <1>15. QueueIsNew'
    <2>1. SUFFICES ASSUME NEW r \in Source, NEW j \in queue'[r]
                   PROVE  /\ SourceOf[j] = r /\ accepted'[j] # 0
                          /\ calls[j] = 0 \/ j \in kept
                          /\ active'[r]
                          /\ j \in file'[r] \/ j \in unsaved' \/ j \in taken
      BY <1>2 DEF QueueIsNew
    <2>2. CASE j = i /\ r = s
      BY <1>4, <1>5, <1>6, <1>8, <1>10, <2>2 DEF s
    <2>3. CASE j \in queue[r]
      <3>1. /\ SourceOf[j] = r /\ accepted[j] # 0
            /\ calls[j] = 0 \/ j \in kept
            /\ active[r]
            /\ j \in file[r] \/ j \in unsaved \/ j \in taken
            /\ j \in Item
        BY <1>2, <1>3, <1>4, <2>3 DEF QueueIsNew, Serving
      <3>2. accepted'[j] # 0
        BY <1>4, <1>8, <3>1
      <3>3. j \in file'[r] \/ j \in unsaved' \/ j \in taken
        BY <1>5, <3>1
      <3>4. active'[r]
        BY <1>6, <3>1
      <3>5. QED
        BY <3>1, <3>2, <3>3, <3>4
    <2>4. QED
      BY <1>7, <2>1, <2>2, <2>3
  <1>16. FileIsNew'
    <2>1. SUFFICES ASSUME NEW r \in Source, NEW j \in file'[r]
                   PROVE  /\ SourceOf[j] = r /\ accepted'[j] # 0
                          /\ calls[j] = 0 \/ j \in kept
      BY <1>2 DEF FileIsNew
    <2>2. CASE j = i /\ r = s
      BY <1>4, <1>8, <1>10, <2>2 DEF s
    <2>3. CASE j \in file[r]
      <3>1. SourceOf[j] = r /\ accepted[j] # 0 /\ (calls[j] = 0 \/ j \in kept)
              /\ j \in Item
        BY <1>3, <2>3 DEF FileIsNew, TypeOK
      <3>2. QED
        BY <1>4, <1>8, <3>1
    <2>4. QED
      BY <1>5, <2>2, <2>3
  <1>17. UnreadableIsEmpty'
    BY <1>5 DEF IInv, UnreadableIsEmpty
  <1>18. FileIsQueued'
    <2>1. \A r \in Source : \A j \in file[r] : j \in queue[r] \/ calls[j] > 0
      BY <1>2 DEF IInv, FileIsQueued
    <2>2. \A r \in Source : \A j \in file'[r] : j \in queue'[r] \/ calls[j] > 0
      BY <1>5, <1>7, <2>1
    <2>3. QED
      BY <1>2, <2>2 DEF FileIsQueued
  <1>19. HeldOneWindow'
    <2>1. SUFFICES ASSUME NEW r \in Source, NEW j \in queue'[r]
                   PROVE  \E t \in timers'[r] : t <= accepted'[j] + Longest
      BY DEF HeldOneWindow
    <2>2. CASE j = i /\ r = s
      BY <1>6, <1>8, <2>2
    <2>3. CASE j \in queue[r]
      <3>1. j \in Item /\ j # i
        BY <1>4, <1>9, <2>3
      <3>2. accepted'[j] = accepted[j]
        BY <1>8, <3>1
      <3>3. PICK t \in timers[r] : t <= accepted[j] + Longest
        BY <1>2, <2>3 DEF IInv, HeldOneWindow
      <3>4. QED
        BY <1>6, <3>2, <3>3
    <2>4. QED
      BY <1>7, <2>2, <2>3
  <1>20. OnceUnlessKept'
    BY <1>2 DEF IInv, OnceUnlessKept
  <1>21. NotForgotten'
    <2>1. SUFFICES ASSUME NEW j \in Item, accepted'[j] # 0, j \notin delivered,
                          j \notin queue'[SourceOf[j]], j \notin file'[SourceOf[j]],
                          j \notin UNION flights
                   PROVE  j \in dropped /\ (j \in unsaved' \/ j \in taken \/ calls[j] > 0)
      BY <1>2 DEF NotForgotten, Lost
    <2>2. SourceOf[j] \in Source
      BY ItemAssumption
    <2>3. j # i
      BY <1>7, <2>1 DEF s
    <2>4. j \notin queue[SourceOf[j]]
      BY <1>7, <2>1, <2>2
    <2>5. accepted[j] # 0
      BY <1>8, <2>1, <2>3
    <2>6. CASE j \in file[SourceOf[j]]
      <3>1. calls[j] > 0
        BY <1>2, <2>2, <2>4, <2>6 DEF IInv, FileIsQueued
      <3>2. QED
        BY <2>1, <3>1 DEF IInv, HandedIsKnown
    <2>7. CASE j \notin file[SourceOf[j]]
      <3>1. Lost(j)
        BY <1>3, <2>1, <2>4, <2>5, <2>7 DEF NotForgotten
      <3>2. QED
        BY <1>5, <3>1 DEF Lost
    <2>8. QED
      BY <2>6, <2>7
  <1>22. OnlyAccepted'
    BY <1>2, <1>4, <1>8 DEF IInv, OnlyAccepted
  <1>24. HandedIsKnown' /\ FlightsHanded'
    BY <1>2 DEF IInv, HandedIsKnown, FlightsHanded
  <1>23. QED
    BY <1>24, <1>11, <1>12, <1>13, <1>14, <1>15, <1>16, <1>17, <1>18, <1>19, <1>20,
       <1>21, <1>22 DEF IInv
-----------------------------------------------------------------------------
(* Flushes.                                                                  *)

(* What the caller of the flush does to its timer and its loop.              *)
CallerMoves(s) ==
  /\ phase # "down"
  /\ timers' \in [Source -> SUBSET Nat]
  /\ \A r \in Source : timers'[r] \subseteq timers[r]
  /\ \A r \in Source \ {s} : timers'[r] = timers[r]
  /\ todo' \in SUBSET Source
  /\ awaited' \in SUBSET Item
  /\ phase = "restoring" => todo \ {s} \subseteq todo'

(* A flush hands over all that waits for s in the queue or on disk, and      *)
(* nothing that was handed over before unless its line was left.             *)
LEMMA FlushInvariant ==
  ASSUME IInv, NEW s \in Source, Flush(s, queue[s]), CallerMoves(s),
         Serving \/ (phase = "restoring" /\ queue[s] # {})
  PROVE  IInv'
  <1> DEFINE items == queue[s]
  <1>a. /\ items \in SUBSET Item
        /\ \A i \in file[s] : i \in items \/ calls[i] > 0
        /\ \A i \in items : SourceOf[i] = s /\ accepted[i] # 0 /\ (calls[i] = 0 \/ i \in kept)
    BY DEF IInv, TypeOK, FileIsQueued, QueueIsNew
  <1>b. /\ phase # "down"
        /\ timers' \in [Source -> SUBSET Nat]
        /\ \A r \in Source : timers'[r] \subseteq timers[r]
        /\ \A r \in Source \ {s} : timers'[r] = timers[r]
        /\ todo' \in SUBSET Source
        /\ awaited' \in SUBSET Item
        /\ phase = "restoring" => todo \ {s} \subseteq todo'
    BY DEF CallerMoves
  <1>c. \A i \in items : SourceOf[i] = s /\ accepted[i] # 0
    BY <1>a
  <1>1. /\ active' = [active EXCEPT ![s] = FALSE]
        /\ queue' = [queue EXCEPT ![s] = {}]
        /\ Remove(s)
        /\ calls' = [i \in Item |-> IF i \in items THEN calls[i] + 1 ELSE calls[i]]
        /\ flights' = flights \cup ({items} \ {{}})
        /\ UNCHANGED <<phase, unsaved, taken, accepted, dropped, delivered, clock>>
    BY DEF Flush, Rest
  <1> HIDE DEF items
  <1>2. TypeOK /\ QueueIsNew /\ FileIsNew /\ NotForgotten
    BY DEF IInv
  <1>3. queue \in [Source -> SUBSET Item] /\ active \in [Source -> BOOLEAN]
          /\ calls \in [Item -> Nat] /\ file \in [Source -> SUBSET Item]
          /\ torn \in [Source -> Torn] /\ kept \in SUBSET Item /\ faults \in Nat
    BY <1>2 DEF TypeOK
  <1>4. /\ queue' \in [Source -> SUBSET Item] /\ queue'[s] = {}
        /\ \A r \in Source \ {s} : queue'[r] = queue[r]
    BY <1>1, <1>3
  <1>5. /\ active' \in [Source -> BOOLEAN] /\ active'[s] = FALSE
        /\ \A r \in Source \ {s} : active'[r] = active[r]
    BY <1>1, <1>3
  <1>6. /\ calls' \in [Item -> Nat]
        /\ \A i \in items : calls'[i] = calls[i] + 1
        /\ \A i \in Item \ items : calls'[i] = calls[i]
    BY <1>1, <1>3, <1>a
  <1>7. /\ file' \in [Source -> SUBSET Item]
        /\ torn' \in [Source -> Torn]
        /\ kept' \in SUBSET Item
        /\ faults' \in Nat
        /\ kept \subseteq kept'
        /\ \A r \in Source \ {s} : file'[r] = file[r] /\ torn'[r] = torn[r]
        /\ file'[s] \subseteq file[s]
        /\ file'[s] \subseteq kept'
        /\ torn'[s] = "bytes" => torn[s] = "bytes"
    <2>1. CASE /\ file' = [file EXCEPT ![s] = {}]
               /\ torn' = [torn EXCEPT ![s] = "no"]
               /\ UNCHANGED <<kept, faults>>
      <3>1. torn' \in [Source -> Torn] /\ torn'[s] = "no"
              /\ \A r \in Source \ {s} : torn'[r] = torn[r]
        BY <1>3, <2>1 DEF Torn
      <3>2. file' \in [Source -> SUBSET Item] /\ file'[s] = {}
              /\ \A r \in Source \ {s} : file'[r] = file[r]
        BY <1>3, <2>1
      <3>3. QED
        BY <1>3, <2>1, <3>1, <3>2
    <2>2. CASE Fault /\ kept' = kept \cup file[s] /\ UNCHANGED <<file, torn>>
      BY <1>3, <2>2 DEF Fault
    <2>3. QED
      BY <1>1, <2>1, <2>2 DEF Remove
  <1>8. TypeOK'
    <2>1. flights' \in SUBSET (SUBSET Item)
      BY <1>1, <1>2, <1>a DEF TypeOK
    <2>2. QED
      BY <1>1, <1>2, <1>4, <1>5, <1>6, <1>7, <1>b, <2>1 DEF TypeOK
  <1>9. NothingInMemory'
    <2>1. ASSUME phase = "restoring", NEW r \in Source
          PROVE  timers'[r] = {} /\ active'[r] = FALSE /\ (queue'[r] # {} => r \in todo')
      <3>1. timers[r] = {} /\ active[r] = FALSE /\ (queue[r] # {} => r \in todo)
        BY <2>1 DEF IInv, NothingInMemory
      <3>2. QED
        BY <1>4, <1>5, <1>b, <2>1, <3>1
    <2>2. QED
      BY <1>1, <1>b, <2>1 DEF NothingInMemory
  <1>10. ActiveHasTimer'
    BY <1>5, <1>b DEF IInv, ActiveHasTimer
  <1>11. TimersNear'
    BY <1>1, <1>b DEF IInv, TimersNear
  <1>12. QueueIsNew'
    <2>1. SUFFICES ASSUME NEW r \in Source, NEW j \in queue'[r]
                   PROVE  /\ SourceOf[j] = r /\ accepted[j] # 0
                          /\ calls'[j] = 0 \/ j \in kept'
                          /\ active'[r] \/ phase = "restoring"
                          /\ j \in file'[r] \/ j \in unsaved \/ j \in taken
      BY <1>1 DEF QueueIsNew
    <2>2. r # s /\ j \in queue[r] /\ j \in Item
      BY <1>3, <1>4
    <2>3. /\ SourceOf[j] = r /\ accepted[j] # 0
          /\ calls[j] = 0 \/ j \in kept
          /\ active[r] \/ phase = "restoring"
          /\ j \in file[r] \/ j \in unsaved \/ j \in taken
      BY <1>2, <2>2 DEF QueueIsNew
    <2>4. j \notin items
      BY <1>c, <2>2, <2>3
    <2>5. QED
      BY <1>5, <1>6, <1>7, <2>2, <2>3, <2>4
  <1>13. FileIsNew'
    <2>1. SUFFICES ASSUME NEW r \in Source, NEW j \in file'[r]
                   PROVE  /\ SourceOf[j] = r /\ accepted[j] # 0
                          /\ calls'[j] = 0 \/ j \in kept'
      BY <1>1 DEF FileIsNew
    <2>2. j \in file[r] /\ j \in Item
      BY <1>3, <1>7
    <2>3. SourceOf[j] = r /\ accepted[j] # 0 /\ (calls[j] = 0 \/ j \in kept)
      BY <1>2, <2>2 DEF FileIsNew
    <2>4. CASE r = s
      BY <1>7, <2>3, <2>4
    <2>5. CASE r # s
      BY <1>6, <1>7, <1>a, <2>2, <2>3, <2>5
    <2>6. QED
      BY <2>4, <2>5
  <1>14. OnlyAccepted'
    BY <1>1, <1>6, <1>c DEF IInv, OnlyAccepted
  <1>15. UnreadableIsEmpty'
    <2>1. SUFFICES ASSUME NEW r \in Source, torn'[r] = "bytes" PROVE file'[r] = {}
      BY DEF UnreadableIsEmpty
    <2>2. torn[r] = "bytes" /\ file'[r] \subseteq file[r]
      BY <1>7, <2>1
    <2>3. QED
      BY <2>2 DEF IInv, UnreadableIsEmpty
  <1>16. FileIsQueued'
    <2>1. SUFFICES ASSUME NEW r \in Source, NEW j \in file'[r],
                          \/ Serving
                          \/ phase = "restoring" /\ (r \notin todo' \/ queue'[r] # {})
                   PROVE  j \in queue'[r] \/ calls'[j] > 0
      BY <1>1 DEF FileIsQueued, Serving
    <2>2. j \in file[r] /\ j \in Item /\ calls[j] \in Nat
      BY <1>3, <1>7
    <2>3. CASE r = s
      <3>1. j \in items \/ calls[j] > 0
        BY <1>a, <2>2, <2>3
      <3>2. QED
        BY <1>6, <2>2, <3>1
    <2>4. CASE r # s
      <3>1. Serving \/ (phase = "restoring" /\ (r \notin todo \/ queue[r] # {}))
        BY <1>b, <1>4, <2>1, <2>4
      <3>2. j \in queue[r] \/ calls[j] > 0
        BY <2>2, <3>1 DEF IInv, FileIsQueued
      <3>3. QED
        BY <1>4, <1>6, <2>2, <2>4, <3>2
    <2>5. QED
      BY <2>3, <2>4
  <1>17. HeldOneWindow'
    <2>1. SUFFICES ASSUME NEW r \in Source, NEW j \in queue'[r], Serving
                   PROVE  \E t \in timers'[r] : t <= accepted[j] + Longest
      BY <1>1 DEF HeldOneWindow, Serving
    <2>2. r # s /\ j \in queue[r]
      BY <1>4
    <2>3. QED
      BY <1>b, <2>1, <2>2 DEF IInv, HeldOneWindow
  <1>18. OnceUnlessKept'
    <2>1. SUFFICES ASSUME NEW j \in Item, calls'[j] > 1 PROVE j \in kept'
      BY DEF OnceUnlessKept
    <2>2. CASE j \in items
      BY <1>3, <1>6, <1>7, <1>a, <2>1, <2>2
    <2>3. CASE j \notin items
      BY <1>6, <1>7, <2>1, <2>3 DEF IInv, OnceUnlessKept
    <2>4. QED
      BY <2>2, <2>3
  <1>d. /\ \A j \in items : j \in UNION flights'
        /\ UNION flights \subseteq UNION flights'
        /\ UNION flights' \subseteq (UNION flights) \cup items
    BY <1>1
  <1>e. HandedIsKnown'
    BY <1>1, <1>6, <1>d DEF IInv, HandedIsKnown
  <1>f. FlightsHanded'
    <2>1. \A j \in items : calls'[j] > 0
      BY <1>3, <1>6, <1>a
    <2>2. \A j \in UNION flights : calls'[j] > 0
      <3>1. \A j \in UNION flights : j \in Item /\ calls[j] > 0
        BY <1>2 DEF IInv, FlightsHanded, TypeOK
      <3>2. QED
        BY <1>3, <1>6, <3>1
    <2>3. \A j \in UNION flights' : calls'[j] > 0
      BY <1>d, <2>1, <2>2
    <2>4. QED
      BY <2>3 DEF FlightsHanded
  <1>19. NotForgotten'
    <2>1. SUFFICES ASSUME NEW j \in Item, accepted[j] # 0, j \notin delivered,
                          j \notin queue'[SourceOf[j]], j \notin file'[SourceOf[j]],
                          j \notin UNION flights'
                   PROVE  j \in dropped /\ (j \in unsaved \/ j \in taken \/ calls'[j] > 0)
      BY <1>1 DEF NotForgotten, Lost
    <2>2. j \notin items /\ j \notin UNION flights /\ calls'[j] = calls[j]
      BY <1>6, <1>d, <2>1
    <2>3. SourceOf[j] \in Source
      BY ItemAssumption
    <2>4. j \notin queue[SourceOf[j]]
      BY <1>4, <2>1, <2>2, <2>3 DEF items
    <2>5. CASE j \in file[SourceOf[j]]
      <3>1. SourceOf[j] = s
        BY <1>7, <2>1, <2>3, <2>5
      <3>2. calls[j] > 0
        BY <1>a, <2>2, <2>5, <3>1
      <3>3. QED
        BY <2>1, <2>2, <3>2 DEF IInv, HandedIsKnown
    <2>6. CASE j \notin file[SourceOf[j]]
      BY <1>2, <2>1, <2>2, <2>4, <2>6 DEF NotForgotten, Lost
    <2>7. QED
      BY <2>5, <2>6
  <1>20. QED
    BY <1>e, <1>f, <1>8, <1>9, <1>10, <1>11, <1>12, <1>13, <1>14, <1>15, <1>16, <1>17, <1>18,
       <1>19 DEF IInv

LEMMA TimerFiresInvariant ==
  ASSUME IInv, NEW s \in Source, NEW t \in timers[s], TimerFires(s, t)
  PROVE  IInv'
  <1>1. Serving /\ Flush(s, queue[s]) /\ UNCHANGED <<todo, awaited>>
          /\ timers' = [timers EXCEPT ![s] = @ \ {t}]
    BY DEF TimerFires
  <1>2. timers \in [Source -> SUBSET Nat] /\ todo \in SUBSET Source
          /\ awaited \in SUBSET Item
    BY DEF IInv, TypeOK
  <1>3. CallerMoves(s)
    BY <1>1, <1>2 DEF CallerMoves, Serving
  <1>4. QED
    BY <1>1, <1>3, FlushInvariant

LEMMA ShutdownFlushInvariant ==
  ASSUME IInv, NEW s \in Source, ShutdownFlush(s)
  PROVE  IInv'
  <1>1. phase = "stopping" /\ Flush(s, queue[s]) /\ UNCHANGED timers
          /\ todo' = todo \ {s} /\ awaited' = queue[s]
    BY DEF ShutdownFlush
  <1>2. timers \in [Source -> SUBSET Nat] /\ todo \in SUBSET Source
          /\ queue[s] \in SUBSET Item
    BY DEF IInv, TypeOK
  <1>3. CallerMoves(s)
    BY <1>1, <1>2 DEF CallerMoves
  <1>4. Serving
    BY <1>1 DEF Serving
  <1>5. QED
    BY <1>1, <1>3, <1>4, FlushInvariant

LEMMA RestoreFlushInvariant ==
  ASSUME IInv, NEW s \in Source, RestoreFlush(s)
  PROVE  IInv'
  <1>1. phase = "restoring" /\ queue[s] # {} /\ Flush(s, queue[s]) /\ UNCHANGED timers
          /\ todo' = todo \ {s} /\ awaited' = queue[s]
    BY DEF RestoreFlush
  <1>2. timers \in [Source -> SUBSET Nat] /\ todo \in SUBSET Source
          /\ queue[s] \in SUBSET Item
    BY DEF IInv, TypeOK
  <1>3. CallerMoves(s)
    BY <1>1, <1>2 DEF CallerMoves
  <1>4. QED
    BY <1>1, <1>3, FlushInvariant

-----------------------------------------------------------------------------
(* The restore takes a file.                                                 *)

LEMMA RestoreSourceInvariant ==
  ASSUME IInv, NEW s \in Source, RestoreSource(s)
  PROVE  IInv'
  <1>1. /\ phase = "restoring" /\ s \in todo
        /\ \A r \in Source : queue[r] = {}
        /\ queue' = [queue EXCEPT ![s] = file[s]]
        /\ todo' = IF file[s] = {} THEN todo \ {s} ELSE todo
        /\ UNCHANGED <<phase, awaited, active, timers, flights, unsaved, kept, accepted,
                       calls, dropped, delivered, clock>>
    BY DEF RestoreSource, LoopAt
  <1>2. TypeOK /\ FileIsNew /\ NotForgotten
    BY DEF IInv
  <1>3. queue \in [Source -> SUBSET Item] /\ file \in [Source -> SUBSET Item]
          /\ torn \in [Source -> Torn] /\ taken \in SUBSET Item /\ faults \in Nat
          /\ todo \in SUBSET Source
    BY <1>2 DEF TypeOK
  <1>4. /\ queue' \in [Source -> SUBSET Item] /\ queue'[s] = file[s]
        /\ \A r \in Source \ {s} : queue'[r] = {}
    BY <1>1, <1>3
  <1>5. /\ file' \in [Source -> SUBSET Item]
        /\ torn' \in [Source -> Torn]
        /\ taken' \in SUBSET Item
        /\ faults' \in Nat
        /\ taken \subseteq taken'
        /\ \A r \in Source \ {s} : file'[r] = file[r] /\ torn'[r] = torn[r]
        /\ file'[s] \subseteq file[s]
        /\ file[s] \subseteq file'[s] \cup taken'
        /\ torn'[s] # "bytes"
    <2>1. torn[s] # "bytes"
      BY DEF RestoreSource
    <2>2. CASE /\ file' = [file EXCEPT ![s] = {}]
               /\ torn' = [torn EXCEPT ![s] = "no"]
               /\ taken' = taken \cup file[s]
               /\ UNCHANGED faults
      <3>1. torn' \in [Source -> Torn] /\ torn'[s] = "no"
              /\ \A r \in Source \ {s} : torn'[r] = torn[r]
        BY <1>3, <2>2 DEF Torn
      <3>2. file' \in [Source -> SUBSET Item] /\ file'[s] = {}
              /\ \A r \in Source \ {s} : file'[r] = file[r]
        BY <1>3, <2>2
      <3>3. QED
        BY <1>3, <2>2, <3>1, <3>2
    <2>3. CASE Fault /\ UNCHANGED <<file, torn, taken>>
      BY <1>3, <2>1, <2>3 DEF Fault
    <2>4. QED
      BY <2>2, <2>3 DEF RestoreSource
  <1>6. todo' \in SUBSET Source /\ todo \ {s} \subseteq todo'
          /\ (file[s] # {} => s \in todo')
    BY <1>1, <1>3
  <1>7. TypeOK'
    BY <1>1, <1>2, <1>4, <1>5, <1>6 DEF TypeOK
  <1>8. NothingInMemory'
    BY <1>1, <1>4, <1>6 DEF IInv, NothingInMemory
  <1>9. ActiveHasTimer' /\ TimersNear' /\ OnlyAccepted' /\ OnceUnlessKept'
          /\ HandedIsKnown' /\ FlightsHanded'
    BY <1>1 DEF IInv, ActiveHasTimer, TimersNear, OnlyAccepted, OnceUnlessKept,
       HandedIsKnown, FlightsHanded
  <1>10. QueueIsNew'
    <2>1. SUFFICES ASSUME NEW j \in file[s]
                   PROVE  /\ SourceOf[j] = s /\ accepted[j] # 0
                          /\ calls[j] = 0 \/ j \in kept
                          /\ j \in file'[s] \/ j \in taken'
      BY <1>1, <1>4 DEF QueueIsNew
    <2>2. QED
      BY <1>2, <1>5 DEF FileIsNew
  <1>11. FileIsNew'
    BY <1>1, <1>2, <1>5 DEF FileIsNew
  <1>12. UnreadableIsEmpty'
    BY <1>5 DEF IInv, UnreadableIsEmpty
  <1>13. FileIsQueued'
    <2>1. SUFFICES ASSUME NEW r \in Source, NEW j \in file'[r],
                          r \notin todo' \/ queue'[r] # {}
                   PROVE  j \in queue'[r] \/ calls[j] > 0
      BY <1>1 DEF FileIsQueued, Serving
    <2>2. CASE r = s
      BY <1>4, <1>5, <2>1, <2>2
    <2>3. CASE r # s
      <3>1. r \notin todo /\ j \in file[r] /\ queue[r] = queue'[r]
        BY <1>1, <1>4, <1>5, <1>6, <2>1, <2>3
      <3>2. QED
        BY <1>1, <3>1 DEF IInv, FileIsQueued
    <2>4. QED
      BY <2>2, <2>3
  <1>14. HeldOneWindow'
    BY <1>1 DEF HeldOneWindow, Serving
  <1>15. NotForgotten'
    <2>1. SUFFICES ASSUME NEW j \in Item, accepted[j] # 0, j \notin delivered,
                          j \notin queue'[SourceOf[j]], j \notin file'[SourceOf[j]],
                          j \notin UNION flights
                   PROVE  j \in dropped /\ (j \in unsaved \/ j \in taken' \/ calls[j] > 0)
      BY <1>1 DEF NotForgotten, Lost
    <2>2. SourceOf[j] \in Source
      BY ItemAssumption
    <2>3. j \notin queue[SourceOf[j]] /\ j \notin file[SourceOf[j]]
      BY <1>1, <1>4, <1>5, <2>1, <2>2
    <2>4. Lost(j)
      BY <1>2, <2>1, <2>3 DEF NotForgotten
    <2>5. QED
      BY <1>5, <2>4 DEF Lost
  <1>16. QED
    BY <1>7, <1>8, <1>9, <1>10, <1>11, <1>12, <1>13, <1>14, <1>15 DEF IInv

-----------------------------------------------------------------------------
(* Steps that put no item into a queue or a file, or out of it.              *)

(* The clock moves away from the timers that are asleep.                     *)
LEMMA Later ==
  ASSUME NEW t \in Nat, NEW c \in Nat, NEW d \in Nat, NEW w \in Nat,
         t <= c + w, c <= d
  PROVE  t <= d + w
  OBVIOUS

LEMMA ClockMoves ==
  ASSUME TypeOK, TimersNear, timers' = timers, clock' \in Nat, clock <= clock'
  PROVE  TimersNear'
  <1>1. clock \in Nat /\ Longest \in Nat /\ timers \in [Source -> SUBSET Nat]
    BY WindowAssumption DEF TypeOK
  <1>2. SUFFICES ASSUME NEW s \in Source, NEW t \in timers[s]
                 PROVE  t <= clock' + Longest
    BY DEF TimersNear
  <1>3. t \in Nat /\ t <= clock + Longest
    BY <1>1 DEF TimersNear
  <1>4. QED
    BY <1>1, <1>3, Later

(* Phases, loops, deliveries and the clock do not disturb the data as long   *)
(* as the server listens only when the loop of the restore is through.       *)
LEMMA QuietInvariant ==
  ASSUME IInv,
         UNCHANGED <<queue, active, timers, disk, accepted, calls, dropped>>,
         TypeOK', NothingInMemory', clock <= clock',
         UNION flights' \subseteq UNION flights,
         delivered \subseteq delivered',
         UNION flights \subseteq (UNION flights') \cup delivered',
         \/ phase' = phase
         \/ Serving /\ Serving'
         \/ \A s \in Source : queue[s] = {},
         Serving' => Serving \/ (phase = "restoring" /\ todo = {}),
         \A s \in Source :
           phase' = "restoring" /\ (s \notin todo' \/ queue[s] # {})
             => \/ phase = "restoring" /\ (s \notin todo \/ queue[s] # {})
                \/ file[s] = {}
  PROVE  IInv'
  <1>1. ActiveHasTimer' /\ FileIsNew' /\ OnlyAccepted' /\ UnreadableIsEmpty'
          /\ OnceUnlessKept'
    BY DEF IInv, disk, ActiveHasTimer, FileIsNew, OnlyAccepted, UnreadableIsEmpty,
       OnceUnlessKept
  <1>2. TimersNear'
    <2>1. clock' \in Nat
      BY DEF TypeOK
    <2>2. QED
      BY <2>1, ClockMoves DEF IInv
  <1>3. FileIsQueued'
    <2>1. SUFFICES ASSUME NEW s \in Source, NEW i \in file[s],
                          \/ Serving'
                          \/ phase' = "restoring" /\ (s \notin todo' \/ queue[s] # {})
                   PROVE  i \in queue[s] \/ calls[i] > 0
      BY DEF FileIsQueued, disk
    <2>2. Serving \/ (phase = "restoring" /\ (s \notin todo \/ queue[s] # {}))
      BY <2>1
    <2>3. QED
      BY <2>2 DEF IInv, FileIsQueued
  <1>4. QueueIsNew'
    <2>1. SUFFICES ASSUME NEW s \in Source, NEW i \in queue[s]
                   PROVE  /\ SourceOf[i] = s /\ accepted[i] # 0
                          /\ calls[i] = 0 \/ i \in kept
                          /\ active[s] \/ phase' = "restoring"
                          /\ i \in file[s] \/ i \in unsaved \/ i \in taken
      BY DEF QueueIsNew, disk
    <2>2. /\ SourceOf[i] = s /\ accepted[i] # 0
          /\ calls[i] = 0 \/ i \in kept
          /\ active[s] \/ phase = "restoring"
          /\ i \in file[s] \/ i \in unsaved \/ i \in taken
      BY <2>1 DEF IInv, QueueIsNew
    <2>3. phase' = phase \/ Serving
      BY <2>1
    <2>4. QED
      BY <2>2, <2>3 DEF Serving
  <1>5. HeldOneWindow'
    <2>1. SUFFICES ASSUME NEW s \in Source, NEW i \in queue[s], Serving'
                   PROVE  \E t \in timers[s] : t <= accepted[i] + Longest
      BY DEF HeldOneWindow
    <2>2. Serving
      BY <2>1 DEF Serving
    <2>3. QED
      BY <2>1, <2>2 DEF IInv, HeldOneWindow
  <1>6. HandedIsKnown' /\ FlightsHanded'
    BY DEF IInv, HandedIsKnown, FlightsHanded
  <1>7. NotForgotten'
    <2>1. \A i \in Item : Lost(i)' <=> Lost(i)
      BY DEF Lost, disk
    <2>2. QED
      BY <2>1 DEF IInv, NotForgotten, disk
  <1>8. QED
    BY <1>1, <1>2, <1>3, <1>4, <1>5, <1>6, <1>7 DEF IInv

LEMMA DeliveredInvariant ==
  ASSUME IInv, NEW items \in flights, Delivered(items)
  PROVE  IInv'
  <1>1. flights' = flights \ {items} /\ delivered' = delivered \cup items
          /\ UNCHANGED <<phase, todo, awaited, queue, active, timers, disk, accepted,
                         calls, dropped, clock, faults>>
    BY DEF Delivered
  <1>2. TypeOK'
    BY <1>1 DEF IInv, TypeOK, disk
  <1>3. NothingInMemory'
    BY <1>1 DEF IInv, NothingInMemory
  <1>4. clock <= clock'
    BY <1>1 DEF IInv, TypeOK
  <1>5. /\ UNION flights' \subseteq UNION flights
        /\ delivered \subseteq delivered'
        /\ UNION flights \subseteq (UNION flights') \cup delivered'
    BY <1>1
  <1>6. QED
    BY <1>1, <1>2, <1>3, <1>4, <1>5, QuietInvariant DEF Serving

LEMMA RestoreUnreadableInvariant ==
  ASSUME IInv, NEW s \in Source, RestoreUnreadable(s)
  PROVE  IInv'
  <1>1. phase = "restoring" /\ torn[s] = "bytes" /\ todo' = todo \ {s}
          /\ \A r \in Source : queue[r] = {}
          /\ UNCHANGED <<phase, awaited, memory, disk, accepted, calls, dropped,
                         delivered, clock, faults>>
    BY DEF RestoreUnreadable, LoopAt
  <1>2. TypeOK'
    BY <1>1 DEF IInv, TypeOK, disk, memory
  <1>3. NothingInMemory'
    BY <1>1 DEF IInv, NothingInMemory, memory
  <1>4. clock <= clock'
    BY <1>1 DEF IInv, TypeOK
  <1>5. file[s] = {}
    BY <1>1 DEF IInv, UnreadableIsEmpty
  <1>6. QED
    BY <1>1, <1>2, <1>3, <1>4, <1>5, QuietInvariant DEF Serving, memory

(* Start, Serve, Shutdown and Tick.                                          *)
LEMMA PhaseInvariant ==
  ASSUME IInv, Start \/ Serve \/ Shutdown \/ Tick
  PROVE  IInv'
  <1>1. UNCHANGED <<memory, disk, accepted, calls, dropped, delivered>>
    BY DEF Start, Serve, Shutdown, Tick
  <1>2. clock \in Nat /\ clock # 0 /\ faults \in Nat
    BY DEF IInv, TypeOK
  <1>3. /\ clock' \in Nat \ {0} /\ clock <= clock' /\ faults' \in Nat
        /\ phase' \in {"down", "restoring", "up", "stopping"}
        /\ todo' \in SUBSET Source /\ awaited' \in SUBSET Item
    BY <1>2 DEF Start, Serve, Shutdown, Tick, Fault, Sources, IInv, TypeOK
  <1>4. TypeOK'
    BY <1>1, <1>3 DEF IInv, TypeOK, disk, memory
  <1>5. \/ phase' = phase /\ todo' = todo
        \/ phase = "down" /\ phase' = "restoring" /\ todo' = Source
        \/ phase = "restoring" /\ todo = {} /\ phase' = "up"
        \/ phase = "up" /\ phase' = "stopping"
    BY DEF Start, Serve, Shutdown, Tick, Sources
  <1>6. phase = "down" \/ (phase = "restoring" /\ todo = {}) =>
          \A s \in Source : queue[s] = {}
    BY DEF IInv, NothingInMemory
  <1>7. NothingInMemory'
    BY <1>1, <1>5 DEF IInv, NothingInMemory, memory
  <1>8. \/ phase' = phase
        \/ Serving /\ Serving'
        \/ \A s \in Source : queue[s] = {}
    BY <1>5, <1>6 DEF Serving
  <1>9. Serving' => Serving \/ (phase = "restoring" /\ todo = {})
    BY <1>5 DEF Serving
  <1>10. \A s \in Source : phase' = "restoring" /\ (s \notin todo' \/ queue[s] # {})
           => phase = "restoring" /\ (s \notin todo \/ queue[s] # {})
    BY <1>5, <1>6
  <1>11. QED
    BY <1>1, <1>3, <1>4, <1>7, <1>8, <1>9, <1>10, QuietInvariant DEF memory

(* The end of a process, by a crash or by exit.                              *)
LEMMA GoneInvariant ==
  ASSUME IInv, Gone, phase # "down", faults' \in Nat
  PROVE  IInv'
  <1>1. /\ phase' = "down"
        /\ dropped' = dropped \cup (UNION {queue[s] : s \in Source}) \cup (UNION flights)
        /\ queue' = [s \in Source |-> {}]
        /\ active' = [s \in Source |-> FALSE]
        /\ timers' = [s \in Source |-> {}]
        /\ flights' = {}
        /\ UNCHANGED <<todo, awaited, disk, accepted, calls, delivered, clock>>
    BY DEF Gone
  <1>2. queue \in [Source -> SUBSET Item] /\ dropped \in SUBSET Item
          /\ UNION flights \in SUBSET Item
    BY DEF IInv, TypeOK
  <1>3. dropped' \in SUBSET Item
    BY <1>1, <1>2
  <1>4. TypeOK'
    BY <1>1, <1>3 DEF IInv, TypeOK, disk
  <1>5. NothingInMemory' /\ ActiveHasTimer' /\ TimersNear' /\ QueueIsNew'
          /\ HeldOneWindow'
    BY <1>1 DEF NothingInMemory, ActiveHasTimer, TimersNear, QueueIsNew, HeldOneWindow
  <1>6. FileIsNew' /\ OnlyAccepted' /\ UnreadableIsEmpty' /\ OnceUnlessKept'
    BY <1>1 DEF IInv, disk, FileIsNew, OnlyAccepted, UnreadableIsEmpty, OnceUnlessKept
  <1>7. FileIsQueued'
    BY <1>1 DEF FileIsQueued, Serving
  <1>8. NotForgotten'
    <2>1. SUFFICES ASSUME NEW j \in Item, accepted[j] # 0, j \notin delivered,
                          j \notin file[SourceOf[j]]
                   PROVE  /\ j \in dropped'
                          /\ j \in unsaved \/ j \in taken \/ calls[j] > 0
      BY <1>1 DEF NotForgotten, Lost, disk
    <2>2. SourceOf[j] \in Source
      BY ItemAssumption
    <2>3. CASE j \in queue[SourceOf[j]]
      <3>1. j \in unsaved \/ j \in taken
        BY <2>1, <2>2, <2>3 DEF IInv, QueueIsNew
      <3>2. j \in dropped'
        BY <1>1, <2>2, <2>3
      <3>3. QED
        BY <3>1, <3>2
    <2>4. CASE j \in UNION flights
      BY <1>1, <2>4 DEF IInv, FlightsHanded
    <2>5. CASE Lost(j)
      BY <1>1, <2>5 DEF Lost
    <2>6. QED
      BY <2>1, <2>3, <2>4, <2>5 DEF IInv, NotForgotten
  <1>10. HandedIsKnown' /\ FlightsHanded'
    BY <1>1 DEF IInv, HandedIsKnown, FlightsHanded
  <1>9. QED
    BY <1>4, <1>5, <1>6, <1>7, <1>8, <1>10 DEF IInv

-----------------------------------------------------------------------------
LEMMA StepInvariant == IInv /\ [Next]_vars => IInv'
  <1>1. SUFFICES ASSUME IInv, [Next]_vars PROVE IInv'
    OBVIOUS
  <1>2. CASE \E i \in Item, w \in Windows : Submit(i, w)
    BY <1>1, <1>2, SubmitInvariant
  <1>3. CASE \E s \in Source : \E t \in timers[s] : TimerFires(s, t)
    BY <1>1, <1>3, TimerFiresInvariant
  <1>4. CASE \E items \in flights : Delivered(items)
    BY <1>1, <1>4, DeliveredInvariant
  <1>5. CASE Start \/ Serve \/ Shutdown \/ Tick
    BY <1>1, <1>5, PhaseInvariant
  <1>6. CASE \E s \in Source : \/ RestoreSource(s) \/ RestoreFlush(s)
                               \/ RestoreUnreadable(s) \/ ShutdownFlush(s)
    BY <1>1, <1>6, RestoreSourceInvariant, RestoreFlushInvariant,
       RestoreUnreadableInvariant, ShutdownFlushInvariant
  <1>7. CASE Exit
    <2>1. Gone /\ phase # "down" /\ faults' \in Nat
      BY <1>1, <1>7 DEF Exit, IInv, TypeOK
    <2>2. QED
      BY <1>1, <2>1, GoneInvariant
  <1>8. CASE Crash
    <2>1. Gone /\ phase # "down" /\ faults' \in Nat
      BY <1>1, <1>8 DEF Crash, Fault, IInv, TypeOK
    <2>2. QED
      BY <1>1, <2>1, GoneInvariant
  <1>9. CASE UNCHANGED vars
    <2>1. UNCHANGED <<phase, todo, awaited, memory, disk, accepted, calls, dropped,
                      delivered, clock, faults>>
      BY <1>9 DEF vars
    <2>2. TypeOK' /\ NothingInMemory'
      BY <1>1, <2>1 DEF IInv, TypeOK, NothingInMemory, memory, disk
    <2>3. clock <= clock'
      BY <1>1, <2>1 DEF IInv, TypeOK
    <2>4. QED
      BY <1>1, <2>1, <2>2, <2>3, QuietInvariant DEF Serving, memory
  <1>10. CASE Loop
    BY <1>5, <1>6, <1>7, <1>10 DEF Loop
  <1>11. CASE Next
    BY <1>2, <1>3, <1>4, <1>5, <1>8, <1>10, <1>11 DEF Next
  <1>12. QED
    BY <1>1, <1>9, <1>11

(* The inductive invariant: queues, files, timers and hand-overs agree in    *)
(* every reachable state.                                                    *)
THEOREM Invariant == Spec => []IInv
  BY InitInvariant, StepInvariant, PTL DEF Spec

(* A timer that is asleep bounds the wait of every buffered item by the      *)
(* longest window (submit, flush_source).                                    *)
THEOREM WaitIsBounded == Spec => []HeldOneWindow
  <1>1. IInv => HeldOneWindow
    BY DEF IInv
  <1>2. QED
    BY <1>1, Invariant, PTL

(* Crashes, restores and shutdowns repeat a delivery only if a removal of    *)
(* the file failed (clear_persisted before deliver).                         *)
THEOREM DeliveredOnce == Spec => []OnceUnlessKept
  <1>1. IInv => OnceUnlessKept
    BY DEF IInv
  <1>2. QED
    BY <1>1, Invariant, PTL

(* An item with a 202 is lost only if the process ends while no line of it   *)
(* is on disk: the write had failed, a restore had taken the line, or the    *)
(* batch was on its way (persist_item, restore_pending, flush_source).       *)
THEOREM AcceptedIsKept == Spec => []NotForgotten
  <1>1. IInv => NotForgotten
    BY DEF IInv
  <1>2. QED
    BY <1>1, Invariant, PTL
=============================================================================
