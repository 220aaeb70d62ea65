---------------------------- MODULE DedupBuffer ----------------------------
(***************************************************************************)
(* The buffer that holds the notifications of a source for a window and    *)
(* then delivers them as one batch.  submit pushes the item to the queue   *)
(* of its source, appends a line to the source's file and starts a timer   *)
(* unless one is running; flush_source drains the queue, removes the file  *)
(* and only then delivers.  At a start restore_pending reads and removes   *)
(* one file after the other and flushes what it held, before the server    *)
(* listens; at ctrl_c flush_all flushes the queues, with the server still  *)
(* listening, and the process exits.                                       *)
(*                                                                         *)
(* A submission or a flush is one critical section of the dedup mutex,     *)
(* file operations included; a restore removes the file before it takes    *)
(* the mutex.  An item stands for one accepted request, so sets of items   *)
(* lose nothing but the order inside a batch.                              *)
(***************************************************************************)
EXTENDS Integers

CONSTANTS
  Item,       \* requests that end in the buffer
  Source,     \* keys of the dedup configuration
  SourceOf,   \* the source of each item
  Windows,    \* values of window_s over the life of the process
  Longest,    \* the longest of them
  Horizon,    \* bound: the clock stops here
  MaxFaults   \* bound: crashes, shutdowns and file operations that fail

ASSUME ItemAssumption == SourceOf \in [Item -> Source]

ASSUME WindowAssumption == Longest \in Nat /\ Windows \subseteq 1..Longest

ASSUME BoundAssumption == Horizon \in Nat /\ MaxFaults \in Nat

VARIABLES
  phase,     \* what the process is doing
  todo,      \* sources the loop of restore_pending or flush_all has left,
  awaited,   \*   and the batch it waits for
  queue,     \* dedup.queues
  active,    \* dedup.timer_active
  timers,    \* sleeping timer tasks, by the time they fire
  file,      \* pending_<source>.jsonl: the items that can be read from it
  torn,      \*   and what a write that failed has left in it
  flights,   \* batches on their way through deliver
  accepted,  \* history: when the producer got its 202 (0: not yet)
  calls,     \* history: how often the item was handed to deliver
  unsaved,   \* history: items whose line was lost to a failed write
  kept,      \* history: items whose line survived a failed removal
  taken,     \* history: items a restore took from their file
  dropped,   \* history: items in a queue or on their way when the process ended
  delivered, \* history: items that deliver has come back from
  clock, faults

memory == <<queue, active, timers, flights>>
disk == <<file, torn, unsaved, kept, taken>>
vars ==
  <<phase, todo, awaited, memory, disk, accepted, calls, dropped, delivered,
    clock, faults>>

\* A line may be cut short ("line"), or inside a character ("bytes"), so that
\* the file is no text any more and read_to_string fails.
Torn == {"no", "line", "bytes"}

TypeOK ==
  /\ phase \in {"down", "restoring", "up", "stopping"}
  /\ todo \in SUBSET Source
  /\ awaited \in SUBSET Item
  /\ queue \in [Source -> SUBSET Item]
  /\ active \in [Source -> BOOLEAN]
  /\ timers \in [Source -> SUBSET Nat]
  /\ file \in [Source -> SUBSET Item]
  /\ torn \in [Source -> Torn]
  /\ flights \in SUBSET (SUBSET Item)
  /\ accepted \in [Item -> Nat]
  /\ calls \in [Item -> Nat]
  /\ unsaved \in SUBSET Item
  /\ kept \in SUBSET Item
  /\ taken \in SUBSET Item
  /\ dropped \in SUBSET Item
  /\ delivered \in SUBSET Item
  /\ clock \in Nat \ {0}
  /\ faults \in Nat

Init ==
  /\ phase = "down"
  /\ todo = {}
  /\ awaited = {}
  /\ queue = [s \in Source |-> {}]
  /\ active = [s \in Source |-> FALSE]
  /\ timers = [s \in Source |-> {}]
  /\ file = [s \in Source |-> {}]
  /\ torn = [s \in Source |-> "no"]
  /\ flights = {}
  /\ accepted = [i \in Item |-> 0]
  /\ calls = [i \in Item |-> 0]
  /\ unsaved = {}
  /\ kept = {}
  /\ taken = {}
  /\ dropped = {}
  /\ delivered = {}
  /\ clock = 1
  /\ faults = 0

Fault == faults < MaxFaults /\ faults' = faults + 1

Serving == phase \in {"up", "stopping"}

-----------------------------------------------------------------------------
(* submit.                                                                 *)

\* The line is appended to a file that ends with a newline, or it continues a
\* cut line and is lost with it, or the file is no text already.
Appended(s, i) ==
  /\ IF torn[s] = "no"
       THEN file' = [file EXCEPT ![s] = @ \cup {i}] /\ UNCHANGED unsaved
       ELSE unsaved' = unsaved \cup {i} /\ UNCHANGED file
  /\ torn' = [torn EXCEPT ![s] = IF @ = "line" THEN "no" ELSE @]
  /\ UNCHANGED faults

\* open fails, or the disk is full in the middle of the line.
NotAppended(s, i) ==
  /\ Fault
  /\ \/ /\ unsaved' = unsaved \cup {i}
        /\ UNCHANGED <<file, torn>>
     \/ /\ unsaved' = unsaved \cup {i}
        /\ torn' = [torn EXCEPT ![s] = IF @ = "bytes" THEN @ ELSE "line"]
        /\ UNCHANGED file
     \/ /\ unsaved' = unsaved \cup {i} \cup file[s]
        /\ torn' = [torn EXCEPT ![s] = "bytes"]
        /\ file' = [file EXCEPT ![s] = {}]

\* persist_item; its errors are only logged.
Persist(s, i) == Appended(s, i) \/ NotAppended(s, i)

\* One timer for each source, with the window configured when it starts.
StartTimer(s, w) ==
  IF active[s]
    THEN UNCHANGED <<active, timers>>
    ELSE /\ active' = [active EXCEPT ![s] = TRUE]
         /\ timers' = [timers EXCEPT ![s] = @ \cup {clock + w}]

\* (Bound: a timer started here fires before the clock stops.)
Submit(i, w) ==
  LET s == SourceOf[i] IN
  /\ Serving
  /\ accepted[i] = 0
  /\ clock + Longest <= Horizon
  /\ queue' = [queue EXCEPT ![s] = @ \cup {i}]
  /\ Persist(s, i)
  /\ StartTimer(s, w)
  /\ accepted' = [accepted EXCEPT ![i] = clock]
  /\ UNCHANGED <<phase, todo, awaited, flights, kept, taken, calls, dropped,
                 delivered, clock>>

-----------------------------------------------------------------------------
(* flush_source.                                                           *)

\* timer_active is cleared, whoever calls.
RestNever(s) == active  \* mutant: the flag stays set
Rest(s) == [active EXCEPT ![s] = FALSE]

\* mutant: the file is left behind
RemoveNothing(s) == UNCHANGED <<file, torn, kept, faults>>

\* clear_persisted; an error is ignored and leaves every line in place.
Remove(s) ==
  \/ /\ file' = [file EXCEPT ![s] = {}]
     /\ torn' = [torn EXCEPT ![s] = "no"]
     /\ UNCHANGED <<kept, faults>>
  \/ /\ Fault
     /\ kept' = kept \cup file[s]
     /\ UNCHANGED <<file, torn>>

\* The critical section of flush_source, and the call of deliver that follows
\* unless there is nothing to deliver.
Flush(s, items) ==
  /\ active' = Rest(s)
  /\ queue' = [queue EXCEPT ![s] = {}]
  /\ Remove(s)
  /\ calls' = [i \in Item |-> IF i \in items THEN calls[i] + 1 ELSE calls[i]]
  /\ flights' = flights \cup ({items} \ {{}})
  /\ UNCHANGED <<phase, unsaved, taken, accepted, dropped, delivered, clock>>

\* A timer wakes up, at its time or later.
TimerFires(s, t) ==
  /\ Serving
  /\ t \in timers[s]
  /\ t <= clock
  /\ Flush(s, queue[s])
  /\ timers' = [timers EXCEPT ![s] = @ \ {t}]
  /\ UNCHANGED <<todo, awaited>>

\* mutant: the file is removed when the batch is through
DeliveredThenRemoved(items) ==
  /\ items \in flights
  /\ flights' = flights \ {items}
  /\ LET of == {SourceOf[i] : i \in items} IN
     file' = [s \in Source |-> IF s \in of THEN {} ELSE file[s]]
  /\ delivered' = delivered \cup items
  /\ UNCHANGED <<phase, todo, awaited, queue, active, timers, torn, unsaved,
                 kept, taken, accepted, calls, dropped, clock, faults>>

\* deliver returns.  Its outcome is logged; nothing is kept for another try.
Delivered(items) ==
  /\ items \in flights
  /\ flights' = flights \ {items}
  /\ delivered' = delivered \cup items
  /\ UNCHANGED <<phase, todo, awaited, queue, active, timers, disk, accepted,
                 calls, dropped, clock, faults>>

-----------------------------------------------------------------------------
(* Start, shutdown and crash.                                              *)

SourcesNone == {}  \* mutant: no file is looked for

\* restore_pending goes over the sources of the dedup configuration.
Sources == Source

Start ==
  /\ phase = "down"
  /\ phase' = "restoring"
  /\ todo' = Sources
  /\ awaited' = {}
  /\ UNCHANGED <<memory, disk, accepted, calls, dropped, delivered, clock, faults>>

\* The loop has delivered the batch of the source before, and a restore has no
\* other source in hand.
LoopAt(s) ==
  /\ s \in todo
  /\ awaited \notin flights
  /\ phase = "restoring" => \A r \in Source : queue[r] = {}

\* The file is read and removed, which may fail, and what it held is put into
\* the queue; nobody has the mutex meanwhile.
RestoreSource(s) ==
  /\ phase = "restoring"
  /\ LoopAt(s)
  /\ torn[s] # "bytes"
  /\ \/ /\ file' = [file EXCEPT ![s] = {}]
        /\ torn' = [torn EXCEPT ![s] = "no"]
        /\ taken' = taken \cup file[s]
        /\ UNCHANGED faults
     \/ Fault /\ UNCHANGED <<file, torn, taken>>
  /\ queue' = [queue EXCEPT ![s] = file[s]]
  /\ todo' = IF file[s] = {} THEN todo \ {s} ELSE todo
  /\ UNCHANGED <<phase, awaited, active, timers, flights, unsaved, kept, accepted,
                 calls, dropped, delivered, clock>>

\* Then the queue is flushed like any other.
RestoreFlush(s) ==
  /\ phase = "restoring"
  /\ queue[s] # {}
  /\ Flush(s, queue[s])
  /\ todo' = todo \ {s}
  /\ awaited' = queue[s]
  /\ UNCHANGED timers

\* A file that is no text is passed over, and left to the next flush.
RestoreUnreadable(s) ==
  /\ phase = "restoring"
  /\ LoopAt(s)
  /\ torn[s] = "bytes"
  /\ todo' = todo \ {s}
  /\ UNCHANGED <<phase, awaited, memory, disk, accepted, calls, dropped, delivered,
                 clock, faults>>

Serve ==
  /\ phase = "restoring"
  /\ todo = {} /\ awaited \notin flights
  /\ phase' = "up"
  /\ UNCHANGED <<todo, awaited, memory, disk, accepted, calls, dropped, delivered,
                 clock, faults>>

\* ctrl_c.
Shutdown ==
  /\ phase = "up"
  /\ Fault
  /\ phase' = "stopping"
  /\ todo' = Source
  /\ awaited' = {}
  /\ UNCHANGED <<memory, disk, accepted, calls, dropped, delivered, clock>>

ShutdownFlush(s) ==
  /\ phase = "stopping"
  /\ LoopAt(s)
  /\ Flush(s, queue[s])
  /\ todo' = todo \ {s}
  /\ awaited' = queue[s]
  /\ UNCHANGED timers

\* Memory is gone: queues, timers, and batches that other tasks deliver.
Gone ==
  /\ phase' = "down"
  /\ dropped' = dropped \cup (UNION {queue[s] : s \in Source}) \cup (UNION flights)
  /\ queue' = [s \in Source |-> {}]
  /\ active' = [s \in Source |-> FALSE]
  /\ timers' = [s \in Source |-> {}]
  /\ flights' = {}
  /\ UNCHANGED <<todo, awaited, disk, accepted, calls, delivered, clock>>

\* exit(0) after the last flush.
Exit ==
  /\ phase = "stopping"
  /\ todo = {} /\ awaited \notin flights
  /\ Gone
  /\ UNCHANGED faults

Crash == phase # "down" /\ Fault /\ Gone

Tick ==
  /\ clock < Horizon
  /\ clock' = clock + 1
  /\ UNCHANGED <<phase, todo, awaited, memory, disk, accepted, calls, dropped,
                 delivered, faults>>

-----------------------------------------------------------------------------
Loop ==
  \/ \E s \in Source :
       \/ RestoreSource(s) \/ RestoreFlush(s) \/ RestoreUnreadable(s)
       \/ ShutdownFlush(s)
  \/ Serve
  \/ Exit

Next ==
  \/ \E i \in Item, w \in Windows : Submit(i, w)
  \/ \E s \in Source : \E t \in timers[s] : TimerFires(s, t)
  \/ \E items \in flights : Delivered(items)
  \/ Start
  \/ Loop
  \/ Shutdown
  \/ Crash
  \/ Tick

Spec == Init /\ [][Next]_vars

\* The runtime polls every task whose timer or delivery is due, channels answer
\* within their timeouts, and the service is started again after an end.
FairSpec ==
  /\ Spec
  /\ \A s \in Source : WF_vars(\E t \in timers[s] : TimerFires(s, t))
  /\ WF_vars(\E items \in flights : Delivered(items))
  /\ WF_vars(Start)
  /\ WF_vars(Loop)
  /\ WF_vars(Tick)

-----------------------------------------------------------------------------
(* What must hold.                                                         *)

\* No item waits longer than the longest window while the server listens:
\* whatever flushes came between, a timer that is still asleep covers every
\* item in a queue.  (A restore flushes what it has put into one.)
HeldOneWindow ==
  \A s \in Source : \A i \in queue[s] :
    Serving => \E t \in timers[s] : t <= accepted[i] + Longest

\* No item is delivered twice, across crashes and restarts, unless its file
\* could not be removed.
OnceUnlessKept == \A i \in Item : calls[i] > 1 => i \in kept

\* What the end of a process may take with it: an item without a line, because
\* its write failed, because a restore had taken it from its file, or because it
\* was on its way through deliver.
Lost(i) ==
  /\ i \in dropped
  /\ i \notin file[SourceOf[i]]
  /\ i \in unsaved \/ i \in taken \/ calls[i] > 0

\* An accepted item that deliver has not come back from is in the queue, or on
\* disk where the next start finds it, or on its way; or it is lost.
NotForgotten ==
  \A i \in Item :
    accepted[i] # 0 /\ i \notin delivered =>
      \/ i \in queue[SourceOf[i]]
      \/ i \in file[SourceOf[i]]
      \/ i \in UNION flights
      \/ Lost(i)

\* An item that the producer was told is buffered is delivered some day,
\* restarts or not, or it is lost.
EventuallyDelivered ==
  \A i \in Item : accepted[i] # 0 ~> i \in delivered \/ Lost(i)

-----------------------------------------------------------------------------
(* The inductive invariant behind the safety properties.                   *)

\* Nothing runs in a process that is not there, and nothing sleeps before the
\* server listens; what a restore has in the queue is in hand.
NothingInMemory ==
  /\ phase = "down" => flights = {} /\ \A s \in Source : queue[s] = {}
  /\ phase \in {"down", "restoring"} =>
       \A s \in Source : timers[s] = {} /\ active[s] = FALSE
  /\ phase = "restoring" => \A s \in Source : queue[s] # {} => s \in todo

\* The flag of a source stands for a timer that is asleep.
ActiveHasTimer == \A s \in Source : active[s] => timers[s] # {}

TimersNear == \A s \in Source : \A t \in timers[s] : t <= clock + Longest

\* An item in a queue is new, or back because its removal failed, and its line
\* is in the file, lost or taken by the restore.
QueueIsNew ==
  \A s \in Source : \A i \in queue[s] :
    /\ SourceOf[i] = s
    /\ accepted[i] # 0
    /\ calls[i] = 0 \/ i \in kept
    /\ active[s] \/ phase = "restoring"
    /\ i \in file[s] \/ i \in unsaved \/ i \in taken

\* A line in a file is that of an item that was not handed over, or that a
\* failed removal left behind.
FileIsNew ==
  \A s \in Source : \A i \in file[s] :
    /\ SourceOf[i] = s
    /\ accepted[i] # 0
    /\ calls[i] = 0 \/ i \in kept

OnlyAccepted == \A i \in Item : calls[i] > 0 => accepted[i] # 0

\* A file that is no text has nothing to restore.
UnreadableIsEmpty == \A s \in Source : torn[s] = "bytes" => file[s] = {}

\* Once the loop of a restore is past a source, or has it in hand, the queue has
\* every item of the file that was not handed over: a flush may remove the file.
FileIsQueued ==
  \A s \in Source : \A i \in file[s] :
    Serving \/ (phase = "restoring" /\ (s \notin todo \/ queue[s] # {})) =>
      i \in queue[s] \/ calls[i] > 0

\* What was handed over is on its way, came back, or was cut off.
HandedIsKnown ==
  \A i \in Item :
    calls[i] > 0 => i \in delivered \/ i \in UNION flights \/ i \in dropped

\* A batch on its way was handed over.
FlightsHanded == \A i \in UNION flights : calls[i] > 0

IInv ==
  /\ TypeOK
  /\ NothingInMemory
  /\ ActiveHasTimer
  /\ TimersNear
  /\ QueueIsNew
  /\ FileIsNew
  /\ OnlyAccepted
  /\ UnreadableIsEmpty
  /\ FileIsQueued
  /\ HandedIsKnown
  /\ FlightsHanded
  /\ HeldOneWindow
  /\ OnceUnlessKept
  /\ NotForgotten
=============================================================================
