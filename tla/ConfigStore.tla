---------------------------- MODULE ConfigStore ----------------------------
(***************************************************************************)
(* The settings: one TOML file and four JSON files beside it, and the copy *)
(* of them in the memory of each klaxond that runs on the directory.  A    *)
(* handler takes the lock of the configuration writes, which a file lock   *)
(* extends to the other processes, applies its edit to the copy in memory, *)
(* writes one file after the other and then replaces the copy.  An edit of *)
(* the TOML is reloaded and validated between the two, and rolled back if  *)
(* that fails; a crash may come between any two of the steps.              *)
(*                                                                         *)
(* A setting is one field, with the few values the other steps tell apart: *)
(* "fallback" is none, a partly or a fully configured Telegram or SMTP,    *)
(* "tuned" the custom sources with dedup settings of their own, "basic"    *)
(* and "factor" the last TOTP counters (0 is not enrolled).                *)
(***************************************************************************)
EXTENDS EmergencyRouting

CONSTANTS
  Instance,      \* processes on one data directory
  Source,        \* custom ingest sources
  Token,         \* API tokens
  Passkey,       \* passkeys
  Store,         \* history stores
  Val,           \* values of a setting no other step depends on
  Timeout,       \* timeouts of the ntfy tier
  Policy,        \* emergency settings that may be saved, by a name of ours
  TopicSet,      \* sets of ntfy topics that may be saved, likewise
  MaxCode,       \* bound: TOTP counters
  MaxSources,    \* MAX_CUSTOM_INGEST_SOURCES
  Initial,       \* the settings of the first start
  Bundle,        \* settings exported earlier, or elsewhere
  MaxSaves,      \* bound: edits that get the lock
  MaxWaiting,    \* bound: source edits validated and waiting for the lock
  MaxFaults,     \* bound: failing writes and cutovers
  MaxCrashes     \* bound: crashes

ASSUME ValueAssumption ==
  /\ Timeout \subseteq Nat /\ MaxCode \in Nat
  /\ \A m \in DOMAIN Policy : Policy[m] \in EmergencySettings
  /\ \A t \in DOMAIN TopicSet : TopicSet[t] \subseteq Topic

ASSUME BoundAssumption == {MaxSaves, MaxWaiting, MaxFaults, MaxCrashes, MaxSources} \subseteq Nat

VARIABLES
  disk,      \* what the files hold
  mem,       \* AppState::config of each process, None while it is down
  job,       \* what the holder of the lock is doing, None while it is free
  waiting,   \* source edits that were validated before they have the lock
  acked,     \* history: the settings that were answered with ok
  loose,     \* history: files a refused or interrupted edit has altered
  accepted,  \* history: the TOTP codes accepted since the enrolment
  saves, faults, crashes

vars == <<disk, mem, job, waiting, acked, loose, accepted, saves, faults, crashes>>

File == {"toml", "render", "topics", "dedup", "auth"}

TomlField == {"timeout", "fallback", "emergency", "delivery", "inhibitions", "schedules",
              "display", "history", "sources", "secrets"}
AuthField == {"settings", "tokens", "passkeys", "basic", "factor"}

Fields(f) == CASE f = "toml" -> TomlField
               [] f = "render" -> {"dashboards"}
               [] f = "topics" -> {"topics"}
               [] f = "dedup" -> {"tuned"}
               [] f = "auth" -> AuthField

Field == UNION {Fields(f) : f \in File}

Config == [timeout : Timeout, fallback : {"none", "partial", "ready"}, emergency : DOMAIN Policy,
           delivery : Val, inhibitions : Val, schedules : Val, display : Val,
           history : Store, sources : SUBSET Source, secrets : SUBSET Source,
           dashboards : Val, topics : DOMAIN TopicSet, tuned : SUBSET Source,
           settings : Val, tokens : SUBSET Token, passkeys : SUBSET Passkey,
           basic : 0..MaxCode, factor : 0..MaxCode]

\* The settings c with those of the edit e, and with those d holds in file f.
Over(e, c) == [x \in Field |-> IF x \in DOMAIN e THEN e[x] ELSE c[x]]
Put(f, d, c) == [x \in Field |-> IF x \in Fields(f) THEN d[x] ELSE c[x]]

Differ(f, c, d) == \E x \in Fields(f) : c[x] # d[x]

-----------------------------------------------------------------------------
(* What loading the files makes of them, if they validate.                  *)

\* The validation looks at these fields, and at what the names stand for.
GuardField == {"timeout", "fallback", "emergency", "topics"}

GuardType == {[timeout |-> t, fallback |-> f, emergency |-> m, topics |-> n] :
                t \in Timeout, f \in {"none", "partial", "ready"},
                m \in DOMAIN Policy, n \in DOMAIN TopicSet}

Meaning(g) == [g EXCEPT !.emergency = Policy[@], !.topics = TopicSet[@]]

ValidGuards == {g \in GuardType : Valid(Meaning(g))}

Guarded(c) == [x \in GuardField |-> c[x]]

Validated(c) == Guarded(c) \in ValidGuards

\* Dedup settings of sources that are not registered are dropped.
Tuned(c) == c.tuned \cap c.sources

Effective(c) == [c EXCEPT !.tuned = Tuned(c)]

\* The first start has loaded and validated what it begins with.
ASSUME SettingsAssumption ==
  /\ {Initial} \cup Bundle \subseteq Config
  /\ Validated(Initial) /\ Effective(Initial) = Initial

-----------------------------------------------------------------------------
(* Taking the lock.                                                         *)

Free == job = None
Up(i) == mem[i] # None

\* with_config_write_lock: what edit e makes of the settings c is to be
\* written to the files, reloaded ("reload"), validated ahead ("staged") or
\* taken over as it is ("direct", or "code" if a TOTP code is at stake); undo is what a failure writes back.
Job(i, how, c, e, files, undo) ==
  [inst |-> i, how |-> how, touched |-> DOMAIN e, want |-> Over(e, c),
   loaded |-> Over(e, c), before |-> disk, todo |-> files, dirty |-> {}, undo |-> undo, pc |-> "write"]

Take(i, how, c, e, files, undo) ==
  /\ Free /\ Up(i) /\ saves < MaxSaves
  /\ saves' = saves + 1
  /\ job' = Job(i, how, c, e, files, undo)
  /\ UNCHANGED <<disk, mem, acked, loose, accepted, faults, crashes>>

Hold(i, how, e, files, undo) ==
  Take(i, how, mem[i], e, files, undo) /\ UNCHANGED waiting

\* persist_reload, and the edits of a sidecar that only the memory repeats.
SaveToml(i, e) == Hold(i, "reload", e, <<"toml">>, <<"toml">>)
SaveSidecar(i, f, e) == Hold(i, "direct", e, <<f>>, <<>>)
SaveAuth(i, e) == SaveSidecar(i, "auth", e)

-----------------------------------------------------------------------------
(* The handlers.                                                            *)

SaveCascade(i) == \E t \in Timeout \ {mem[i].timeout} : SaveToml(i, [timeout |-> t])

SaveChannels(i) == \E b \in {"none", "partial", "ready"} \ {mem[i].fallback} :
  SaveToml(i, [fallback |-> b])

SaveDelivery(i) == \E v \in Val \ {mem[i].delivery} : SaveToml(i, [delivery |-> v])

\* The emergency settings are validated before anything is written.
SaveEmergency(i) == \E m \in DOMAIN Policy \ {mem[i].emergency} :
  /\ Validated(Over([emergency |-> m], mem[i]))
  /\ SaveToml(i, [emergency |-> m])

SaveHistory(i) == \E s \in Store \ {mem[i].history} : SaveToml(i, [history |-> s])

SaveInhibitions(i) == \E v \in Val \ {mem[i].inhibitions} : SaveToml(i, [inhibitions |-> v])

SaveSchedules(i) == \E v \in Val \ {mem[i].schedules} : SaveToml(i, [schedules |-> v])

SaveDisplay(i) == \E v \in Val \ {mem[i].display} : SaveToml(i, [display |-> v])

\* The dashboards are written to their file, and then to the TOML.
SaveDashboards(i) == \E v \in Val \ {mem[i].dashboards} :
  Hold(i, "reload", [dashboards |-> v], <<"render", "toml">>, <<"toml">>)

\* The topics are written first, and stay if the reload refuses them.
SaveTopics(i) == \E t \in DOMAIN TopicSet \ {mem[i].topics} :
  Hold(i, "reload", [topics |-> t], <<"topics">>, <<>>)

SaveDedup(i) == \E s \in mem[i].sources :
  SaveSidecar(i, "dedup", [tuned |-> mem[i].tuned \cup {s}])

\* A source edit is validated against the memory before the lock ...
ValidSourceEdit(c, a, s) ==
  CASE a = "add" -> s \notin c.sources /\ Cardinality(c.sources) < MaxSources
    [] a \in {"remove", "set", "clear"} -> s \in c.sources

ReceiveSourceEdit(i) == \E a \in {"add", "remove", "set", "clear"}, s \in Source :
  /\ Up(i) /\ ValidSourceEdit(mem[i], a, s)
  /\ Cardinality(waiting) < MaxWaiting /\ saves < MaxSaves
  /\ waiting' = waiting \cup {[inst |-> i, action |-> a, source |-> s]}
  /\ UNCHANGED <<disk, mem, job, acked, loose, accepted, saves, faults, crashes>>

\* ... and applied to what the memory holds once it has it.
SourceEdit(c, a, s) ==
  CASE a = "add" -> [sources |-> c.sources \cup {s}, secrets |-> c.secrets \cup {s}]
    [] a = "remove" -> [sources |-> c.sources \ {s}, secrets |-> c.secrets \ {s}]
    [] a = "set" -> [secrets |-> c.secrets \cup {s}]
    [] a = "clear" -> [secrets |-> c.secrets \ {s}]

SaveSource(i) == \E w \in waiting :
  /\ w.inst = i
  /\ waiting' = waiting \ {w}
  /\ Take(i, "reload", mem[i], SourceEdit(mem[i], w.action, w.source), <<"toml">>, <<"toml">>)

SaveAuthSettings(i) == \E v \in Val \ {mem[i].settings} : SaveAuth(i, [settings |-> v])

CreateToken(i) == \E k \in Token \ mem[i].tokens : SaveAuth(i, [tokens |-> mem[i].tokens \cup {k}])
RevokeToken(i) == \E k \in mem[i].tokens : SaveAuth(i, [tokens |-> mem[i].tokens \ {k}])

\* A request with a token renews its last_used_at, and writes the file for it.
UseToken(i) == mem[i].tokens # {} /\ SaveAuth(i, [tokens |-> mem[i].tokens])

RegisterPasskey(i) == \E k \in Passkey \ mem[i].passkeys :
  SaveAuth(i, [passkeys |-> mem[i].passkeys \cup {k}])
DeletePasskey(i) == \E k \in mem[i].passkeys : SaveAuth(i, [passkeys |-> mem[i].passkeys \ {k}])
\* A sign-in with a passkey stores the counter of its credential.
UsePasskey(i) == mem[i].passkeys # {} /\ SaveAuth(i, [passkeys |-> mem[i].passkeys])

EnableTotp(i) == \E n \in 1..MaxCode : SaveAuth(i, [basic |-> n])
DisableTotp(i) == mem[i].basic # 0 /\ SaveAuth(i, [basic |-> 0])
SetUpFactor(i) == \E n \in 1..MaxCode : SaveAuth(i, [factor |-> n])

\* A code is accepted when its counter is beyond the last one accepted.
\* mutant: the last counter itself is accepted again.
AfterOrAt(n, last) == last # 0 /\ n >= last
Beyond(n, last) == last # 0 /\ n > last

ConsumeBasic(i) == \E n \in 1..MaxCode :
  Beyond(n, mem[i].basic) /\ Hold(i, "code", [basic |-> n], <<"auth">>, <<>>)
ConsumeFactor(i) == \E n \in 1..MaxCode :
  Beyond(n, mem[i].factor) /\ Hold(i, "code", [factor |-> n], <<"auth">>, <<>>)

\* A restore stages the files beside the current ones, loads and validates
\* them there, and snapshots what it will write, before it writes anything.
\* mutant: what is restored is not validated first.
StageUnchecked(i, e, files) == Take(i, "staged", disk, e, files, files) /\ UNCHANGED waiting
Stage(i, e, files) ==
  /\ Validated(Effective(Over(e, disk)))
  /\ Take(i, "staged", disk, e, files, files)
  /\ UNCHANGED waiting

RestoreBundle(i) == \E b \in Bundle :
  Stage(i, b, <<"toml", "render", "topics", "dedup", "auth">>)

\* A TOML alone brings the sidecars it has a section for: dashboards and
\* settings, but neither tokens nor passkeys nor TOTP counters.
SectionsOf(c, f) ==
  CASE f = "render" -> [dashboards |-> c.dashboards]
    [] f = "dedup" -> [tuned |-> Tuned(c)]
    [] f = "auth" -> [settings |-> c.settings, tokens |-> {}, passkeys |-> {},
                      basic |-> 0, factor |-> 0]
    [] f = "topics" -> [topics |-> c.topics]

RestoreToml(i) == \E b \in Bundle, f \in File :
  LET e == [x \in TomlField \cup Fields(f) |->
              IF x \in TomlField THEN b[x] ELSE SectionsOf(b, f)[x]]
  IN  Stage(i, e, IF f = "toml" THEN <<f>> ELSE <<"toml", f>>)

-----------------------------------------------------------------------------
(* The steps of the holder of the lock.                                     *)

Reset(f) == [o \in {"basic", "factor"} |->
  IF f = "auth" /\ job.how # "code" /\ o \in job.touched THEN <<>> ELSE accepted[o]]

\* atomic_write: the file is replaced as a whole, or not at all.
WriteFile ==
  /\ ~Free /\ job.pc = "write" /\ job.todo # <<>>
  /\ disk' = Put(Head(job.todo), job.want, disk)
  /\ accepted' = Reset(Head(job.todo))
  /\ job' = [job EXCEPT !.todo = Tail(@), !.dirty = @ \cup {Head(job.todo)}]
  /\ UNCHANGED <<mem, waiting, acked, loose, saves, faults, crashes>>

\* A write that fails ends the edit; a restore takes its writes back first.
WriteFails ==
  /\ ~Free /\ job.pc = "write" /\ job.todo # <<>> /\ faults < MaxFaults
  /\ faults' = faults + 1
  /\ job' = [job EXCEPT !.pc = IF job.how = "staged" THEN "undo" ELSE "refuse"]
  /\ UNCHANGED <<disk, mem, waiting, acked, loose, accepted, saves, crashes>>

\* load_runtime_config: the dedup settings are pruned before the validation.
Pruned == {f \in {"dedup"} : Differ(f, disk, Effective(disk))}

Load ==
  /\ ~Free /\ job.how = "reload" /\ job.pc = "write" /\ job.todo = <<>>
  /\ disk' = Effective(disk)
  /\ job' = [job EXCEPT !.loaded = disk', !.dirty = @ \cup Pruned,
                         !.pc = IF Validated(disk') THEN "swap" ELSE "undo"]
  /\ UNCHANGED <<mem, waiting, acked, loose, accepted, saves, faults, crashes>>

\* The other edits go from the files to the memory at once.
Written == /\ ~Free /\ job.todo = <<>>
           /\ job.pc = IF job.how = "reload" THEN "swap" ELSE "write"

\* mutant: the edit is taken over, not what the files hold.
LoadedWanted == Effective(job.want)
Loaded == IF job.how = "staged" THEN Effective(job.want) ELSE job.loaded

\* The settings that are in force and on disk once the edit is answered: its
\* own, and those of an earlier edit that a reload came upon.
LooseField == UNION {Fields(f) : f \in loose}

Answered == Effective([x \in Field |->
  IF x \in job.touched THEN job.want[x]
  ELSE IF x \in LooseField /\ job.how \in {"reload", "staged"} THEN Loaded[x]
  ELSE acked[x]])

\* What is on disk is known again: all of it once it was loaded, else the
\* file that was written.  A restore loads beside the files, and so leaves
\* the dedup settings of sources it drops in theirs.
StillLoose ==
  CASE job.how \in {"direct", "code"} -> {f \in loose : Fields(f) \cap job.touched = {}}
    [] job.how = "reload" -> {}
    [] job.how = "staged" -> {f \in {"dedup"} : Differ(f, disk, Loaded)}

Credited == [o \in {"basic", "factor"} |->
  IF job.how # "staged" /\ o \in job.touched /\ job.want[o] # 0
  THEN Append(accepted[o], job.want[o]) ELSE accepted[o]]

\* try_replace_config: the memory takes the settings over, and the answer is ok.
Apply ==
  /\ Written
  /\ mem' = [mem EXCEPT ![job.inst] = Loaded]
  /\ acked' = Answered
  /\ loose' = StillLoose
  /\ accepted' = Credited
  /\ job' = None
  /\ UNCHANGED <<disk, waiting, saves, faults, crashes>>

\* Another history store may not open, or not take the sessions.
CutoverFails ==
  /\ Written /\ Loaded.history # mem[job.inst].history /\ faults < MaxFaults
  /\ faults' = faults + 1
  /\ job' = [job EXCEPT !.pc = "undo"]
  /\ UNCHANGED <<disk, mem, waiting, acked, loose, accepted, saves, crashes>>

\* restore_config_file, restore_snapshots: every file is put back, one after
\* the other; one that cannot be is left, and logged.
\* mutant: the file stays as it was written.
PutBackNothing == disk
PutBack == Put(Head(job.undo), job.before, disk)

UndoFile ==
  /\ ~Free /\ job.pc = "undo" /\ job.undo # <<>>
  /\ disk' = PutBack
  /\ job' = [job EXCEPT !.undo = Tail(@), !.dirty = @ \ {Head(job.undo)}]
  /\ UNCHANGED <<mem, waiting, acked, loose, accepted, saves, faults, crashes>>

UndoFails ==
  /\ ~Free /\ job.pc = "undo" /\ job.undo # <<>> /\ faults < MaxFaults
  /\ faults' = faults + 1
  /\ job' = [job EXCEPT !.undo = Tail(@)]
  /\ UNCHANGED <<disk, mem, waiting, acked, loose, accepted, saves, crashes>>

\* The edit is answered with an error.
Refuse ==
  /\ ~Free /\ (job.pc = "refuse" \/ (job.pc = "undo" /\ job.undo = <<>>))
  /\ loose' = loose \cup job.dirty
  /\ job' = None
  /\ UNCHANGED <<disk, mem, waiting, acked, accepted, saves, faults, crashes>>

-----------------------------------------------------------------------------
(* The processes.                                                           *)

Crash(i) ==
  /\ Up(i) /\ crashes < MaxCrashes
  /\ crashes' = crashes + 1
  /\ mem' = [mem EXCEPT ![i] = None]
  /\ waiting' = {w \in waiting : w.inst # i}
  /\ IF ~Free /\ job.inst = i
     THEN job' = None /\ loose' = loose \cup job.dirty
     ELSE UNCHANGED <<job, loose>>
  /\ UNCHANGED <<disk, acked, accepted, saves, faults>>

\* A start loads the files; it fails if they do not validate.
Start(i) ==
  /\ ~Up(i) /\ Validated(disk)
  /\ disk' = Effective(disk)
  /\ mem' = [mem EXCEPT ![i] = disk']
  /\ acked' = Effective([x \in Field |->
                IF x \in LooseField THEN disk'[x] ELSE acked[x]])
  /\ loose' = {}
  /\ UNCHANGED <<job, waiting, accepted, saves, faults, crashes>>

-----------------------------------------------------------------------------
Init ==
  /\ disk = Initial /\ acked = Initial
  /\ mem = [i \in Instance |-> Initial]
  /\ job = None /\ waiting = {} /\ loose = {}
  /\ accepted = [o \in {"basic", "factor"} |-> <<>>]
  /\ saves = 0 /\ faults = 0 /\ crashes = 0

Edit(i) ==
  /\ Up(i)
  /\ \/ SaveCascade(i) \/ SaveChannels(i) \/ SaveDelivery(i) \/ SaveEmergency(i)
     \/ SaveHistory(i) \/ SaveInhibitions(i) \/ SaveSchedules(i) \/ SaveDisplay(i)
     \/ SaveDashboards(i) \/ SaveTopics(i) \/ SaveDedup(i) \/ SaveSource(i)
     \/ SaveAuthSettings(i) \/ CreateToken(i) \/ RevokeToken(i) \/ UseToken(i)
     \/ RegisterPasskey(i) \/ DeletePasskey(i) \/ UsePasskey(i)
     \/ EnableTotp(i) \/ DisableTotp(i) \/ SetUpFactor(i)
     \/ ConsumeBasic(i) \/ ConsumeFactor(i) \/ RestoreBundle(i) \/ RestoreToml(i)

Step == WriteFile \/ WriteFails \/ Load \/ Apply \/ CutoverFails
          \/ UndoFile \/ UndoFails \/ Refuse

Next == \/ \E i \in Instance : Edit(i) \/ ReceiveSourceEdit(i)
                               \/ Crash(i) \/ Start(i)
        \/ Step

Spec == Init /\ [][Next]_vars

-----------------------------------------------------------------------------
JobType == [inst : Instance, how : {"reload", "staged", "direct", "code"},
            touched : SUBSET Field, want : Config, loaded : Config, before : Config,
            todo : Seq(File), undo : Seq(File), dirty : SUBSET File,
            pc : {"write", "swap", "undo", "refuse"}]

ASSUME NoneAssumption == None \notin JobType

TypeOK ==
  /\ disk \in Config /\ acked \in Config
  /\ mem \in [Instance -> Config \cup {None}]
  /\ job \in JobType \cup {None}
  /\ waiting \subseteq [inst : Instance, action : {"add", "remove", "set", "clear"}, source : Source]
  /\ loose \subseteq File
  /\ accepted \in [{"basic", "factor"} -> Seq(1..MaxCode)]
  /\ saves \in 0..MaxSaves /\ faults \in 0..MaxFaults /\ crashes \in 0..MaxCrashes

\* Whenever the lock is free, every file that no refused or interrupted edit
\* has altered holds the settings that were answered with ok: neither a later
\* edit, nor a rollback, nor a crash takes them back (persist_reload,
\* try_replace_config_with_commit, atomic_write).
AckedOnDisk == Free => \A x \in Field \ LooseField : disk[x] = acked[x]

\* The memory of the only process holds the settings that were answered with
\* ok and no others: no edit shows before it is on disk and loaded, none that
\* is refused stays, and what a refused edit left on disk comes into force by
\* a load alone.
AckedInMemory == \A i \in Instance : Up(i) => mem[i] = acked

\* The settings under which no accepted alert is let down.
CoveredGuards == {g \in GuardType : \A a \in Alert : Covered(Meaning(g), a)}

\* Whichever handler last changed the timeouts, the channels, the topics or
\* the profiles, an alert that the settings in force accept and match with a
\* profile gets a receipt that can be sent: its severity has a topic with a
\* token, its profile has a fallback or is meant to go alone, and its lease
\* outlasts one attempt over all its channels; and an alert labelled an
\* emergency finds a profile (validate_runtime_config against
\* select_emergency_profile).
EmergencyCovered == \A i \in Instance : Up(i) => Guarded(mem[i]) \in CoveredGuards

\* A TOTP code is accepted once for an enrolment, be there a failing write or
\* a crash between the file and the memory (consume_basic_totp,
\* consume_totp_factor).  A restore takes the counter back to that of
\* the bundle, and from there codes are counted anew.
CodeOnce == \A o \in {"basic", "factor"} : \A m, n \in DOMAIN accepted[o] :
              m < n => accepted[o][m] < accepted[o][n]

-----------------------------------------------------------------------------
(* The inductive invariant.                                                 *)

\* The settings in force were validated.
MemoryValid == \A i \in Instance : Up(i) => Validated(mem[i])

\* A direct edit leaves the validated settings alone, the others are
\* validated before they are taken over.
JobValid == ~Free =>
  /\ Up(job.inst)
  /\ job.how \in {"direct", "code"} =>
       job.loaded = job.want /\ \A x \in GuardField : job.want[x] = mem[job.inst][x]
  /\ job.how = "staged" => Validated(Effective(job.want))
  /\ job.how = "reload" /\ job.pc = "swap" => Validated(job.loaded)

\* No settings that are or may come into force have an older TOTP counter
\* than a code that was accepted.
NotBefore(o, c) == \A m \in DOMAIN accepted[o] : accepted[o][m] <= c[o]

ToWrite(f) == \E n \in DOMAIN job.todo : job.todo[n] = f

PendingCounter(o) ==
  /\ NotBefore(o, job.before)
  /\ job.how = "reload" => o \notin job.touched
  /\ job.how = "reload" /\ job.pc = "swap" => NotBefore(o, job.loaded)
  /\ o \in job.touched /\ ~ToWrite("auth") /\ job.pc \in {"write", "swap"} =>
       disk[o] = job.want[o]
  /\ IF job.how # "code" /\ o \in job.touched
     THEN ~ToWrite("auth") => accepted[o] = <<>>
     ELSE NotBefore(o, job.want)
  /\ job.how = "code" /\ o \in job.touched =>
       \A m \in DOMAIN accepted[o] : accepted[o][m] < job.want[o]

CountersKept == \A o \in {"basic", "factor"} :
  /\ NotBefore(o, disk)
  /\ \A i \in Instance : Up(i) => NotBefore(o, mem[i])
  /\ ~Free => PendingCounter(o)

\* The settings that a file of no set of files F holds are the ones answered.
Settled(F, d) == \A f \in File \ F : \A x \in Fields(f) : d[x] = acked[x]

\* What the files held before the edit, those of them that it has not
\* altered, and those it has; and what the edit is made from.
FilesTracked ==
  /\ Settled(loose, job.before)
  /\ \A f \in File \ job.dirty : ~Differ(f, job.before, disk)
  /\ job.pc = "write" => \A f \in job.dirty : ~Differ(f, job.want, disk)
  /\ \A x \in Field \ job.touched :
       job.want[x] = IF job.how = "staged" THEN job.before[x] ELSE acked[x]

\* Every file of a touched setting is written before the edit is answered.
FilesWritten == job.pc \in {"write", "swap"} =>
  \A f \in File : Fields(f) \cap job.touched # {} => f \in job.dirty \/ ToWrite(f)

\* A reload writes no dedup settings of its own and takes over what the files
\* hold; the edits that only the memory repeats keep to the sources there are.
EditKept ==
  /\ job.how \in {"direct", "code"} => job.want.tuned \subseteq job.want.sources
  /\ job.how = "reload" =>
       /\ "tuned" \notin job.touched /\ ~ToWrite("dedup")
       /\ job.pc = "write" => "dedup" \notin job.dirty
       /\ job.pc = "swap" =>
            /\ job.loaded = disk /\ disk.tuned = job.before.tuned \cap disk.sources
            /\ \A f \in job.dirty \ {"dedup"} : ~Differ(f, job.want, disk)

SettingsKept ==
  /\ acked.tuned \subseteq acked.sources
  /\ AckedInMemory
  /\ Free => Settled(loose, disk)
  /\ ~Free => FilesTracked /\ FilesWritten /\ EditKept

OneProcess == \A i, j \in Instance : i = j

IInv == /\ TypeOK /\ JobValid /\ MemoryValid
        /\ OneProcess => CountersKept /\ CodeOnce /\ SettingsKept
============================================================================
