# klaxond in TLA+

Klaxond takes webhooks of monitoring tools, decides whether somebody should be
disturbed, delivers a notification over ntfy, Telegram and SMTP, and keeps
"emergencies" open and repeating until somebody acknowledges them. This project
models the part of it that is hard to test: what concurrent handlers, timers,
schedulers and instances do to the state they share, over crashes, lost replies
and failing stores. TLC checks the models on small instances, TLAPS proves the
safety properties for every value of the constants.

Paths below are relative to the repository, `src/...` being its Rust sources.

## How to run

    tlasany MCEmergencyReceipts.tla
    tlc -workers 2 -config Receipts.cfg MCEmergencyReceipts
    tlapm EmergencyReceiptsProofs.tla

`PROJECT.json` lists the runs, the code each definition translates ("map"), a
mutation of the code for every property that breaks it ("mutants"), the hazards
and the theorems.

## Inventory

The process is one tokio runtime. HTTP handlers, one timer task per deferral or
dedup window, the emergency scheduler and the mute scheduler share `AppState`
(`src/state.rs`): a configuration behind an `RwLock`, maps behind mutexes, and a
history store (SQLite, or PostgreSQL behind a worker thread) that several
instances may share.

| Component | State | Operations | What is hard | What makes it correct |
| --- | --- | --- | --- | --- |
| emergency receipts (`emergency/`, `history/*/emergency.rs`) | table of receipts: status, attempts, next retry, lease, escalation marks, policy snapshot | register, first notification, reserve/post/complete a retry, expire, acknowledge, resolve, inhibit, cancel, retry_now | several instances, leases, crashes between two statements, replayed statements, operators racing retries | one open receipt per condition, retries exclusive and bounded, a closed receipt final, every receipt closed some day |
| repeat suppression (`delivery/repeat.rs`, `history/*/repeat.rs`) | one row per notification: last delivery, reservation and its deadline | reserve, wait, complete, release, prune | a holder that dies, fails or outlives its reservation; lost replies; requests that proceed without a store | one reserved sender, nothing suppressed that nobody received, no repeat inside a window, nobody waits for ever |
| dedup buffer (`dedup.rs`) | queues and timer flags in memory, one file per source | submit, flush by timer, restore at a start, flush at ctrl-c | memory, file and delivery part ways in a crash or when the disk is full; timers outlive the flag that announces them | an item waits a window at most, is delivered once, and is never forgotten |
| deferred requests (`handlers/ingest/deferral.rs`) | key to generation map, sleeping tasks | defer, supersede, cancel, wake | the wake-up races a cancellation | what was cancelled is not delivered, what was not is |
| inhibition, snooze, mutes (`inhibition.rs`) | armed rules with a TTL, snoozed alerts, active mutes | arm, disarm, expire, suppress, reconcile open receipts | a rule is armed while its targets are on their way | a target of an armed source leaves no receipt behind |
| ingest pipeline (`handlers/ingest.rs`) | none of its own: the order of the calls above | gate, defer, buffer, deliver | firings and recoveries of one alert overtake each other | a recovery closes what it recovers |
| delivery and channels (`delivery.rs`, `delivery/`) | none | prepare, repeat gate, broadcast or cascade, completion | partial failure of the channels | a policy's tiers are tried in order, one success ends a cascade |
| emergency profiles (`config/emergency_policy/`, `config/preflight.rs`) | none | select a profile, validate, diagnose | an edit of topics, channels or timeouts takes away what a receipt needs | an accepted alert that a profile matches gets a receipt that can be sent |
| configuration (`config/`, `handlers/config_mutations/`, `handlers/config_admin/`, `state.rs`) | a TOML file, four JSON files, the running copy of them, the store they name | read, validate, patch one file or several, restore with rollback | crashes and failures between two files, or between the files and the memory; an edit validated before it has the lock | what was answered is on disk and in force, what was refused is not |
| history stores (`history/`, `state.rs`, `state/delivery.rs`) | tables of one SQLite file or PostgreSQL database, the open store, its generation, the cache of the delivery activity | statements, change to another store in process, migration by the command line | requests that still hold the old store; a slow query that answers for it; a failing step of the change | a change forgets no session, revocation or lockout, and shows nothing of the store that is gone |
| PostgreSQL (`history/postgres/`) | a channel and a worker thread with one connection per instance | transactions on shared tables, reconnect and replay | statements of several instances interleave at READ COMMITTED; locks in different orders; a commit whose answer is lost | each call is one indivisible change, each is answered |
| sessions (`auth/`, `history/*/session.rs`) | sessions, logout tokens | login, verify, rotate, log out | rotation races rotation and logout; lost answers; times read before a wait; a worker that goes on after its timeout | a family has one active session with the deadline its login set, a logout is final |
| signing in (`auth/login/`, `auth/magic_link.rs`, `auth/step_up.rs`, `auth/passkeys/`, `auth/rate_limit.rs`, `auth/totp_replay.rs`) | pending links, states, challenges and step-ups in memory, failures, TOTP counters | start, come back, step up, enrol, count failures | one token presented twice at once; check, verification and record are three steps | a token leads to one session, a session has the factor asked for, guesses are bounded, a code is used once |
| parsers, router, views, utilities, web UI, SDKs | none | conversions and dispatch | little that a model would show | see "Not modelled" |

A webhook passes them in this order: authenticate and parse; cancel or arm
(deferral, inhibition); gate (snooze, mute, inhibition); defer; buffer; deliver
(register or close the receipt, repeat gate, channels, completion). The emergency
scheduler works from the store alone, so a retry needs nothing a request left in
memory. The settings it works with are a copy taken when it arrived; the store it
works with is the one open when it first asks. Both may be replaced meanwhile.

## Modules

| Module | Models | Checked by | Proved in |
| --- | --- | --- | --- |
| `EmergencyReceipts` | the receipts table and everybody who writes it | `MCEmergencyReceipts` | `EmergencyReceiptsProofs` |
| `Registration` | the transaction that registers a firing at PostgreSQL, statement by statement | `MCRegistration` | `EmergencyReceiptsProofs` |
| `ReceiptContract` | what receipts promise to the people they page | as the refined specification | `EmergencyReceiptsProofs!Refinement` |
| `RepeatSuppression` | the repeat gate and its reservations | `MCRepeatSuppression` | `RepeatSuppressionProofs` |
| `DedupBuffer` | queues, timers, files, restarts | `MCDedupBuffer` | `DedupBufferProofs` |
| `IngestPipeline` | the order of the steps of many requests, composing reduced forms of the above | `MCIngestPipeline` | `IngestPipelineProofs` |
| `AuthSessions` | persistent browser sessions and everybody who rotates or revokes them | `MCAuthSessions` | `AuthSessionsProofs` |
| `EmergencyRouting` | which profile takes an alert, what a configuration must offer it | through `ConfigStore` | `ConfigStoreProofs!ValidCovers`, `!ShadowedTakesNothing` |
| `ConfigStore` | the five files, the memory of each process, every handler that edits them | `MCConfigStore` | `ConfigStoreProofs` |
| `FailureLimit` | failures of an account and its lockout, used by the next two | through them | `AccountProofs!PrunedRecord`, `!FailedRecord`, `!CountSince` |
| `HistoryStores` | the stores, the change from one to another and who uses them meanwhile | `MCHistoryStores` | `AccountProofs` |
| `SignIn` | every way to a session, second factors and limits | `MCSignIn` | `AccountProofs` |
| `SessionTable` | what the users of a store take for granted of its sessions, logout tokens and failures | as the refined specification | `PostgresSessionsProofs` |
| `PostgresSessions` | the transactions of several instances on one database, statement by statement | `MCPostgresSessions` | `PostgresSessionsProofs` |

`EmergencyReceipts`, `RepeatSuppression`, `DedupBuffer` and `IngestPipeline` are the
way of an alert, the last one composing reduced forms of the others; `Registration`
is one step of the first under a magnifying glass. The others are
the state around it: `ConfigStore` extends `EmergencyRouting`, `HistoryStores` and
`SignIn` extend `FailureLimit`, `PostgresSessions` extends and implements
`SessionTable`. `AuthSessions` has the life of one session with its times, `SignIn`
what comes before it, `SessionTable` the table below it, and `HistoryStores` what
becomes of that table when the store is exchanged. An instance that moves to a
database in use brings its sessions along: that is the import of `SessionTable`.

### EmergencyReceipts

One action is one statement against the store (each a single UPDATE or one
transaction) or the start of a request to one escalation channel. `status`,
`about`, `progress` and `lease` are the columns of `klaxond_emergencies`; `sched`
is the local state of one instance's scheduler loop, `initial` that of a first
delivery, `recovering` that of a recovery between its read and its UPDATE. What
the next statement depends on is in these variables, never re-read where the code
does not re-read: a retry decides on escalations from the row as it was when
reserved.

| Code | Actions |
| --- | --- |
| `prepare_delivery`, `register_emergency` | `Register`, `RegisterReplyLost` |
| `deliver` of an emergency, `record_emergency_initial` | `InitialDispatch`, `InitialEscalate`, `InitialRecord`, `InitialReplyLost`, `InitialUnrecorded` |
| `scheduler::tick` | `ExpireDue`, `ExpireFails`, `ReserveDue`, `ReserveReplyLost`, `TickEnds` |
| `process_retry` | `AdjustLease`, `AdjustFails`, `Escalate`, `PostsAnswered`, `CompleteAttempt`, `CompleteFails` |
| operators, inhibition | `Acknowledge`, `Cancel`, `RetryNow`, `Inhibit` |
| `reconcile_recovery` | `RecoveryLook`, `RecoveryResolve` |
| the process and time | `Crash`, `Tick` |

Assumed of the environment, in `PolicyAssumption` and `BoundAssumption`: the
lease of a policy outlives the posts of one retry. The code enforces it:
`src/config/preflight.rs:169` refuses a profile whose lease does not exceed the
sum of its channel timeouts plus a margin, and the 300 s taken before the policy
is known are the largest lease `src/config/emergency_policy/validation.rs:74`
admits.

Abstracted: a reservation token is the instance that drew it; rows skipped by
`FOR UPDATE SKIP LOCKED` are reserved by a later statement; the ntfy post is not
a step, only what follows it; a registration is one step, which it is under the
connection lock of SQLite, `Registration` having the one of PostgreSQL. Left out: a stored payload that does not parse (the
retry cancels the receipt), timeouts raised after a lease was snapshot, terminal
notices, audit entries, metrics, archive pages.

### Registration

`register` of `src/history/postgres/emergency.rs`, by any number of instances at
once: `LookUp` and `LockRow` are the SELECT ... FOR UPDATE, which waits for whoever
has the row and then tests the WHERE anew; `InsertReceipt` is the INSERT ... ON
CONFLICT DO NOTHING, which waits for an uncommitted row of the same fingerprint;
`Reselect` the second SELECT after a conflict, which may find nothing because the
other receipt was closed in between. A statement may fail (`StatementFails`), a commit
go unheard (`CommitUnheard`), then `postgres_with_retry` runs everything once more
(`Rerun`) or gives up (`GiveUp`), and the ingest handler delivers the firing like any
other. `CloseReceipt` is anybody who closes a receipt meanwhile. Locks are those of
PostgreSQL (external): a row found and rewritten is locked until the end, an inserted
row blocks insertions of its fingerprint.

### ReceiptContract

A condition has at most one open incident, attempts count on open incidents only
and exceed the limit by two at most, an incident ends once. `EmergencyReceipts`
implements it under the mapping `ImplementsContract` states: an incident is a
row, its tries the attempts on record.

### RepeatSuppression

`Decide` is one `reserve_repeat` transaction with its four outcomes (suppress,
wait, proceed with a reservation, proceed without one because the store failed);
`Deliver` is a completion, or its failure; `Abandon` a handler that is dropped
with its connection, or dies with the process (a crash is several of them). Row
expiry and pruning happen inside the transactions, as in the code. `TTL` is
`reservation_ttl_s`: the timeouts of the tiers, 35 s of rendering and 30 s,
120 s at least, hence `SendBound < TTL`. Windows are clamped to 60..604800 s and a
row is pruned at 604800 s, hence `Window \subseteq 1..Retention`. A time 0 is NULL.
SQLite reads `now` before it takes the lock; the difference is neglected. Left
out: counters, how fingerprints and rules match, import of rows, cutover.

### DedupBuffer

Each critical section of the dedup mutex, with the file operations made under it,
is one action: `Submit`, `TimerFires`, `ShutdownFlush`. A restore has two steps for
each source: `RestoreSource` reads and removes the file, outside of the mutex, and puts
its items into the queue; `RestoreFlush` hands them over. A crash in between has lost
them. Delivery of a batch (`Delivered`) is a step of its own, after the file is gone. A
write may fail having written nothing, half a line, or half a character, which
makes the whole file unreadable text (`torn`); a removal may fail. Only ctrl-c
flushes: SIGTERM is a `Crash`. `Lost` says which items the end of a process takes with
it: those with no line on disk, because the write failed, a restore had taken the line,
or the batch was on its way. Left out: which events go past the buffer, the
rendering of a batch, sources removed from the configuration.

### IngestPipeline

`Handle(r)` is what the task of request `r` does next; `Flush` the buffer;
`Environment` arrivals, expiring rules, operators, schedules, restarts. Three
checks of the gate (snooze, mute, inhibition) are one step, since each of them
only reads. TTLs end at any time. The components appear reduced: a receipt is the
request that opened it, the buffer has no files, a recovery reads and resolves in
one step (EmergencyReceipts has the two). A source and a recovery look for receipts in
a list of the active ones, which shows `ListLimit` of them (1,000 in the code); what a
longer table hides is not closed (`crowded`). `StoreFails` is a store call that fails:
registration falls back to an ordinary delivery, a recovery or a reconciliation
gives up. A restart keeps the receipts and the buffered items, and loses
deferrals, rules, snoozes and requests in flight. Left out: authentication,
parsing, dry runs, what becomes of the source's own notification.

### AuthSessions

A slot of `Request` is one HTTP request; `pc` says which transaction it is waiting
for, `now` the time it has read, `held` the session its handler works with. Each
transaction of the session store is one action.

| Code | Actions |
| --- | --- |
| logins that end in `issue_session` | `Login`, then `Insert` |
| `verify_persistent_session` | `Present` (reads the clock), `LookupFinds`, `LookupMisses`, `Recover`, `Unauthenticated` |
| `issue_session_with_expiry` of a rotation | `Renew` (a worker reads the clock again and builds the row), then `create`: `Insert`, `Repeat` (another request stored the same row), `Refuse` |
| `finish_sudo` | `Reauthenticate`, then a second rotation; `Declined` |
| `run_with_timeout` | `Overloaded` |
| `api_logout`, `persist_backchannel_logout` | `LogoutStarts`, `Logout`; `ProviderLogout`, `Consume`, `Replay` |

The successor of a cookie is an HMAC of its hash, so a cookie is a family and a
number of rotations. `family_hash` and the first component of a cookie agree by
that construction. A browser may present any cookie an answer carried (`known`):
answers are lost and overtake each other, which is also what a worker that
finishes after the timeout of its request amounts to. Times differ from request to
request by up to `Delay`: the wait for a worker and the lock of the store.
`RetentionAssumption` relates the constants of `src/auth/backchannel_logout.rs`: a
logout token is accepted for 300 s with 60 s of skew, and remembered for 600 s.
A session in the model may be rotated twice by one request: a reauthentication
finds its own session due and renews it before its handler, then rotates it again;
`attach_pending_cookie` (`src/handlers/router.rs:83`) then replaces the second
cookie by the first (`Cookie`), which only the grace period still covers.
Left out: signed cookies of older releases, an empty CSRF token of a stored session;
credentials, rate limits and one-time secrets are in `SignIn`, the copy of sessions
at a change of the store in `HistoryStores`.

### EmergencyRouting and ConfigStore

`EmergencyRouting` has operators only: `select_emergency_profile` (`Selected`),
`validate_emergency_config` and `validate_runtime_config` (`Valid`), and the
diagnostic `shadowed_profiles` (`Shadowed`). `Covered` is
what the validation is for, stated of the selection. Telegram and SMTP are one fallback
tier, a regular expression is the set of severities it matches, ranges of numbers are
reduced to their order and to being positive; URLs and the profile built from the
environment of older releases are left out.

`ConfigStore` runs every handler that changes a setting, as the holder of the
configuration lock:

| Code | Actions |
| --- | --- |
| the handlers of `handlers/config_mutations/`, API tokens, passkeys, TOTP | one action each under `Edit`: what it makes of which fields, in which files, with which undo |
| a source edit, validated before it waits for the lock | `ReceiveSourceEdit`, then `SaveSource` |
| `restore_config` of a TOML or of a full export | `RestoreToml`, `RestoreBundle`: staged and validated beside the files first |
| `atomic_write` of the next file | `WriteFile`, `WriteFails` |
| `load_runtime_config`, which prunes dedup settings | `Load`, also in `Start` |
| `try_replace_config`, with another store if it names one | `Apply`, `CutoverFails` |
| `restore_config_file`, `restore_snapshots` | `UndoFile`, `UndoFails`, then `Refuse` |
| the process | `Crash`, `Start` |

A setting is one field with the few values other steps tell apart. `loose` is the set
of files that a refused or interrupted edit has altered and not put back: what they
hold is in nobody's promise until the next load, which takes them over as they are
(that is what the code does, and why `Answered` reads them). The properties about what
was answered are stated for one process on a directory; see "Findings" for two. A
restore takes the TOTP counter back to that of the bundle, and `CodeOnce` counts the codes
accepted from there: a code used before the restore may be accepted again after it.

### HistoryStores

| Code | Actions |
| --- | --- |
| `with_auth_store`: under the read lock of the transition | `CreateSession`, `Revoke`, `ConsumeLogout`, `CheckLimit`, `RecordFailure`, `ClearFailures` |
| `log_delivery`, the repeat gate, the delivery activity, receipts: without it | `StartDelivery`, `RecordDelivery`; `ReserveRepeat`, `CompleteRepeat`, `LeaseEnds`; `StartActivity`, `ReadActivity`, `CacheActivity`, `ExpireCache`; `OpenReceipt`, `CloseReceipt` |
| `commit_config_replacement`, from a reload or a restore | `Begin`, `Snapshot`, `Commit`, `OpenTarget`, `Import`, `Swap`, `Publish`; `ChangeFails`, `Undo` |
| `history-migrate`, between two runs of the server | `Migrate` |
| the process | `Crash`, `Start`, `Tick` |

The write lock of the transition is `Exclusive`. The lock of the activity cache is held
from `Swap` to `Publish`, which is why an answer waits then. `RecordFailure` may be
executed twice by PostgreSQL's replay. `orphaned` records that a process started on a
store the import had not reached: the files name the new store from the first step of a
reload on, so a crash between the files and the import (or a rollback that cannot put
the file back) leaves the sessions in the old store. `AuthKept` says everything else
keeps them. Left out: retention, the columns of sessions (in `AuthSessions`).

### SignIn

`job[r].pc` is what request `r` does next; between two of its steps the others run.

| Code | Actions |
| --- | --- |
| password at login, Basic, LDAP; again for sudo | `PasswordStarts`, `SudoStarts`, `VerifyRight`, `VerifyWrong` |
| `record_auth_failure`, `clear_auth_failures` | `Record`, `RecordFails`, `RecordAddress`, `Clear` |
| `redirect_location_after_primary`, `issue_session` | `StepUp`, `Issue`, `StoreFails` |
| `finish_step_up` | `Join` |
| magic links, OIDC | `RequestLink`, `UseLink`; `OidcStarts`, `OidcReturns`, `Exchange` |
| TOTP as a factor, and its enrolment | `TotpStarts`; `SetupStarts`, `SetupConfirms`, `Enrol` |
| passkeys | `PasskeyUnknown`, `PasskeyStarts`, `PasskeyReturns`, `PersistRefused`, `PersistStep`, `PersistPrimary`; `RegisterStarts`, `RegisterReturns`, `Attest`, `DeletePasskey` |
| the administrator and time | `ChangeAuth`, `Second` |

One person, one address. Whether a credential is right is an input; WebAuthn, LDAP and
the exchange with the provider are such answers too (external). The check of a limit
and the lookup of a pending entry that follow each other without an `await` are one
step. A TOTP code that is right here is one `ConfigStore` accepted. Not modelled: the
4096 entries the table of addresses is limited to, the cache of the OIDC client.

### SessionTable and PostgresSessions

`SessionTable` is what the rest of the code assumes of the store: `Login`, `Rotate`,
`Logout`, `Consume`, `RecordFailure`, `Import` and so on are indivisible. From that
follows that a user's live sessions stay under the cap, no failure is lost, and a login
that is over stays over. An import is the exception the code makes: it prunes nothing,
so a user whose sessions were brought (`brought`) may be above the cap until the next
new session, and it may bring a session of a login this database never saw.

`PostgresSessions` has each transaction of `history/postgres/session/`,
`history/postgres/rate_limit.rs` and `history/postgres/auth_state.rs` as its
statements, with the row, table and advisory locks each takes and in which order, at
READ COMMITTED: an UPDATE revokes the rows it found when it started, and looks at one
again when it had to wait for it.

| Code | Actions |
| --- | --- |
| the channel and the worker thread | `Ask`, `Take`, `Commit` |
| `create` | `LockProvider`, `LockUser`, `LockPredecessor`, `Repeated`, `Refuse`, `InsertRow`, `Prune`, `RevokeRow` |
| `consume_oidc_logout` | `LockProvider`, `FindUsers`, `LockUser`, `SpendToken`, `SelectRows`, `RevokeRow` |
| `revoke_family_by_id` | `FindFamily`, `LockUser`, `SelectRows`, `RevokeRow` |
| `lookup`, `lookup_rotation_successor` | `Lookup`; `LockFirst`, `LockSecond` |
| `limited`, `record_failure`, `clear` | `LockKey`, `LoadFailures`, `StoreFailures`; `FindStale`, `DropRow` of `prune_stale` |
| `auth_state::import` | `LockAhead`, `ImportSession`, `ImportToken`, `ImportLimit`, `ImportDone` |
| `postgres_with_retry`, `connect_postgres` | `ConnectionLost`, `CommitUnheard`, `LockTimeout`, `Reconnect`, `Migrate`, `Migrated`, `ReconnectFails` |

`prune_stale` deletes the stale rows of all accounts while its transaction holds the
row of its own. The migration of a new connection takes table locks: the sessions
by ALTER TABLE, then the logout tokens and the limits by CREATE INDEX, whereas a
consume writes a token before it selects sessions. An import locks users, providers and
accounts in order and its rows in any. So transactions do wait for each other in
circles: two failures of two accounts with stale rows, a migration and a consume, an
import and the lookup of a successor. `lock_timeout` (`src/history/postgres.rs:114`)
ends such a wait, and the loser runs once more.

Only a commit changes the table, so the mapping to `SessionTable` is the identity on
its variables, and the refinement says that what a transaction read before it had its
locks does no harm. There is no clock: idle times and the grace of a rotation are over
or not as it happens, a failure row is fresh, or stale since the start (`Outdated`). A
lost connection ends its transaction at once. Left out: outdated sessions and tokens,
which create and consume also delete, and the export, which only reads.

The variables called history in the modules record what happened, for the
properties. No guard reads them, but to bound the faults (`failed`) and to submit
an item once (`accepted`).

## Runs

| Run | Instance | States | Question and answer |
| --- | --- | --- | --- |
| `receipts` | 1 receipt, 2 instances, 1 escalation channel, clock to 4, 1 fault, fairness | 550,965 | Do leases keep retries apart, is the attempt limit overrun by the initial delivery only, is a channel escalated to once unless an outcome went unrecorded, and is the receipt closed in the end, whatever crashes and however often a retry is forced? Yes. |
| `receipts_reuse` | 2 receipts of 1 condition, 1 instance, clock to 3 | 692,336 | Do rows implement the contract when one condition opens, closes and opens again while recoveries are between read and UPDATE? Yes. |
| `registration` | 3 firings of 1 condition, 2 of which may fail, fairness | 133,694 | Is there one open receipt, whoever looks and inserts at once? Is who is called a duplicate one of a receipt that was open? Is everybody answered? Yes. |
| `repeat_gate` | 3 requests, 1 notification, windows {1, 2}, clock to 7, 1 fault, fairness | 532,114 | One reserved sender; no suppression without a delivery in the window; no second success inside a window; every request decided, even if a holder dies. Yes. |
| `dedup_buffer` | 3 items, 2 sources, windows {1, 2}, clock to 4, 2 faults, fairness | 358,640 | No item waits beyond a window, is delivered twice (unless its file could not be removed), or is forgotten, and each is delivered, unless the process ended while no line of it was on disk. Yes. |
| `ingest_safety` | 3 requests, 2 alerts, 1 rule, lists of 1 receipt, 1 restart, 1 failing store call | 2,405,588 | Cancelled deferrals stay undelivered; recoveries and sources close what was answered before them, unless it was held back or the list was cut short. Yes. |
| `ingest_overtaken` | 3 requests, 1 alert, buffered | - | "Recovery from the original source closes the receipt automatically" (README.md:414), and the comment at src/dedup.rs:33. No: the recovery passes a firing that waits in the buffer, which then opens a receipt. |
| `auth_sessions` | 4 requests, 3 at once, 3 families of 1 user, 2 rotations each, 1 logout token, at most 2 sessions, clock to 4 | 357,063 | One active session per family; no more than the cap; the deadline of the login; no closed family that comes back; no logout token that takes effect twice. Yes. |
| `config_store` | 1 process, 3 edits of any handler, 1 edit waiting for the lock, 1 failing write or cutover, 1 crash; 2 stores, 2 values a setting, sources, tokens and passkeys in sets of 1 | 487,779 | Is what was answered on disk and in force, and nothing else, whatever fails in between? Can no handler get settings into force under which an emergency is let down? Is a TOTP code used once? Yes. |
| `history_stores` | a SQLite and a PostgreSQL store, 1 session, logout token, account, task and receipt, 4 calls, 2 changes of the store, clock to 2, 1 fault, 1 crash | 2,664,048 | Does a change or a migration of the store keep sessions, revocations and lockouts, is the activity served that of the open store, and does no finished delivery hold a repeat back? Yes. |
| `sign_in` | 2 requests at once, 3 in all, a limit of 1 failure and 2 attempts, 2 tokens, 2 names, 1 passkey, clock to 2, 1 failing write or change of the configuration | 280,370 | How many wrong credentials can be tried, does a token lead to one session, has a session the factor that was asked for? The limit plus one for each request already past the check; yes; yes. |
| `postgres_sessions` | 2 instances, 2 commands, 4 families of 2 users, 2 logout tokens, 2 accounts with stale rows, 1 import, 1 fault at one instance, fairness | 159,629 | Is what the transactions commit always one call of `SessionTable`, and is every command answered though some of them wait in circles? Yes. |

### Why the bounds are enough

- Two instances are what a lease has to keep apart; a third adds no new kind of
  step. One receipt suffices for the lease, since no statement relates two
  receipts but the registration, which `receipts_reuse` covers as one step and
  `registration` statement by statement: of its three firings one holds a row, one
  waits for it, and one comes when the first has been closed.
- Clocks run until a lease, a reservation or a window has ended and been taken
  again: 4 ticks for leases of 2; 7 for a TTL of 2 taken by three
  requests in turn; 4 for windows of 1 and 2; 4 for sessions that time out after 2,
  live 3 at most and may be rotated at every tick.
- Three requests are a holder, a waiter and one that arrives when the holder is
  gone; or a firing, a recovery and a firing that overtakes it; or a firing, a
  source and another firing; or two rotations of one cookie and a logout. Two
  sessions of a user are the cap, the third login makes it bite.
- Two values of a setting suffice to tell an old from a new one. Three edits are one
  that is interrupted, one that meets what it left, and one that is answered after.
  With one source, one token and one passkey every set is empty or full.
- Two stores and two changes are a change and the way back, which a slow query or a
  reservation may outlive. Two sign-ins at once are a token presented twice, or the
  check of one before the failure of the other.
- A list that shows one receipt hides one as soon as both alerts have one, and shows
  everything otherwise.
- Two commands at a database are what a lock keeps apart, and enough for each of the
  circles: two failures whose accounts both have stale rows, a migration after a
  fault, an import of rows that a lookup locks in its own order. A cap of one session
  per user and stored sessions at the start make every creation revoke another one,
  and an imported session puts a user above the cap; one of the logout tokens
  names a user, the other a session of the provider. One command waiting per worker
  is enough: the second of a queue meets the same table as the first.
- The first channel of `receipts` joins the first attempt, so that the initial
  delivery and the retries may both post to it. Thresholds of later attempts are
  covered by the theorem.
- Faults are counted, one or two per behaviour: each of them at any step. What
  more faults do is covered by the proofs, which have no bound on anything.
- `Horizon`, `LastArrival`, `MaxFaults`, `MaxRestarts`, `MaxFailing`, `MaxStarts`,
  `MaxGen`, `Delay`, `MaxSaves`, `MaxWaiting`, `MaxCrashes`, `MaxCalls`, `MaxChanges`,
  `MaxUpsets`, `LastSecond`, `MaxRequests`, `MaxQueue`, `MaxCode`, the firings and instances that may fail
  (`Fallible`, `Faulty`) and the number of families and tokens are the only bounds;
  they are constants, and the theorems hold for all of their values.

`SYMMETRY` permutes receipts, instances, fingerprints or requests in the runs
without liveness. Deadlock is not checked where a model may stop: all requests
decided, all items delivered, all alerts handled, all requests, edits and calls made.

### Fairness

- EmergencyReceipts: weak fairness of each instance's `SchedulerStep` and of
  `Tick`. The loop spawned in `main.rs` never ends and the runtime polls it.
  Operators, producers and recoveries are not fair: nothing relies on them.
- RepeatSuppression: weak fairness of `Decide(d)`, `Deliver(d)` and `Tick`. A
  waiting request sleeps and asks again; a delivery ends by its timeouts. The
  property is stated for finitely many requests: with an endless stream of them
  another one could take the reservation every time.
- Registration: weak fairness of each worker's `Execute`. No statement is assumed to
  time out, and no receipt to be closed: the waits end by themselves, since who holds
  a row waits for nothing.
- DedupBuffer: weak fairness of the timers of each source, of deliveries, of the
  restart (the service is supervised), of the loops at start and end, and of time.
- PostgresSessions: weak fairness of each worker's `Serve`: the thread never leaves its
  loop, and a database grants a lock that is free. Where transactions may wait in a
  circle (`Contended`: the DELETE of stale rows, the migration, the rows of an
  import), the lock timeout is fair too, which `connect_postgres` sets for every
  connection (`src/history/postgres.rs:114`). No other timeout is, so that a circle
  anywhere else would last for ever and the property show it: the mutant, a lookup
  that locks the successor first, is found that way. A fault is never fair.

## Proofs

Every theorem is proved from the ASSUMEs of its module and nothing else. The shape
is the same in the modules: `IInv` is the inductive invariant, a conjunction
of named parts; one lemma per action or per part shows that a step keeps it;
`Invariant == Spec => []IInv`; and the properties follow. TLC checks `IInv` in the
safety run of the module where the module states it, and with it the parts that are no
property of a run of their own, such as `OneOpenReceipt` of Registration and
`RecoveryClosesUnheld` of IngestPipeline; HistoryStores and PostgresSessions
have theirs in the proofs, next to the only steps that need them.

- **EmergencyReceiptsProofs.** `NoOverlappingRetries` is not inductive alone. It
  needs that an instance past its reservation works on a registered row within its
  posting bound (`WorkingOnReceipt`), and that it holds the token of the row under a
  lease that ends after its posts must have, or the row was closed or forced
  (`LeaseOutlivesPosts`): a row can be reserved anew only when its lease is over. `AttemptsBounded` needs a budget of attempts recorded and still to
  be recorded (`AttemptsBudget`), with the replayed statement of the initial
  delivery accounted for (`DoubledAtTheEnd`). The others: `TypeOK`,
  `OpenHasPolicy`, `OneActivePerFingerprint`, `ClosedUnreserved`. These are `RowsInv`.
  `EscalatedOnceUndisturbed` needs more, `PostsInv`: the attempts of an undisturbed receipt
  do not overlap, the initial delivery included (`OneAttempt`); a channel that was posted
  to is on record, or tried by the attempt that will record it, or that attempt is lost
  and the row with it (`PostedIsKnown`); so nobody has it still to do (`TodoIsUnposted`).
  Theorems:
  `RowsInvariant`, `Invariant`, `TypeCorrect`, `RowsConsistent`, `RetriesExclusive`,
  `AttemptsStayBounded`, `EscalationsOnce`, `ClosedStaysFinal` (an action property,
  from what a step may do to the rows, `NextRows`), `Refinement` (every step is a step
  of the contract or a stutter).
- **EmergencyReceiptsProofs**, Registration. `OneOpenReceipt` needs that a row inserted
  and not committed is the only one of its condition and meets no open one
  (`InsertedAlone`), which is what an insertion waits for. `AnswersJustified` needs that a
  row a transaction goes by was open at some moment of its call (`SeenWasOpen`), which
  holds of whatever it finds because a call under way has met every open receipt
  (`OpenIsMet`), also those that others commit meanwhile. Theorems: `Registrations`,
  `OneReceiptOpen`, `AnswersAreJustified`.
- **RepeatSuppressionProofs.** Beside types: the last delivery on a row is that of
  a recorded request and no newer than the clock (`LastIsReal`), a token is a
  request that asked for that row (`TokenIsKnown`), a request that sends under a
  reservation holds the row until after its last response (`SenderHolds`), a recorded
  delivery is still on the row or is older than the retention (`RecordKept`), and
  whoever holds the row was granted it after the cooldown of every recorded delivery
  (`HolderCooled`). Theorems: `Invariant`,
  `TypeCorrect`, `SendersExclusive`, `SuppressionJustified` (nothing is held back that
  nobody received inside its window), `RepeatsSpaced` (no second success inside one).
- **DedupBufferProofs.** `HeldOneWindow` rests on: a raised flag has a sleeping
  timer (`ActiveHasTimer`), and no timer is further away than the longest window
  (`TimersNear`). `OnceUnlessKept` and `NotForgotten` rest on where an item can be:
  an item in a queue is new or back after a failed removal, and its line is in the
  file, lost, or taken by the restore that has it in hand (`QueueIsNew`); an item in a
  file is new or was left there by a failed removal (`FileIsNew`); once a restore is past
  its source, an item in a file is in the queue or was handed over, so that removing the
  file at a flush forgets nothing (`FileIsQueued`); what was handed over is on its way,
  came back or was cut off (`HandedIsKnown`, `FlightsHanded`); a process that is down
  remembers nothing (`NothingInMemory`); an unreadable file has nothing to restore
  (`UnreadableIsEmpty`). Theorems:
  `Invariant`, `WaitIsBounded`, `DeliveredOnce`, `AcceptedIsKept`.
- **IngestPipelineProofs.** A step moves one request, or ends many of them in a
  restart or a flush; the lemma `StepMoves` says so once, and the parts of the
  invariant are proved from it. `InhibitionCloses` needs that a receipt of a
  covered alert is on the list of the source that is reconciling, or was opened by
  a request that is still held, or the list was cut short, or the rule has been down
  (`ReconcilingIsListed`, `JudgedIsReconciling`, `SteadyIsArmed`). `RecoveryClosesUnheld` needs that who
  opened a receipt is answered and over (`Openers`, `AnsweredIsOver`,
  `BeforeIsAnswered`). Theorems: `Invariant`, `CancelledIsNotDelivered`,
  `RecoveryIsFinal`, `InhibitionIsApplied`.
- **AuthSessionsProofs.** `OneActivePerFamily` and `DeadlineKept` are part of the
  invariant. A row is inserted only if its predecessor is active (`InsertRows`), which
  it revokes; the first row of a family needs that no other request and no row has
  that family (`Drawn`). The deadline needs that every request with a session holds
  the deadline of its family, or will be refused because that is over (`HeldDeadline`):
  a rotation whose deadline passes between two readings of the clock builds a row
  with a new timeout, and only the check of the predecessor keeps it out of the table.
  The cap holds at the clock though each insertion counts at the time its request read:
  that time is not in the future (`InTime`), so a row that is live now was live then and
  was counted, and the rows that stay are fewer than the cap. A logout token is accepted
  for a time after its issue that is shorter, even with the wait for the worker, than the
  time it is remembered (`LogoutsRemembered`, from `RetentionAssumption`).
  Theorems: `Invariance`, `OneActive`, `DeadlineFixed`, `SessionsCapped`, `NeverReopened`
  (an action property: nothing revives a revoked row, and an insertion needs an active
  one), `ReplayRevokesNothing` (an action property).
- **ConfigStoreProofs.** First `ValidCovers`: settings that `Valid` accepts cover every
  alert. Among the matching profiles one comes before all others (`WinnerExists`), and
  the severities of an alert it takes are among those the validation looked at
  (`MatchedIsRouted`). `ShadowedTakesNothing`: the profiles the editor warns of take
  no alert. Then the handlers: `EditAsked` collects what all 26 of them have in
  common, and the steps are proved about that. `EmergencyCovered` follows from
  `MemoryValid`, which needs `JobValid`: an edit that goes straight to the memory leaves
  the validated fields alone, all others are validated before they are taken over.
  `CodeOnce` needs that no settings on disk, in memory or in the hands of the holder of
  the lock have an older counter than a code accepted since the enrolment
  (`CountersKept`, `PendingCounter`), and one process. What was answered is on disk and in
  force because of `SettingsKept`: outside of the `loose` files the disk has what was last
  answered when nobody holds the lock, and had it before the edit of whoever does
  (`Settled`); the edit has altered the files it knows to be dirty, and those to what it
  asks for (`FilesTracked`); every file of a setting it touches is written before the
  answer (`FilesWritten`); and a reload takes over what the files hold (`EditKept`). It needs that
  each setting is in one file (`SettingsAssumption`). Theorems: `ValidCovers`,
  `ShadowedTakesNothing`, `TypeCorrect`, `Invariant`, `EmergencyAlwaysCovered`,
  `CodesOnce`, `AnsweredOnDisk`, `AnsweredInMemory`, the last three for one process.
- **PostgresSessionsProofs.** First the promises of the table follow from its calls:
  `TableTyped`, `SessionsCapped` (an insertion leaves fewer live sessions than the cap
  before it adds one; only an import adds without that, and marks its users),
  `FailuresCounted`, `OverStaysOver` (an action property: a family with no live session
  gets none, since only a live session is rotated, and an import keeps the
  revocations of either side). Then the
  database: two transactions never hold one lock, and what a transaction has read or
  written of a row or a key it has locked stays true until it commits, because every
  other transaction that would change it takes that lock first (`TransactionsSound`).
  This is stated account by account and row by row: a failure has read the count of its
  own account and may delete stale rows of others, which count nothing; an import
  holds the users and accounts of its snapshot before it writes their rows.
  So the changes a commit publishes are, of the table as it is at the commit, one call of
  `SessionTable`, and every other step leaves the table alone: `CallsImplemented` is the
  refinement, for any number of instances, users, accounts, imports and faults. The promises carry
  over: `CappedAcross`, `CountedAcross`, `OverAcross`. `ClaimsAssumption` says that a
  logout token names a user or a session, which
  `src/vendor/auth-modules/src/oidc/logout.rs:229` checks.
- **AccountProofs**, HistoryStores. `ActivityCurrent` needs that a task with an answer either
  read it from the open store or carries an older generation (`Answers`): the swap and the
  new generation are two steps, between which nothing is cached. `SessionsKept` needs
  that the snapshot knows every fact until it is imported, and the target from then on,
  because sign-ins wait meanwhile (`Remembered`), and that the file names the target
  before a crash could start on it (`ChangeOnDisk`). `FailuresKept` goes the same way
  (`LimitsInv`) once it is known of single records that what a check or a failure drops is
  too old or outlived by the lockout it caused (`PrunedRecord`, `FailedRecord`, from
  `LockoutAssumption`), also when the failure is recorded twice by a replay, and that a
  merge has what either record had (`MergedRecord`). Records are in the order of time
  (`Ascending`), which is why `Pruned` may cut off a front where the code filters, and
  the merge numbers a set by the rank of its elements (`Rank`, `OrderedSet`).
  Theorems: `Invariant`, `CacheIsCurrent`, `NothingHeldForGood`, `NothingForgotten`. The
  part of the types that the proofs use is in `Tables` and `Places`.
- **AccountProofs**, SignIn, in the same module because both rest on the lemmas about
  `FailureLimit`. `SessionsEarned` needs that a token is in one place until it has led to
  a session (`OnePlace`): with one request, or standing for one entry of the pending
  tables, where a step-up request stands for the tokens that led to it too; and has led to
  none before (`TokensKept`). Every step is shown to move tokens between one request and
  one entry (`Moves`, `Handed`). `GuessesBounded` needs that the wrong credentials since
  any second of the window are in the record, or held by a request that is about to
  record them, or lost, unless the lockout they caused outlives them (`AccountOK`,
  `AddressOK`); and that a request that passes the check is one more of the `Request`s
  than those that try and those that failed (`HowManyApart`). What an append, a prune, a
  record of a failure or a clear does to these counts is proved of single records and
  sequences first (`CountAppend`, `CountSince`, `AccountRecords`, `AddressRecords` and
  so on), then each step is one of them at one key and leaves the others
  alone (`KeyQuiet`, `OtherKeys`). It takes `LockoutAssumption`, that the number of
  requests under way is finite, and no bound on it. Theorems: `SignInTyped`,
  `SessionsFollow`, `GuessesCounted`.

An index of an EXCEPT is shown to be in the domain before a proof uses the update;
lemmas such as `AboutAnAlert` exist for that.

Only model-checked: the liveness properties `EventuallyClosed`, `EveryFiringAnswered`,
`EventuallyDecided`, `EventuallyDelivered` and `EveryCallAnswered` (fairness and ENABLED
are outside of this prover). Every invariant, action property and refinement of a
passing run is a theorem.

## Findings

`ingest_overtaken` is a disagreement between the documentation and the code; it is quoted
in `PROJECT.json` with its line. Others were met on the way and have no run of their own.
Each is reproduced by a change of a configuration file, and the weaker property the code
does have is checked in its place:

| What a text says | What the code does | To see it | What holds |
| --- | --- | --- | --- |
| "Later thresholds are attempted once" (docs/emergency-profiles.md:75) | a forced retry, or one that overtakes the initial delivery, escalates again | `EscalatedOnce` as the invariant of `Receipts.cfg` | `EscalatedOnceUndisturbed` |
| a lease "can allow one already in-flight HTTP request to finish while an ACK arrives" (README.md:439) | the requests to the next channels of the attempt start after the ACK | `NoPostAfterClose` as the property of `Receipts.cfg` | `ClosedStaysFinal`, a theorem: nothing is recorded of such a post |
| "Recovery from the original source closes the receipt automatically" (README.md:414) | a snooze or a mute suppresses the recovery as well | `IngestOvertaken.cfg` with `Silenceable = {disk}` and `Holds <- MCUnheld` | `RecoveryClosesUnheld` |
| the grace period "Covers requests dispatched with the same browser cookie while rotation commits" (src/history/session.rs:35) | a request that read the clock in an earlier second than the commit is not covered, and has to log in again | `DispatchedCovered` in `AuthSessions.cfg` | `OneActivePerFamily`, `ClosedForGood` |
| the lock file serializes admin writes between processes, "evitando lost update" (CHANGELOG.md:700) | the second process writes its own copy of the settings, in which the first one's edit is missing; only the files, not the copies, are under the lock (src/state.rs:182) | `Instance = {i1, i2}` in `ConfigStore.cfg`, `AckedOnDisk` | `AckedOnDisk` for one process |
| a publish token "for every severity routed by an enabled profile", checked at startup (docs/production-deployment.md:129) | an alert labelled `emergency=true` that no profile matches goes to the fallback profile, whose topics and lease were checked for other severities (src/config/emergency_policy/routing.rs:98) | `Covered` without `MatchingProfiles(..) # {}` in its last conjunct | `EmergencyCovered` |

## Plan

Done, in this order: EmergencyReceipts with its contract and Registration, RepeatSuppression,
DedupBuffer, IngestPipeline, AuthSessions and their proofs; ConfigStore with
EmergencyRouting, HistoryStores, SignIn, SessionTable and PostgresSessions with
their proofs. Next, by importance:

1. Proofs: AuthSessions as an implementation of SessionTable.
2. **DeliveryPolicy** (`delivery/policy.rs`, `delivery/channels/`,
   `inhibition/schedule.rs`, `delivery/repeat/matcher.rs`): choice of a policy,
   cascades over failing channels, cron matching, as operators checked against
   reference definitions.
3. An abstract buffer (every accepted item handed over once) and an abstract
   pipeline, as refinements like the contract of the receipts; sent repeats as a
   refinement of one cell per notification.
4. The other transactions of the receipts and those of the repeat gate at PostgreSQL,
   in the way Registration has the first of them.

## Not modelled

- Readers of single settings: pure, one direction, covered by unit tests. What the
  models need of validation is `Valid`, or an assumption with its line.
- Retention and archive pages of the delivery history: they delete the oldest rows of
  tables nothing else decides on.
- The WebAuthn library, LDAP, the OIDC provider: answers of somebody else. The 4096
  entries of the table of addresses, the cache of the OIDC client.
- Parsers and rendering: pure conversions of one document to one event.
- Router, views, metrics, logs, static files: dispatch and read-only.
- Web UI, SDKs, vendored modules: clients and third-party code.
- Channels: their answers are a nondeterministic success or failure within a
  timeout; the bytes they send are not modelled.
