# Anglerfish in TLA+

Anglerfish is an SSH honeypot: a lure accepts connections, a bridge answers the
attacker's commands with a local language model, a dashboard shows the sessions to
an operator. This directory holds TLA+ models of its concurrent and stateful
parts, TLC configurations that check them on small instances, and theorems that
TLAPS proves for every instance. Paths below are relative to the repository,
`anglerfish/` stands for `src/anglerfish/`.

    tlasany AuditTailer.tla                              # parse
    tlc -workers 2 -config tailer_crash.cfg MCAuditTailer  # model-check one run
    tlapm AuditTailerProofs.tla                          # check the proofs

## 1. Inventory of the system

### How the parts interact

    wizard ─> env, ruleset, networks ─> units of systemd

    attacker ─ssh─> lure ──HTTP, loopback──> bridge ──> rate limiter ─> LLM client ─> Ollama
                     │ └─> credential store    │  ^
                     └── audit JSONL (append) ─┘  │ overrides JSON, pins
                               │                  │
                     dashboard: AuditTailer ─> DashboardState ─> SessionStore (SQLite)
                               │                  └─> subscriber queues ─> WebSockets
                     audit shipper ─> collector

Lure, bridge and dashboard are processes of their own. The lure and the bridge
share nothing but HTTP; both tell the dashboard what happens by appending lines
to the audit log, best-effort (`AuditLog.record` swallows an `OSError`). Each
process is one asyncio event loop: code is atomic from `await` to `await`, and the
locks of the source matter only where something is awaited under them. SQLite
statements run in worker threads, one autocommitted statement after the other.

### Components

| Component | State it keeps | Operations | What is hard about it | What makes it correct |
|---|---|---|---|---|
| Audit log (`audit.py`) | a JSONL file, moved by logrotate | `record` | lines lost on a full disk, files swapped under the readers | a line is whole and is not reordered |
| Audit tailer (`dashboard/audit_tailer.py`) | offset, its sidecar file, accumulators | poll, read, dispatch per kind, start, stop | at-least-once replay after crash, failure, unreadable cache; rotation; out-of-order lines | a command is a turn exactly once and in order; nothing blocks for ever |
| Session store (`sessions/store.py`) | SQLite tables of sessions, turns, intents, pins, events | upsert, record_turn, end_session, upsert_intent, pins, install and bait rows | autocommit between statements, foreign keys, replays | counts match turns, ended stays ended |
| Dashboard state (`dashboard/state.py`) | subscriber queues | update_session, end_session, publish | awaits between store writes, slow subscribers | drop-oldest loses only the oldest; no event before its row |
| Rate limiter (`bridge/rate_limit.py`) | token buckets, idle times, a semaphore | `slot()` | lazy refill, eviction of buckets, timeouts in the queue | no window over budget; slots conserved |
| Budget and LLM client (`llm/budget.py`, `llm/client.py`) | tokens used per session and role | check, consume, settle; chat, stream_chat | check-then-act across an await, abandoned streams | budget balances, caps hold |
| Bridge service (`bridge/server.py`, `bridge/service.py`) | map of SessionContexts, seven per-session dicts | start, command, end, evict, pin | state read before an await and used after it; deletion and eviction of sessions with a command under way | map and dicts in step, nothing kept of a session that is gone |
| Strategies, counter-deception | wasted time, clarifications, engagement | per command | caps crossed by concurrent commands | one audit line per cap, one clarification in a row |
| Lure (`lure/server.py`) | limiter counters, per-connection state | connection_made/_lost, process handler per channel | channels share one state; a connection ends while a request is out | slots released once; opened and closed lines pair |
| Fake file system and shell (`lure/`) | directory, history, overlays and baits per channel | native commands, `ls`, `cat`, `cd` | the directory exists in the lure and in the bridge; a stream may end between two chunks | every command is a turn; what `ls` names `cat` reads |
| Lure as a service (`lure/server.py`, `lure/hostkey.py`) | host keys, background tasks | start, login, stop, drain | a death between the two keys; a stop with tasks under way | the box keeps its identity; every told login is stored |
| Prompt, defence and sanitising (`bridge/defense.py`, `session.py`) | the recorded history | sanitise, scan, cap, record | sanitiser, scan, cap and record see texts of different lengths; streams are scanned late | nothing passes untold; the history is what was said |
| Runtime overrides (`dashboard/overrides.py`, `bridge/overrides_reader.py`) | a JSON file, mtime cache | publish, read | mtime and content read at two moments | the bridge adopts what was published last |
| Audit shipper (`audit_shipper.py`) | inode, position | poll, POST, save | crash after POST, rotation before the tail | at least once, in order |
| Credentials, key rotation (`credentials/`) | encrypted rows, the key in the environment, backup and work file | record, rotate, recover | two renames, a write-ahead log, a lure that starts between | every row readable with the key the operator was told |
| Dashboard HTTP (`dashboard/routes.py`, `auth.py`, `rate_limit.py`) | cookies, buckets, pins, settings | login, pin, change a setting | writes in worker threads, audit lines that are lost | the trail tells the state but for lost lines; the login form's attempts are bounded |
| Readers of the log (`dashboard/alerts.py`, `audit_reader.py`, `health.py`) | a page's cursor | pages, ranges, counts | several writers, late lines, equal times, a tail shorter than the window | every alert once; a range is exact; so are health figures as far as the tail reaches |
| WebSockets and narrator (`dashboard/websocket.py`, `narrator.py`) | queues of events | subscribe, send, ping | drop-oldest, clients that vanish | in order, never ahead of the rows |
| Schema and import (`sessions/schema.py`, `migrate.py`) | version, tables | migrate, import | autocommitted DDL, two openers, death | the version never promises too much |
| Intent, embeddings, warm pool | tasks | extract, embed, keep warm | late results, a missing model | one per session; no loop dies |
| Start of the bridge (`bridge/server.py`, `bridge/defense.py`) | verified manifests | verify, seed, open, serve | manifests change or stall | only verified models are served |
| Persona, honeytokens, persistence | pins, placements, registry | select, place, register, look up | a placement is registered later and again | the last persona on return (not kept); a bait leads back to its session |
| Geo update (`geo/fetch.py`) | staged files, databases | fetch, stage, replace | deaths, builds that change under a download | last good database stays |
| Wizard, settings, first boot (`wizard/`, `config/`) | eight files, the units' conditions | run, rerun, boot, edit | killed between two files; bounds across fields | a finished run is whole; a bad setting is caught |
| Fingerprint, Tor list, geo look-up | caches | refresh | constructed by nothing | |
| Threat scoring, alerts, exporters | none | score, render | | |

`PROJECT.json` lists them with their files and how far each one is modelled, and
40 hazards with the line each bites at and the properties that guard it.

## 2. Modules

| Module | Models | Notes |
|---|---|---|
| `SessionIds` | the ids lines and rows share | |
| `AuditTrail` | audit log and its writers | variables `history`, `base`, `phase`; a line is its kind and session, its position is its identity |
| `SessionStore` | the tables the tailer writes | `rows`, `turns`, `count`, `ended`, `intents`; one operator per SQL statement |
| `AuditTailer` | tailer, `update_session` and `end_session` of DashboardState | extends the two above; `pc` is the await the poll task is at |
| `SessionLedger` | abstract: each command becomes one turn, in order | what `AuditTailer` implements without failing statements, rotation and late opened lines |
| `RateBucket` | per-session buckets of `BridgeRateLimiter` | fractions of a token are integers |
| `AuditShipper` | `ship_pending`, its offset file and its loop | writer, logrotate and collector step between its system calls; the n-th file has inode n |
| `RuntimeOverrides` | publisher, published file, mtime cache of the bridge | only the strategy, the one field the bridge reads |
| `InferenceGate` | the semaphore, `TokenBudget`, `OllamaClient` calls | a call walks new, queued, slot, chat or stream, (abandoned,) done |
| `BridgeSessions` | HTTP app and `AIBridgeService` per-session state | a record of one field per dict; commands suspended at the classifier or the model |
| `PerIPLimiter` | the lure's admission limiter | totals, per-address counters and windows, the sweep of the map |
| `LureConnections` | connections and channels on top of `PerIPLimiter` | the bridge's half of a session is the set `live` |
| `AttackerMemory` | what outlives a session: persona, installs, embeddings, garble paths and pins | the bridge's reads, the log and the tailer's writes of those tables in one module |
| `LureShell` | one channel: the loop, native commands, fake file system, streams, fallbacks, history | the directory twice, the lure's and the bridge's |
| `LureLife` | the lure as a service: host keys, logins, background tasks, `stop()` | a connection is what a start or stop can hurt |
| `CommandDefense` | sanitiser, scans, caps, fallback, recorded history | a text is a short sequence of symbols; the patterns are one, "a" before "b" |
| `CredentialRotation` | the credential store, the rotation of its key, the runbook's recovery | a row is its triple and the key it is under; a file has a main part and a write-ahead log |
| `LiveEvents` | `DashboardState`'s store-then-publish, queues, WebSocket loop, narrator | an event is kind, session and number |
| `OperatorConsole` | login, limiter, cookies, CSRF token, pins, settings and their audit lines | two operators, one store lock |
| `AuditReaders` | alert pages, range reads, health figures, facts of a session | one log with several writers and late lines; health reads its tail only |
| `StoreUpgrade` | `run_migrations` by several openers, `import_jsonl_into_store` | each statement takes effect on its own |
| `DecoyTokens` | assessments, placement, registration, overlays, call-backs, engagement | a token is the number of its audit line |
| `GeoUpdate` | `anglerfish geo update`, several processes | files are inodes, a file is two halves |
| `BridgeStart` | integrity check, persona registry, seeding or waiting for the store, warm pool, model puller | manifests and Ollama change from outside |
| `Settings` | validators of the answers and of the settings, as operators | one bit per section for bounds that mention one field only |
| `FirstBoot` | the wizard's writes, reruns, edits, boots, the units' conditions | extends `Settings` |
| `AuditTailerProofs`, `InferenceGateProofs`, `BridgeSessionsProofs` | theorems and proofs of one module each | section 4 |
| `LureConnectionsProofs` | the same of `LureConnections` (with `PerIPLimiter`) and `LureShell` | |
| `AttackerMemoryProofs` | of `AttackerMemory`, `DecoyTokens` and `CommandDefense` | |
| `BridgePartsProofs` | of `RateBucket`, `RuntimeOverrides`, `AuditShipper` and `BridgeStart` | |
| `DashboardPartsProofs` | of `StoreUpgrade`, `CredentialRotation`, `OperatorConsole`, `AuditReaders` and `LiveEvents` | |
| `HostPartsProofs` | of `GeoUpdate`, `LureLife` and `FirstBoot` | |
| `MCSmallParts` | `AuditShipper`, `LiveEvents`, `BridgeStart` in one run, one of them per behaviour | the parts with something that must happen |
| `MCSafetyParts` | twelve more parts in one run, one of them per behaviour | the parts whose properties are invariants |
| `MCLureConnections` | the limiter and the handlers of `LureConnections` in one run, one of them per behaviour | who is let in takes many connections and time, handlers few |
| other `MC...` | values of constants and symmetry for TLC | |

### How state and actions correspond to the code

**Tailer.** `_poll_once` is cut at its awaits: `Poll` (the stat, the shrink check,
the empty check), `Read` (`to_thread(_read_from_offset)`), then per line the
handler: `HandleOpened`/`HandleCommand` (accumulator, then the `turns` query of
`update_session`), `Upsert`, `RecordTurn` and `CountTurn` (the two statements of
`record_turn`), `Updated`; `HandleClosed`, `End`; `HandleIntent`; `Commit` and
`Save`. `StoreFault` and `IntentRefused` leave the batch as the `except` of
`_poll_once` does: offset unchanged, *accumulators kept*. `Crash` and `Stop` can
strike at each of these points (`Stop` not between the two statements of
`record_turn`, which share a thread).
One line counts as one byte; a torn last line is the same as a line not yet
written, because the source only advances to the last newline.
`AuditTrail` lets the new file after a rotation grow past the old offset before
the next poll, the case in which `stat` cannot see the rotation.

**Bridge.** The app's lock is never awaited for, so a handler's step runs from
await to await: `Receive` (touch, eviction, 404), classifier, `AnswerDirectly` or
`Begin` (budget, strategy), model, `Finish` (time, turn). `GiveUp` is the lure's
timeout, which a buffered handler does not notice; `Interrupt` is a cancelled
stream or an exception. `Idle` abstracts `session_idle_eviction_s`.

**Gate.** A slot is held from `GetSlot` to the `finally` of `slot()`. `chat` holds
the budget's lock from check to consume; a stream reserves under it and settles
in its generator's `finally`, which after an early `break` runs later
(`StreamBreaks`, `CloseGenerator`).

**Lure.** `Admit`, `RefuseFull`, `RefuseRpm`, `Release` are the limiter;
`ConnectionMade`, `ConnectionLost` the callbacks; `StartHandler`,
`BridgeCreates`, `SessionReady`/`SessionFails`, `HandlerEnds` the handler per
channel. The state they share is one entry per *connection* (`lureSession`,
`bridgeUuid`), which is where two channels get into each other's way.

**Memory.** `StartSession` to `ReadMode` are the queries of `start_session`, one
action per await: `ReadPin` and `ReadRecurrence` are `PersonaSelector.select`,
`ReadEvents` is `load_persistence_for_source_ip`, `ReadMode` loads and applies the
counter-deception pin and answers the lure. `Classify`, `Installs` and
`InstallsNothing` are the two sides of the classifier's await. `HandleOpened`,
`HandleInstall`, `HandleEmbedding` and `RebindPersona` are the tailer's handlers; a line
is its position in the log, so `created_at` and the dedup index are that number.
The honeytoken query between `ReadEvents` and `ReadMode` returns nothing and is
left out.

**Shipper.** `Look` is the stat and the offset file, `Read` the second open of the
same path, which may be the next file by then; `Accept` is an acknowledged batch
with its `_save_offset` (which may fail and is only logged), `Lose` whatever ends a
cycle early: a failed or unanswered post, an error, the death of the process.
`run_forever` starts the next cycle in any case.

**Overrides.** `Change` is a POST with a non-empty diff up to the temporary file,
`Replace` its `os.replace`; `RestartDashboard` reverts to the env file and
publishes. In the bridge, `Ask` is the stat of `_maybe_refresh` and `ReadFile` the read that
may follow. A tick of the clock is the granularity of the file system's times.

**Shell.** `TypeLine` is the read of a line, `AnswerNative` the commands the lure
answers itself, `ServeCommand` the request, `TakeDelta` a chunk, `FinishCommand`
and `FailCommand` its ends with the line and the history they leave.
`LoseChannel` may come at any await, `ForgetSession` is the bridge's eviction.

**Service of the lure.** `EnsureKey`, `LoadKeys`, `OpenCredentials`, `Bind` are
`run_lure` up to its listener; `BeginAuth`, `OfferKey`, `StoreAttempt`, `TellAttempt`
a login, whose row is written before its line; `CloseListener`, `Drained`,
`CloseClients`, `Return` are `stop()`. `LlKill` may come anywhere.

**Defence.** `Take` is a command through sanitiser and input scan, `Reply` a buffered
answer through filter and cap, `SayFirst`, `Say`, `Finish`, `BreakOff`, `Abandon` the
stream, `Fail` and `GuardError` the fallbacks. Two symbols of the alphabet stand for
what normalisation drops and what it unfolds, so that a text is longer or shorter
to the scan than it is to the cap.

**Rotation.** `Rotate` to `MovePlace` are `rotate_key` statement by statement, the fold
of the write-ahead log included; `RotationDies` strikes at each. `UpdateEnv`,
`RemoveBackup`, `RemoveWork`, `Recover` are what `docs/RUNBOOK.md` tells the operator to
do, `LureStart` and `RecordAttempt` a lure that is started in between.

**Events.** `BeginUpdate`, `UpsertRow`, `RecordTurns`, `Announce`, `AnnounceCommand` are
`update_session`, `BeginOther` and `StoreOther` ending and intents, `StoreFails` a statement
that raises. `Connect` is subscribe and snapshot, `Get`, `Send`, `Ping` the tasks of a
WebSocket handler, `GoAway` a client that vanishes without a word.

**Console.** A request that changes a pin takes the store's lock (`TakeLock`), writes in a
worker thread, and appends its line when it is back in the loop (`Answer`): the order
of two lines is the order of the event loop, that of two writes the lock's. A change of
settings is applied and audited in one step (`ChangeSetting`). `audit.record` swallows an
`OSError` (`audit.py:178`), so the line of a pin or a setting may be lost while the change
stays: `csUntold` and `csGaps` remember whose, and where in the trail. `Login` is POST
/api/login. A password in a Basic header is looked at on every route and without the
limiter (`auth.py:91`), so `Actors` asks nothing of `csBucket`; such attempts are not
counted, and nothing is claimed about their number.

**Readers.** `AppendLine` carries the time its writer stamped and may be late by
`MaxLate`; `GetPage` is one request for a page of alerts. Range reads, health figures and
the facts of a session are operators over the log, so each state checks all of them. The
health panel reads the last 4 MiB (`_HEALTH_TAIL_BYTES`, `dashboard/health.py:51`) and
nothing in front of them: `InTail` are the last `TailLines` lines, as if lines had one
length. `Recent` looks at lines of the kinds asked for only, and the first of them that is
older than the window ends the read.

**Upgrade.** `AlterTable`, `CreateTables`, `Stamp` are the statements of a migration.
`ReadEvent` is one line of the import, `WriteRow`, `WriteTurn`, `WriteEnd`, `Flushed` the
flush of the closed sessions and the one at the end of the log.

**Baits.** `ListTokens` and `ApplyPin` are the two queries of a session's start that
matter here, `AssessThreat` is `record_threat_assessment`, `Place` the task it spawns,
`Register` the tailer's handler, `RestartTailer` reads the log again. The call-back is
`CallbackLine`, an operator, since the receiver keeps nothing.

**Geo.** `Manifest`, `Download`, `OpenStaged`, `Copy` (two halves), `ReplaceDatabase` are
`_fetch_one`; `FailUpdate` is a `FetchError`, `DieUpdating` the death of the process.

**Start of the bridge.** `ComeUp` is the next step of the start, `WarmOnce` and `Refresh` the
two halves of a warm loop, `EnsureModels` to `PullFails` `model_pull`; manifests
(`ManifestChanges`), Ollama (`OllamaTurns`) and `StopBridge` come from outside.

**First boot.** `OpenTemp` and `ReplaceFile` are the atomic write of the next artefact,
`SkipKeys` and `FinishRun` the ends of the list, `Break` a death, a refused key or a full
disk. `Boot` evaluates the units' conditions, `StartService` loads the settings,
`Edit` is an operator with an editor.

### What is taken from outside the repository

* asyncssh leaves a process handler running when its connection is lost, and
  calls `connection_made` and `connection_lost` once each.
* asyncio's locks and semaphores wake waiters in FIFO order.
* Starlette cancels a streamed response whose client is gone, not a buffered
  handler.
* logrotate renames the file and creates a new one
  (`iso/config/includes.chroot/etc/logrotate.d/anglerfish`).
* SQLite statements are atomic and autocommitted; foreign keys are on.
* A renamed file keeps its modification time, and logrotate's new file has an inode
  the shipper's offset does not name (the old file still holds its own).

## 3. Runs

Passing runs; all bounds are constants of the configurations. A property that is a
conjunction has its parts in brackets; each part has a definition and a comment of
its own in the module.

| Run | Instance | Properties |
|---|---|---|
| `tailer_crash` | 2 sessions, 4 lines, 2 crashes or stops, cache may fail, fair | TurnsExactlyOnce; OffsetNotAhead; RowsAgree (NoTurnLost, ClosedStaysEnded, CountNearTurns, AccumulatorIsPrefix, AccumulatorDropped); EveryLineDispatched; LedgerSpec |
| `tailer_storm` | 1 session, 5 lines, rotation, restart, failing statement, late or missing opened line, fair | TurnsUnderStorm (OnceUnlessRetried, KeptWithinProcess); CatchesUp |
| `gate` | 4 calls, a chatting and a streaming session, 3 slots, cap 3, fair | SlotsConserved; BudgetBalances; ChatNearCap; StreamsWithinCap; EveryCallEnds |
| `bridge_sessions` | 2 sessions, 3 commands, timeouts and interrupts | LockStep; CapStops; DrainedWhenQuiet; AnalysedOnce; OneClarificationPerChain |
| `lure` | either 4 connections of 3 addresses over 3 ticks and no handlers, or 2 connections of 2 channels, faults, early losses, fair | AdmissionSound (TypeOK, SlotsMatch, RateHeld, WindowExact, MapBounded); LinesPaired (OneRowPerConnection, PairedIfSteady); ReleasedIfSteady |
| `memory` | 2 addresses, 2 sessions, 2 classified commands, 1 change of a pin, 1 restart of bridge or dashboard | InstallsTold (TypeOK, InstallsOnceInOrder, KnownInOrder) |
| `small_parts` | shipper: 4 lines, 3 files, 2 failures, batches of 2; events: 1 session, 1 browser, queue of 2, 3 events; start: 1 pinned role, 2 attempts of a pull, 1 happening; fair | SavedNotAhead; BoundedGap; BacklogShips; FeedSound (FeedInOrder, GoneIsForgotten); BridgeSound (ServesVerified, WarmsInTheEnd, ComesUp) |
| `safety_parts` | twelve parts, below | one property per part, below |

The parts of `safety_parts`:

| Part | Instance | Property |
|---|---|---|
| `RateBucket` | 2 sessions, 6 ticks, burst 2, refill 2/3 of a token per tick | NoWindowOverBudget; RefusedOnlyOverBudget |
| `RuntimeOverrides` | 3 changes or restarts, 5 ticks, TTL 2 | AnswersWithinTTL |
| `CredentialRotation` | 2 triples, 3 keys | RotationKeeps (NothingLost, AllReadable) |
| `LureShell` | 2 commands, 2 directories, 5 files of every sort | ShellSound (TurnPerCommand, ShellCoherent) |
| `AuditReaders` | 1 session, 3 lines, late by 1, pages of 1, a tail of 2 lines | ReadersAgree (PagesPartition, RangesExact, FiguresExact) |
| `OperatorConsole` | 2 operators, 1 address, either 2 settings, 2 changes and no ticks, or logins only, 4 attempts, 5 ticks, burst 2 | ConsoleSound (TrailTellsState, LoginsBounded) |
| `CommandDefense` | commands of 3 symbols, answers of 2, both caps 2 | DefenseSound (NothingPassesUntold, HistoryIsWhatWasSaid) |
| `LureLife` | 1 connection, 3 lives | LifeSound (KeysStay, LoginsTold, StopsClean) |
| `StoreUpgrade` | 2 openers, 2 versions, 1 death, 2 sessions of 3 lines, batches of 2 | UpgradeSound (SchemaSound, ImportSound) |
| `DecoyTokens` | 3 sessions of 2 addresses, 2 assessments, 1 restart | DecoysSound (PlacedOnce, ServedNewest, HitsTraced, WhitelistKept) |
| `GeoUpdate` | 2 processes, 2 builds | GeoSound (DatabasesWhole, SuccessInstalled) |
| `FirstBoot` | every answer, a rerun, 1 boot, edit or stop | WizardSound (RunIsWhole, EndpointCaught, ScansReach) |

`TypeOK` of a module is a conjunct of a property above or part of an invariant that
section 4 proves.

The runs of parts look at their parts one after the other: `part` says which one moves
in a behaviour and the others stay as they start, so the states are the sum of the
parts' and not their product. Nothing is lost by that, since the parts share no
variable (in `lure` the handlers do not read the limiter's). Time, lines and lives are
bounded, so a run may stop.

Why the bounds are enough, as far as bounds ever are:

* *Tailer.* Two sessions are needed for one to hold up the other and for lines of
  two accumulators in one batch; four lines allow opened, command, closed and one
  more (a second command, a straggler, an intent or the other session), and the
  single session of `tailer_storm` gets five. Two crashes allow one inside the
  replay of another. An accumulator of five turns holds every line twice when a
  batch of two is repeated; longer ones repeat the same step.
* *Gate.* Four calls, so that one waits while three hold the slots and at least
  two of one session are past the check at once; the cap is passed by one
  reservation and one answer.
* *Bridge.* Three commands are the least for a command of one session to evict
  another one that has a handler suspended while a third is given up on. The
  cap of two units is passed by two commands of one unit, or by one.
* *Lure.* Four connections exceed each of the caps (3 in all, 2 per address, 2
  per window), also after a release or when the window has passed; three addresses against
  a map of one force the sweep to drop a live window. Connections and addresses are
  numbers there: connections are made in the order of their numbers and use a new address
  only after the ones before it, which loses nothing, since neither is told apart by the
  code. The handlers of two connections do not depend on the limiter, so that they run
  in a part of their own, without the clock.
* *Memory.* Two sessions of one address can follow each other or overlap, two of
  two addresses must not see each other's past; two commands can wait for the
  classifier together, in one session or two. One restart lets the tailer read
  its lines again, or the bridge forget its garble paths.
* *Buckets.* A tick adds 2/3 of a token, so refills are not whole; six ticks pass an
  idle eviction and what follows it.
* *Shipper.* Three files let the log rotate between the stat and the open and once
  more before the offset is saved; four lines make a backlog of two batches. One
  failure can be a lost answer and the other the save that follows.
* *Overrides.* Five ticks with a TTL of two leave room for a cached answer, a change
  that falls into its last moment, and the refresh after it; three changes allow
  two in one tick and a restart of either side.
* *Events.* Three events overflow a queue of two once while the browser holds a fourth
  place, the event in hand; one turn is enough for a row, an update and a command
  to come in each order, and a writer may fail at any of its statements.
* *Start.* One pinned role beside one that is skipped shows both outcomes; the one
  happening may be a changed manifest, an Ollama that turns, or a stop, at any step,
  and the initial states have every manifest already.
* *Rotation.* Three keys are the first, a rotation that dies and the one that repeats it;
  of the two triples one is stored before, one by a lure between two steps.
* *Shell.* Two commands are needed for the directory and the history the first one
  leaves to the second; the files have each property once: listed, denied, of the
  clock, of an overlay, garbled.
* *Readers.* Three lines in three milliseconds: two of one time, one that is late, or one
  that arrives between two pages of one line each. A tail of two lines leaves the third
  line of a window unread.
* *Console.* Two operators who change one pin is the smallest race there is, and two
  changes of the settings leave a lost line before a written one or behind it. Changes do
  not read the clock of the logins, so that each has a part of its own. A login bucket
  holds two tokens and a token takes two ticks to come back: in five ticks an address
  spends both, is refused half a token later, and gets through twice on what came back,
  unless the map was swept meanwhile.
* *Defence.* A command of three symbols with a cap and a scan of two has the pattern
  before, across and behind each cut; the invisible and the unfolding symbol make
  the normal form shorter or longer than the text.
* *Service of the lure.* Three lives: one dies between the keys, one completes them, one
  compares. One connection may be at each point of its login when a life ends.
* *Upgrade.* The second of two versions alters a table, and one death strikes any statement;
  with two sessions the batch of two is full while the third line is to come.
* *Baits.* Three sessions: of one address with a pin that says off, or of two addresses with one
  that returns and is served what its predecessor was given.
* *Geo.* Two processes overlap or follow a dead one; the second build comes between any two
  steps.
* *First boot.* A rerun over the remains of a killed run is the case that matters; a boot
  may fall before it, after it or be an edit.

Runs that are expected to be violated; each is a statement of the repository the
code does not keep:

| Run | Statement | What happens |
|---|---|---|
| `bug_retry` | a failed batch "replays cleanly" (`audit_tailer.py`, before the offset is advanced) | the batch runs again over the accumulators of its first attempt: turns are recorded twice |
| `bug_schema` | "on failure the partial work rolls back" (`sessions/schema.py:299`) | the connection is in autocommit mode: a death after an `ALTER TABLE` leaves the column without its version, and each later open meets a duplicate column |
| `bug_boot` | services "fail closed on the firewall" (`systemd/anglerfish-bridge.service:4`) | the wizard dies between the environment file and the ruleset; the next boot skips the wizard and the firewall by their conditions and starts the services |
| `bug_persona` | recurrence "keeps the persona sticky across reconnects" (`persona/selector.py:14`) and "picks up the rebound on the next session-open" (`audit_tailer.py:529`) | no line tells the tailer which persona was selected, and each upsert writes NULL over the column: a session of a pinned address is stored, and the next one without a pin falls back to the hash |

The passing runs state what remains true beside these: `OnceUnlessRetried`,
`KeptWithinProcess`, `CatchesUp` (with its `Wedged`), `DrainedWhenQuiet`,
`PairedIfSteady`, `ReleasedIfSteady`, `SchemaSound`, `DatabasesWhole`, `WhitelistKept` are the
strongest forms found to hold. History variables (`retried`, `busyAtEnd`, `hurried`,
`failed`, `abandoned`, `suMishap`, `guOverlapped`, `llExcused`, `overwritten`, `csUntold`,
`csGaps`)
name the event each of them excludes.

### Other disagreements met, without a run

Found while the models were written and kept out of the runs, either because the
module states the weaker property that does hold, or because the point lies outside
of every model. Those that quote a document are also in `PROJECT.json`.

*Dashboard*

* The intent line of a session whose row never came (the second channel of a
  connection has no opened line) violates a foreign key on every attempt, the
  batch fails and all lines behind it wait for ever, while `audit_tailer.py:621`
  promises that "one bad audit line never trips the tailer batch loop".
  `CatchesUp` names this case `Wedged` and shows that it is the only one.
* `store.py:167` says live updates "don't double-count", but the first insert
  stores `len(turns)` (`:198`) and `record_turn` counts those turns again: a
  session whose first line is a command ends up one high. `CountNearTurns` holds
  because `tailer_crash` has the opened line first.
* After a restart, an opened line that comes late finds no accumulator and builds
  one without turns (`audit_tailer.py:371`): the positional diff then drops the
  next command. `KeptWithinProcess` is limited to one process for this reason. A third
  process replays that command behind later ones, as if it were new, and so does an
  unreadable cache once the head of a rotated file was skipped: `OnceUnlessRetried` is
  limited to one restart, and to a readable cache where a file was rotated.
* A command after its session's closed line brings an accumulator back that
  nothing drops (`audit_tailer.py:477`, `:483`); see `AccumulatorDropped`.
* The tailer's comments and `docs/RUNBOOK.md` speak of `copytruncate`; the shipped
  logrotate configuration renames. Both shrink the file at the path, which is all
  `Rotate` says; a file that regrows past the offset between two polls is taken
  for the old one and its first lines are skipped.
* Alerts that share a millisecond are paged by an offset that counts from the newest,
  over a cursor that keeps what is below it (`dashboard/alerts.py:123`);
  `PagesPartition` excludes them. A range read stops at the first older time
  (`dashboard/audit_reader.py:117`), although several processes write; `RangesExact` asks
  for a file in the order of its times.
* The tail of 4 MiB is "far more than any health window inspects"
  (`dashboard/health.py:50`), but nothing ties its length to a window's: of a window with
  more lines than the tail holds the figures count the newest part only. `FiguresExact`
  says what they do count.
* A publication that failed is not repeated: a second POST of the same value has an
  empty diff (`dashboard/routes.py:1044`, `:1083`), and a read that failed is cached
  under the file's time until the next publication
  (`bridge/overrides_reader.py:111`). Two files written within one tick of the file
  system's clock look the same to the cache. `AnswersWithinTTL` names the three as
  `spoiled` and shows that nothing else keeps the bridge from following.

*Bridge*

* Ending a session drops its state, but a command that waits for the classifier when
  its session is deleted calls `budget_for` afterwards (`bridge/service.py:306`), and nothing
  evicts that entry. `DrainedWhenQuiet` speaks of sessions that end with nothing
  under way.
* An address pinned "off" is left alone: "neither the time-bomb nor garbling fires"
  (`bridge/service.py:557`), but paths stored by an earlier garble pin are still sent to
  the lure (`bridge/server.py:386`). `WhitelistKept` speaks of the state of the session.
* `strategies/aggressive.py:88` promises no two clarifications in a row. A
  clarification that is cut short does not raise the command count, and the next
  command is asked again; `OneClarificationPerChain` excludes it.
* `bridge/session.py:9` takes a session to have one command at a time; after the
  lure's HTTP timeout two handlers use one context (`bridge/server.py:436`).
* `llm/budget.py:110` presents the reservation as the bound of a stream; the
  usage reported at its end may be larger, and streams that run together
  overdraw the cap by the sum of those differences. `StreamsWithinCap` bounds the
  reservations, not the final usage.
* `service.py:1038` says `truncated` "can never fire here"; the scan normalises first, which
  may lengthen the text. A pre-message is in the recorded answer but not in its count.
  `HistoryIsWhatWasSaid` keeps the lengths apart.
* The integrity check is to emit "exactly one audit event per call"
  (`bridge/defense.py:532`); a denied read, a manifest that is no object and the timeout
  emit none, and a stalled read keeps the process from exiting (`stuck` in `BridgeStart`).
* `record_threat_assessment` has no caller in `src/`: honeytokens are read at every session's
  start (`bridge/server.py:329`), but nothing places one yet.

*Lure*

* A connection lost during `open_session` writes its closed line without a session
  id, and the handler then writes the opened line of a session nothing closes
  (`lure/server.py:386`, `:643`); `PairedIfSteady` excludes it.
* A second channel overwrites the bridge session of the first
  (`lure/server.py:612`), which is then never closed but by idle eviction.
* Connections without a bridge share the placeholder id (`lure/server.py:961`), and their turns
  one row of the store.
* A `cd` the lure answers itself is not told to the bridge, whose directory comes back with
  the next answer (`lure/server.py:813`). `ShellCoherent` tells the two apart.
* `stop()` is to "wait for in-flight sessions to drain" (`lure/server.py:1068`); on the
  image's Python `wait_closed` does not, and systemd allows 10 s of the 30.
  `StopsClean` speaks of connections lost before the signal.

*Around them*

* `audit_shipper.py:9` has an outage back up "rather than dropping records", and
  `:18` bounds the unshipped tail by one flush interval. Both hold while the file
  stays (`BacklogShips`) or nothing fails (`BoundedGap`): when logrotate takes a file
  away during an outage, all of its backlog stays on the box.
* The recovery after a rotation that died between its renames (`docs/RUNBOOK.md:77`) meets the
  work file and refuses, and its move overwrites what a lure stored meanwhile; the steps
  before it stop the two services that do not open the store, and not the one that
  does (`:46`).
* Every run of the wizard makes a new encryption key (`wizard/wizard.py:156`), against
  `docs/INSTALL.md:305`, and a new bridge secret, after which the lure is to be
  restarted too (`wizard/__main__.py:171`). A refused SSH key is met after the other files
  were replaced (`wizard/wizard.py:177`), and a short write is not noticed
  (`wizard/persistence.py:54`).
* A pull whose stream ends without a marker counts as a success (`model_pull.py:119`), and
  the unit that is to retry a failed one has no `Restart=`.
* The import counts a session twice that goes on after its closed line was flushed
  (`sessions/migrate.py:119`).
* Two geo updates that overlap share one staged name, so that a torn file may be
  renamed into place (`geo/fetch.py:230`); `DatabasesWhole` excludes them.

### Fairness

* `AuditTailer!FairSpec`: weak fairness of `Start` (systemd restarts the
  dashboard) and of the poll task's own steps (an event loop runs its ready
  tasks). None for the writers of the log, for rotation, crashes or faults.
* `InferenceGate!FairSpec`: weak fairness of leaving the queue (`wait_for` has a
  timeout) and of leaving the model (the HTTP client has one too); strong
  fairness of entering under the budget's lock, since asyncio hands a lock to its
  waiters in order and each holder gives it back.
* `LureConnections!FairSpec`: weak fairness of requests to the bridge, which time
  out, and of background tasks. None for clients. `PartsSpec` of `MCLureConnections` has
  the same where the handlers are what moves.
* `AuditShipper!ShipFairness`: weak fairness of the loop (`Look`, `Read`), strong
  fairness of `Accept`: a collector that is asked for ever answers again.
* `LiveEvents!EvFairness`: weak fairness of a WebSocket handler's tasks, one of which is a
  ping on a timer. None for the writers, the narrator or the browser.
* `BridgeStart!BsFairness`: weak fairness of the next step of the start (the unit has
  `Restart=on-failure`, and within a start the steps follow each other), of the dashboard's
  creation of the store (its unit restarts too), and of the warm loops, which
  sleep on a timer. None for manifests, pulls, Ollama or the operator.
* `MCSmallParts` conjoins the last three, each for the behaviours in which its part moves;
  in the others a temporal property of that part asks for nothing: no line is written, no
  client connects, and the bridge hangs on a manifest.

## 4. Proofs

Each proof module extends the modules it is about and assumes nothing but their named
assumptions on constants; a theorem that needs more says so in its statement (`Calm`,
`EvictsFull`, below). All invariants of the passing runs are theorems, and with them
the safety halves of the temporal properties `LedgerSpec`, `FeedSound` and `BridgeSound`.

| Module | Theorem | States, of every behaviour |
|---|---|---|
| `AuditTailerProofs` | `TypeCorrect` | TypeOK |
| | `OffsetBehind` | OffsetNotAhead |
| | `TurnsKept` | TurnsExactlyOnce, under `Calm` |
| | `RowsKept` | RowsAgree, under `Calm` |
| | `LedgerImplemented` | the safety part of LedgerSpec, under `Calm` |
| | `StormKept` | TurnsUnderStorm |
| `InferenceGateProofs` | `SlotsSafe`, `BudgetSafe` | SlotsConserved, BudgetBalances |
| | `ChatSafe`, `StreamsSafe` | ChatNearCap, StreamsWithinCap |
| `BridgeSessionsProofs` | `SessionsKept` | TypeOK, LockStep |
| | `CapKept`, `DrainedKept`, `AnalysedKept` | CapStops, DrainedWhenQuiet, AnalysedOnce |
| | `ClarificationsKept` | OneClarificationPerChain |
| `LureConnectionsProofs` | `AdmissionKept`, `LinesKept` | AdmissionSound, LinesPaired |
| | `ShellKept` | ShellSound |
| `AttackerMemoryProofs` | `InstallsKept` | InstallsTold |
| | `DecoysKept` | DecoysSound |
| | `DefenseKept` | DefenseSound |
| `BridgePartsProofs` | `BudgetKept` | TypeOK, NoWindowOverBudget, provided `EvictsFull` |
| | `RefusalsKept` | RefusedOnlyOverBudget |
| | `AnswersInTime` | OvrTypeOK, AnswersWithinTTL |
| | `OffsetSafe`, `GapBounded` | ShipTypeOK and SavedNotAhead, BoundedGap |
| | `VerifiedKept` | ServesVerified, the safety half of BridgeSound |
| `DashboardPartsProofs` | `SchemaKept`, `UpgradeKept` | SchemaSound, UpgradeSound |
| | `CredentialsKept` | RotationKeeps |
| | `ConsoleKept` | ConsoleSound |
| | `ReadersKept` | ReadersAgree |
| | `FeedKept` | FeedInOrder, the safety half of FeedSound |
| `HostPartsProofs` | `DatabasesKept`, `LifeKept`, `WizardKept` | GeoSound, LifeSound, WizardSound |

Below, what each property lacks to be inductive, and what the invariant adds.

### The tailer

`OffsetNotAhead`: `Commit` adds the length of the batch to the offset, so the invariant
must know that a batch runs from the offset to `last` and that the cursor passed all of
it. `NotAheadInv` says, until the first rotation: `base` is 0, offset and cache are at
most `high`, and within a batch the cursor is at most `high + 1` and `offset + span =
last`.

`TurnsKept`, `RowsKept` and `LedgerImplemented` are about logs as they are while nothing
goes wrong but the process: `Calm` says that the log is not rotated, that no statement
fails and that a session's opened line is its first, as in `tailer_crash`; crashes,
stops and lost offsets are as many as one likes. A failing statement records a command
twice (`bug_retry`), a rotation may skip lines, and after a crash a late opened line
builds an accumulator that is behind the store (section 3): without `Calm` the
properties are false. `CalmInv` has, besides `NotAheadInv` and the order of the lines
(`FirstInv`):

* `PassInv`: a batch goes past whatever earlier processes dispatched, and an idle
  process that holds anything has done so;
* `TurnsInv`: the turns of a session are in order, and are its commands up to `high`,
  all of them, and perhaps the next;
* `AccInv`: an accumulator has the commands this process has been through (`Reach`),
  which are the first of the turns, but for the one that is about to be inserted; it
  outlives the closed line only for a later command;
* `HandlerInv`: within a handler of a command, that one is either stored already and
  nothing is pending, or it is the only one pending and the turns lack it (this is where
  the positional diff of `update_session` is right);
* `RowsInv`, `CountInv`: whom rows and ends are of, and that the count is behind the
  turns by the crashes between `record_turn`'s two statements at most.

From them every step is one of `SessionLedger` or leaves `history`, `turns` and `ended`
alone, which is `LedgerImplemented`.

`StormKept` has no hypothesis: rotations, failing statements, crashes, lost offsets and
late or missing opened lines come as they like. `SceneInv` says where the tailer is and
what it holds, and that no opened line follows the closed one (`TrailOrder`). For
`KeptWithinProcess`, `KeptInv` says of one process over one file that each accumulator
goes on with the stored turns (`Extends`) or that its session's closed line is ahead for
the second time with all commands before it stored (`ClosedAt`): where a batch failed
behind the closed line, an accumulator starts anew and is behind the stored turns until
that line drops it again. For `OnceUnlessRetried`, `StormInv` has two parts. `OnceInv`
is kept in any process by itself: the turns are in order; no command ahead falls between
them; an accumulator is no longer than the turns, and repeats them (`Within`) or has
nothing stored ahead of it (`Below`). `BeginInv` holds in the first process only and is
what makes `OnceInv` true after the one crash (lemma `OnceLost`): from where the next
process may start, which is the cache or 0, up to `high` every command is stored, and
nothing beyond is but for the line at hand. A second crash has no such predecessor, and
the property then fails in the case section 3 names.

### The gate and the bridge

**Gate.** The inductive invariant is `TypeOK`, the four properties and `CallsInv`, which
is what the four lack by themselves: a chat in progress holds its session's lock and is
the only one of its session, its budget was below the cap when it took the lock and has
not moved since, and only calls of a streaming session stream. The rest is arithmetic of
cardinalities: a call entering or leaving a set moves its size by one
(`FiniteSetTheorems`), and the clamp in `Settle` is never reached because
`BudgetBalances` leaves at least one reservation.

**Sessions.** One invariant for the first four properties, stated session by session
(`SessionInv`) because each step moves the state of one session and drops that of some
others (`DroppedInv`). What the properties lack: a session that was not started has no
state yet (`NewInv`), so that a total, an audit line or an analysis is never inherited;
a suspended handler serves a session that was opened (`HandlersInv`); and no handler is
left to come back to a session that ended quietly (`QuietInv`). `ChainInv` builds on it
for the clarifications: the lure of a session that is whole waits for one handler at a
time, so that the count tells which command was the last one asked back.

**Buckets.** `Held` bounds what a bucket holds *now* by what each earlier admission
leaves of its window, which is the statement a later admission needs. The eviction hands
out a full bucket, so `BudgetKept` has the condition `EvictsFull`, `Capacity <=
(IdleEviction + 1) * Rate`. The default settings (burst 10, 30 per minute, 300 s)
satisfy it; `config/models.py:620-640` does not enforce it. `RefusalsKept` needs no
condition: a bucket that is not full is short of exactly what was let through since it
last was (`TightInv`).

**Overrides.** `TimesInv` orders the times of the temporary file, the published one and
the cache; `PublishedInv` says that the file carries what the operator wants unless a
publication failed; `CacheInv` that a cache with the file's time carries its strategy
unless two files collided or a read failed, and that one refreshed after the publication
has that time.

**Shipper.** `SavedNotAhead` needs to know of a cycle under way that the lines before
its position have been acknowledged if it reads the file its inode names, and that it
saves under that inode (`CycleInv`). A cycle that read the next file under the old inode
saves an offset that no later cycle uses. `BoundedGap` follows from `GapInv`: as long as
nothing failed, the lines read and the lines rotated away are acknowledged, under way or
late.

**Start.** `StartInv`: the start has let through the pinned roles before the one it is
at, each with its line and its digest, and all of them from `loading` on; manifests that
change meanwhile do not matter, since what counts is what was read.

### The lure and what it leaves

**Connections.** The limiter's invariant is stated per address (`AddressInv`): a window
is in order, and as long as the sweep did not drop it, it is what the admissions since
the edge are (`Shortened`), spaced so that no stretch of a window has more than the cap
(`Spaced`). `SlotInv` adds that who holds a slot has not been released. `PairInv`
follows a connection: nothing is announced before a handler has its session, the session
of a steady connection is the one the shared state names, and what is closed is what was
announced.

**Shell.** `UnderWayInv`: a command under way has left neither a line nor an entry of
the history; `ToldInv`: what answers showed of a file is what the overlays of the
session have for it.

**Memory.** `TableInv` compares the table of installs with the log: in order, each line
once, all those that the tailer, or its saved offset, is past, since the rows are looked
up by the line they come from. `SessionInv` has what a session read at its start and
what it has installed itself; `PersonaInv` that no row ever has a persona, so that the
choice without a pin is the hash, which is a persona at all.

**Baits.** `PlacingInv`: a session whose task is still to run has no line yet and is
marked, or it is over and nothing marks it again; `RegistryInv`: rows are lines;
`PinnedInv`: who is pinned off counts as engaged once the pin is applied.

**Defence.** `SayingInv` relates what was said to what was sent while an answer is under
way. Most of the work is about the operators: the normal form is a recursive function
over the text, and that a pattern in a prefix of it comes from a prefix of the text is
shown by the least counterexample, not by induction (see below).

### The dashboard

**Schema and import.** `OpenerInv` says of a process at a migration that the versions
below are whole and that what it did itself is there; columns and tables are never taken
away, so the others' steps cannot disturb it. `AloneInv` adds, as long as no two
migrated at once and none died at it, whose columns there are: those of the recorded
version and the one the process has just added, which is why it cannot meet its own. The
import: a command is in a row of its session or in its accumulator (`HeldInv`), in the
order of the log within and among them (`OrderInv`); the accumulator in hand is what its
row has and what is still to write (`HandInv`); and a session has two rows only if it
went on after its closed line (`TwiceInv`).

**Credentials.** `FilesInv` says which of database, backup and work file exist at each
step of a rotation and that no lure runs then; `CopyInv` that a copy is whole;
`WholeInv` and `BackupInv` that a database, or the backup of one that is missing, reads
what is sure with the key in force.

**Console.** `WindowInv` is `Held` of the buckets again, with the map's sweep, which
forgets full buckets, or all of them and with them what they counted. `TaskInv`: the
store's lock has one holder, who has written its value, or knows that there was none to
remove and that the trail told so already. The lines of settings are a chain
(`SettingsChain`): what each names as the old value is what the line before it set, or a
line in between was lost; `ChainGrows` and `ChainBreaks` are the two ends a change may have.

**Readers.** `WalkInv`: while the alerts are in the order of their times, the cursor of
a walk is the key of the oldest alert served and nothing newer was left out. Range reads
and figures are operators over the log and are proved of any log (`ReadsAre`), for a tail of
any length.

**Feed.** The queue of a browser is the end of the log since it came (`FedInv`),
whatever drop-oldest took from its front; nothing is published before its row
(`TellsInv`), because the writer announces what it has stored (`WriterInv`).

### The host

**Geo.** `NamesInv` keeps the inode of a staged name apart from every database, overlap
or not. While runs do not overlap, `HandInv` says of the one under way that its build is
no older than the one in place and no newer than the mirror's, that the inode it copies
to is the staged one, and how much of it is copied; the rename then replaces a whole
build by a whole build. `BehindInv` has the editions behind a run in place.

**Life of the lure.** `KeysInv`: a key file is written once, by a start before its
listener's. `ToldInv` follows the lines of a connection. `DueInv`: each session that is
due to be closed has its task, which a stop waits for.

**Wizard.** `ProgressInv`: a run under way has replaced the artefacts before the one it
is at.

### What is only model-checked, and why

* Liveness: `EveryLineDispatched`, `CatchesUp`, `EveryCallEnds`, `ReleasedIfSteady`,
  `BacklogShips`, `GoneIsForgotten`, `WarmsInTheEnd`, `ComesUp`, and the fair half of
  `LedgerSpec`. Fairness is stated with ENABLED, which the installed provers do not
  expand.
* The library's induction theorems take an operator as a parameter, which the provers
  cannot instantiate. Where a lemma needs induction over a position or a length (sorted
  sequences, the normal form of a text, windows), it takes the least counterexample
  instead, which exists by the well-foundedness of finite sets (`LeastNatural`). What
  cannot be had in this way is not claimed.
* What the models leave out (section 5) is out of the theorems too.

## 5. Not modelled

* Wording: prompts, patterns, the payloads of baits, the text of each emulated command and the
  tree of the fake file system, the rows the dashboard's routes render. What these
  decide is a choice of outcome (`AnswerDirectly`, `Typable`, `Made`).
* Exporters: they render stored rows and keep nothing; the reads they start from are in
  `AuditReaders`.
* Threat scoring, its engine and the alerter: nothing in `src/` constructs them. The scorer is
  a weighted sum; the one effect on the bridge is `AssessThreat` of `DecoyTokens`.
* `Fingerprinter` with its `TorExitList`, and `GeoLookup`: nothing in `src/` constructs them either.
* Torn and malformed audit lines, which both readers skip; fields that do not serialise.
* The time bomb of a prompt, the garbling of bytes, vectors and their similarity.
* The shipper: blank and torn lines, truncation in place, an inode used again. The
  overrides' fields no process but the dashboard reads.
* The commands of the CLI that only print, the synthetic clock, colours and prompts of the
  wizard, the image's build.

## 6. Plan

The models are complete as far as the parts above go; what is left joins and proves them.

1. Compositions: lure, trail and tailer (what a lost connection looks like in the
   store); `BridgeSessions` with `InferenceGate` (a deleted session's commands at
   the gate); `LureShell` with `CommandDefense`.
2. Proofs. Every invariant of the passing runs has its theorem; what is left goes beyond
   them: the refinement of `SessionLedger` without the opened line being first; how far
   `count` may be off its turns under failing statements and late opened lines; that
   `ClosedStaysEnded` holds there too; and the invariants of the compositions above.

The runs stay few: a new component joins a run of parts with one property, and a property
that a stronger one subsumes is removed.
