---------------------------- MODULE AuditTailer -----------------------------
(***************************************************************************)
(* The dashboard's AuditTailer: it polls the audit file, dispatches each   *)
(* new line through DashboardState into the session store, and moves its   *)
(* byte offset past a batch only when the whole batch was dispatched.  The *)
(* offset is saved in a sidecar file; the per-session accumulators live in *)
(* memory.                                                                 *)
(*                                                                         *)
(* `pc` is where the poll task is suspended.  Every await of the source    *)
(* that reaches the database is a step of its own, so that a crash, a      *)
(* cancellation, a failing statement, a rotation and the writers of the    *)
(* log interleave with it.                                                 *)
(***************************************************************************)
EXTENDS AuditTrail, SessionStore

CONSTANTS
    MaxRestarts,    \* bound: crashes and stops of the dashboard process
    MaxFaults,      \* bound: failing database operations
    MaxTurns,       \* bound: turns of an accumulator (repeated batches add more)
    CacheMayFail    \* TRUE: reading or writing the offset cache may fail

ASSUME TailerAssumption ==
    /\ MaxRestarts \in Nat
    /\ MaxFaults \in Nat
    /\ MaxTurns \in Nat
    /\ CacheMayFail \in BOOLEAN

VARIABLES
    cache,      \* offset saved in the sidecar file
    pc,         \* where the poll task is
    offset,     \* _offset
    span,       \* lines asked for by the read, then lines of the batch
    cursor,     \* the line of history being dispatched
    last,       \* the last line of the batch
    held,       \* sessions with an accumulator
    acc,        \* turns of the accumulators
    pending,    \* turns update_session has yet to record
    high,       \* history variable: the last line ever dispatched completely
    restarts,   \* crashes and stops so far
    faults,     \* database failures so far
    retried     \* history variable: some batch failed and was to be repeated

procVars == <<pc, offset, span, cursor, last, held, acc, pending>>
failVars == <<faults, retried>>
tailerVars == <<cache, procVars, high, restarts, failVars>>
vars == <<trailVars, storeVars, tailerVars>>

InHandler == {"upsert", "turn", "count", "end"}
InBatch == {"dispatch"} \union InHandler
PC == {"down", "idle", "read", "save"} \union InBatch

ProcTypeOK ==
    /\ pc \in PC
    /\ offset \in Nat /\ span \in Nat /\ cursor \in Nat /\ last \in Nat
    /\ held \subseteq Session
    /\ acc \in [Session -> Seq(Nat)]
    /\ pending \in Seq(Nat)

\* A read asks for something, a batch is within the log, and a handler is at a
\* line of its batch.
BatchOK ==
    /\ pc = "read" => span > 0
    /\ pc \in InBatch => last \in 1..Len(history) /\ cursor \in 1..last + 1
    /\ pc \in InHandler => cursor <= last
    /\ pc = "count" => pending # <<>>

TypeOK ==
    /\ TrailTypeOK
    /\ StoreTypeOK
    /\ ProcTypeOK
    /\ BatchOK
    /\ cache \in Nat
    /\ high \in 0..Len(history)
    /\ restarts \in 0..MaxRestarts
    /\ faults \in 0..MaxFaults
    /\ retried \in BOOLEAN

Nobody == [s \in Session |-> <<>>]

Init ==
    /\ TrailInit
    /\ StoreInit
    /\ cache = 0
    /\ pc = "down"
    /\ offset = 0 /\ span = 0 /\ cursor = 0 /\ last = 0
    /\ held = {} /\ acc = Nobody /\ pending = <<>>
    /\ high = 0
    /\ restarts = 0
    /\ faults = 0
    /\ retried = FALSE

line == history[cursor]
sid == line.sid

-----------------------------------------------------------------------------
(* Process lifecycle. *)

\* start: a new process reads the cache; an unreadable cache counts as 0.
Start ==
    /\ pc = "down"
    /\ pc' = "idle"
    /\ offset' \in IF CacheMayFail THEN {cache, 0} ELSE {cache}
    /\ UNCHANGED <<span, cursor, last, held, acc, pending>>
    /\ UNCHANGED <<trailVars, storeVars, cache, high, restarts, failVars>>

\* Everything in memory is gone.
Lose ==
    /\ pc' = "down"
    /\ offset' = 0 /\ span' = 0 /\ cursor' = 0 /\ last' = 0
    /\ held' = {} /\ acc' = Nobody /\ pending' = <<>>

Crash ==
    /\ pc # "down"
    /\ restarts < MaxRestarts
    /\ restarts' = restarts + 1
    /\ Lose
    /\ UNCHANGED <<trailVars, storeVars, cache, high, failVars>>

\* Faulty variant of Stop: the batch in flight counts as dispatched.
StopSavesBatch ==
    /\ pc \notin {"down", "count", "save"}
    /\ restarts < MaxRestarts
    /\ restarts' = restarts + 1
    /\ cache' = offset + span
    /\ Lose
    /\ UNCHANGED <<trailVars, storeVars, high, failVars>>

\* stop: the task ends between polls or, after four intervals, is cancelled at
\* an await; the offset it stands at is saved.  The two statements of
\* record_turn run in one thread, which a cancellation does not cut.
Stop ==
    /\ pc \notin {"down", "count", "save"}
    /\ restarts < MaxRestarts
    /\ restarts' = restarts + 1
    /\ cache' \in IF CacheMayFail THEN {offset, cache} ELSE {offset}
    /\ Lose
    /\ UNCHANGED <<trailVars, storeVars, high, failVars>>

-----------------------------------------------------------------------------
(* _poll_once, up to the batch. *)

\* Faulty variant of Poll: a shorter file does not count as rotated.
PollNeverRewinds ==
    /\ pc = "idle"
    /\ FileSize > offset
    /\ pc' = "read" /\ span' = FileSize - offset
    /\ UNCHANGED <<offset, cursor, last, held, acc, pending>>
    /\ UNCHANGED <<trailVars, storeVars, cache, high, restarts, failVars>>

\* A file shorter than the offset was rotated: start over.  Nothing new: wait.
Poll ==
    /\ pc = "idle"
    /\ FileSize # offset
    /\ offset' = IF FileSize < offset THEN 0 ELSE offset
    /\ IF FileSize = offset'
       THEN UNCHANGED <<pc, span>>
       ELSE pc' = "read" /\ span' = FileSize - offset'
    /\ UNCHANGED <<cursor, last, held, acc, pending>>
    /\ UNCHANGED <<trailVars, storeVars, cache, high, restarts, failVars>>

\* The file may have been rotated since stat: the read returns what is there.
Read ==
    /\ pc = "read"
    /\ IF FileSize <= offset
       THEN pc' = "idle" /\ span' = 0 /\ UNCHANGED <<cursor, last>>
       ELSE /\ pc' = "dispatch"
            /\ span' = IF FileSize - offset < span THEN FileSize - offset ELSE span
            /\ cursor' = base + offset + 1
            /\ last' = base + offset + span'
    /\ UNCHANGED <<offset, held, acc, pending>>
    /\ UNCHANGED <<trailVars, storeVars, cache, high, restarts, failVars>>

\* The whole batch was dispatched.
Commit ==
    /\ pc = "dispatch"
    /\ cursor > last
    /\ offset' = offset + span
    /\ pc' = "save"
    /\ span' = 0 /\ cursor' = 0 /\ last' = 0
    /\ UNCHANGED <<held, acc, pending>>
    /\ UNCHANGED <<trailVars, storeVars, cache, high, restarts, failVars>>

\* _save_offset_cache; an OSError is logged and the old file stays.
Save ==
    /\ pc = "save"
    /\ pc' = "idle"
    /\ cache' \in IF CacheMayFail THEN {offset, cache} ELSE {offset}
    /\ UNCHANGED <<offset, span, cursor, last, held, acc, pending>>
    /\ UNCHANGED <<trailVars, storeVars, high, restarts, failVars>>

\* An exception left the batch: the offset is unchanged, the memory stays.
FailBatch ==
    /\ pc' = "idle"
    /\ span' = 0 /\ cursor' = 0 /\ last' = 0 /\ pending' = <<>>
    /\ retried' = TRUE
    /\ UNCHANGED <<offset, cache, high, restarts>>

\* The handler of the line returned.
LineDone ==
    /\ pc' = "dispatch"
    /\ cursor' = cursor + 1
    /\ high' = IF cursor > high THEN cursor ELSE high
    /\ UNCHANGED <<offset, span, last, cache, restarts, failVars>>

-----------------------------------------------------------------------------
(* _dispatch_event and the handlers. *)

At(kind) == pc = "dispatch" /\ cursor <= last /\ line.kind = kind

\* Faulty variant of UpdateSession: every turn of the snapshot is recorded.
UpdateSessionNoDiff(s, snapshotTurns) ==
    /\ held' = held \union {s}
    /\ acc' = [acc EXCEPT ![s] = snapshotTurns]
    /\ pending' = snapshotTurns
    /\ pc' = "upsert"
    /\ UNCHANGED <<offset, span, cursor, last>>
    /\ UNCHANGED <<trailVars, storeVars, cache, high, restarts, failVars>>

\* update_session reads the stored turns; it will record those of the
\* snapshot that lie beyond them, by position.
UpdateSession(s, snapshotTurns) ==
    /\ held' = held \union {s}
    /\ acc' = [acc EXCEPT ![s] = snapshotTurns]
    /\ pending' = SubSeq(snapshotTurns, Len(turns[s]) + 1, Len(snapshotTurns))
    /\ pc' = "upsert"
    /\ UNCHANGED <<offset, span, cursor, last>>
    /\ UNCHANGED <<trailVars, storeVars, cache, high, restarts, failVars>>

\* An accumulator that is there keeps its turns; otherwise the turns are ().
HandleOpened ==
    /\ At("opened")
    /\ UpdateSession(sid, IF sid \in held THEN acc[sid] ELSE <<>>)

\* Faulty variant of Known: the stored turns are not read back.
KnownInMemory(s) == IF s \in held THEN acc[s] ELSE <<>>

\* Without an accumulator the stored turns are the snapshot to extend.
Known(s) == IF s \in held THEN acc[s] ELSE IF s \in rows THEN turns[s] ELSE <<>>

\* Faulty variant of IsReplay: the log is taken to be read once.
NeverReplay == FALSE

\* No accumulator and the turn is stored: a replay, skipped without caching.
IsReplay == sid \notin held /\ sid \in rows /\ Stored(sid, cursor)

HandleCommand ==
    /\ At("command")
    /\ ~IsReplay
    /\ Len(Known(sid)) < MaxTurns
    /\ UpdateSession(sid, Append(Known(sid), cursor))

\* Faulty variant of SkipReplay: the duplicate is an error.
SkipReplayRaises ==
    /\ At("command")
    /\ IsReplay
    /\ FailBatch
    /\ UNCHANGED <<trailVars, storeVars, held, acc, faults>>

SkipReplay ==
    /\ At("command")
    /\ IsReplay
    /\ LineDone
    /\ UNCHANGED <<trailVars, storeVars, held, acc, pending>>

Upsert ==
    /\ pc = "upsert"
    /\ UpsertSession(sid, acc[sid])
    /\ pc' = "turn"
    /\ UNCHANGED <<offset, span, cursor, last, held, acc, pending>>
    /\ UNCHANGED <<trailVars, cache, high, restarts, failVars>>

RecordTurn ==
    /\ pc = "turn"
    /\ pending # <<>>
    /\ InsertTurn(sid, Head(pending))
    /\ pc' = "count"
    /\ UNCHANGED <<offset, span, cursor, last, held, acc, pending>>
    /\ UNCHANGED <<trailVars, cache, high, restarts, failVars>>

CountTurn ==
    /\ pc = "count"
    /\ BumpCount(sid)
    /\ pending' = Tail(pending)
    /\ pc' = "turn"
    /\ UNCHANGED <<offset, span, cursor, last, held, acc>>
    /\ UNCHANGED <<trailVars, cache, high, restarts, failVars>>

\* Every turn is recorded; update_session publishes and returns.
Updated ==
    /\ pc = "turn"
    /\ pending = <<>>
    /\ LineDone
    /\ UNCHANGED <<trailVars, storeVars, held, acc, pending>>

\* The accumulator is dropped before the store is asked.
HandleClosed ==
    /\ At("closed")
    /\ held' = held \ {sid}
    /\ acc' = [acc EXCEPT ![sid] = <<>>]
    /\ pc' = "end"
    /\ UNCHANGED <<offset, span, cursor, last, pending>>
    /\ UNCHANGED <<trailVars, storeVars, cache, high, restarts, failVars>>

End ==
    /\ pc = "end"
    /\ EndSession(sid)
    /\ LineDone
    /\ UNCHANGED <<trailVars, held, acc, pending>>

HandleIntent ==
    /\ At("intent")
    /\ UpsertIntent(sid)
    /\ LineDone
    /\ UNCHANGED <<trailVars, held, acc, pending>>

\* The foreign key refuses the intent of a session that has no row.
IntentRefused ==
    /\ At("intent")
    /\ sid \notin rows
    /\ FailBatch
    /\ UNCHANGED <<trailVars, storeVars, held, acc, faults>>

\* sqlite3.OperationalError (disk full, locked) from any database operation.
StoreFault ==
    /\ faults < MaxFaults
    /\ \/ pc \in {"upsert", "turn", "count", "end"}
       \/ At("intent")
       \/ At("command") /\ sid \notin held
    /\ pc = "turn" => pending # <<>>
    /\ faults' = faults + 1
    /\ FailBatch
    /\ UNCHANGED <<trailVars, storeVars, held, acc>>

-----------------------------------------------------------------------------
Trail == TrailNext /\ UNCHANGED <<storeVars, tailerVars>>

\* The steps of the poll task itself.
Work ==
    \/ Poll \/ Read \/ Commit \/ Save
    \/ HandleOpened \/ HandleCommand \/ SkipReplay
    \/ Upsert \/ RecordTurn \/ CountTurn \/ Updated
    \/ HandleClosed \/ End
    \/ HandleIntent \/ IntentRefused

Next ==
    \/ Trail
    \/ Start \/ Crash \/ Stop
    \/ Work
    \/ StoreFault

Spec == Init /\ [][Next]_vars

\* The supervisor restarts the dashboard, and the event loop runs its tasks.
FairSpec == Spec /\ WF_vars(Start) /\ WF_vars(Work)

-----------------------------------------------------------------------------
(* Properties. *)

\* A session's turns are commands of that session, in the order of the log and
\* each at most once: a replay after a crash between a store write and the
\* offset save must not record a turn again, nor record two out of order.
TurnsExactlyOnce ==
    \A s \in Session :
        /\ \A i \in DOMAIN turns[s] : turns[s][i] \in Commands(s)
        /\ \A i, j \in DOMAIN turns[s] : i < j => turns[s][i] < turns[s][j]

\* No command of a line that was dispatched is missing: neither the positional
\* diff of update_session nor an offset saved too early may drop a turn.
NoTurnLost ==
    \A n \in 1..high : \A s \in Session : IsCommand(n, s) => Stored(s, n)

\* Neither the offset nor its saved copy is ever past a line that was not
\* dispatched: a restart or a failed batch may repeat lines, never skip them.
OffsetNotAhead ==
    rotations = 0 => offset <= high /\ cache <= high

\* Once a session's closed line was dispatched its row is ended, whatever is
\* replayed or arrives after that: upsert_session leaves ended_at alone.
ClosedStaysEnded ==
    \A n \in 1..high :
        history[n].kind = "closed" /\ history[n].sid \in rows
            => history[n].sid \in ended

\* Between two lines, an accumulator is the stored turns or a prefix of them;
\* update_session's positional diff is wrong as soon as it is not.
AccumulatorIsPrefix ==
    pc \in {"idle", "dispatch", "save"} =>
        \A s \in held : \A i \in DOMAIN acc[s] :
            i \in DOMAIN turns[s] /\ acc[s][i] = turns[s][i]

\* When opened lines come first, command_count never exceeds the stored turns,
\* whatever is replayed, and lags behind them by at most one per crash: the one
\* that may fall between the two statements of record_turn.
CountNearTurns ==
    \A s \in rows : pc # "count" =>
        count[s] <= Len(turns[s]) /\ Len(turns[s]) <= count[s] + restarts

\* Between polls an ended session keeps its accumulator only if a command line
\* followed its closed line: replays bring back no memory of closed sessions.
AccumulatorDropped ==
    pc = "idle" => \A s \in held \intersect ended :
        \E n \in Commands(s) : \E m \in 1..n : history[m] = [kind |-> "closed", sid |-> s]

\* Every line that is written is dispatched in the end: no line may hold up the
\* lines behind it for ever.
EveryLineDispatched ==
    \A n \in 1..MaxLines : (Len(history) >= n) ~> (high >= n)

\* As long as no batch failed, turns are exact under one restart, rotations, missing
\* opened lines and opened lines that come late.  A failed batch is dispatched again
\* over the accumulators it left behind, which records its commands twice.  So do
\* two restarts around an opened line that comes late: it takes no turns from the
\* store, the next command is lost to the diff, and replayed by the third process as
\* if it were new; and so does an unreadable cache after the head of a rotated file
\* was skipped.
OnceUnlessRetried ==
    ~retried /\ restarts <= 1 /\ (CacheMayFail => rotations = 0) => TurnsExactlyOnce

\* Within one process and one file, no command is lost to a failed statement, a
\* missing opened line or one that comes late.
KeptWithinProcess == restarts = 0 /\ rotations = 0 => NoTurnLost

\* What is ahead of the offset holds the intent line of a session without a row.
Wedged ==
    \E n \in base + offset + 1..Len(history) :
        history[n].kind = "intent" /\ history[n].sid \notin rows

\* Whatever was rotated or failed, and wherever the offset then stood, the tailer
\* comes to the end of the file that is there; only the intent line of a session
\* that has no row holds it up, and then for ever.
CatchesUp == <>[](pc = "idle" => offset = FileSize \/ Wedged)

\* The tailer and the store implement the ledger: what is in the turns table
\* and in ended_at is the abstract session, whatever crashes in between.
Ledger == INSTANCE SessionLedger WITH
    log <- history, recorded <- turns, closed <- ended

LedgerSpec == Ledger!Spec

\* What the rows and the accumulators owe to the lines that were dispatched.
RowsAgree ==
    /\ NoTurnLost
    /\ ClosedStaysEnded
    /\ CountNearTurns
    /\ AccumulatorIsPrefix
    /\ AccumulatorDropped

\* What is left of it under rotations, failures and late opened lines together.
TurnsUnderStorm == OnceUnlessRetried /\ KeptWithinProcess
=============================================================================
