---------------------------- MODULE StoreUpgrade ----------------------------
(***************************************************************************)
(* Bringing an older install up to date: the migrations that every process *)
(* runs when it opens the session store (the bridge, which seeds it, the   *)
(* dashboard, the import by hand), and the import of the sessions the      *)
(* forwarder used to log.                                                  *)
(*                                                                         *)
(* The connections are in autocommit mode, executescript opens no          *)
(* transaction either: each statement takes effect on its own.  A          *)
(* migration is its ALTER TABLE if it has one, its CREATE ... IF NOT       *)
(* EXISTS statements, and the row with its version.                        *)
(***************************************************************************)
EXTENDS Integers, Sequences, FiniteSets, Functions

CONSTANTS
    Opener,         \* processes that open the store
    Importer,       \* the one that imports
    Newest,         \* CURRENT_SCHEMA_VERSION
    Altering,       \* the migrations with an ALTER TABLE
    Logged,         \* session ids of the forwarder's log
    BatchSize,      \* batch_size
    MaxEvents,      \* bound: lines of the log
    MaxDeaths       \* bound: processes that die, or whose statement fails

ASSUME UpgradeAssumption ==
    /\ Importer \in Opener
    /\ Newest \in Nat \ {0} /\ Altering \subseteq 1..Newest
    /\ BatchSize \in Nat \ {0} /\ MaxEvents \in Nat /\ MaxDeaths \in Nat
    /\ "nobody" \notin Logged

VARIABLES
    suVersion,      \* meta: the recorded version
    suColumns,      \* altering migrations whose column is there
    suTables,       \* migrations whose tables and indexes are there
    suOpener,       \* opener: closed, alter, create, stamp or open, and the version it is at
    suDied,         \* deaths so far
    suMishap,       \* history variable: one died within its migrations, or two were at theirs at once
    suRefused,      \* history variable: a duplicate column was met
    imStep,         \* the import: off, reading, flushing, draining, done, died
    imLog,          \* history variable: the log so far, as [sid, kind]
    imAcc,          \* accumulators: session id -> [turns, ended]
    imAt,           \* the accumulator being written, and its turns still to write
    imRows,         \* rows written, in order: [sid, turns, count, ended]
    imCount         \* imported

suVars == <<suVersion, suColumns, suTables, suOpener, suDied, suMishap, suRefused>>
imVars == <<imStep, imLog, imAcc, imAt, imRows, imCount>>
upVars == <<suVars, imVars>>

NotOpen == [step |-> "closed", at |-> 0]
Nobody == [sid |-> "nobody", turns |-> <<>>]

UpInit ==
    /\ suVersion \in 0..Newest
    /\ suColumns = Altering \intersect 1..suVersion /\ suTables = 1..suVersion
    /\ suOpener = [o \in Opener |-> NotOpen]
    /\ suDied = 0 /\ suMishap = FALSE /\ suRefused = FALSE
    /\ imStep = "off" /\ imLog = <<>> /\ imAcc = <<>> /\ imAt = Nobody /\ imRows = <<>> /\ imCount = 0

-----------------------------------------------------------------------------
(* run_migrations. *)

Migrating(o) == suOpener[o].step \in {"alter", "create", "stamp"}
FirstOf(v) == IF v \in Altering THEN "alter" ELSE "create"
Proceed(o, step, v) == suOpener' = [suOpener EXCEPT ![o] = [step |-> step, at |-> v]]
NextOf(o, v) == IF v > Newest THEN Proceed(o, "open", v) ELSE Proceed(o, FirstOf(v), v)

\* current_schema_version, read once.
OpenStore(o) ==
    /\ suOpener[o].step = "closed"
    /\ NextOf(o, suVersion + 1)
    /\ suMishap' = (suMishap \/ (suVersion < Newest /\ \E p \in Opener \ {o} : Migrating(p)))
    /\ UNCHANGED <<suVersion, suColumns, suTables, suDied, suRefused, imVars>>

\* ALTER TABLE ... ADD COLUMN has no IF NOT EXISTS: the error closes the connection and ends the process.
AlterTable(o) ==
    LET v == suOpener[o].at IN
    /\ suOpener[o].step = "alter"
    /\ suRefused' = (suRefused \/ v \in suColumns)
    /\ suColumns' = suColumns \union {v}
    /\ IF v \in suColumns THEN Proceed(o, "closed", 0) ELSE Proceed(o, "create", v)
    /\ UNCHANGED <<suVersion, suTables, suDied, suMishap, imVars>>

CreateTables(o) ==
    /\ suOpener[o].step = "create"
    /\ suTables' = suTables \union {suOpener[o].at}
    /\ Proceed(o, "stamp", suOpener[o].at)
    /\ UNCHANGED <<suVersion, suColumns, suDied, suMishap, suRefused, imVars>>

\* INSERT OR REPLACE, whatever another process has recorded by now.
Stamp(o) ==
    /\ suOpener[o].step = "stamp"
    /\ suVersion' = suOpener[o].at
    /\ NextOf(o, suOpener[o].at + 1)
    /\ UNCHANGED <<suColumns, suTables, suDied, suMishap, suRefused, imVars>>

\* The seeding bridge closes the store at once, the others when they stop.
CloseStore(o) ==
    /\ suOpener[o].step = "open"
    /\ o = Importer => imStep \in {"off", "done"}
    /\ Proceed(o, "closed", 0)
    /\ UNCHANGED <<suVersion, suColumns, suTables, suDied, suMishap, suRefused, imVars>>

\* The process dies, or a statement of it fails (another one holds the database's lock for too long): what it did stays.
DieAt(o) ==
    /\ suOpener[o].step # "closed" /\ suDied < MaxDeaths
    /\ suDied' = suDied + 1
    /\ suMishap' = (suMishap \/ Migrating(o))
    /\ Proceed(o, "closed", 0)
    /\ IF o = Importer /\ imStep \notin {"off", "done"} THEN imStep' = "died" /\ UNCHANGED <<imLog, imAcc, imAt, imRows, imCount>>
       ELSE UNCHANGED imVars
    /\ UNCHANGED <<suVersion, suColumns, suTables, suRefused>>

-----------------------------------------------------------------------------
(* import_jsonl_into_store. *)

StartImport ==
    /\ suOpener[Importer].step = "open" /\ imStep = "off"
    /\ imStep' = "reading"
    /\ UNCHANGED <<suVars, imLog, imAcc, imAt, imRows, imCount>>

NewAcc == [turns |-> <<>>, ended |-> FALSE]
AccOf(sid) == IF sid \in DOMAIN imAcc THEN imAcc[sid] ELSE NewAcc

\* _apply_event: a turn is the line it came from; a connect only gives the session its address.
Applied(acc, kind, line) ==
    CASE kind = "command" -> [acc EXCEPT !.turns = Append(@, line)]
      [] kind = "closed" -> [acc EXCEPT !.ended = TRUE]
      [] OTHER -> acc

\* One line: damaged and unknown ones are skipped; then the closed sessions are flushed when the cap is reached.
ReadEvent(sid, kind) ==
    /\ imStep = "reading" /\ Len(imLog) < MaxEvents
    /\ imLog' = Append(imLog, [sid |-> sid, kind |-> kind])
    /\ imAcc' = IF kind = "damaged" THEN imAcc
                ELSE [s \in DOMAIN imAcc \union {sid} |->
                         IF s = sid THEN Applied(AccOf(s), kind, Len(imLog')) ELSE imAcc[s]]
    /\ imStep' = IF Cardinality(DOMAIN imAcc') >= BatchSize THEN "flushing" ELSE "reading"
    /\ UNCHANGED <<suVars, imAt, imRows, imCount>>

EndOfLog ==
    /\ imStep = "reading"
    /\ imStep' = "draining"
    /\ UNCHANGED <<suVars, imLog, imAcc, imAt, imRows, imCount>>

\* _flush_closed takes the closed ones, _flush_all all of them.
Ready == {s \in DOMAIN imAcc : imStep = "draining" \/ imAcc[s].ended}

\* Faulty variant of SeededCount: the snapshot comes with its turns, which record_turn counts again.
SeededCountWithTurns(acc) == Len(acc.turns)

\* _write_accumulator upserts a snapshot without turns.
SeededCount(acc) == 0

WriteRow(sid) ==
    /\ imStep \in {"flushing", "draining"} /\ imAt = Nobody /\ sid \in Ready
    /\ imRows' = Append(imRows, [sid |-> sid, turns |-> <<>>, count |-> SeededCount(imAcc[sid]), ended |-> FALSE])
    /\ imAt' = [sid |-> sid, turns |-> imAcc[sid].turns]
    /\ UNCHANGED <<suVars, imStep, imLog, imAcc, imCount>>

WriteTurn ==
    /\ imStep \in {"flushing", "draining"} /\ imAt # Nobody /\ imAt.turns # <<>>
    /\ imRows' = [imRows EXCEPT ![Len(imRows)].turns = Append(@, Head(imAt.turns)), ![Len(imRows)].count = @ + 1]
    /\ imAt' = [imAt EXCEPT !.turns = Tail(@)]
    /\ UNCHANGED <<suVars, imStep, imLog, imAcc, imCount>>

\* end_session for one that was closed; the accumulator is gone.
WriteEnd ==
    /\ imStep \in {"flushing", "draining"} /\ imAt # Nobody /\ imAt.turns = <<>>
    /\ imRows' = [imRows EXCEPT ![Len(imRows)].ended = imAcc[imAt.sid].ended]
    /\ imAcc' = Restrict(imAcc, DOMAIN imAcc \ {imAt.sid})
    /\ imAt' = Nobody /\ imCount' = imCount + 1
    /\ UNCHANGED <<suVars, imStep, imLog>>

Flushed ==
    /\ imStep \in {"flushing", "draining"} /\ imAt = Nobody /\ Ready = {}
    /\ imStep' = IF imStep = "draining" THEN "done" ELSE "reading"
    /\ UNCHANGED <<suVars, imLog, imAcc, imAt, imRows, imCount>>

UpNext ==
    \/ \E o \in Opener :
        OpenStore(o) \/ AlterTable(o) \/ CreateTables(o) \/ Stamp(o) \/ CloseStore(o) \/ DieAt(o)
    \/ StartImport \/ EndOfLog \/ WriteTurn \/ WriteEnd \/ Flushed
    \/ \E s \in Logged : WriteRow(s) \/ \E k \in {"connect", "command", "closed", "damaged"} : ReadEvent(s, k)

UpSpec == UpInit /\ [][UpNext]_upVars

-----------------------------------------------------------------------------
(* Properties. *)

Whole(v) == 1..v \subseteq suTables /\ Altering \intersect 1..v \subseteq suColumns

\* However the openers interleave and die, the recorded version never promises what is not there, and whoever has the
\* store open finds every table; as long as nobody died within the migrations and they did not overlap, no opener
\* meets its own column again.
SchemaSound ==
    /\ Whole(suVersion)
    /\ \A o \in Opener : suOpener[o].step = "open" => Whole(Newest)
    /\ ~suMishap => ~suRefused

\* `All migrations run inside an implicit SQLite transaction; on failure the partial work rolls back and the recorded
\* version stays at its prior value.`: with nobody at its migrations there is no column of a version not recorded.
RollsBack == (\A o \in Opener : ~Migrating(o)) => suColumns \subseteq 1..suVersion

LinesOf(sid, kind) == {i \in DOMAIN imLog : imLog[i] = [sid |-> sid, kind |-> kind]}
RowsOf(sid) == {r \in DOMAIN imRows : imRows[r].sid = sid}
TurnsOf(sid) == UNION {Range(imRows[r].turns) : r \in RowsOf(sid)}
Ascending(turns) == \A i, j \in DOMAIN turns : i < j => turns[i] < turns[j]
WentOn(sid) ==
    \E i \in LinesOf(sid, "closed"), j \in DOMAIN imLog : i < j /\ imLog[j].sid = sid /\ imLog[j].kind # "damaged"

\* An import that comes to its end has every command of the log once, in order, in the rows of its session; a row
\* counts its turns, and a session has more than one row only when it went on after it was closed.  No more sessions
\* than the cap are kept while one of them is closed.
ImportSound ==
    /\ imStep = "done" =>
        \A s \in Logged :
            /\ TurnsOf(s) = LinesOf(s, "command")
            /\ \A r \in RowsOf(s) : Ascending(imRows[r].turns) /\ imRows[r].count = Len(imRows[r].turns)
            /\ \A r, q \in RowsOf(s) : r < q =>
                WentOn(s) /\ \A i \in Range(imRows[r].turns), j \in Range(imRows[q].turns) : i < j
            /\ imCount = Len(imRows)
    /\ imStep = "reading" =>
        Cardinality(DOMAIN imAcc) < BatchSize \/ \A s \in DOMAIN imAcc : ~imAcc[s].ended

\* What an upgrade leaves in the store.
UpgradeSound == SchemaSound /\ ImportSound
=============================================================================
