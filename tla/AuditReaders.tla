---------------------------- MODULE AuditReaders ----------------------------
(***************************************************************************)
(* What the dashboard reads straight from the audit log while the other    *)
(* processes append to it: the alert panel page by page, the exports and   *)
(* lists of a time range, the health figures of a recent window, which are *)
(* read from the last megabytes of the file only, and the facts of one     *)
(* session.  A line carries the time its writer stamped; the bridge, the   *)
(* lure and the dashboard stamp under locks of their own and a forwarder   *)
(* copies the callback receiver's lines in later, so that the file need    *)
(* not be in the order of its times.                                       *)
(***************************************************************************)
EXTENDS Naturals, Sequences, FiniteSets

CONSTANTS
    Sid,          \* sessions
    PageSize,     \* limit of a page of alerts
    Window,       \* _WASTING_WINDOW_MIN, _SESSION_RATE_WINDOW_MIN
    TailLines,    \* lines that fit in _HEALTH_TAIL_BYTES, as if all were of one length
    MaxLate,      \* bound: how late a line may reach the file
    MaxNow,       \* bound: the clock
    MaxWritten    \* bound: lines other than the reads' own

VARIABLES
    rdLog,        \* the lines, oldest first
    rdNow,        \* the clock, in milliseconds
    rdWalk,       \* the operator's walk through the pages
    rdServed      \* history variable: the pages of the walk, each the positions it served

rdVars == <<rdLog, rdNow, rdWalk, rdServed>>

ASSUME ReadersAssumption ==
    /\ PageSize \in Nat \ {0} /\ Window \in Nat /\ TailLines \in Nat /\ MaxLate \in Nat
    /\ MaxNow \in Nat /\ MaxWritten \in Nat

NoCursor == <<MaxNow + 1, 0>>      \* below every line
Kinds == {"alert", "command", "applied", "exhausted", "closed"}
CapKinds == {"applied", "exhausted", "closed"}   \* what _wasting_stats looks at

RdInit ==
    /\ rdLog = <<>> /\ rdNow = 0
    /\ rdWalk = [step |-> "idle", cursor |-> NoCursor, first |-> 0]
    /\ rdServed = <<>>

-----------------------------------------------------------------------------
(* iter_events: newest first is last line first. *)

\* The chosen lines that the reader meets before line i.
ReadBefore(i, chosen) == {j \in chosen : j > i}

\* Faulty variant of InRange: the read stops at the first line past the end.
InRangeStopsEarly(start, end) ==
    {i \in DOMAIN rdLog : \A j \in i..Len(rdLog) : rdLog[j].ts \in start..end}

\* iter_events_in_range: a line past the end is skipped, one before the start
\* ends the read.
InRange(start, end) ==
    {i \in DOMAIN rdLog :
        /\ rdLog[i].ts \in start..end
        /\ \A j \in ReadBefore(i, DOMAIN rdLog) : rdLog[j].ts >= start}

OfKind(lines, kind) == {i \in lines : rdLog[i].kind = kind}
SidsOf(lines) == {rdLog[i].sid : i \in lines}

\* iter_events with max_bytes: the end of the file only.
InTail == {i \in DOMAIN rdLog : i + TailLines > Len(rdLog)}

\* The health panel reads the tail; lines of other kinds are passed over before
\* their time is looked at, the first of these kinds before the window ends the read.
Recent(kinds) ==
    LET wanted == {i \in InTail : rdLog[i].kind \in kinds}
    IN {i \in wanted : \A j \in {i} \union ReadBefore(i, wanted) : rdLog[j].ts + Window >= rdNow}

\* The figures of the health panel: commands of the window, sessions at their cap.
CommandRate == Cardinality(Recent({"command"}))
CapLines == Recent(CapKinds)
AtCap == SidsOf(OfKind(CapLines, "exhausted")) \ SidsOf(OfKind(CapLines, "closed"))

\* _read_session_audit_facts: all lines of one session, over the whole log.
FactsOf(s) == {i \in InRange(0, rdNow) : rdLog[i].sid = s}

-----------------------------------------------------------------------------
(* list_alerts. *)

Alerts == OfKind(DOMAIN rdLog, "alert")

\* The place of an alert among its neighbours of the same millisecond, newest first.
OffsetAt(i) ==
    Cardinality({j \in ReadBefore(i, Alerts) : \A m \in Alerts \intersect i..j : rdLog[m].ts = rdLog[i].ts})
KeyAt(i) == <<rdLog[i].ts, OffsetAt(i)>>

\* The comparison of tuples with the cursor.
Below(key, cursor) == key[1] < cursor[1] \/ (key[1] = cursor[1] /\ key[2] < cursor[2])

NewestOf(lines, limit) == {i \in lines : Cardinality(ReadBefore(i, lines)) < limit}

\* The next page: the first alerts below the cursor, up to the limit.
Page(cursor) == NewestOf({i \in Alerts : Below(KeyAt(i), cursor)}, PageSize)

Written == Cardinality({i \in DOMAIN rdLog : rdLog[i].kind # "read"})
ReadLine == [ts |-> rdNow, kind |-> "read", sid |-> "none"]

-----------------------------------------------------------------------------
\* A process appends a line it stamped at most MaxLate ago.
AppendLine(kind, s, late) ==
    /\ Written < MaxWritten /\ late <= rdNow
    /\ rdLog' = Append(rdLog, [ts |-> rdNow - late, kind |-> kind, sid |-> s])
    /\ UNCHANGED <<rdNow, rdWalk, rdServed>>

\* GET /api/alerts: the request is audited itself, then the page is read; a page
\* that is not full carries no cursor and ends the walk.
GetPage ==
    /\ rdWalk.step \in {"idle", "walking"}
    /\ LET page == Page(rdWalk.cursor)
           full == Cardinality(page) >= PageSize
           tail == CHOOSE i \in page : \A j \in page : i <= j
       IN /\ rdServed' = Append(rdServed, page)
          /\ rdWalk' = [step |-> IF full THEN "walking" ELSE "ended",
                        cursor |-> IF full THEN KeyAt(tail) ELSE NoCursor,
                        first |-> IF rdWalk.step = "idle" THEN Len(rdLog) ELSE rdWalk.first]
    /\ rdLog' = Append(rdLog, ReadLine)
    /\ UNCHANGED rdNow

Pass == rdNow < MaxNow /\ rdNow' = rdNow + 1 /\ UNCHANGED <<rdLog, rdWalk, rdServed>>

RdNext ==
    \/ \E kind \in Kinds, s \in Sid, late \in 0..MaxLate : AppendLine(kind, s, late)
    \/ GetPage
    \/ Pass

RdSpec == RdInit /\ [][RdNext]_rdVars

-----------------------------------------------------------------------------
(* Properties. *)

Ordered(lines) == \A i, j \in lines : i < j => rdLog[i].ts <= rdLog[j].ts
Distinct(lines) == \A i, j \in lines : i # j => rdLog[i].ts # rdLog[j].ts

\* A walk through the pages serves every alert that was in the log when it began
\* exactly once and newest first, whatever is appended meanwhile, as long as the
\* alerts are in the order of their times and no two share a millisecond.
PagesPartition ==
    Ordered(Alerts) /\ Distinct(Alerts) =>
        /\ \A p, q \in DOMAIN rdServed : p < q => \A i \in rdServed[p], j \in rdServed[q] : j < i
        /\ rdWalk.step = "ended" =>
            OfKind(1..rdWalk.first, "alert") \subseteq UNION {rdServed[p] : p \in DOMAIN rdServed}

\* A range read returns exactly the lines of the range and a session all of its
\* facts, while the file is in the order of its times; out of order a read may miss
\* lines, never invent them.
RangesExact ==
    /\ \A start, end \in 0..MaxNow : InRange(start, end) \subseteq {i \in DOMAIN rdLog : rdLog[i].ts \in start..end}
    /\ Ordered(DOMAIN rdLog) =>
        /\ \A start, end \in 0..MaxNow :
            InRange(start, end) = {i \in DOMAIN rdLog : rdLog[i].ts \in start..end}
        /\ \A s \in Sid : FactsOf(s) = {i \in DOMAIN rdLog : rdLog[i].sid = s}

InWindow(kind) == {i \in OfKind(DOMAIN rdLog, kind) : rdLog[i].ts + Window >= rdNow}
Closes(i, s) == rdLog[i].kind = "closed" /\ rdLog[i].sid = s

\* The health panel never counts a command twice or one that is older than its
\* window, however the lines lie.  While the lines it looks at are in the order of
\* their times, whatever the others are, it counts every command of the window that
\* the tail still holds, so all of them when the window fits in the tail; a session
\* it shows at its cap got there in the window and was not closed after it, and one
\* whose line is in the window and the tail is shown unless it was closed.
FiguresExact ==
    /\ CommandRate <= Cardinality(InWindow("command"))
    /\ Ordered(OfKind(InTail, "command")) =>
        CommandRate = Cardinality(InWindow("command") \intersect InTail)
    /\ Ordered({i \in InTail : rdLog[i].kind \in CapKinds}) =>
        /\ \A s \in AtCap : \E i \in InWindow("exhausted") :
            rdLog[i].sid = s /\ \A j \in i..Len(rdLog) : ~Closes(j, s)
        /\ \A i \in InWindow("exhausted") \intersect InTail :
            rdLog[i].sid \in AtCap \/ \E j \in DOMAIN rdLog : Closes(j, rdLog[i].sid)

\* What the dashboard's pages and sums show of the audit log.
ReadersAgree == PagesPartition /\ RangesExact /\ FiguresExact
=============================================================================
