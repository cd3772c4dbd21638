---------------------------- MODULE AuditShipper ----------------------------
(***************************************************************************)
(* AuditShipper: copies the audit log to a collector off the box, resuming *)
(* from a saved inode and position.  The writer, logrotate and the         *)
(* collector take their steps between any two of the shipper's system      *)
(* calls.  Lines are numbered in the order they are written and count as   *)
(* one byte; the inode of the n-th file is n (an inode used again for a    *)
(* later file is left out: logrotate keeps the renamed file).              *)
(***************************************************************************)
EXTENDS Integers

CONSTANTS
    BatchMax,       \* batch_max_records
    MaxLines,       \* bound: lines written
    MaxFiles,       \* bound: files, one more than rotations
    MaxTrouble      \* bound: failed posts, failed saves and deaths

ASSUME ShipperAssumption ==
    /\ BatchMax \in Nat \ {0} /\ MaxFiles \in Nat \ {0}
    /\ MaxLines \in Nat /\ MaxTrouble \in Nat

VARIABLES
    inode,      \* of the file at the log's path
    base,       \* lines written before that file was created
    written,    \* lines written
    saved,      \* the offset file: inode (0: none) and position
    cycle,      \* ship_pending: where it is, the inode and the lines to send
    received,   \* lines the collector has
    trouble,    \* number of failures so far
    read,       \* history variable: lines of the current file the shipper has seen
    late        \* history variable: lines rotated away before the shipper saw them

shipVars ==
    <<inode, base, written, saved, cycle, received, trouble, read, late>>

Asleep == [at |-> "asleep", inode |-> 0, pos |-> 0, next |-> 0, last |-> 0]

ShipTypeOK ==
    /\ inode \in 1..MaxFiles
    /\ base \in 0..written /\ written \in 0..MaxLines
    /\ saved \in [inode : 0..inode, pos : 0..MaxLines]
    /\ cycle \in [at : {"asleep", "open", "post"}, inode : 0..inode,
                  pos : 0..MaxLines, next : 0..MaxLines, last : 0..MaxLines]
    /\ received \subseteq 1..written
    /\ trouble \in 0..MaxTrouble
    /\ read \in 0..written
    /\ late \subseteq 1..base

ShipInit ==
    /\ inode = 1 /\ base = 0 /\ written = 0
    /\ saved = [inode |-> 0, pos |-> 0]
    /\ cycle = Asleep
    /\ received = {} /\ trouble = 0 /\ read = 0 /\ late = {}

-----------------------------------------------------------------------------
(* The log. *)

WriteLine ==
    /\ written < MaxLines
    /\ written' = written + 1
    /\ UNCHANGED <<inode, base, saved, cycle, received, trouble, read, late>>

\* logrotate renames a file that is not empty and creates the next one.
Swap ==
    /\ inode < MaxFiles
    /\ base < written
    /\ inode' = inode + 1
    /\ base' = written
    /\ late' = late \union ((base + 1)..written \ 1..read)
    /\ UNCHANGED <<written, saved, cycle, received, trouble, read>>

-----------------------------------------------------------------------------
(* ship_pending. *)

Saves(i, p) == saved' = [inode |-> i, pos |-> p]

\* _save_offset: an error is logged, the old offset stays.
SaveOffset(i, p) ==
    \/ Saves(i, p) /\ UNCHANGED trouble
    \/ trouble < MaxTrouble /\ trouble' = trouble + 1 /\ UNCHANGED saved

\* Faulty variant of StartAt: the saved position is used for any file.
StartAtAnyFile ==
    IF written - base >= saved.pos THEN saved.pos ELSE 0

\* The position to resume from.
StartAt ==
    IF saved.inode = inode /\ written - base >= saved.pos THEN saved.pos ELSE 0

\* The stat, and the offset file: the one cannot be read as well.
Look ==
    /\ cycle.at = "asleep"
    /\ \/ /\ cycle' = [Asleep EXCEPT !.at = "open", !.inode = inode, !.pos = StartAt]
          /\ UNCHANGED trouble
       \/ /\ trouble < MaxTrouble /\ trouble' = trouble + 1
          /\ cycle' = [Asleep EXCEPT !.at = "open", !.inode = inode]
    /\ UNCHANGED <<inode, base, written, saved, received, read, late>>

\* _read_complete_lines opens the path again, which may be the next file by now.
Read ==
    /\ cycle.at = "open"
    /\ read' = IF cycle.inode = inode THEN written ELSE read
    /\ IF base + cycle.pos < written
       THEN /\ cycle' = [cycle EXCEPT !.at = "post", !.next = base + cycle.pos,
                                      !.last = written]
            /\ UNCHANGED <<saved, trouble>>
       ELSE cycle' = Asleep /\ SaveOffset(cycle.inode, cycle.pos)
    /\ UNCHANGED <<inode, base, written, received, late>>

\* The size of the next batch, and its lines.
BatchSize ==
    IF cycle.last - cycle.next < BatchMax THEN cycle.last - cycle.next ELSE BatchMax

Batch == (cycle.next + 1)..(cycle.next + BatchSize)

\* After an acknowledged batch: the next one, or sleep.
Advance ==
    cycle' = IF cycle.next + BatchSize = cycle.last THEN Asleep
             ELSE [cycle EXCEPT !.pos = @ + BatchSize, !.next = @ + BatchSize]

\* Faulty variant of Accept: one batch a cycle, the rest waits for the next one.
AcceptOne ==
    /\ cycle.at = "post"
    /\ received' = received \union Batch
    /\ SaveOffset(cycle.inode, cycle.pos + BatchSize)
    /\ cycle' = Asleep
    /\ UNCHANGED <<inode, base, written, read, late>>

\* The collector acknowledges a batch; the offset is saved.
Accept ==
    /\ cycle.at = "post"
    /\ received' = received \union Batch
    /\ SaveOffset(cycle.inode, cycle.pos + BatchSize)
    /\ Advance
    /\ UNCHANGED <<inode, base, written, read, late>>

\* Faulty variant of Lose: the failure ends the loop of run_forever.
LoseForGood ==
    /\ cycle.at \in {"open", "post"}
    /\ trouble < MaxTrouble /\ trouble' = trouble + 1
    /\ received' \in {received, received \union Batch}
    /\ cycle' = [cycle EXCEPT !.at = "ended"]
    /\ UNCHANGED <<inode, base, written, saved, read, late>>

\* A post or the read fails, or the shipper dies, and the next cycle starts over.
\* The collector may have the batch all the same: its answer was lost.
Lose ==
    /\ cycle.at \in {"open", "post"}
    /\ trouble < MaxTrouble /\ trouble' = trouble + 1
    /\ received' \in {received, received \union Batch}
    /\ cycle' = Asleep
    /\ UNCHANGED <<inode, base, written, saved, read, late>>

ShipNext == WriteLine \/ Swap \/ Look \/ Read \/ Accept \/ Lose

ShipSpec == ShipInit /\ [][ShipNext]_shipVars

\* The shipper's loop goes on, and a collector that is asked for ever answers
\* again.  Nothing is assumed of the writers, of logrotate or of failures.
ShipFairness ==
    WF_shipVars(Look) /\ WF_shipVars(Read) /\ SF_shipVars(Accept)

-----------------------------------------------------------------------------
(* Properties. *)

\* audit_shipper.py:9 at-least-once: the offset that is saved for the file at the
\* path never points past a line the collector lacks, whatever rotation happened
\* between the stat and the open, and whatever post, save or process failed.
SavedNotAhead ==
    saved.inode = inode => (base + 1)..(base + saved.pos) \subseteq received

\* Lines on their way to the collector.
InFlight == IF cycle.at = "post" THEN (cycle.next + 1)..cycle.last ELSE {}

\* audit_shipper.py:17, the bounded gap: as long as nothing fails, a line that is
\* rotated away unshipped was written after the shipper last read its file.
BoundedGap == trouble = 0 => 1..base \subseteq received \union late \union InFlight

\* audit_shipper.py:10: a backlog is shipped once the collector is back, unless
\* logrotate takes the file away first.
BacklogShips ==
    \A l \in 1..MaxLines : l <= written ~> l \in received \/ l <= base
=============================================================================
