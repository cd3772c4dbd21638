----------------------------- MODULE AuditTrail -----------------------------
(***************************************************************************)
(* The audit JSONL file and the processes that append to it, as far as the *)
(* dashboard's tailer can tell: the lure writes a session's opened,        *)
(* command and closed lines, the bridge writes its intent line once the    *)
(* session is over, logrotate moves the file away.                         *)
(*                                                                         *)
(* A line is its kind and its session; its position in `history` stands    *)
(* for its timestamp and text, which are distinct for distinct lines.  The *)
(* file on disk holds the lines after `base`; earlier ones belong to       *)
(* rotated generations.  Every line counts as one byte.                    *)
(***************************************************************************)
EXTENDS Naturals, Sequences, SessionIds

CONSTANTS
    MaxLines,       \* bound: lines ever written
    MaxRotations,   \* bound: rotations of the file
    OpenLine,       \* what may happen to a session's opened line, see below
    IntentExtraction \* the bridge setting intent_extraction_enabled

\* "first": it precedes the session's other lines.  "late": it may follow command
\* lines, or be missing (AuditLog swallows a failed write; a second channel of
\* one connection is never announced).
ASSUME OpenLineAssumption == OpenLine \in {"first", "late"}
ASSUME IntentAssumption == IntentExtraction \in BOOLEAN
ASSUME BoundsAssumption == MaxLines \in Nat /\ MaxRotations \in Nat

VARIABLES
    history,    \* every line ever appended, oldest first
    base,       \* how many of them are in rotated generations
    phase,      \* where the lure is with each session
    rotations   \* rotations so far

trailVars == <<history, base, phase, rotations>>

Kind == {"opened", "command", "closed", "intent"}
Line == [kind : Kind, sid : Session]
Phase == {"new", "open", "draining", "closed"}

\* stat().st_size of the audit path.
FileSize == Len(history) - base

\* The lines of history that are commands of session s.
IsCommand(n, s) == history[n].kind = "command" /\ history[n].sid = s
Commands(s) == {n \in DOMAIN history : IsCommand(n, s)}
HasLine(k, s) == \E n \in DOMAIN history : history[n] = [kind |-> k, sid |-> s]

TrailTypeOK ==
    /\ history \in Seq(Line)
    /\ base \in 0..Len(history)
    /\ phase \in [Session -> Phase]
    /\ rotations \in 0..MaxRotations

TrailInit ==
    /\ history = <<>>
    /\ base = 0
    /\ phase = [s \in Session |-> "new"]
    /\ rotations = 0

-----------------------------------------------------------------------------
\* AuditLog.record: append one line to whatever file is at the path.
Record(k, s) ==
    /\ Len(history) < MaxLines
    /\ history' = Append(history, [kind |-> k, sid |-> s])
    /\ UNCHANGED <<base, rotations>>

\* A shell starts: open_session returned, or failed and a placeholder id is
\* used.  The opened line is written unless it is lost or not yet due.
LureOpened(s) ==
    /\ phase[s] = "new"
    /\ phase' = [phase EXCEPT ![s] = "open"]
    /\ \/ Record("opened", s)
       \/ /\ OpenLine = "late"
          /\ UNCHANGED <<history, base, rotations>>

\* The opened line of a session whose commands may already be in the file.
LureOpenedLate(s) ==
    /\ OpenLine = "late"
    /\ phase[s] = "open"
    /\ ~HasLine("opened", s)
    /\ Record("opened", s)
    /\ UNCHANGED phase

\* command_native, command_bridge or fallback_served.  A command that was
\* waiting for the bridge when the connection was lost is written after the
\* closed line: nothing cancels the shell handler.
LureCommand(s) ==
    /\ phase[s] \in {"open", "draining"}
    /\ Record("command", s)
    /\ phase' = [phase EXCEPT ![s] = IF @ = "draining" THEN "closed" ELSE @]

\* connection_lost, with or without a command still waiting for the bridge.
LureClosed(s) ==
    /\ phase[s] = "open"
    /\ Record("closed", s)
    /\ \E p \in {"draining", "closed"} : phase' = [phase EXCEPT ![s] = p]

\* The bridge's intent task for an ended session has its answer; a session of
\* few or no commands gets a placeholder answer.
BridgeIntent(s) ==
    /\ IntentExtraction
    /\ phase[s] \in {"draining", "closed"}
    /\ ~HasLine("intent", s)
    /\ Record("intent", s)
    /\ UNCHANGED phase

\* logrotate: the path now names an empty file.
Rotate ==
    /\ rotations < MaxRotations
    /\ base < Len(history)
    /\ base' = Len(history)
    /\ rotations' = rotations + 1
    /\ UNCHANGED <<history, phase>>

TrailNext ==
    \/ \E s \in Session :
        \/ LureOpened(s)
        \/ LureOpenedLate(s)
        \/ LureCommand(s)
        \/ LureClosed(s)
        \/ BridgeIntent(s)
    \/ Rotate
=============================================================================
