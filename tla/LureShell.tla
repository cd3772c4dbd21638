------------------------------ MODULE LureShell ------------------------------
(***************************************************************************)
(* One channel of the lure from the inside: the handler's loop, the native *)
(* commands with the fake file system behind them, the request to the      *)
(* bridge (streamed or buffered), its failures, and what the attacker, the *)
(* session's history and the audit log are told of each command.           *)
(*                                                                         *)
(* The working directory exists twice: the lure's, which the prompt and    *)
(* the native commands use, and the bridge's, which the model is told.     *)
(***************************************************************************)
EXTENDS Naturals, Sequences

CONSTANTS
    Dir, Nowhere,     \* directories, and a path that a bad `cd` makes up
    Table,            \* files with a body in _FILES
    Denied, Clocked,  \* _PERMISSION_DENIED, and the files of the clock
    Listed,           \* the files that `ls` of their directory names
    Extra,            \* files that only a persona's overlay has
    Overlays, Baits,  \* the personas' overlays, the configured garble paths
    HistoryWindow,
    MaxCommands       \* bound: commands typed

File == Table \union Denied \union Clocked \union Extra

ASSUME ShellAssumption ==
    /\ Nowhere \notin Dir /\ Dir # {}
    /\ Listed \subseteq File \ Extra
    /\ Overlays \subseteq SUBSET File /\ Baits \subseteq File
    /\ HistoryWindow \in Nat \ {0} /\ MaxCommands \in Nat

VARIABLES
    shMode,           \* what the channel asked for: shell, exec, subsystem
    shStream,         \* config.bridge_stream_enabled
    shPc,             \* where the handler is
    shUp,             \* the channel is open
    shCmd,            \* the command in hand
    shTyped,          \* commands read so far; a command is known by its number
    shCwd,            \* LureSessionContext._cwd
    shBridge,         \* the bridge's SessionContext: held or not, cwd, oldpwd
    shOverlay, shGarble,  \* the persona's files, the files to corrupt
    shHist,           \* LureSessionContext._history
    shLines,          \* audit lines about commands
    shScreen,         \* what was written in answer to the command in hand
    shTold,           \* history variable: the body of each file that answers showed
    shCut, shPartial, \* history variables: answers cut by the channel, by the bridge
    shDrift           \* history variable: a directory change one side missed

shVars == <<shMode, shStream, shPc, shUp, shCmd, shTyped, shCwd, shBridge, shOverlay, shGarble,
            shHist, shLines, shScreen, shTold, shCut, shPartial, shDrift>>

Idle == [verb |-> "none"]
NoDir == Nowhere

\* `cd d`, `cat f`, `ls -l`, the other native verbs, exit; a line with a separator
\* that begins with a cd the bridge understands, misreads (`cd d; x`) or that
\* begins with none.
Typable ==
    [verb : {"cd"}, dir : Dir \union {Nowhere}]
    \union [verb : {"cat"}, file : File]
    \union [verb : {"ls", "say", "exit", "other"}]
    \union [verb : {"cd and"}, dir : Dir \union {Nowhere}]
    \union [verb : {"cd back and"}]

ShellInit ==
    /\ shMode \in {"shell", "exec", "subsystem"} /\ shStream \in BOOLEAN
    /\ shPc = "opening" /\ shUp = TRUE /\ shCmd = Idle /\ shTyped = 0
    /\ shCwd \in Dir /\ shBridge = [held |-> FALSE, cwd |-> shCwd, old |-> NoDir]
    /\ shOverlay = {} /\ shGarble = {}
    /\ shHist = <<>> /\ shLines = <<>> /\ shScreen = <<>>
    /\ shTold = [f \in File |-> {}]
    /\ shCut = {} /\ shPartial = {} /\ shDrift = FALSE

-----------------------------------------------------------------------------
(* The fake file system. *)

\* read: the overlay wins over everything, then the denied paths, the clock's
\* files and the table.
Body(f) ==
    IF f \in shOverlay THEN "overlay"
    ELSE IF f \in Denied THEN "denied"
    ELSE IF f \in Clocked THEN "clock"
    ELSE IF f \in Table THEN "table" ELSE "not here"

\* _with_content_sizes: the size of a listed file is that of the body read.
SizeShown(f) == IF Body(f) = "denied" THEN "static" ELSE Body(f)

\* What the answers of `cat` and of a long `ls` show of the file f.
CatShows(c, f) == IF f = c.file THEN {Body(f)} ELSE {}
LsShows(f) == IF f \in Listed THEN {SizeShown(f)} ELSE {}

\* What a native answer shows of it; the other verbs show no file.
Shown(c, f) ==
    IF c.verb = "cat" THEN CatShows(c, f) ELSE IF c.verb = "ls" THEN LsShows(f) ELSE {}

\* dispatch: which lines the lure answers by itself.
Native(c) ==
    \/ c.verb \in {"cd", "ls", "say", "exit"}
    \/ c.verb = "cat" /\ Body(c.file) # "not here"

Garbled(c) == c.verb = "cat" /\ c.file \in shGarble /\ Body(c.file) # "denied"

-----------------------------------------------------------------------------
(* What a command leaves behind. *)

Line(e) == [n |-> shTyped, event |-> e]
Log(events) == shLines' = shLines \o [i \in DOMAIN events |-> Line(events[i])]

\* Faulty variant of Remember: the window is a command too long.
RememberMore(source) ==
    LET h == Append(shHist, [n |-> shTyped, source |-> source])
    IN shHist' = IF Len(h) > HistoryWindow + 1 THEN Tail(h) ELSE h

\* LureSessionContext.record on a deque with a maximal length.
Remember(source) ==
    LET h == Append(shHist, [n |-> shTyped, source |-> source])
    IN shHist' = IF Len(h) > HistoryWindow THEN Tail(h) ELSE h

\* The command is done: exec channels and exit end the handler, and so does the
\* write of the next prompt to a channel that is gone.
NextLine == shPc' = IF shUp /\ shMode = "shell" /\ shCmd.verb # "exit" THEN "prompt" ELSE "done"

-----------------------------------------------------------------------------
(* _process_handler. *)

\* open_session, or BridgeUnavailableError: the placeholder, no persona, nothing
\* to corrupt; a subsystem is refused either way.
OpenShell ==
    /\ shPc = "opening"
    /\ \/ /\ shOverlay' \in Overlays /\ shGarble' \in {{}, Baits}
          /\ shBridge' = [shBridge EXCEPT !.held = TRUE]
       \/ UNCHANGED <<shOverlay, shGarble, shBridge>>
    /\ shPc' = IF shMode = "subsystem" THEN "done" ELSE "prompt"
    /\ UNCHANGED <<shMode, shStream, shUp, shCmd, shTyped, shCwd, shHist, shLines, shScreen, shTold,
                   shCut, shPartial, shDrift>>

\* A line that is not blank; a native `cd` is done before the jitter's sleep.
TypeLine(c) ==
    /\ shPc = "prompt" /\ shUp /\ shTyped < MaxCommands
    /\ shCmd' = c /\ shTyped' = shTyped + 1 /\ shScreen' = <<>>
    /\ shPc' = IF Native(c) THEN "sleeping" ELSE "asked"
    /\ shCwd' = IF c.verb = "cd" THEN c.dir ELSE shCwd
    /\ shDrift' = (shDrift \/ (c.verb = "cd" /\ c.dir # shBridge.cwd))
    /\ UNCHANGED <<shMode, shStream, shUp, shBridge, shOverlay, shGarble, shHist, shLines, shTold,
                   shCut, shPartial>>

\* The handler of the verb has answered: history and audit first, then the write,
\* which raises when the channel is gone.
AnswerNative ==
    /\ shPc = "sleeping"
    /\ Remember("native")
    /\ Log(IF Garbled(shCmd) THEN <<"native", "garble">> ELSE <<"native">>)
    /\ shScreen' = IF shUp THEN <<"native">> ELSE <<>>
    /\ shTold' = [f \in File |-> shTold[f] \union Shown(shCmd, f)]
    /\ NextLine
    /\ UNCHANGED <<shMode, shStream, shUp, shCmd, shTyped, shCwd, shBridge, shOverlay, shGarble,
                   shCut, shPartial, shDrift>>

-----------------------------------------------------------------------------
(* The route through the bridge. *)

\* handle_command of the bridge: a line that begins with a cd moves its directory
\* and is answered with no text.
ServeCommand ==
    /\ shPc = "asked" /\ shBridge.held
    /\ shBridge' =
        IF shCmd.verb = "cd and"
        THEN [shBridge EXCEPT !.cwd = shCmd.dir, !.old = shBridge.cwd]
        ELSE IF shCmd.verb = "cd back and" /\ shBridge.old # NoDir
        THEN [shBridge EXCEPT !.cwd = shBridge.old, !.old = shBridge.cwd]
        ELSE shBridge
    /\ shDrift' = (shDrift \/ shBridge'.cwd # shCwd)
    /\ shPc' = "served"
    /\ UNCHANGED <<shMode, shStream, shUp, shCmd, shTyped, shCwd, shOverlay, shGarble, shHist,
                   shLines, shScreen, shTold, shCut, shPartial>>

Speaks == shCmd.verb \in {"cat", "other"}

\* A chunk of a stream: written, or the write raises and the handler is gone with
\* neither a line nor a history entry for the command.
TakeDelta ==
    /\ shPc = "served" /\ shStream /\ Speaks
    /\ \/ shUp /\ shScreen' = <<"ai">> /\ UNCHANGED <<shPc, shCut>>
       \/ ~shUp /\ shPc' = "done" /\ shCut' = shCut \union {shTyped} /\ UNCHANGED shScreen
    /\ UNCHANGED <<shMode, shStream, shUp, shCmd, shTyped, shCwd, shBridge, shOverlay, shGarble,
                   shHist, shLines, shTold, shPartial, shDrift>>

\* session.update_cwd with the bridge's directory.
Apply == shCwd' = shBridge.cwd /\ shDrift' = FALSE

\* The terminal chunk, or the buffered response.
FinishCommand ==
    /\ shPc = "served"
    /\ Apply
    /\ Remember("bridge") /\ Log(<<"bridge">>)
    /\ shScreen' = IF shUp /\ ~shStream /\ Speaks THEN <<"ai">> ELSE shScreen
    /\ NextLine
    /\ UNCHANGED <<shMode, shStream, shUp, shCmd, shTyped, shBridge, shOverlay, shGarble, shTold,
                   shCut, shPartial>>

\* `not wrote_any`.
MayFallBack == shScreen = <<>>

\* The client's request is on its way, or its answer is.
MayFail == shPc \in {"asked", "served"}

\* BridgeUnavailableError: the session is unknown (404), the request or the stream
\* fails.  The audit log has a fallback_served line in either case.
FailCommand ==
    /\ MayFail
    /\ Log(<<"unavailable", "fallback">>)
    /\ \/ /\ MayFallBack /\ Remember("fallback")
          /\ shScreen' = IF shUp THEN Append(shScreen, "fallback") ELSE shScreen
          /\ UNCHANGED shPartial
       \/ /\ ~MayFallBack /\ shPartial' = shPartial \union {shTyped}
          /\ UNCHANGED <<shHist, shScreen>>
    /\ NextLine
    /\ UNCHANGED <<shMode, shStream, shUp, shCmd, shTyped, shCwd, shBridge, shOverlay, shGarble,
                   shTold, shCut, shDrift>>

-----------------------------------------------------------------------------
(* The world. *)

\* The attacker is gone: a handler at the prompt ends, one that awaits does not.
LoseChannel ==
    /\ shUp /\ shPc # "done"
    /\ shUp' = FALSE
    /\ shPc' = IF shPc = "prompt" THEN "done" ELSE shPc
    /\ UNCHANGED <<shMode, shStream, shCmd, shTyped, shCwd, shBridge, shOverlay, shGarble, shHist,
                   shLines, shScreen, shTold, shCut, shPartial, shDrift>>

\* The bridge restarts, or evicts the session for being idle.
ForgetSession ==
    /\ shBridge.held /\ shPc \in {"prompt", "sleeping"}
    /\ shBridge' = [shBridge EXCEPT !.held = FALSE]
    /\ UNCHANGED <<shMode, shStream, shPc, shUp, shCmd, shTyped, shCwd, shOverlay, shGarble, shHist,
                   shLines, shScreen, shTold, shCut, shPartial, shDrift>>

ShellNext ==
    \/ OpenShell \/ (\E c \in Typable : TypeLine(c)) \/ AnswerNative
    \/ ServeCommand \/ TakeDelta \/ FinishCommand \/ FailCommand
    \/ LoseChannel \/ ForgetSession

ShellSpec == ShellInit /\ [][ShellNext]_shVars

-----------------------------------------------------------------------------
(* Properties. *)

Turns == {i \in DOMAIN shLines : shLines[i].event \in {"native", "bridge", "fallback"}}
Answered == {n \in 1..shTyped : n < shTyped \/ shPc \in {"prompt", "done"}} \ shCut

\* A sequence of entries tells the latest of some commands, as many as it may hold.
TellsLatest(entries, commands, length) ==
    /\ Len(entries) <= length
    /\ \A i, j \in DOMAIN entries : i < j => entries[i].n < entries[j].n
    /\ \A i \in DOMAIN entries : entries[i].n \in commands
    /\ \A n \in commands :
        \/ \E i \in DOMAIN entries : entries[i].n = n
        \/ Len(entries) = length /\ \A i \in DOMAIN entries : n < entries[i].n

\* Every command read becomes one line that the tailer makes a turn of, in the
\* order typed, whichever way it was answered; only a stream whose channel went
\* away between two chunks leaves none.  The history holds the latest of
\* them, without those whose stream broke off.
TurnPerCommand ==
    /\ {shLines[i].n : i \in Turns} = Answered
    /\ \A i, j \in Turns : i < j => shLines[i].n < shLines[j].n
    /\ TellsLatest(shHist, Answered \ shPartial, HistoryWindow)

\* The attacker sees one voice per command: nothing scripted after the model has
\* begun to speak, and no answer of the model after a scripted one.
OneVoice == Len(shScreen) <= 1

\* Prompt and bridge name the same directory, unless a native cd was not told to
\* the bridge, or the answer to a cd of the bridge is on its way or was lost.
DirectoriesAgree == shBridge.held /\ shCwd # shBridge.cwd => shDrift

\* All answers about a file in a session agree on its body, sizes in a listing
\* included, and a persona's file is served to every reader of it.
SameBody ==
    \A f \in File :
        /\ \A b, c \in shTold[f] \ {"static", "denied"} : b = c
        /\ f \in shOverlay => shTold[f] \subseteq {"overlay"}

ShellCoherent == OneVoice /\ DirectoriesAgree /\ SameBody

\* What a command that was typed leaves behind, and what an attacker sees of it.
ShellSound == TurnPerCommand /\ ShellCoherent
=============================================================================
