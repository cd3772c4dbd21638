--------------------------- MODULE CommandDefense ---------------------------
(***************************************************************************)
(* One session's commands on their way through the bridge: sanitising, the *)
(* injection scorer, the model's answer, the output filter, the scripted   *)
(* fallback, the audit lines and the history that the next prompt is built *)
(* from; buffered or as a stream.                                          *)
(*                                                                         *)
(* A text is a sequence of symbols.  The patterns of scorer and filter are *)
(* one: "a" followed by "b" in the normal form of a text, which drops the  *)
(* invisible "z" and unfolds "e" into both letters.  "c" is a control      *)
(* character, "w" white space, "m" the mark of a truncated command, "p" a  *)
(* strategy's pre-message and "f" a scripted answer.                       *)
(***************************************************************************)
EXTENDS Naturals, Sequences, FiniteSets

CONSTANTS
    Typed,          \* symbols of commands
    Spoken,         \* symbols of answers
    MaxTyped, MaxSpoken,   \* bounds: length of a command, of an answer
    MaxInput,       \* bridge.max_input_chars
    MaxResponse,    \* ollama.max_response_chars
    ScanCap,        \* defense.scan_max_chars
    DfWindow,       \* history_window
    MaxTurns        \* bound: commands of the session

\* The settings' cross-field validators want the scan to cover both limits.
ASSUME DefenseAssumption ==
    /\ Typed \subseteq {"a", "b", "e", "z", "c", "w"} /\ Spoken \subseteq Typed
    /\ MaxInput \in Nat \ {0} /\ MaxResponse \in Nat \ {0}
    /\ ScanCap \in Nat /\ ScanCap >= MaxInput /\ ScanCap >= MaxResponse
    /\ MaxTyped \in Nat /\ MaxSpoken \in Nat /\ DfWindow \in Nat /\ MaxTurns \in Nat

VARIABLES
    dfStream,       \* the lure asks for streams
    dfScripts,      \* bridge.enable_fallback
    dfPc,           \* where the command is: ready, asked, speaking
    dfCommand,      \* the sanitised command in hand
    dfSaid,         \* the accumulator of a stream
    dfHistory,      \* SessionContext._history, as [command, response]
    dfCount,        \* SessionContext._command_count
    dfLines,        \* audit lines of the command in hand
    dfShipped,      \* what the lure was sent in answer to it
    dfSource,       \* the source it was told, none while it waits
    dfRecorded,     \* the response recorded for it
    dfLost          \* history variable: the stream was abandoned or its handler failed

dfVars == <<dfStream, dfScripts, dfPc, dfCommand, dfSaid, dfHistory, dfCount, dfLines, dfShipped, dfSource,
            dfRecorded, dfLost>>

TextsOf(symbols, length) == UNION {[1..n -> symbols] : n \in 0..length}
Unsaid == <<"unsaid">>

DfInit ==
    /\ dfStream \in BOOLEAN /\ dfScripts \in BOOLEAN /\ dfPc = "ready"
    /\ dfCommand = <<>> /\ dfSaid = <<>> /\ dfHistory = <<>> /\ dfCount = 0
    /\ dfLines = {} /\ dfShipped = <<>> /\ dfSource = "none" /\ dfRecorded = Unsaid /\ dfLost = FALSE

-----------------------------------------------------------------------------
(* Texts. *)

Cut(text, length) == IF Len(text) > length THEN SubSeq(text, 1, length) ELSE text
IsBlank(text) == \A i \in DOMAIN text : text[i] = "w"

\* rstrip
Stripped(text) ==
    LET solid == {i \in DOMAIN text : text[i] # "w"}
    IN SubSeq(text, 1, IF solid = {} THEN 0 ELSE CHOOSE i \in solid : \A j \in solid : j <= i)

\* sanitize_command: controls go, the rest is cut with a mark.
Sanitised(raw) ==
    LET clean == SelectSeq(raw, LAMBDA s : s # "c")
    IN IF Len(clean) > MaxInput THEN Append(Cut(clean, MaxInput), "m") ELSE clean

\* cap_output
Capped(text) == Stripped(Cut(text, MaxResponse))

\* normalise_for_scan of one symbol: NFKD, without marks and format characters.
Unfolded(s) == IF s = "z" THEN <<>> ELSE IF s = "e" THEN <<"a", "b">> ELSE <<s>>

NormalForm(text) ==
    LET upTo[i \in 0..Len(text)] == IF i = 0 THEN <<>> ELSE upTo[i - 1] \o Unfolded(text[i])
    IN upTo[Len(text)]

HasPattern(text) == \E i \in 1..(Len(text) - 1) : text[i] = "a" /\ text[i + 1] = "b"

\* The verdicts of InjectionScorer.score and OutputFilter.check: the scan is cut at
\* its cap.  Every shipped pattern has the full severity, so that any match fires.
ScoreFires(text) == HasPattern(Cut(NormalForm(text), ScanCap))
ScanTruncated(text) == Len(NormalForm(text)) > ScanCap
CheckFires(text) == HasPattern(Cut(NormalForm(text), ScanCap))

\* _fallback: what the shell would say, or nothing where fallbacks are disabled.
Scripted == IF dfScripts THEN <<"f">> ELSE <<>>
ScriptSource == IF dfScripts THEN "fallback" ELSE "rejected"

-----------------------------------------------------------------------------
(* The end of a command. *)

\* SessionContext.record.
Record(command, response) ==
    LET h == Append(dfHistory, [command |-> command, response |-> response])
    IN /\ dfHistory' = SubSeq(h, IF Len(h) > DfWindow THEN Len(h) - DfWindow + 1 ELSE 1, Len(h))
       /\ dfCount' = dfCount + 1
       /\ dfRecorded' = response

\* A command that is answered with `text`, all of it at once.
AnswerWith(text, source) ==
    /\ Record(dfCommand, text)
    /\ dfShipped' = dfShipped \o text /\ dfSource' = source
    /\ dfPc' = "ready"
    /\ UNCHANGED <<dfStream, dfScripts, dfCommand, dfSaid, dfLost>>

-----------------------------------------------------------------------------
(* _run_command and _run_command_stream. *)

\* Whatever the scorer cannot see is told, whatever it finds is answered by script;
\* a blank line and a cd the bridge understands do not reach the model.
Take(raw, isCd) ==
    LET command == Sanitised(raw)
        fired == ScoreFires(command)
        lines == (IF ScanTruncated(command) THEN {"injection truncated"} ELSE {})
                    \union (IF fired THEN {"fired"} ELSE {})
        answer == IF fired THEN Scripted ELSE <<>>
        direct == IsBlank(command) \/ fired \/ isCd
    IN /\ dfPc = "ready" /\ dfCount < MaxTurns /\ ~dfLost
       /\ dfCommand' = command
       /\ dfLines' = IF IsBlank(command) THEN {} ELSE lines
       /\ IF direct
          THEN /\ Record(command, answer)
               /\ dfShipped' = answer /\ dfSource' = IF fired THEN ScriptSource ELSE "ai"
               /\ UNCHANGED dfPc
          ELSE /\ dfPc' = "asked" /\ dfShipped' = <<>> /\ dfSource' = "none" /\ dfRecorded' = Unsaid
               /\ UNCHANGED <<dfHistory, dfCount>>
       /\ dfSaid' = <<>>
       /\ UNCHANGED <<dfStream, dfScripts, dfLost>>

\* Faulty variant of Checked: the filter's verdict is noted and the answer served.
CheckedNot(text) == TRUE

\* The filter lets the answer pass.
Checked(text) == ~CheckFires(text)

\* Buffered: the whole answer is there, is capped and scanned, and is replaced when
\* the filter fires.
Reply(content) ==
    LET text == Capped(content)
        told == (IF Len(content) > MaxResponse THEN {"output truncated"} ELSE {})
                    \union (IF CheckFires(text) THEN {"fired"} ELSE {})
    IN /\ dfPc = "asked" /\ ~dfStream
       /\ dfLines' = dfLines \union told
       /\ IF Checked(text) THEN AnswerWith(text, "ai") ELSE AnswerWith(Scripted, ScriptSource)

NothingSaid == dfSaid = <<>>

\* The limiter, the budget or the model fails before a word was said.
Fail ==
    /\ dfPc = (IF dfStream THEN "speaking" ELSE "asked") /\ NothingSaid
    /\ AnswerWith(Scripted, ScriptSource)
    /\ UNCHANGED dfLines

\* _apply_pre_effect: the strategy may say something first.
SayFirst ==
    /\ dfPc = "asked" /\ dfStream
    /\ \/ dfSaid' = <<"p">> /\ dfShipped' = <<"p">>
       \/ UNCHANGED <<dfSaid, dfShipped>>
    /\ dfPc' = "speaking"
    /\ UNCHANGED <<dfStream, dfScripts, dfCommand, dfHistory, dfCount, dfLines, dfSource, dfRecorded, dfLost>>

\* Characters of the model's chunks: the pre-message does not count.
SaidByModel == Cardinality({i \in DOMAIN dfSaid : dfSaid[i] # "p"})

\* A chunk within the cap is kept and sent on.
Say(chunk) ==
    /\ dfPc = "speaking" /\ chunk # <<>> /\ SaidByModel + Len(chunk) <= MaxResponse
    /\ dfSaid' = dfSaid \o chunk /\ dfShipped' = dfShipped \o chunk
    /\ UNCHANGED <<dfStream, dfScripts, dfPc, dfCommand, dfHistory, dfCount, dfLines, dfSource, dfRecorded, dfLost>>

Noted(text) == dfLines' = dfLines \union (IF CheckFires(text) THEN {"fired"} ELSE {})

Closed(text) ==
    /\ Record(dfCommand, text)
    /\ dfSource' = "ai" /\ dfPc' = "ready"
    /\ UNCHANGED <<dfStream, dfScripts, dfCommand, dfSaid, dfShipped, dfLost>>

\* The stream is over: it is scanned, if too late to take it back.
Finish == dfPc = "speaking" /\ Noted(Capped(dfSaid)) /\ Closed(Capped(dfSaid))

\* The model fails, runs out of budget or exceeds the cap after something was said:
\* that part is scanned like a whole answer.
BreakOff == dfPc = "speaking" /\ dfSaid # <<>> /\ Noted(dfSaid) /\ Closed(dfSaid)

\* The lure goes away in the middle of a stream, whose generator is closed: the
\* command leaves no trace in the session.
Abandon ==
    /\ dfPc = "speaking" /\ dfLost' = TRUE /\ dfPc' = "ready"
    /\ UNCHANGED <<dfStream, dfScripts, dfCommand, dfSaid, dfHistory, dfCount, dfLines, dfShipped, dfSource, dfRecorded>>

\* The guard of handle_command and handle_command_stream: an error nobody expects
\* is told, and answered by script unless something of the model was sent.
GuardError ==
    /\ dfPc \in {"asked", "speaking"}
    /\ dfLines' = dfLines \union {"error"}
    /\ IF dfShipped = <<>>
       THEN dfShipped' = Scripted /\ dfSource' = ScriptSource
       ELSE dfSource' = "ai" /\ UNCHANGED dfShipped
    /\ dfPc' = "ready" /\ dfLost' = TRUE
    /\ UNCHANGED <<dfStream, dfScripts, dfCommand, dfSaid, dfHistory, dfCount, dfRecorded>>

DfNext ==
    \/ \E raw \in TextsOf(Typed, MaxTyped), isCd \in BOOLEAN : Take(raw, isCd)
    \/ \E content \in TextsOf(Spoken, MaxSpoken) : Reply(content) \/ Say(content)
    \/ Fail \/ SayFirst \/ Finish \/ BreakOff \/ Abandon \/ GuardError

DfSpec == DfInit /\ [][DfNext]_dfVars

-----------------------------------------------------------------------------
(* Properties. *)

DfAnswered == dfPc = "ready" /\ dfSource # "none" /\ ~dfLost

\* What has the pattern, in whatever disguise the scan undoes, does not pass
\* silently: the command in hand reaches the model only if its scan was cut, which
\* is told; a buffered answer with it is not shown, and one that was streamed, to
\* its end or to a failure, is told, as far as the scan reaches.
NothingPassesUntold ==
    /\ dfPc \in {"asked", "speaking"} /\ HasPattern(NormalForm(dfCommand)) => "injection truncated" \in dfLines
    /\ DfAnswered /\ dfSource = "ai" /\ HasPattern(NormalForm(dfShipped))
        /\ Len(NormalForm(dfShipped)) <= ScanCap /\ "p" \notin {dfShipped[i] : i \in DOMAIN dfShipped}
        => dfStream /\ "fired" \in dfLines

\* The session remembers what the attacker saw: the turn the next prompt is built
\* from is the command with the answer that was sent, less the white space at its
\* end and what a pre-message pushed past the cap; a scripted answer never follows
\* words of the model, and it is the scripted answer that is remembered.
HistoryIsWhatWasSaid ==
    /\ DfAnswered =>
        /\ dfRecorded \in {dfShipped, Stripped(dfShipped), Capped(dfShipped)}
        /\ DfWindow > 0 => dfHistory[Len(dfHistory)] = [command |-> dfCommand, response |-> dfRecorded]
        /\ "p" \notin {dfShipped[i] : i \in DOMAIN dfShipped} => dfRecorded \in {dfShipped, Stripped(dfShipped)}
    /\ \A i \in DOMAIN dfShipped : dfShipped[i] = "f" => dfShipped = <<"f">>

\* What the defenses let through, and what they leave in the history.
DefenseSound == NothingPassesUntold /\ HistoryIsWhatWasSaid
=============================================================================
