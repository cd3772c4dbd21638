----------------------------- MODULE LiveEvents -----------------------------
(***************************************************************************)
(* The dashboard's state facade, which stores and then publishes, and the  *)
(* web sockets that follow it: src/anglerfish/dashboard/state.py,          *)
(* websocket.py and narrator.py.                                           *)
(*                                                                         *)
(* One task writes, the tailer's; the narrator publishes beside it.  An    *)
(* event is its kind, its session and a number: the turns a snapshot has,  *)
(* the turn a command is.  A subscriber's queue drops its oldest event     *)
(* when it is full.  Who may subscribe is a matter of the routes.          *)
(***************************************************************************)
EXTENDS Integers, Sequences, SequencesExt

CONSTANTS
    Watched,    \* sessions with events
    Client,     \* browsers
    QueueSize,  \* _DEFAULT_SUBSCRIBER_QUEUE
    MaxLog,     \* bound: events published by one process
    MaxShown    \* bound: turns of a session

ASSUME EventsAssumption ==
    Watched # {} /\ QueueSize \in Nat \ {0} /\ MaxLog \in Nat /\ MaxShown \in Nat

VARIABLES
    rows,       \* turns stored of a session, -1 before its row
    log,        \* events published by this process, in order
    writer,     \* the tailer's task inside the facade
    narrator,   \* the narrator's task
    sub         \* [Client -> its handler, its queue, where in log it began]

evVars == <<rows, log, writer, narrator, sub>>

Event == {"started", "updated", "command", "ended", "intent", "narrated"}
            \X Watched \X (0..MaxShown)

Quiet == [at |-> "idle", s |-> CHOOSE s \in Watched : TRUE, had |-> -1, upto |-> 0, n |-> 0]
Silent == [at |-> "asleep", s |-> CHOOSE s \in Watched : TRUE]
Off == [at |-> "off", gone |-> FALSE, queue |-> << >>, from |-> 0, event |-> << >>]

EvTypeOK ==
    /\ rows \in [Watched -> -1..MaxShown]
    /\ log \in Seq(Event) /\ Len(log) <= MaxLog
    /\ writer \in [at : {"idle", "upsert", "turns", "announce", "commands", "end", "intent"},
                   s : Watched, had : -1..MaxShown, upto : 0..MaxShown, n : 0..MaxShown]
    /\ narrator \in [at : {"asleep", "chat"}, s : Watched]
    /\ \A c \in Client : /\ sub[c].at \in {"off", "wait", "send"}
                         /\ sub[c].queue \in Seq(Event) /\ Len(sub[c].queue) <= QueueSize

EvInit ==
    /\ rows = [s \in Watched |-> -1]
    /\ log = << >> /\ writer = Quiet /\ narrator = Silent
    /\ sub = [c \in Client |-> Off]

-----------------------------------------------------------------------------
(* publish: one event to every queue, in one step of the event loop. *)

\* A full queue loses its oldest event.
Put(queue, e) ==
    Append(IF Len(queue) < QueueSize THEN queue ELSE Tail(queue), e)

Publish(e) ==
    /\ Len(log) < MaxLog
    /\ log' = Append(log, e)
    /\ sub' = [c \in Client |-> IF sub[c].at = "off" THEN sub[c]
                                ELSE [sub[c] EXCEPT !.queue = Put(@, e)]]

Writing(at) == writer' = IF at = "idle" THEN Quiet ELSE [writer EXCEPT !.at = at]

-----------------------------------------------------------------------------
(* update_session, end_session and upsert_intent, called by the tailer. *)

\* The snapshot has what the accumulator has: the stored turns, or one more;
\* what is stored already is read first.
BeginUpdate(s, more) ==
    LET stored == IF rows[s] = -1 THEN 0 ELSE rows[s] IN
    /\ writer.at = "idle" /\ stored + more <= MaxShown
    /\ writer' = [at |-> "upsert", s |-> s, had |-> rows[s], upto |-> stored + more,
                  n |-> stored]
    /\ UNCHANGED <<rows, log, narrator, sub>>

UpsertRow ==
    /\ writer.at = "upsert"
    /\ rows' = [rows EXCEPT ![writer.s] = IF @ = -1 THEN 0 ELSE @]
    /\ Writing("turns")
    /\ UNCHANGED <<log, narrator, sub>>

\* record_turn of each turn the rows lack.
RecordTurns ==
    /\ writer.at = "turns"
    /\ IF rows[writer.s] < writer.upto
       THEN rows' = [rows EXCEPT ![writer.s] = @ + 1] /\ UNCHANGED writer
       ELSE Writing("announce") /\ UNCHANGED rows
    /\ UNCHANGED <<log, narrator, sub>>

Announce ==
    /\ writer.at = "announce"
    /\ Publish(<<IF writer.had = -1 THEN "started" ELSE "updated", writer.s, writer.upto>>)
    /\ Writing(IF writer.n < writer.upto THEN "commands" ELSE "idle")
    /\ UNCHANGED <<rows, narrator>>

\* One event for each turn that was added.
AnnounceCommand ==
    /\ writer.at = "commands"
    /\ Publish(<<"command", writer.s, writer.n + 1>>)
    /\ writer' = IF writer.n + 1 < writer.upto THEN [writer EXCEPT !.n = @ + 1] ELSE Quiet
    /\ UNCHANGED <<rows, narrator>>

\* A closed line of a session with no row does nothing; an intent line is stored
\* whatever there is.
BeginOther(s, at) ==
    /\ writer.at = "idle"
    /\ at = "end" => rows[s] # -1
    /\ writer' = [Quiet EXCEPT !.at = at, !.s = s]
    /\ UNCHANGED <<rows, log, narrator, sub>>

\* The session's row is ended, or its intent stored, and then published.
StoreOther ==
    /\ writer.at \in {"end", "intent"}
    /\ Publish(<<IF writer.at = "end" THEN "ended" ELSE "intent", writer.s, 0>>)
    /\ Writing("idle")
    /\ UNCHANGED <<rows, narrator>>

\* A statement of the store fails: the tailer will dispatch its batch again.
StoreFails ==
    /\ writer.at \in {"upsert", "turns", "end", "intent"}
    /\ Writing("idle")
    /\ UNCHANGED <<rows, log, narrator, sub>>

-----------------------------------------------------------------------------
(* The narrator's task. *)

\* A tick reads the active sessions and asks the model about each.
NarrateSession(s) ==
    /\ narrator.at = "asleep" /\ rows[s] # -1
    /\ narrator' = [at |-> "chat", s |-> s]
    /\ UNCHANGED <<rows, log, writer, sub>>

\* The model answered with something fit to show.
Narrate ==
    /\ narrator.at = "chat"
    /\ Publish(<<"narrated", narrator.s, 0>>)
    /\ narrator' = Silent
    /\ UNCHANGED <<rows, writer>>

\* It failed, its budget ran out, it broke the persona or said nothing.
NarrateNothing ==
    /\ narrator.at = "chat"
    /\ narrator' = Silent
    /\ UNCHANGED <<rows, log, writer, sub>>

-----------------------------------------------------------------------------
(* The web socket of a client. *)

Connect(c) ==
    /\ sub[c].at = "off" /\ ~sub[c].gone
    /\ sub' = [sub EXCEPT ![c] = [Off EXCEPT !.at = "wait", !.from = Len(log)]]
    /\ UNCHANGED <<rows, log, writer, narrator>>

\* queue.get of an event that is there.
Get(c) ==
    /\ sub[c].at = "wait" /\ sub[c].queue # << >>
    /\ sub' = [sub EXCEPT ![c] = [sub[c] EXCEPT !.at = "send", !.event = Head(sub[c].queue), !.queue = Tail(@)]]
    /\ UNCHANGED <<rows, log, writer, narrator>>

\* The event is sent; the handler of a client that is gone ends.
Send(c) ==
    /\ sub[c].at = "send"
    /\ sub' = [sub EXCEPT ![c] = IF sub[c].gone THEN Off
                                 ELSE [@ EXCEPT !.at = "wait", !.event = << >>]]
    /\ UNCHANGED <<rows, log, writer, narrator>>

\* Faulty variant of Ping: a ping that cannot be sent is passed over.
PingOnly(c) ==
    /\ sub[c].at = "wait" /\ sub[c].queue = << >>
    /\ UNCHANGED evVars

\* ping_interval_s without an event: the ping finds out whether the client is
\* still there.
Ping(c) ==
    /\ sub[c].at = "wait" /\ sub[c].queue = << >>
    /\ sub' = [sub EXCEPT ![c] = IF sub[c].gone THEN Off ELSE @]
    /\ UNCHANGED <<rows, log, writer, narrator>>

\* The client goes away without a word.
GoAway(c) ==
    /\ sub[c].at # "off" /\ ~sub[c].gone
    /\ sub' = [sub EXCEPT ![c].gone = TRUE]
    /\ UNCHANGED <<rows, log, writer, narrator>>

\* The dashboard dies or is stopped, and starts again.
Restart ==
    /\ log # << >>
    /\ log' = << >> /\ writer' = Quiet /\ narrator' = Silent
    /\ sub' = [c \in Client |-> Off]
    /\ UNCHANGED rows

EvNext ==
    \/ \E s \in Watched : \/ \E more \in {0, 1} : BeginUpdate(s, more)
                          \/ BeginOther(s, "end") \/ BeginOther(s, "intent")
                          \/ NarrateSession(s)
    \/ UpsertRow \/ RecordTurns \/ Announce \/ AnnounceCommand
    \/ StoreOther \/ StoreFails \/ Narrate \/ NarrateNothing \/ Restart
    \/ \E c \in Client : Connect(c) \/ Get(c) \/ Send(c) \/ Ping(c) \/ GoAway(c)

\* A handler's task is scheduled: its wait ends with an event or with a timeout.
EvFairness == \A c \in Client : WF_evVars(Get(c) \/ Send(c) \/ Ping(c))

EvSpec == EvInit /\ [][EvNext]_evVars /\ EvFairness

-----------------------------------------------------------------------------
(* Properties. *)

\* update_session stores before it publishes: whatever a client may be shown, in
\* its queue or on the wire, is in the rows already, so that a page that fetches
\* on an event finds what the event is about, also after a failure or a restart.
Shown(c) == {sub[c].queue[i] : i \in DOMAIN sub[c].queue}
                \union (IF sub[c].at = "send" THEN {sub[c].event} ELSE {})
RowsFirst ==
    \A c \in Client : \A e \in Shown(c) :
        e[1] \in {"started", "updated", "command", "ended"} => rows[e[2]] >= e[3]

\* publish drops the oldest event of a slow client and nothing else: a queue is
\* the newest part of what was published since the client came, in its order,
\* and what is being sent was published before all of it.
QueueIsSuffix ==
    \A c \in Client : sub[c].at # "off" =>
        LET since == SubSeq(log, sub[c].from + 1, Len(log))
            older == SubSeq(since, 1, Len(since) - Len(sub[c].queue)) IN
        /\ IsSuffix(sub[c].queue, since)
        /\ sub[c].at = "send" => Contains(older, sub[c].event)

\* The handler of a client that went away ends, by an event or by the ping, and
\* its queue leaves the set: subscribers do not pile up.
GoneIsForgotten == \A c \in Client : sub[c].gone ~> sub[c].at = "off"

\* What a browser is fed: no event ahead of its row, none out of turn.
FeedInOrder ==
    /\ EvTypeOK
    /\ RowsFirst
    /\ QueueIsSuffix

\* The feed of a browser while it is there, and what is left of it when it is gone.
FeedSound == []FeedInOrder /\ GoneIsForgotten
=============================================================================
