--------------------------- MODULE BridgeSessions ----------------------------
(***************************************************************************)
(* Sessions of the bridge: the map of SessionContexts of its HTTP app, the *)
(* per-session dicts of AIBridgeService, their eviction, and the commands  *)
(* whose handlers are suspended while sessions come and go.                *)
(*                                                                         *)
(* The lock of the app is never awaited for (nothing is awaited under it), *)
(* so a handler runs in one step from await to await.  The requests a lure *)
(* makes are part of the model: one command of a session at a time, unless *)
(* the lure gave up on the one before.                                     *)
(***************************************************************************)
EXTENDS Naturals, FiniteSets

CONSTANTS
    Session, Command,   \* bound: sessions and commands ever made
    Interrupts,         \* BOOLEAN: lures give up, handlers raise
    WastedCap,          \* session_wasted_ms_cap, in units
    MaxWaste,           \* bound: units one command adds
    None

ASSUME SessionsAssumption ==
    /\ Interrupts \in BOOLEAN
    /\ WastedCap \in Nat \ {0} /\ MaxWaste \in Nat
    /\ None \notin Session \union Nat

VARIABLES
    sessions,   \* the sessions map of the app
    phase,      \* how far the start of a session is
    state,      \* what the service keeps of each session
    count,      \* command_count of the SessionContexts
    pc,         \* where the handler of each command is suspended
    of,         \* the session of each command that was sent
    wastes,     \* running commands with a strategy that adds time
    abandoned,  \* commands whose lure stopped waiting, or that were cut short
    busyAtEnd,  \* history variable: sessions ended with a handler under way
    capAudits,  \* history variable: wasting_budget_exhausted lines
    intents,    \* history variable: intent extractions scheduled
    chain       \* history variable: clarifications in a row

taskVars == <<pc, of, wastes, abandoned>>
histVars == <<busyAtEnd, capAudits, intents, chain>>
vars == <<sessions, phase, state, count, taskVars, histVars>>

\* One entry of each dict of the service: _session_last_activity, _budgets,
\* _last_clarification, _wasted_ms, _wasted_exhausted, _source_ip_by_session,
\* _counter_deception_engaged_for.
NoState == [activity |-> "none", budget |-> FALSE, clarified |-> None, wasted |-> 0,
            exhausted |-> FALSE, sourceIp |-> FALSE, engaged |-> FALSE]

TypeOK ==
    /\ sessions \subseteq Session
    /\ phase \in [Session -> {"new", "pin", "open"}]
    /\ state \in [Session ->
         [activity : {"none", "fresh", "idle"}, budget : BOOLEAN,
          clarified : Nat \union {None}, wasted : Nat, exhausted : BOOLEAN,
          sourceIp : BOOLEAN, engaged : BOOLEAN]]
    /\ count \in [Session -> Nat]
    /\ pc \in [Command -> {"new", "classify", "run", "done"}]
    /\ of \in [Command -> Session \union {None}]
    /\ wastes \subseteq Command
    /\ abandoned \subseteq Command
    /\ busyAtEnd \subseteq Session
    /\ capAudits \in [Session -> Nat] /\ intents \in [Session -> Nat]
    /\ chain \in [Session -> Nat]

Init ==
    /\ sessions = {}
    /\ phase = [s \in Session |-> "new"]
    /\ state = [s \in Session |-> NoState]
    /\ count = [s \in Session |-> 0]
    /\ pc = [c \in Command |-> "new"]
    /\ of = [c \in Command |-> None]
    /\ wastes = {} /\ abandoned = {}
    /\ busyAtEnd = {}
    /\ capAudits = [s \in Session |-> 0]
    /\ intents = [s \in Session |-> 0]
    /\ chain = [s \in Session |-> 0]

\* Handlers of session s that are suspended.
InFlight(s) == {c \in Command : of[c] = s /\ pc[c] \in {"classify", "run"}}

Goto(c, w) == pc' = [pc EXCEPT ![c] = w]

-----------------------------------------------------------------------------
(* The service's bookkeeping. *)

\* Faulty variant of Dropped: the budget survives.
DroppedButBudget(S) ==
    [s \in Session |-> IF s \in S THEN [NoState EXCEPT !.budget = state[s].budget]
                                  ELSE state[s]]

\* end_session_budget, for each session of S.
Dropped(S) == [s \in Session |-> IF s \in S THEN NoState ELSE state[s]]

\* Sessions whose last activity is older than session_idle_eviction_s.
Stale == {s \in Session : state[s].activity = "idle"}

Ended(S) ==
    busyAtEnd' = busyAtEnd \union {s \in S : InFlight(s) # {} \/ phase[s] = "pin"}

\* Faulty variant of Accumulated: the cap is compared with one command's time.
AccumulatedAlone(k, waste) ==
    [k EXCEPT !.wasted = @ + waste, !.exhausted = @ \/ waste >= WastedCap]

\* _accumulate_wasted_ms.
Accumulated(k, waste) ==
    [k EXCEPT !.wasted = @ + waste,
              !.exhausted = @ \/ (waste > 0 /\ k.wasted + waste >= WastedCap)]

\* Time passes and no request of session s comes.
Idle(s) ==
    /\ state[s].activity = "fresh"
    /\ state' = [state EXCEPT ![s].activity = "idle"]
    /\ UNCHANGED <<sessions, phase, count, taskVars, histVars>>

-----------------------------------------------------------------------------
(* POST /session and DELETE /session/{id}. *)

\* start_session up to the await of the counter-deception pin.
StartSession(s) ==
    /\ phase[s] = "new"
    /\ phase' = [phase EXCEPT ![s] = "pin"]
    /\ sessions' = sessions \union {s}
    /\ state' = [state EXCEPT ![s] = [@ EXCEPT !.sourceIp = TRUE, !.activity = "fresh"]]
    /\ UNCHANGED <<count, taskVars, histVars>>

\* The pin was read, and applied if there is one; the lure learns the id.
ApplyPin(s) ==
    /\ phase[s] = "pin"
    /\ phase' = [phase EXCEPT ![s] = "open"]
    /\ \E pinned \in BOOLEAN :
        state' = [state EXCEPT ![s].engaged = @ \/ pinned]
    /\ UNCHANGED <<sessions, count, taskVars, histVars>>

\* Faulty variant of EndSession: repeated requests are analysed again.
EndSessionAlways(s) ==
    /\ phase[s] = "open"
    /\ intents[s] < 2
    /\ sessions' = sessions \ {s}
    /\ state' = Dropped({s})
    /\ Ended(sessions \intersect {s})
    /\ intents' = [intents EXCEPT ![s] = @ + 1]
    /\ UNCHANGED <<phase, count, taskVars, capAudits, chain>>

\* end_session: the turns are analysed only while the session is in the map.
EndSession(s) ==
    /\ phase[s] = "open"
    /\ sessions' = sessions \ {s}
    /\ state' = Dropped({s})
    /\ Ended(sessions \intersect {s})
    /\ intents' = [intents EXCEPT ![s] = @ + IF s \in sessions THEN 1 ELSE 0]
    /\ UNCHANGED <<phase, count, taskVars, capAudits, chain>>

-----------------------------------------------------------------------------
(* POST /session/{id}/command. *)

\* The lure sends one command of a session after the other.
MaySend(c, s) ==
    /\ pc[c] = "new" /\ phase[s] = "open"
    /\ InFlight(s) \subseteq abandoned

\* Faulty variant of Receive: the contexts of evicted sessions stay in the map.
ReceiveKeepsContexts(c, s) ==
    /\ MaySend(c, s)
    /\ of' = [of EXCEPT ![c] = s]
    /\ Ended(Stale)
    /\ IF s \in sessions
       THEN /\ state' = [Dropped(Stale) EXCEPT ![s].activity = "fresh"]
            /\ Goto(c, "classify")
       ELSE /\ state' = Dropped(Stale)
            /\ Goto(c, "done")
    /\ UNCHANGED <<sessions, phase, count, wastes, abandoned,
                   capAudits, intents, chain>>

\* handle_command of the app up to the await of the classifier: idle sessions
\* are evicted first, the sender's own among them; an unknown id is a 404.
Receive(c, s) ==
    /\ MaySend(c, s)
    /\ of' = [of EXCEPT ![c] = s]
    /\ sessions' = sessions \ Stale
    /\ Ended(Stale)
    /\ IF s \in sessions \ Stale
       THEN /\ state' = [Dropped(Stale) EXCEPT ![s].activity = "fresh"]
            /\ Goto(c, "classify")
       ELSE /\ state' = Dropped(Stale)
            /\ Goto(c, "done")
    /\ UNCHANGED <<phase, count, wastes, abandoned,
                   capAudits, intents, chain>>

\* A command answered without the model: empty, cd, or flagged as an injection.
AnswerDirectly(c) ==
    /\ pc[c] = "classify"
    /\ Goto(c, "done")
    /\ count' = [count EXCEPT ![of[c]] = @ + 1]
    /\ chain' = [chain EXCEPT ![of[c]] = 0]
    /\ UNCHANGED <<sessions, phase, state, of, wastes, abandoned,
                   busyAtEnd, capAudits, intents>>

\* Faulty variant of MayClarify: the command count is not compared.
MayClarifyAlways(s) == TRUE

\* _should_inject_clarification, when the dice ask for one.
MayClarify(s) == state[s].clarified # None => state[s].clarified + 1 # count[s]

\* A command's entries: its budget, and the question, put at the n-th command.
Budgeted(k, asks, n) ==
    [k EXCEPT !.budget = TRUE, !.clarified = IF asks THEN n ELSE @]

\* Up to the first await of the model: the budget is created if need be, and a
\* streamed command gets its strategy, which the operator may change between
\* any two commands; an exhausted session has the one that does nothing, and a
\* buffered command is as good as one with it.
Begin(c) ==
    LET s == of[c] IN
    /\ pc[c] = "classify"
    /\ Goto(c, "run")
    /\ \E strategy \in {"off", "light", "aggressive"}, asks \in BOOLEAN :
        /\ asks => strategy = "aggressive" /\ MayClarify(s)
        /\ strategy # "off" => ~state[s].exhausted
        /\ state' = [state EXCEPT ![s] = Budgeted(@, asks, count[s])]
        /\ wastes' = IF strategy # "off" THEN wastes \union {c} ELSE wastes
        /\ chain' = [chain EXCEPT ![s] = IF asks THEN @ + 1 ELSE 0]
    /\ UNCHANGED <<sessions, phase, count, of, abandoned, busyAtEnd, capAudits,
                   intents>>

\* The answer is complete, from the model or scripted: time is accounted for and
\* the turn recorded.
Finish(c) ==
    LET s == of[c] IN
    /\ pc[c] = "run"
    /\ Goto(c, "done")
    /\ \E waste \in 0..MaxWaste :
        LET after == Accumulated(state[s], waste)
        IN  /\ waste > 0 => c \in wastes
            /\ state' = [state EXCEPT ![s] = after]
            /\ capAudits' = [capAudits EXCEPT
                 ![s] = @ + IF after.exhausted /\ ~state[s].exhausted THEN 1 ELSE 0]
    /\ count' = [count EXCEPT ![s] = @ + 1]
    /\ wastes' = wastes \ {c}
    /\ UNCHANGED <<sessions, phase, of, abandoned, busyAtEnd, intents, chain>>

\* The lure's HTTP client times out and serves its own fallback.
GiveUp(c) ==
    /\ Interrupts
    /\ pc[c] \in {"classify", "run"}
    /\ abandoned' = abandoned \union {c}
    /\ UNCHANGED <<sessions, phase, state, count, pc, of, wastes, histVars>>

\* A stream nobody reads is cancelled, or the handler raises: the time is not
\* accounted for and no turn is recorded.  A buffered handler is not cancelled.
Interrupt(c) ==
    /\ Interrupts
    /\ pc[c] = "run"
    /\ Goto(c, "done")
    /\ wastes' = wastes \ {c}
    /\ abandoned' = abandoned \union {c}
    /\ UNCHANGED <<sessions, phase, state, count, of, histVars>>

-----------------------------------------------------------------------------
Next ==
    \/ \E s \in Session :
        \/ StartSession(s) \/ ApplyPin(s) \/ EndSession(s) \/ Idle(s)
        \/ \E c \in Command : Receive(c, s)
    \/ \E c \in Command :
        \/ AnswerDirectly(c) \/ Begin(c) \/ Finish(c) \/ GiveUp(c) \/ Interrupt(c)

Spec == Init /\ [][Next]_vars

-----------------------------------------------------------------------------
(* Properties. *)

\* The app's map and the service's activity dict hold the same sessions, whatever
\* starts, ends, evictions and handlers under way are interleaved: otherwise a
\* context is never evicted, or a session that is served has no deadline.
LockStep == sessions = {s \in Session : state[s].activity # "none"}

\* While a session lives, its total reaches the cap exactly when it is marked
\* exhausted, and exactly one audit line tells of it.
CapStops ==
    \A s \in sessions :
        /\ state[s].exhausted <=> state[s].wasted >= WastedCap
        /\ capAudits[s] = IF state[s].exhausted THEN 1 ELSE 0

\* A session that ended with no handler of it under way leaves nothing behind,
\* then or later.
DrainedWhenQuiet ==
    \A s \in Session \ (sessions \union busyAtEnd) : state[s] = NoState

\* A session is analysed at most once and not before it ended, however often the
\* lure asks to end it.
AnalysedOnce ==
    \A s \in Session : intents[s] <= IF s \in sessions THEN 0 ELSE 1

\* The command after a clarification runs normally, so that an attacker is not
\* asked back again and again: unless the lure gave up on a command of the
\* session or one was cut short, whose clarification command_count does not tell.
OneClarificationPerChain ==
    \A s \in sessions : chain[s] <= 1 \/ \E c \in abandoned : of[c] = s

=============================================================================
