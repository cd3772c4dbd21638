--------------------------- MODULE AttackerMemory ----------------------------
(***************************************************************************)
(* What Anglerfish remembers of a source address from one session to the   *)
(* next: the persona, the persistence the attacker installed, and the      *)
(* files that are garbled for it.                                          *)
(*                                                                         *)
(* The bridge learns of the past by reading the dashboard's database while *)
(* it starts a session, one query after the other; what happens now it     *)
(* writes to the audit log, which the dashboard's tailer turns into rows.  *)
(* Operators change pins in between.  Only the garbled paths live in the   *)
(* bridge itself.                                                          *)
(*                                                                         *)
(* Of the log only the lines the tailer turns into rows are kept; it has   *)
(* no handler for bridge.persona_selected, nor for its own                 *)
(* bridge.cluster_match and bridge.persona_rebound.  A line is whole or    *)
(* not there, the log is not rotated, and opened lines come first: the     *)
(* other cases are those of module AuditTailer.                            *)
(***************************************************************************)
EXTENDS Naturals, Sequences, FiniteSets

CONSTANTS
    Ip, Session,    \* bound: sessions ever started
    Persona,
    Fallback,       \* _hash_select: a persona per address
    None, NoRow,
    Mode,           \* pinned modes: "off", "timebomb", "garble" ("both" garbles too)
    MaxCommands,    \* bound: commands the classifier looks at
    MaxPins,        \* bound: changes of pins by operators
    MaxRestarts     \* bound: restarts of the bridge and of the dashboard

ASSUME MemoryAssumption ==
    /\ Fallback \in [Ip -> Persona]
    /\ None \notin Persona \union Mode \union Ip /\ NoRow \notin Persona \union {None}
    /\ Mode \subseteq {"off", "timebomb", "garble"}
    /\ MaxCommands \in Nat /\ MaxPins \in Nat /\ MaxRestarts \in Nat

VARIABLES
    pc,         \* where each session is
    ip,         \* its source address
    persona,    \* the persona the bridge gave it
    known,      \* installs its prompts show, as lines of the log
    mode,       \* the counter-deception pin it was started under
    garbled,    \* sessions whose lure was told to garble files
    busy,       \* commands whose classifier is asked
    looked,     \* how many commands the classifier was ever asked about
    paths,      \* addresses in _counter_deception_paths_by_source_ip
    log,        \* the audit log
    rows,       \* persona column of the sessions table
    installs,   \* fake_persistence_state, as lines of the log
    embedded,   \* sessions in the embeddings table
    taken,      \* lines the tailer dispatched
    saved,      \* the offset in its cache
    matching,   \* the embedding of the line in hand is stored
    personaPin, modePin, \* persona_pins and counter_deception_pins
    changes, restarts

sessionVars == <<pc, ip, persona, known, mode, garbled, busy, looked>>
bridgeVars == <<sessionVars, paths>>
storeVars == <<rows, installs, embedded>>
tailerVars == <<storeVars, taken, saved, matching>>
pinVars == <<personaPin, modePin, changes>>
vars == <<bridgeVars, log, tailerVars, pinVars, restarts>>

Where == {"new", "pin", "recurrence", "events", "mode", "ready", "open", "ended",
          "embedded", "gone"}
Lines == [kind : {"opened", "install", "embedding"}, sid : Session]

TypeOK ==
    /\ pc \in [Session -> Where] /\ ip \in [Session -> Ip]
    /\ persona \in [Session -> Persona \union {None}]
    /\ known \in [Session -> Seq(Nat)]
    /\ mode \in [Session -> Mode \union {None}]
    /\ garbled \subseteq Session /\ paths \subseteq Ip
    /\ busy \in [Session -> 0..MaxCommands] /\ looked \in 0..MaxCommands
    /\ log \in Seq(Lines)
    /\ rows \in [Session -> Persona \union {None, NoRow}]
    /\ installs \in Seq(DOMAIN log) /\ embedded \subseteq Session
    /\ taken \in 0..Len(log) /\ saved \in 0..Len(log) /\ matching \in BOOLEAN
    /\ personaPin \in [Ip -> Persona \union {None}] /\ modePin \in [Ip -> Mode \union {None}]
    /\ changes \in 0..MaxPins /\ restarts \in 0..MaxRestarts

Init ==
    /\ pc = [s \in Session |-> "new"] /\ ip \in [Session -> Ip]
    /\ persona = [s \in Session |-> None]
    /\ known = [s \in Session |-> <<>>]
    /\ mode = [s \in Session |-> None]
    /\ garbled = {} /\ paths = {}
    /\ busy = [s \in Session |-> 0] /\ looked = 0
    /\ log = <<>>
    /\ rows = [s \in Session |-> NoRow]
    /\ installs = <<>> /\ embedded = {}
    /\ taken = 0 /\ saved = 0 /\ matching = FALSE
    /\ personaPin = [i \in Ip |-> None] /\ modePin = [i \in Ip |-> None]
    /\ changes = 0 /\ restarts = 0

Goto(s, w) == pc' = [pc EXCEPT ![s] = w]
Write(k, s) == log' = Append(log, [kind |-> k, sid |-> s])

-----------------------------------------------------------------------------
(* The bridge starts a session: select_persona, load_persistence, the pin.   *)

\* POST /session of an address.
StartSession(s) ==
    /\ pc[s] = "new"
    /\ Goto(s, "pin")
    /\ UNCHANGED <<ip, persona, known, mode, garbled, busy, looked, paths, log, tailerVars,
                   pinVars, restarts>>

\* An operator's pin decides; without one the store is asked again.
ReadPin(s) ==
    /\ pc[s] = "pin"
    /\ persona' = [persona EXCEPT ![s] = personaPin[ip[s]]]
    /\ Goto(s, IF personaPin[ip[s]] = None THEN "recurrence" ELSE "events")
    /\ UNCHANGED <<ip, known, mode, garbled, busy, looked, paths, log, tailerVars, pinVars,
                   restarts>>

\* recent_persona_for_source_ip: of the sessions of the address with a persona in
\* their row, the one whose opened line is the newest.
Remembered(i) == {t \in Session : ip[t] = i /\ rows[t] \in Persona}
OpenedAt(t) == CHOOSE n \in DOMAIN log : log[n] = [kind |-> "opened", sid |-> t]
Newest(T) == CHOOSE t \in T : \A u \in T : OpenedAt(u) <= OpenedAt(t)

\* The third signal, when the first two say nothing, is the hash of the address.
Choice(i) == IF Remembered(i) = {} THEN Fallback[i] ELSE rows[Newest(Remembered(i))]

ReadRecurrence(s) ==
    /\ pc[s] = "recurrence"
    /\ persona' = [persona EXCEPT ![s] = Choice(ip[s])]
    /\ Goto(s, "events")
    /\ UNCHANGED <<ip, known, mode, garbled, busy, looked, paths, log, tailerVars, pinVars,
                   restarts>>

Increasing(q) == \A i, j \in DOMAIN q : i < j => q[i] < q[j]

\* The rows of an address, by created_at.
InstallsOf(i) ==
    LET own == {n \in {installs[m] : m \in DOMAIN installs} : ip[log[n].sid] = i}
    IN  CHOOSE q \in [1..Cardinality(own) -> own] : Increasing(q)

\* The context is made with what the store has now.
ReadEvents(s) ==
    /\ pc[s] = "events"
    /\ known' = [known EXCEPT ![s] = InstallsOf(ip[s])]
    /\ Goto(s, "mode")
    /\ UNCHANGED <<ip, persona, mode, garbled, busy, looked, paths, log, tailerVars, pinVars,
                   restarts>>

\* The pin is applied, and the lure is told the paths kept for the address.
ReadMode(s) ==
    LET m == modePin[ip[s]]
        now == IF m = "garble" THEN paths \union {ip[s]} ELSE paths
    IN  /\ pc[s] = "mode"
        /\ mode' = [mode EXCEPT ![s] = m]
        /\ paths' = now
        /\ garbled' = IF ip[s] \in now THEN garbled \union {s} ELSE garbled
        /\ Goto(s, "ready")
        /\ UNCHANGED <<ip, persona, known, busy, looked, log, tailerVars, pinVars, restarts>>

\* The lure has its answer and announces the session.
Opened(s) ==
    /\ pc[s] = "ready"
    /\ Goto(s, "open")
    /\ Write("opened", s)
    /\ UNCHANGED <<ip, persona, known, mode, garbled, busy, looked, paths, tailerVars, pinVars,
                   restarts>>

-----------------------------------------------------------------------------
(* classify_command, and the end of a session. *)

\* A command waits for the classifier.
Classify(s) ==
    /\ pc[s] = "open" /\ looked < MaxCommands
    /\ busy' = [busy EXCEPT ![s] = @ + 1]
    /\ looked' = looked + 1
    /\ UNCHANGED <<pc, ip, persona, known, mode, garbled, paths, log, tailerVars, pinVars,
                   restarts>>

Answered(s) ==
    /\ busy[s] > 0
    /\ busy' = [busy EXCEPT ![s] = @ - 1]
    /\ UNCHANGED <<pc, ip, persona, mode, garbled, looked, paths, tailerVars, pinVars, restarts>>

\* Faulty variant of Installs: the line is written, the session is not told.
InstallsUntold(s) == Answered(s) /\ Write("install", s) /\ UNCHANGED known

\* The command installs persistence: the session and the log are told at once.
Installs(s) ==
    /\ Answered(s)
    /\ Write("install", s)
    /\ known' = [known EXCEPT ![s] = Append(@, Len(log'))]

\* It does not, was flagged as an injection, or the classifier failed.
InstallsNothing(s) == Answered(s) /\ UNCHANGED <<log, known>>

\* DELETE /session, whatever handlers are still waiting.
EndSession(s) ==
    /\ pc[s] = "open"
    /\ Goto(s, "ended")
    /\ UNCHANGED <<ip, persona, known, mode, garbled, busy, looked, paths, log, tailerVars,
                   pinVars, restarts>>

\* _run_embedding_generation has its vector; it may also fail or be skipped.
Embeds(s) ==
    /\ pc[s] = "ended"
    /\ Goto(s, "embedded")
    /\ Write("embedding", s)
    /\ UNCHANGED <<ip, persona, known, mode, garbled, busy, looked, paths, tailerVars, pinVars,
                   restarts>>

-----------------------------------------------------------------------------
(* The tailer. *)

line == log[taken + 1]
sid == line.sid
At(k) == taken < Len(log) /\ line.kind = k /\ ~matching

Taken == taken' = taken + 1 /\ UNCHANGED <<bridgeVars, log, saved, pinVars, restarts>>

\* The snapshot of an opened line names no persona, and upsert_session writes
\* the persona of the snapshot over the one in the row.
HandleOpened ==
    /\ At("opened")
    /\ rows' = [rows EXCEPT ![sid] = None]
    /\ Taken
    /\ UNCHANGED <<installs, embedded, matching>>

\* INSERT OR IGNORE: created_at is the line's own, so a replay finds its row.
HandleInstall ==
    /\ At("install")
    /\ installs' = IF \E i \in DOMAIN installs : installs[i] = taken + 1
                   THEN installs ELSE Append(installs, taken + 1)
    /\ Taken
    /\ UNCHANGED <<rows, embedded, matching>>

\* upsert_embedding.
HandleEmbedding ==
    /\ At("embedding")
    /\ embedded' = embedded \union {sid}
    /\ matching' = TRUE
    /\ UNCHANGED <<bridgeVars, log, rows, installs, taken, saved, pinVars, restarts>>

\* find_similar finds a neighbour above the bias threshold, or none; a
\* neighbour with another persona passes its persona on.
RebindPersona ==
    /\ matching
    /\ \E n \in (embedded \ {sid}) \union {sid} :
        rows' = IF n = sid \/ rows[sid] = NoRow \/ rows[n] \in {None, NoRow, rows[sid]}
                THEN rows ELSE [rows EXCEPT ![sid] = rows[n]]
    /\ matching' = FALSE
    /\ Taken
    /\ UNCHANGED <<installs, embedded>>

SaveOffset ==
    /\ ~matching /\ saved # taken
    /\ saved' = taken
    /\ UNCHANGED <<bridgeVars, log, storeVars, taken, matching, pinVars, restarts>>

-----------------------------------------------------------------------------
(* Operators and restarts. *)

\* POST and DELETE of a persona pin.
PinPersona(i, p) ==
    /\ changes < MaxPins /\ personaPin[i] # p
    /\ changes' = changes + 1
    /\ personaPin' = [personaPin EXCEPT ![i] = p]
    /\ UNCHANGED <<bridgeVars, log, tailerVars, modePin, restarts>>

\* POST and DELETE of a counter-deception pin.
PinMode(i, m) ==
    /\ changes < MaxPins /\ modePin[i] # m
    /\ changes' = changes + 1
    /\ modePin' = [modePin EXCEPT ![i] = m]
    /\ UNCHANGED <<bridgeVars, log, tailerVars, personaPin, restarts>>

\* The sessions of a bridge that restarts are unknown to the next one.
RestartBridge ==
    /\ restarts < MaxRestarts
    /\ restarts' = restarts + 1
    /\ pc' = [s \in Session |-> IF pc[s] = "new" THEN "new" ELSE "gone"]
    /\ busy' = [s \in Session |-> 0]
    /\ paths' = {}
    /\ UNCHANGED <<ip, persona, known, mode, garbled, looked, log, tailerVars, pinVars>>

\* The tailer starts again from the offset in its cache, or from the start of the
\* log when the cache cannot be read.
RestartDashboard ==
    /\ restarts < MaxRestarts
    /\ restarts' = restarts + 1
    /\ taken' \in {saved, 0} /\ matching' = FALSE
    /\ UNCHANGED <<bridgeVars, log, storeVars, saved, pinVars>>

-----------------------------------------------------------------------------
Next ==
    \/ \E s \in Session :
        \/ StartSession(s) \/ ReadPin(s) \/ ReadRecurrence(s) \/ ReadEvents(s)
        \/ ReadMode(s) \/ Opened(s)
        \/ Classify(s) \/ Installs(s) \/ InstallsNothing(s)
        \/ EndSession(s) \/ Embeds(s)
    \/ HandleOpened \/ HandleInstall \/ HandleEmbedding \/ RebindPersona \/ SaveOffset
    \/ \E i \in Ip :
        \/ \E p \in Persona \union {None} : PinPersona(i, p)
        \/ \E m \in Mode \union {None} : PinMode(i, m)
    \/ RestartBridge \/ RestartDashboard

Spec == Init /\ [][Next]_vars

-----------------------------------------------------------------------------
(* Properties. *)

Occurs(n, q) == \E i \in DOMAIN q : q[i] = n
InstallLines(i) == {n \in DOMAIN log : log[n].kind = "install" /\ ip[log[n].sid] = i}

\* The table of installs has each install line once and in the order of the log,
\* and none of those the saved offset is past is missing, however often the
\* dashboard dies and reads lines again (schema.py, the index idx_fps_dedup).
InstallsOnceInOrder ==
    /\ Increasing(installs)
    /\ \A n \in 1..saved : log[n].kind = "install" => Occurs(n, installs)

\* A session's prompts show installs of its own address only, oldest first, each
\* once, and all that its own commands made: what came from the store and what
\* came from commands under way at once neither overlap nor cross.
KnownInOrder ==
    \A s \in Session :
        /\ Increasing(known[s])
        /\ \A i \in DOMAIN known[s] : known[s][i] \in InstallLines(ip[s])
        /\ \A n \in InstallLines(ip[s]) : log[n].sid = s => Occurs(n, known[s])

\* Installs, from the line to the table and to the next prompt.
InstallsTold ==
    /\ TypeOK
    /\ InstallsOnceInOrder
    /\ KnownInOrder

\* The sessions of an address whose rows the tailer has written.
Met(i) == {t \in Session : ip[t] = i /\ rows[t] # NoRow /\ persona[t] # None}

\* An address that comes back without a pin gets the persona of its last session,
\* or the one a rebound gave that session since (selector.py:12-18, audit_tailer.py
\* :523-530).  It does not: no line tells the tailer which persona was selected, so
\* the column stays NULL and the choice falls to the hash.
StickyPersona ==
    \A s \in Session : LET last == Newest(Met(ip[s])) IN
        pc[s] = "recurrence" /\ Met(ip[s]) # {} =>
            Choice(ip[s]) \in {persona[last], rows[last]}
=============================================================================
