---------------------------- MODULE DecoyTokens -----------------------------
(***************************************************************************)
(* Baits and what becomes of them.  A threat assessment above the          *)
(* thresholds makes the bridge place a pair of honeytokens for the         *)
(* session and engage its counter-deception; the tailer registers the      *)
(* audited tokens; the next sessions of the address are served them; the   *)
(* callback receiver, a process of its own, is called with them and looks  *)
(* them up.                                                                *)
(*                                                                         *)
(* record_threat_assessment is the entry for a threat engine that nothing  *)
(* in src/ starts yet: who calls it, and when, is left open.  A token is   *)
(* the number of its bridge.honeytoken_placed line; the random ids do not  *)
(* collide.                                                                *)
(***************************************************************************)
EXTENDS Integers, SequencesExt

CONSTANTS
    MaxVisits,          \* bound: sessions, numbered as they start
    Address, Came,      \* where they may come from: addresses, and the tuples of one address for each session
    PinOf,              \* the operator's pin of an address: "none", "off" or "garble"
    MaxAssessed,        \* bound: threat assessments
    MaxReread           \* bound: restarts of the dashboard

Kind == <<"aws", "ssh_key">>

ASSUME DecoyAssumption ==
    /\ PinOf \in [Address -> {"none", "off", "garble"}]
    /\ Came \subseteq [1..MaxVisits -> Address]
    /\ MaxVisits \in Nat /\ MaxAssessed \in Nat /\ MaxReread \in Nat

Visit == 1..MaxVisits

VARIABLES
    dtIp,           \* session: its address
    dtAt,           \* session: new, known, open or ended
    dtServed,       \* session: the token its overlay has at the path of each kind, 0 for none
    dtSeen,         \* history variable, session: the tokens registered when it was started
    dtPlacedFor,    \* _honeytoken_placed_for
    dtTasks,        \* sessions whose placement task is to run
    dtEngaged,      \* _counter_deception_engaged_for
    dtGarbles,      \* sessions with a counter-deception state
    dtEarly,        \* history variable: sessions assessed before their pin was applied, or when they were gone
    dtAssessed,     \* assessments so far
    dtLog,          \* bridge.honeytoken_placed lines
    dtRows,         \* honeytokens table: token -> row
    dtTaken, dtReread       \* the tailer's place, and its restarts

dtSession == <<dtIp, dtAt, dtServed, dtSeen>>
dtThreat == <<dtPlacedFor, dtTasks, dtEngaged, dtGarbles, dtEarly, dtAssessed>>
dtTable == <<dtRows, dtTaken, dtReread>>
dtVars == <<dtSession, dtThreat, dtLog, dtTable>>

NoToken == 0
NoRowYet == [kind |-> "none", ip |-> "none", sid |-> 0]

DtInit ==
    /\ dtIp \in Came
    /\ dtAt = [s \in Visit |-> "new"]
    /\ dtServed = [s \in Visit |-> [k \in Range(Kind) |-> NoToken]]
    /\ dtSeen = [s \in Visit |-> {}]
    /\ dtPlacedFor = {} /\ dtTasks = {} /\ dtEngaged = {} /\ dtGarbles = {} /\ dtEarly = {} /\ dtAssessed = 0
    /\ dtLog = <<>>
    /\ dtRows = <<>> /\ dtTaken = 0 /\ dtReread = 0

-----------------------------------------------------------------------------
(* The bridge starts a session. *)

\* list_honeytokens_for_source_ip
TokensOf(ip) == {t \in DOMAIN dtRows : dtRows[t].ip = ip}

\* Faulty variant of Overlay: a path that is taken stays as it is.
OverlayKept(tokens) ==
    [k \in Range(Kind) |->
        LET mine == {t \in tokens : dtRows[t].kind = k}
        IN  IF mine = {} THEN NoToken ELSE Min(mine)]

\* Each kind has its path.  The list is oldest first and a later token is written over an earlier one.
Overlay(tokens) ==
    [k \in Range(Kind) |->
        LET mine == {t \in tokens : dtRows[t].kind = k}
        IN  IF mine = {} THEN NoToken ELSE Max(mine)]

\* The tokens are listed, the context is made and record_session_source_ip called; then the pin is awaited.
ListTokens(s) ==
    /\ dtAt[s] = "new" /\ \A v \in 1..(s - 1) : dtAt[v] # "new"
    /\ dtAt' = [dtAt EXCEPT ![s] = "known"]
    /\ dtServed' = [dtServed EXCEPT ![s] = Overlay(TokensOf(dtIp[s]))]
    /\ dtSeen' = [dtSeen EXCEPT ![s] = DOMAIN dtRows]
    /\ UNCHANGED <<dtIp, dtThreat, dtLog, dtTable>>

\* _source_ip_for
HasAddress(s) == dtAt[s] \in {"known", "open"}

\* state_for_mode: off has no state.
StateFor(mode) == mode # "off"

\* A pin marks the session, whichever its mode, unless an assessment was first.
ApplyPin(s) ==
    LET mode == PinOf[dtIp[s]] IN
    /\ dtAt[s] = "known"
    /\ dtAt' = [dtAt EXCEPT ![s] = "open"]
    /\ IF mode = "none" \/ s \in dtEngaged THEN UNCHANGED <<dtEngaged, dtGarbles>>
       ELSE /\ dtEngaged' = dtEngaged \union {s}
            /\ dtGarbles' = IF StateFor(mode) THEN dtGarbles \union {s} ELSE dtGarbles
    /\ UNCHANGED <<dtIp, dtServed, dtSeen, dtPlacedFor, dtTasks, dtEarly, dtAssessed, dtLog, dtTable>>

-----------------------------------------------------------------------------
(* record_threat_assessment, for a session that may be open, gone or not there yet. *)

\* _maybe_schedule_honeytoken_placement
MayPlace(s, score) == score = "high" /\ s \notin dtPlacedFor /\ HasAddress(s)

\* engage_counter_deception does not ask whether the session is there.
MayEngage(s, score) == score \in {"middle", "high"} /\ s \notin dtEngaged

AssessThreat(s, score) ==
    /\ dtAssessed < MaxAssessed
    /\ dtAssessed' = dtAssessed + 1
    /\ IF MayPlace(s, score)
       THEN dtPlacedFor' = dtPlacedFor \union {s} /\ dtTasks' = dtTasks \union {s}
       ELSE UNCHANGED <<dtPlacedFor, dtTasks>>
    /\ IF MayEngage(s, score)
       THEN dtEngaged' = dtEngaged \union {s} /\ dtGarbles' = dtGarbles \union {s}
       ELSE UNCHANGED <<dtEngaged, dtGarbles>>
    /\ dtEarly' = IF dtAt[s] = "open" THEN dtEarly ELSE dtEarly \union {s}
    /\ UNCHANGED <<dtSession, dtLog, dtTable>>

\* generate_aws and generate_ssh: a token for the address and the session, at the path of its kind.
NewToken(s, k) == [kind |-> k, ip |-> dtIp[s], sid |-> s]

\* _run_placement never awaits.  Either generator may fail, which leaves an error line, and a line may be lost to a full disk.
\* With no line at all it is also the task that a bridge takes along when it stops.
Place(s, made) ==
    /\ s \in dtTasks
    /\ dtTasks' = dtTasks \ {s}
    /\ dtLog' = dtLog \o [i \in DOMAIN made |-> NewToken(s, made[i])]
    /\ UNCHANGED <<dtSession, dtPlacedFor, dtEngaged, dtGarbles, dtEarly, dtAssessed, dtTable>>

\* end_session_budget, for a DELETE or an eviction: the session is a stranger from then on.  Its task runs all the same.
EndSessionBudget(s) ==
    /\ dtAt[s] = "open"
    /\ dtAt' = [dtAt EXCEPT ![s] = "ended"]
    /\ dtPlacedFor' = dtPlacedFor \ {s}
    /\ dtEngaged' = dtEngaged \ {s} /\ dtGarbles' = dtGarbles \ {s}
    /\ UNCHANGED <<dtIp, dtServed, dtSeen, dtTasks, dtEarly, dtAssessed, dtLog, dtTable>>

-----------------------------------------------------------------------------
(* The tailer registers what the log tells. *)

\* _parse_honeytoken_placed_event: the row has the line's own address and session.
RowOf(line) == [kind |-> line.kind, ip |-> line.ip, sid |-> line.sid]

\* INSERT OR IGNORE on the id.
Register ==
    /\ dtTaken < Len(dtLog)
    /\ dtTaken' = dtTaken + 1
    /\ dtRows' = [t \in DOMAIN dtRows \union {dtTaken'} |->
                     IF t \in DOMAIN dtRows THEN dtRows[t] ELSE RowOf(dtLog[t])]
    /\ UNCHANGED <<dtSession, dtThreat, dtLog, dtReread>>

\* It goes on where its cache was last saved, or from the start when that is unreadable.
RestartTailer ==
    /\ dtReread < MaxReread
    /\ dtReread' = dtReread + 1
    /\ dtTaken' \in 0..dtTaken
    /\ UNCHANGED <<dtSession, dtThreat, dtLog, dtRows>>

-----------------------------------------------------------------------------
(* The attackers and the receiver, which reads the table and writes a line. *)

\* Whoever was in a session may have read what its overlay has, and keeps it.
Stolen == {dtServed[s][k] : s \in {v \in Visit : dtAt[v] \in {"open", "ended"}}, k \in Range(Kind)} \union {NoToken}

\* get_honeytoken: the row, or None.
Looked(t) == IF t \in DOMAIN dtRows THEN dtRows[t] ELSE NoRowYet

\* GET /cb of a held token or of an id nobody has: a hit and a miss are both audited.  An id of the wrong shape goes no
\* further, nor does a call its limiter refuses.
CallbackLine(t) == [token |-> t, registered |-> Looked(t)]

\* The kinds are alike: one that fails alone stands for the other.
Made == {<<>>, <<"ssh_key">>, Kind}

DtNext ==
    \/ \E s \in Visit :
        \/ ListTokens(s) \/ ApplyPin(s) \/ EndSessionBudget(s)
        \/ \E score \in {"middle", "high"} : AssessThreat(s, score)
        \/ \E made \in Made : Place(s, made)
    \/ Register \/ RestartTailer

DtSpec == DtInit /\ [][DtNext]_dtVars

-----------------------------------------------------------------------------
(* Properties. *)

\* However often a session is assessed, during its life, before or after it, it has at most one token of a kind; the
\* registry has every line behind the tailer's place, whatever was read again.
PlacedOnce ==
    /\ \A i, j \in DOMAIN dtLog : dtLog[i] = dtLog[j] => i = j
    /\ 1..dtTaken \subseteq DOMAIN dtRows
    /\ \A t \in DOMAIN dtRows : dtRows[t] = RowOf(dtLog[t])

\* A session is served baits of its own address only, of the kind of their path, and the newest the registry had.
ServedNewest ==
    \A s \in Visit : \A k \in Range(Kind) :
        LET mine == {t \in dtSeen[s] : dtLog[t].kind = k /\ dtLog[t].ip = dtIp[s]}
        IN  IF mine = {} THEN dtServed[s][k] = NoToken
            ELSE dtServed[s][k] \in mine /\ \A t \in mine : t <= dtServed[s][k]

\* Whoever calls with a bait is traced: the line names the address and the session it was placed for, though they were
\* gone long before.
HitsTraced ==
    \A t \in Stolen : CallbackLine(t).registered = IF t = NoToken THEN NoRowYet ELSE dtLog[t]

\* A session of an address whose pin says off has no counter-deception, unless an assessment came before its pin.
WhitelistKept == \A s \in dtGarbles : PinOf[dtIp[s]] = "off" => s \in dtEarly

\* Baits, from the assessment to the call.
DecoysSound == PlacedOnce /\ ServedNewest /\ HitsTraced /\ WhitelistKept
=============================================================================
