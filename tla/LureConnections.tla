--------------------------- MODULE LureConnections ---------------------------
(***************************************************************************)
(* A connection to the lure: the callbacks of _LureSSHServer, one shell or *)
(* exec handler (_process_handler) per channel, the bridge session each of *)
(* them opens, the opened and closed lines of the audit log, and the       *)
(* limiter's slot.                                                         *)
(*                                                                         *)
(* asyncssh calls connection_made and connection_lost once per connection  *)
(* and leaves a handler that awaits the bridge running when the connection *)
(* is lost; the handler ends at its next use of the channel.               *)
(***************************************************************************)
EXTENDS PerIPLimiter

CONSTANTS
    Conn, Channel,  \* bound: connections ever made, channels of each
    EarlyLoss,      \* BOOLEAN: connections are lost while a session is opened
    BridgeFaults,   \* BOOLEAN: requests to the bridge fail
    None, Placeholder

ASSUME ConnectionsAssumption ==
    /\ IsFiniteSet(Conn) /\ IsFiniteSet(Channel)
    /\ EarlyLoss \in BOOLEAN /\ BridgeFaults \in BOOLEAN
    /\ None # Placeholder /\ {None, Placeholder} \intersect Channel = {}

VARIABLES
    conn,           \* where each connection is
    ip,             \* its source address
    slot,           \* connections with rate_slot_held
    chan,           \* where the handler of each channel is
    lureSession,    \* state.lure_session: the channel whose session it is
    bridgeUuid,     \* state.bridge_uuid: likewise
    opened, closed, \* sessions named by lure.session_opened / _closed lines
    live,           \* sessions the bridge holds
    closing,        \* close_session tasks in the background
    hurried,        \* history variable: connections lost while a session was opened
    failed          \* history variable: sessions one of whose requests failed

stateVars == <<lureSession, bridgeUuid>>
bridgeVars == <<live, closing, failed>>
vars == <<limiterVars, conn, ip, slot, chan, stateVars, opened, closed, bridgeVars, hurried>>

\* A session is known by the channel that opened it; all that found the bridge
\* down share the placeholder id.
Sid == Conn \X (Channel \union {Placeholder})

TypeOK ==
    /\ LimiterTypeOK
    /\ conn \in [Conn -> {"new", "up", "refused", "lost"}]
    /\ ip \in [Conn -> Ip]
    /\ slot \subseteq Conn
    /\ chan \in [Conn \X Channel -> {"none", "opening", "created", "shell", "ended"}]
    /\ lureSession \in [Conn -> Channel \union {None, Placeholder}]
    /\ bridgeUuid \in [Conn -> Channel \union {None}]
    /\ opened \subseteq Sid /\ closed \subseteq Sid
    /\ live \subseteq Conn \X Channel /\ closing \subseteq Conn \X Channel
    /\ hurried \subseteq Conn /\ failed \subseteq Conn \X Channel

Init ==
    /\ LimiterInit
    /\ conn = [k \in Conn |-> "new"]
    /\ ip \in [Conn -> Ip]
    /\ slot = {}
    /\ chan = [h \in Conn \X Channel |-> "none"]
    /\ lureSession = [k \in Conn |-> None]
    /\ bridgeUuid = [k \in Conn |-> None]
    /\ opened = {} /\ closed = {}
    /\ live = {} /\ closing = {}
    /\ hurried = {} /\ failed = {}

MoveConn(k, w) == conn' = [conn EXCEPT ![k] = w]
MoveChan(k, c, w) == chan' = [chan EXCEPT ![<<k, c>>] = w]

-----------------------------------------------------------------------------
(* connection_made and connection_lost. *)

\* The limiter's verdict decides whether the connection holds a slot.
ConnectionMade(k) ==
    /\ conn[k] = "new"
    /\ \/ Admit(ip[k]) /\ MoveConn(k, "up") /\ slot' = slot \union {k}
       \/ (RefuseFull(ip[k]) \/ RefuseRpm(ip[k])) /\ MoveConn(k, "refused") /\ UNCHANGED slot
    /\ UNCHANGED <<ip, chan, stateVars, opened, closed, bridgeVars, hurried>>

ReleaseSlot(k) == IF k \in slot THEN Release(ip[k]) ELSE UNCHANGED limiterVars

Opening(k) == \E c \in Channel : chan[<<k, c>>] \in {"opening", "created"}

\* The closed line names the session the connection's state holds, if any, and
\* the bridge session it holds is closed in the background.
ConnectionLost(k) ==
    /\ conn[k] \in {"up", "refused"}
    /\ Opening(k) => EarlyLoss
    /\ MoveConn(k, "lost")
    /\ ReleaseSlot(k)
    /\ closed' = closed \union ({<<k, lureSession[k]>>} \intersect Sid)
    /\ closing' = closing \union ({<<k, bridgeUuid[k]>>} \intersect (Conn \X Channel))
    /\ hurried' = IF Opening(k) THEN hurried \union {k} ELSE hurried
    /\ UNCHANGED <<ip, slot, chan, stateVars, opened, live, failed>>

-----------------------------------------------------------------------------
(* _process_handler, once per channel. *)

StartHandler(k, c) ==
    /\ conn[k] = "up" /\ chan[<<k, c>>] = "none"
    /\ MoveChan(k, c, "opening")
    /\ UNCHANGED <<limiterVars, conn, ip, slot, stateVars, opened, closed, bridgeVars, hurried>>

\* The bridge serves POST /session; its response is on the way.
BridgeCreates(k, c) ==
    /\ chan[<<k, c>>] = "opening"
    /\ MoveChan(k, c, "created")
    /\ live' = live \union {<<k, c>>}
    /\ UNCHANGED <<limiterVars, conn, ip, slot, stateVars, opened, closed, closing, failed,
                   hurried>>

\* Faulty variant of Announce: every channel announces its session.
AnnounceAll(k, sid) == opened' = opened \union {<<k, sid>>}

\* open_audited: the first session of a connection is announced, no other.
Announce(k, sid) ==
    opened' = IF \E s \in opened : s[1] = k THEN opened ELSE opened \union {<<k, sid>>}

\* Faulty variant of SessionReady: the state of the connection is not told.
SessionReadyUnnoted(k, c) ==
    /\ chan[<<k, c>>] = "created"
    /\ MoveChan(k, c, "shell")
    /\ Announce(k, c)
    /\ UNCHANGED <<limiterVars, conn, ip, slot, stateVars, closed, bridgeVars, hurried>>

\* The state of the connection is overwritten by every channel.
SessionReady(k, c) ==
    /\ chan[<<k, c>>] = "created"
    /\ MoveChan(k, c, "shell")
    /\ bridgeUuid' = [bridgeUuid EXCEPT ![k] = c]
    /\ lureSession' = [lureSession EXCEPT ![k] = c]
    /\ Announce(k, c)
    /\ UNCHANGED <<limiterVars, conn, ip, slot, closed, bridgeVars, hurried>>

\* BridgeUnavailableError, with or without a session made: the placeholder.
SessionFails(k, c) ==
    /\ BridgeFaults
    /\ chan[<<k, c>>] \in {"opening", "created"}
    /\ MoveChan(k, c, "shell")
    /\ lureSession' = [lureSession EXCEPT ![k] = Placeholder]
    /\ Announce(k, Placeholder)
    /\ failed' = failed \union {<<k, c>>}
    /\ UNCHANGED <<limiterVars, conn, ip, slot, bridgeUuid, closed, live, closing, hurried>>

\* exit, end of input, the exec command is done, or the channel is gone.
HandlerEnds(k, c) ==
    /\ chan[<<k, c>>] = "shell"
    /\ MoveChan(k, c, "ended")
    /\ UNCHANGED <<limiterVars, conn, ip, slot, stateVars, opened, closed, bridgeVars, hurried>>

\* A close_session task: DELETE reaches the bridge, or fails for good.
CloseSession(s) ==
    /\ s \in closing
    /\ closing' = closing \ {s}
    /\ \/ live' = live \ {s} /\ UNCHANGED failed
       \/ BridgeFaults /\ failed' = failed \union {s} /\ UNCHANGED live
    /\ UNCHANGED <<limiterVars, conn, ip, slot, chan, stateVars, opened, closed, hurried>>

-----------------------------------------------------------------------------
Next ==
    \/ \E k \in Conn :
        \/ ConnectionMade(k) \/ ConnectionLost(k)
        \/ \E c \in Channel :
            \/ StartHandler(k, c) \/ BridgeCreates(k, c) \/ SessionReady(k, c)
            \/ SessionFails(k, c) \/ HandlerEnds(k, c)
    \/ \E s \in closing : CloseSession(s)
    \/ Tick /\ UNCHANGED <<conn, ip, slot, chan, stateVars, opened, closed, bridgeVars,
                          hurried>>

Spec == Init /\ [][Next]_vars

\* The requests to the bridge time out, and background tasks run.
FairSpec ==
    /\ Spec
    /\ \A k \in Conn, c \in Channel :
        WF_vars(BridgeCreates(k, c)) /\ WF_vars(SessionReady(k, c))
    /\ \A s \in Conn \X Channel : WF_vars(CloseSession(s))

-----------------------------------------------------------------------------
(* Properties. *)

Holding(i) == {k \in slot : conn[k] = "up" /\ ip[k] = i}

\* The limiter's counters are the connections that are up: a refused connection
\* releases nothing, an admitted one its slot and only once.
SlotsMatch ==
    /\ total = Cardinality({k \in slot : conn[k] = "up"}) /\ total <= MaxTotal
    /\ \A i \in Ip : concurrent[i] = Cardinality(Holding(i)) /\ concurrent[i] <= MaxConcurrent

\* A connection is one session to whoever reads the audit log, however many
\* channels it has: one opened line, and one closed line.
OneRowPerConnection ==
    \A k \in Conn :
        /\ Cardinality({s \in opened : s[1] = k}) <= 1
        /\ Cardinality({s \in closed : s[1] = k}) <= IF conn[k] = "lost" THEN 1 ELSE 0

Named(lines, k) == {s \in lines : s[1] = k}

\* A connection with one channel that was not lost while its session was opened.
\* The others are not paired: a second channel overwrites the state the closed
\* line is written from, and a late handler announces what was closed before.
Steady(k) ==
    k \notin hurried /\ Cardinality({c \in Channel : chan[<<k, c>>] # "none"}) <= 1

\* The closed line of a steady connection names what its opened line named, the
\* placeholder included, and is not written before the connection is over.
PairedIfSteady ==
    \A k \in Conn : Steady(k) =>
        Named(closed, k) = IF conn[k] = "lost" THEN Named(opened, k) ELSE {}

\* The bridge does not keep the session of a steady connection that is over,
\* unless the request to open or to close it failed.
ReleasedIfSteady ==
    \A s \in Conn \X Channel :
        conn[s[1]] = "lost" /\ Steady(s[1]) ~> s \notin live \/ s \in failed

\* Whom the limiter lets in, and what it counts meanwhile.
AdmissionSound ==
    /\ TypeOK
    /\ SlotsMatch
    /\ RateHeld
    /\ WindowExact
    /\ MapBounded

\* What the audit log tells of a connection.
LinesPaired == OneRowPerConnection /\ PairedIfSteady
=============================================================================
