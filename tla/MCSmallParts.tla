---------------------------- MODULE MCSmallParts ----------------------------
(***************************************************************************)
(* AuditShipper, LiveEvents and BridgeStart on small instances: the parts  *)
(* with something that must happen.  They share nothing, so that one run   *)
(* looks at them one after the other: `part` picks the one that moves in a *)
(* behaviour, the others stay as they start.                               *)
(***************************************************************************)
EXTENDS AuditShipper, LiveEvents, BridgeStart

VARIABLE part

partsVars == <<part, shipVars, evVars, bsVars>>

\* A bridge that hangs on a manifest: what ComesUp asks for is not due while another part moves.
BridgeHangs ==
    /\ bsConf = [reads |-> "none", remote |-> FALSE] /\ bsManifest = [m \in Model |-> "stalled"]
    /\ bsDatabase = TRUE /\ bsOllama = FALSE
    /\ bsPc = "stuck" /\ bsAt = 1 /\ bsLines = <<>> /\ bsRead = [Unread EXCEPT ![Verified[1]] = "stalled"]
    /\ bsLoop = LoopsOff /\ bsWarm = Cold /\ bsHappened = 0
    /\ bsPull = [step |-> "done", at |-> 1, tries |-> 0, present |-> {}]

PartsInit ==
    /\ part \in {"shipper", "events", "start"}
    /\ ShipInit /\ EvInit
    /\ IF part = "start" THEN BsInit ELSE BridgeHangs

PartsNext ==
    /\ \/ part = "shipper" /\ ShipNext /\ UNCHANGED <<evVars, bsVars>>
       \/ part = "events" /\ EvNext /\ UNCHANGED <<shipVars, bsVars>>
       \/ part = "start" /\ BsNext /\ UNCHANGED <<shipVars, evVars>>
    /\ UNCHANGED part

\* The fairness of each part, where it is the part that moves.
PartsFairness ==
    /\ WF_shipVars(part = "shipper" /\ Look) /\ WF_shipVars(part = "shipper" /\ Read)
    /\ SF_shipVars(part = "shipper" /\ Accept)
    /\ \A c \in Client : WF_evVars(part = "events" /\ (Get(c) \/ Send(c) \/ Ping(c)))
    /\ WF_bsVars(part = "start" /\ ComeUp) /\ WF_bsVars(part = "start" /\ DashboardCreates)
    /\ \A m \in Model : WF_bsVars(part = "start" /\ (WarmOnce(m) \/ Refresh(m)))

PartsSpec == PartsInit /\ [][PartsNext]_partsVars /\ PartsFairness
=============================================================================
