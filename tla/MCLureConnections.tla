-------------------------- MODULE MCLureConnections --------------------------
(***************************************************************************)
(* LureConnections on small instances.  Whom the limiter lets in takes     *)
(* many connections and time, what the handlers of a connection do takes   *)
(* few: `part` picks which of the two a behaviour looks at.                *)
(***************************************************************************)
EXTENDS LureConnections, TLC

VARIABLE part

partsVars == <<part, vars>>

\* The connections the handlers' part has.
Pair == {1, 2}

\* Connections and addresses are numbers: those of the limiter's part are made in
\* this order, from the first address that has none yet or from an earlier one.
InOrder(q) == \A k \in Conn : \A n \in 1..q[k] - 1 : \E j \in Conn : j < k /\ q[j] = n

PartsInit ==
    /\ Init
    /\ \/ part = "limiter" /\ InOrder(ip)
       \/ part = "handlers" /\ ip = [k \in Conn |-> 1]

MadeInOrder ==
    \A k \in Conn : conn'[k] # "new" => \A j \in Conn : j < k => conn'[j] # "new"

\* No handler is started, or only the pair is used and in no time.
PartsNext ==
    /\ \/ part = "limiter" /\ UNCHANGED chan
       \/ part = "handlers" /\ UNCHANGED now
    /\ Next
    /\ part = "limiter" => MadeInOrder
    /\ part = "handlers" => \A k \in Conn \ Pair : UNCHANGED conn[k]
    /\ UNCHANGED part

\* FairSpec, where the handlers are what moves.
PartsSpec ==
    /\ PartsInit
    /\ [][PartsNext]_partsVars
    /\ \A k \in Pair, c \in Channel :
        /\ WF_vars(part = "handlers" /\ BridgeCreates(k, c))
        /\ WF_vars(part = "handlers" /\ SessionReady(k, c))
        /\ WF_vars(part = "handlers" /\ CloseSession(<<k, c>>))
=============================================================================
