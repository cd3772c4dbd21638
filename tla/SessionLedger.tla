--------------------------- MODULE SessionLedger ----------------------------
(***************************************************************************)
(* What the dashboard promises about the sessions it shows, with no        *)
(* offsets, batches, accumulators or crashes: each command line of the     *)
(* audit log becomes exactly one turn of its session, in the order of the  *)
(* log, and a session is ended once its closed line and every command      *)
(* before that line have been taken in.                                    *)
(***************************************************************************)
EXTENDS Naturals, Sequences

CONSTANTS Session, Kind

VARIABLES
    log,        \* the lines written so far
    recorded,   \* per session, the positions of the commands taken in
    closed      \* sessions that were ended

ledgerVars == <<log, recorded, closed>>

Init ==
    /\ log = <<>>
    /\ recorded = [s \in Session |-> <<>>]
    /\ closed = {}

Is(n, k, s) == log[n] = [kind |-> k, sid |-> s]
Taken(s, n) == \E i \in DOMAIN recorded[s] : recorded[s][i] = n

\* Every command of s before position n was taken in.
CaughtUp(s, n) ==
    \A m \in DOMAIN log : m < n /\ Is(m, "command", s) => Taken(s, m)

Write ==
    /\ \E k \in Kind, s \in Session : log' = Append(log, [kind |-> k, sid |-> s])
    /\ UNCHANGED <<recorded, closed>>

TakeIn(s) ==
    /\ \E n \in DOMAIN log :
        /\ Is(n, "command", s)
        /\ ~Taken(s, n)
        /\ CaughtUp(s, n)
        /\ recorded' = [recorded EXCEPT ![s] = Append(@, n)]
    /\ UNCHANGED <<log, closed>>

Close(s) ==
    /\ s \notin closed
    /\ \E n \in DOMAIN log : Is(n, "closed", s) /\ CaughtUp(s, n)
    /\ closed' = closed \union {s}
    /\ UNCHANGED <<log, recorded>>

Next == Write \/ \E s \in Session : TakeIn(s) \/ Close(s)

Safety == Init /\ [][Next]_ledgerVars

Liveness ==
    \A s \in Session : WF_ledgerVars(TakeIn(s)) /\ WF_ledgerVars(Close(s))

Spec == Safety /\ Liveness
=============================================================================
