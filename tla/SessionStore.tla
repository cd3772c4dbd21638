---------------------------- MODULE SessionStore ----------------------------
(***************************************************************************)
(* The part of the dashboard's SQLite session store the tailer writes: the *)
(* sessions table (command_count and ended_at of its columns), the turns   *)
(* table and the intents table.  The connection is in autocommit mode, so  *)
(* every statement is an operator of its own: a method that executes two   *)
(* statements can be cut between them.  The asyncio lock of the store      *)
(* serialises the methods; no other process writes these tables.           *)
(***************************************************************************)
EXTENDS Naturals, Sequences, SessionIds

VARIABLES
    rows,       \* sessions that have a row
    turns,      \* turns of a session by sequence_n (a turn is its log position)
    count,      \* the column command_count
    ended,      \* sessions whose ended_at is not NULL
    intents     \* sessions with a row in intents

storeVars == <<rows, turns, count, ended, intents>>

StoreTypeOK ==
    /\ rows \subseteq Session
    /\ turns \in [Session -> Seq(Nat)]
    /\ count \in [Session -> Nat]
    /\ ended \subseteq rows
    /\ intents \subseteq rows

StoreInit ==
    /\ rows = {}
    /\ turns = [s \in Session |-> <<>>]
    /\ count = [s \in Session |-> 0]
    /\ ended = {}
    /\ intents = {}

-----------------------------------------------------------------------------
\* Some stored turn of s equals turn t.
Stored(s, t) == \E i \in DOMAIN turns[s] : turns[s][i] = t

\* upsert_session: INSERT a row with the snapshot's turn count, or update
\* columns other than command_count and ended_at of the row that is there.
UpsertSession(s, snapshotTurns) ==
    /\ rows' = rows \union {s}
    /\ count' = IF s \in rows THEN count
                ELSE [count EXCEPT ![s] = Len(snapshotTurns)]
    /\ UNCHANGED <<turns, ended, intents>>

\* record_turn, first statement: INSERT at sequence_n = MAX + 1.
InsertTurn(s, t) ==
    /\ s \in rows                      \* foreign key
    /\ turns' = [turns EXCEPT ![s] = Append(@, t)]
    /\ UNCHANGED <<rows, count, ended, intents>>

\* record_turn, second statement: command_count = command_count + 1.
BumpCount(s) ==
    /\ count' = [count EXCEPT ![s] = @ + 1]
    /\ UNCHANGED <<rows, turns, ended, intents>>

\* end_session, and its caller's early return when there is no such row.
EndSession(s) ==
    /\ ended' = IF s \in rows THEN ended \union {s} ELSE ended
    /\ UNCHANGED <<rows, turns, count, intents>>

\* upsert_intent; without a sessions row the foreign key refuses it.
UpsertIntent(s) ==
    /\ s \in rows
    /\ intents' = intents \union {s}
    /\ UNCHANGED <<rows, turns, count, ended>>
=============================================================================
