--------------------------- MODULE InferenceGate ----------------------------
(***************************************************************************)
(* The way of a shell command from the rate limiter through the LLM client *)
(* to Ollama: the global semaphore of BridgeRateLimiter.slot, and the      *)
(* per-session TokenBudget with its lock, as AIBridgeService._run_command  *)
(* (chat) and _run_command_stream (stream_chat) use them.                  *)
(*                                                                         *)
(* A call is one such use; `pc` is where its task is suspended.  Whether a *)
(* session streams is a setting of the lure, the same for all its calls.   *)
(***************************************************************************)
EXTENDS Naturals, FiniteSets

CONSTANTS
    Call,           \* bound: the calls ever made
    Session,
    StreamSession,  \* sessions whose lure asks for streamed answers
    Slots,          \* max_concurrent_requests
    Cap,            \* session_fast_token_cap
    Projected,      \* max_response_tokens, what a stream reserves
    MaxUsage        \* bound: prompt plus completion tokens of one answer

ASSUME GateAssumption ==
    /\ IsFiniteSet(Call)
    /\ StreamSession \subseteq Session
    /\ Slots \in Nat \ {0} /\ Cap \in Nat
    /\ Projected \in Nat \ {0} /\ MaxUsage \in Nat

VARIABLES
    pc,         \* where each call is
    of,         \* the session of each call that was made
    free,       \* value of the global semaphore
    locked,     \* sessions whose TokenBudget.lock is held
    consumed,   \* consumed_fast of each session's budget
    spent       \* history variable: usage reported by answers that ended

vars == <<pc, of, free, locked, consumed, spent>>

Where == {"new", "queued", "slot", "chat", "stream", "abandoned", "done"}

\* Calls that hold a slot of the semaphore.
Holders == {c \in Call : pc[c] \in {"slot", "chat", "stream"}}

\* Calls of session s that hold a reservation of its budget.
Reserving(s) == {c \in Call : pc[c] \in {"stream", "abandoned"} /\ of[c] = s}

TypeOK ==
    /\ pc \in [Call -> Where]
    /\ of \in [Call -> Session]
    /\ free \in 0..Slots
    /\ locked \subseteq Session
    /\ consumed \in [Session -> Nat]
    /\ spent \in [Session -> Nat]

Init ==
    /\ pc = [c \in Call |-> "new"]
    /\ of \in [Call -> Session]
    /\ free = Slots
    /\ locked = {}
    /\ consumed = [s \in Session |-> 0]
    /\ spent = [s \in Session |-> 0]

Goto(c, w) == pc' = [pc EXCEPT ![c] = w]

-----------------------------------------------------------------------------
(* The semaphore. *)

\* The call has a token of its session's bucket and waits for a slot.
Admit(c) ==
    /\ pc[c] = "new"
    /\ Goto(c, "queued")
    /\ UNCHANGED <<of, free, locked, consumed, spent>>

\* SessionRateLimitedError, before the semaphore is touched.
Refuse(c) ==
    /\ pc[c] = "new"
    /\ Goto(c, "done")
    /\ UNCHANGED <<of, free, locked, consumed, spent>>

GetSlot(c) ==
    /\ pc[c] = "queued"
    /\ free > 0
    /\ free' = free - 1
    /\ Goto(c, "slot")
    /\ UNCHANGED <<of, locked, consumed, spent>>

\* Faulty variant of QueueTimeout: what was never acquired is released.
QueueTimeoutReleases(c) ==
    /\ pc[c] = "queued"
    /\ Goto(c, "done")
    /\ free' = free + 1
    /\ UNCHANGED <<of, locked, consumed, spent>>

\* GlobalQueueTimeoutError, or the client of a stream left while it waited.
QueueTimeout(c) ==
    /\ pc[c] = "queued"
    /\ Goto(c, "done")
    /\ UNCHANGED <<of, free, locked, consumed, spent>>

-----------------------------------------------------------------------------
(* chat: the lock of the budget is held from check to consume. *)

Exhausted(s) == consumed[s] >= Cap

\* BudgetExhaustedError from check, for either way of calling.
CheckFails(c) ==
    /\ pc[c] = "slot"
    /\ of[c] \notin locked
    /\ Exhausted(of[c])
    /\ Goto(c, "done")
    /\ free' = free + 1
    /\ UNCHANGED <<of, locked, consumed, spent>>

\* Faulty variant of StartChat: check and consume without the lock.
StartChatUnlocked(c) ==
    /\ pc[c] = "slot"
    /\ of[c] \notin StreamSession
    /\ ~Exhausted(of[c])
    /\ Goto(c, "chat")
    /\ UNCHANGED <<of, free, locked, consumed, spent>>

StartChat(c) ==
    /\ pc[c] = "slot"
    /\ of[c] \notin StreamSession
    /\ of[c] \notin locked
    /\ ~Exhausted(of[c])
    /\ locked' = locked \union {of[c]}
    /\ Goto(c, "chat")
    /\ UNCHANGED <<of, free, consumed, spent>>

\* Ollama answered; usage it does not report counts as 0.
ChatAnswers(c) ==
    /\ pc[c] = "chat"
    /\ \E usage \in 0..MaxUsage :
        /\ consumed' = [consumed EXCEPT ![of[c]] = @ + usage]
        /\ spent' = [spent EXCEPT ![of[c]] = @ + usage]
    /\ locked' = locked \ {of[c]}
    /\ free' = free + 1
    /\ Goto(c, "done")
    /\ UNCHANGED of

\* Faulty variant of ChatFails: the lock is kept on the error path.
ChatFailsLocked(c) ==
    /\ pc[c] = "chat"
    /\ free' = free + 1
    /\ Goto(c, "done")
    /\ UNCHANGED <<of, locked, consumed, spent>>

\* OllamaUnavailableError or OllamaResponseError.
ChatFails(c) ==
    /\ pc[c] = "chat"
    /\ locked' = locked \ {of[c]}
    /\ free' = free + 1
    /\ Goto(c, "done")
    /\ UNCHANGED <<of, consumed, spent>>

-----------------------------------------------------------------------------
(* stream_chat: reserve under the lock, stream without it, settle.  No       *)
(* streaming call awaits anything under the lock, so it is never found held. *)

\* Faulty variant of StartStream: the budget is checked but nothing reserved.
StartStreamUnreserved(c) ==
    /\ pc[c] = "slot"
    /\ of[c] \in StreamSession
    /\ ~Exhausted(of[c])
    /\ Goto(c, "stream")
    /\ UNCHANGED <<of, free, locked, consumed, spent>>

StartStream(c) ==
    /\ pc[c] = "slot"
    /\ of[c] \in StreamSession
    /\ ~Exhausted(of[c])
    /\ consumed' = [consumed EXCEPT ![of[c]] = @ + Projected]
    /\ Goto(c, "stream")
    /\ UNCHANGED <<of, free, locked, spent>>

\* Faulty variant of Settle: a stream that reported nothing keeps its
\* reservation.
SettleIfUsed(s, actual) ==
    /\ consumed' = IF actual = 0 THEN consumed
                   ELSE [consumed EXCEPT ![s] = @ + actual - Projected]
    /\ spent' = [spent EXCEPT ![s] = @ + actual]

\* TokenBudget.settle; the difference is clamped at zero.
Settle(s, actual) ==
    /\ consumed' = [consumed EXCEPT ![s] =
                        IF @ + actual < Projected THEN 0 ELSE @ + actual - Projected]
    /\ spent' = [spent EXCEPT ![s] = @ + actual]

\* The stream ended with its usage, or failed or was cancelled without.
StreamEnds(c) ==
    /\ pc[c] = "stream"
    /\ \E actual \in 0..MaxUsage : Settle(of[c], actual)
    /\ free' = free + 1
    /\ Goto(c, "done")
    /\ UNCHANGED <<of, locked>>

\* The consumer breaks out of a stream that is too long: the slot is released
\* at once, the generator's finally runs when the event loop closes it.
StreamBreaks(c) ==
    /\ pc[c] = "stream"
    /\ free' = free + 1
    /\ Goto(c, "abandoned")
    /\ UNCHANGED <<of, locked, consumed, spent>>

CloseGenerator(c) ==
    /\ pc[c] = "abandoned"
    /\ \E actual \in 0..MaxUsage : Settle(of[c], actual)
    /\ Goto(c, "done")
    /\ UNCHANGED <<of, free, locked>>

-----------------------------------------------------------------------------
Enter(c) == CheckFails(c) \/ StartChat(c) \/ StartStream(c)

Leave(c) ==
    \/ ChatAnswers(c) \/ ChatFails(c)
    \/ StreamEnds(c) \/ StreamBreaks(c) \/ CloseGenerator(c)

Next ==
    \E c \in Call :
        \/ Admit(c) \/ Refuse(c) \/ GetSlot(c) \/ QueueTimeout(c)
        \/ Enter(c) \/ Leave(c)

Spec == Init /\ [][Next]_vars

\* The HTTP client gives up on Ollama after a timeout, wait_for on the
\* semaphore; asyncio wakes the waiters of a lock in the order they came.
FairSpec ==
    /\ Spec
    /\ \A c \in Call :
        /\ WF_vars(GetSlot(c) \/ QueueTimeout(c))
        /\ SF_vars(Enter(c))
        /\ WF_vars(Leave(c))

-----------------------------------------------------------------------------
(* Properties. *)

\* Every slot is free or held by one call: no error, timeout or abandoned stream
\* releases a slot twice or never (slot's finally).
SlotsConserved == free + Cardinality(Holders) = Slots

\* A budget's counter is what was reported plus the reservations of the streams
\* still under way, so the clamp in settle never takes anything off.
BudgetBalances ==
    \A s \in Session :
        consumed[s] = spent[s] + Projected * Cardinality(Reserving(s))

\* Concurrent chats overdraw the cap by no more than a single one does: the
\* next check sees what the last call consumed.
ChatNearCap ==
    \A s \in Session \ StreamSession :
        consumed[s] # 0 => consumed[s] < Cap + MaxUsage

\* Reservations keep the streams of one session that run at once below the cap.
StreamsWithinCap ==
    \A s \in StreamSession :
        Projected * Cardinality(Reserving(s)) < Cap + Projected

\* Every command that waits for the model gets its turn, an error or a timeout.
EveryCallEnds == \A c \in Call : pc[c] = "queued" ~> pc[c] = "done"
=============================================================================
