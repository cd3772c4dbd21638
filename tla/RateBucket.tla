----------------------------- MODULE RateBucket -----------------------------
(***************************************************************************)
(* The per-session half of the bridge's rate limiter: BridgeRateLimiter's  *)
(* map of token buckets, their lazy refill and the eviction of idle ones.  *)
(*                                                                         *)
(* Tokens are counted in fractions: a command costs Unit of them and every *)
(* tick of the clock adds Rate, so that a refill need not be whole.  The   *)
(* locks of the source are never contended (nothing is awaited under       *)
(* them), so a call of slot() reaches its verdict in one step.             *)
(***************************************************************************)
EXTENDS Naturals, Sequences

CONSTANTS
    Session,
    Unit,           \* fractions of a token a command costs
    Rate,           \* fractions a tick adds: requests_per_session_per_minute
    Burst,          \* commands a full bucket is good for: session_burst
    IdleEviction,   \* bucket_idle_eviction_s, in ticks
    MaxTime         \* bound: ticks of the clock

ASSUME ConfigAssumption ==
    /\ Unit \in Nat \ {0} /\ Rate \in Nat \ {0} /\ Burst \in Nat \ {0}
    /\ IdleEviction \in Nat \ {0} /\ MaxTime \in Nat

VARIABLES
    now,        \* the monotonic clock
    tracked,    \* sessions that have a bucket
    tokens,     \* _tokens of the buckets
    refilled,   \* _last of the buckets: time of the last refill
    touched,    \* time of the last access, for the eviction
    served      \* history variable: when each session's commands were let through

bucketVars == <<tracked, tokens, refilled, touched>>
vars == <<now, bucketVars, served>>

Capacity == Burst * Unit

TypeOK ==
    /\ now \in 0..MaxTime
    /\ tracked \subseteq Session
    /\ tokens \in [Session -> 0..Capacity]
    /\ refilled \in [Session -> 0..now]
    /\ touched \in [Session -> 0..now]
    /\ served \in [Session -> Seq(0..now)]

Init ==
    /\ now = 0
    /\ tracked = {}
    /\ tokens = [s \in Session |-> 0]
    /\ refilled = [s \in Session |-> 0]
    /\ touched = [s \in Session |-> 0]
    /\ served = [s \in Session |-> <<>>]

-----------------------------------------------------------------------------
\* Faulty variant of Stale: buckets are dropped long before they are full again.
StaleEarly(s) == s \in tracked /\ touched[s] + 1 < now

\* _evict_idle_locked: not accessed since the cutoff.
Stale(s) == s \in tracked /\ touched[s] + IdleEviction < now

\* _refill_locked: what the bucket holds now.
Refilled(s) ==
    LET full == tokens[s] + (now - refilled[s]) * Rate
    IN  IF full < Capacity THEN full ELSE Capacity

\* What the bucket slot() gets for s holds: a new bucket is full.
Available(s) ==
    IF s \in tracked /\ ~Stale(s) THEN Refilled(s) ELSE Capacity

\* Faulty variant of TryConsume: a refusal moves the refill time and drops what
\* had been refilled.
TryConsumeDropsRefill(s) ==
    /\ tracked' = {r \in tracked : ~Stale(r)} \union {s}
    /\ touched' = [touched EXCEPT ![s] = now]
    /\ refilled' = [refilled EXCEPT ![s] = now]
    /\ IF Available(s) >= Unit
       THEN /\ tokens' = [tokens EXCEPT ![s] = Available(s) - Unit]
            /\ served' = [served EXCEPT ![s] = Append(@, now)]
       ELSE UNCHANGED <<tokens, served>>
    /\ UNCHANGED now

\* slot, up to the semaphore: evict idle buckets, get one for s, try to take a
\* token.  A refusal refills and touches the bucket too.
TryConsume(s) ==
    /\ tracked' = {r \in tracked : ~Stale(r)} \union {s}
    /\ touched' = [touched EXCEPT ![s] = now]
    /\ refilled' = [refilled EXCEPT ![s] = now]
    /\ IF Available(s) >= Unit
       THEN /\ tokens' = [tokens EXCEPT ![s] = Available(s) - Unit]
            /\ served' = [served EXCEPT ![s] = Append(@, now)]
       ELSE /\ tokens' = [tokens EXCEPT ![s] = Available(s)]
            /\ UNCHANGED served
    /\ UNCHANGED now

Tick ==
    /\ now < MaxTime
    /\ now' = now + 1
    /\ UNCHANGED <<bucketVars, served>>

Next == Tick \/ \E s \in Session : TryConsume(s)

Spec == Init /\ [][Next]_vars

-----------------------------------------------------------------------------
(* Properties. *)

\* n commands fit in a window of the given length.
Fits(n, length) == n * Unit <= Capacity + Rate * length

\* No window of time lets through more than the burst and what was refilled in
\* it.  The laziness of the refill and the eviction of idle buckets (a new
\* bucket is full again) must not add to a session's budget; the eviction does
\* not as long as an idle bucket is full by the time it is evicted.
NoWindowOverBudget ==
    \A s \in Session : \A j \in DOMAIN served[s] : \A i \in 1..j :
        Fits(j - i + 1, served[s][j] - served[s][i])

\* A command is refused only if letting it through would overdraw some window:
\* refused attempts, lazy refills and evictions take nothing from a session.
RefusedOnlyOverBudget ==
    \A s \in Session :
        Available(s) < Unit =>
            \E i \in DOMAIN served[s] :
                ~Fits(Len(served[s]) - i + 2, now - served[s][i])
=============================================================================
