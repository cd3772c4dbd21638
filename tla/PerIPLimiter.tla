---------------------------- MODULE PerIPLimiter -----------------------------
(***************************************************************************)
(* _PerIPLimiter of the lure: live connections in all and per source       *)
(* address, a sliding window of recent connections per address, and the    *)
(* sweep that bounds the map of windows.  Called from the event loop only, *)
(* so every call is one step.                                              *)
(***************************************************************************)
EXTENDS Naturals, Sequences, FiniteSets

CONSTANTS
    Ip,
    MaxTotal, MaxConcurrent, MaxRpm,
    Window,         \* _RATE_WINDOW_SECONDS
    SweepAbove,     \* _RECENT_SWEEP_THRESHOLD
    SweepTo,        \* _RECENT_EVICT_TARGET
    MaxTime         \* bound: ticks of the clock

ASSUME LimiterAssumption ==
    /\ IsFiniteSet(Ip)
    /\ MaxTotal \in Nat \ {0} /\ MaxConcurrent \in Nat \ {0} /\ MaxRpm \in Nat \ {0}
    /\ Window \in Nat /\ SweepAbove \in Nat /\ SweepTo \in 0..SweepAbove
    /\ MaxTime \in Nat

VARIABLES
    now,
    total,          \* _total
    concurrent,     \* _concurrent; an address without an entry has 0
    recent,         \* _recent: a window for each address in its domain
    admitted,       \* history variable: when each address was let in
    forgiven        \* history variable: addresses whose live window was dropped

limiterVars == <<now, total, concurrent, recent, admitted, forgiven>>

LimiterTypeOK ==
    /\ now \in 0..MaxTime
    /\ total \in Nat
    /\ concurrent \in [Ip -> Nat]
    /\ DOMAIN recent \subseteq Ip
    /\ \A i \in DOMAIN recent : recent[i] \in Seq(0..now)
    /\ admitted \in [Ip -> Seq(0..now)]
    /\ forgiven \subseteq Ip

LimiterInit ==
    /\ now = 0
    /\ total = 0
    /\ concurrent = [i \in Ip |-> 0]
    /\ recent = [i \in {} |-> <<>>]
    /\ admitted = [i \in Ip |-> <<>>]
    /\ forgiven = {}

-----------------------------------------------------------------------------
(* The window of an address. *)

\* Faulty variant of Expired: a connection leaves the window a tick too early.
ExpiredEarly(t) == t + Window <= now

\* Older than the cutoff.
Expired(t) == t + Window < now

\* How many connections popleft takes from a window: those before the first one
\* that still counts.
Outdated(window) ==
    CHOOSE n \in 0..Len(window) :
        /\ \A m \in 1..n : Expired(window[m])
        /\ n < Len(window) => ~Expired(window[n + 1])

\* The connections of a window that still count.
Trimmed(window) == SubSeq(window, Outdated(window) + 1, Len(window))

Newest(i) == recent[i][Len(recent[i])]

\* Addresses whose window is still live.
Live == {i \in DOMAIN recent : recent[i] # <<>> /\ ~Expired(Newest(i))}

\* _sweep_recent, called above the high-water mark: dead windows go first, then
\* the least recently active ones; equally recent ones in the order of the dict.
Sweeps(kept) ==
    IF Cardinality(DOMAIN recent) <= SweepAbove
    THEN kept = DOMAIN recent
    ELSE IF Cardinality(Live) <= SweepAbove
    THEN kept = Live
    ELSE /\ kept \in SUBSET Live
         /\ Cardinality(kept) = SweepTo
         /\ \A i \in kept, j \in Live \ kept : Newest(i) >= Newest(j)

\* The window of address i once the windows outside kept are gone.
WindowOf(i, kept) == IF i \in kept THEN Trimmed(recent[i]) ELSE <<>>

\* admit's work on the windows: i has the given one afterwards.
SetWindow(i, kept, window) ==
    /\ recent' = [j \in kept \union {i} |-> IF j = i THEN window ELSE recent[j]]
    /\ forgiven' = forgiven \union (Live \ kept)

Full(i) == total >= MaxTotal \/ concurrent[i] >= MaxConcurrent

-----------------------------------------------------------------------------
(* admit and release. *)

Admit(i) ==
    /\ ~Full(i)
    /\ \E kept \in SUBSET DOMAIN recent :
        /\ Sweeps(kept)
        /\ Len(WindowOf(i, kept)) < MaxRpm
        /\ SetWindow(i, kept, Append(WindowOf(i, kept), now))
    /\ concurrent' = [concurrent EXCEPT ![i] = @ + 1]
    /\ total' = total + 1
    /\ admitted' = [admitted EXCEPT ![i] = Append(@, now)]
    /\ UNCHANGED now

\* "global_concurrent" or "per_ip_concurrent", before the windows are touched.
RefuseFull(i) ==
    /\ Full(i)
    /\ UNCHANGED limiterVars

\* "per_ip_rpm"; the windows were swept and trimmed.
RefuseRpm(i) ==
    /\ ~Full(i)
    /\ \E kept \in SUBSET DOMAIN recent :
        /\ Sweeps(kept)
        /\ Len(WindowOf(i, kept)) >= MaxRpm
        /\ SetWindow(i, kept, WindowOf(i, kept))
    /\ UNCHANGED <<now, total, concurrent, admitted>>

Release(i) ==
    /\ concurrent' = [concurrent EXCEPT ![i] = IF @ <= 1 THEN 0 ELSE @ - 1]
    /\ total' = IF total > 0 THEN total - 1 ELSE 0
    /\ UNCHANGED <<now, recent, admitted, forgiven>>

Tick ==
    /\ now < MaxTime
    /\ now' = now + 1
    /\ UNCHANGED <<total, concurrent, recent, admitted, forgiven>>

-----------------------------------------------------------------------------
(* Properties. *)

\* No address is let in more than MaxRpm times within any window, unless the
\* sweep had to drop its window while it counted.
RateHeld ==
    \A i \in Ip \ forgiven : \A n \in DOMAIN admitted[i] :
        n + MaxRpm \in DOMAIN admitted[i]
            => admitted[i][n + MaxRpm] - admitted[i][n] > Window

\* What counts against an address is what it was let in for, no less and no
\* more: refusals, releases and sweeps neither add to a window nor shorten it.
WindowExact ==
    \A i \in Ip \ forgiven : WindowOf(i, DOMAIN recent) = Trimmed(admitted[i])

\* The sweep bounds the map of windows whatever the rate of new addresses.
MapBounded == Cardinality(DOMAIN recent) <= SweepAbove + 1
=============================================================================
