-------------------------- MODULE RuntimeOverrides --------------------------
(***************************************************************************)
(* The wasting strategy an operator sets in the dashboard, and how it gets *)
(* to the bridge: RuntimeOverrides in memory, RuntimeOverridesPublisher's  *)
(* write and rename of a JSON file, BridgeOverridesReader's stat, read and *)
(* cache.  The two processes run between each other's system calls.        *)
(*                                                                         *)
(* One clock stands for the reader's monotonic clock and, since a tick is  *)
(* the granularity of the file system's, for the times of the files.       *)
(* Time 0 means that there is no such time: no file, nothing cached.       *)
(***************************************************************************)
EXTENDS Integers

CONSTANTS
    Strategy, Static,   \* the strategies, and the one of the env file
    CacheTTL,           \* overrides_cache_ttl_s, in ticks
    MaxClock,           \* bound: ticks
    MaxChanges          \* bound: changes and restarts

ASSUME OverridesAssumption ==
    /\ Static \in Strategy
    /\ CacheTTL \in Nat \ {0} /\ MaxClock \in Nat /\ MaxChanges \in Nat

VARIABLES
    clock,
    want,       \* the dashboard's wasting_strategy
    tmp,        \* publish: the temporary file, before it is renamed
    file,       \* the published file
    cache,      \* the reader's cache, at the time it was refreshed
    asking,     \* _maybe_refresh between the stat and the read
    changes,    \* number of changes and restarts so far
    since,      \* history variable: when file was put in place
    spoiled     \* history variable: what stands between the operator and the bridge

ovrVars == <<clock, want, tmp, file, cache, asking, changes, since, spoiled>>

NoFile == [strategy |-> Static, mtime |-> 0]
NoCache == [strategy |-> Static, mtime |-> 0, at |-> 0]
NotAsking == [mtime |-> 0, at |-> 0]

\* publish is between its write and its rename; _maybe_refresh between its stat
\* and its read.
Publishing == tmp.mtime # 0
Reading == asking.at # 0

OvrTypeOK ==
    /\ clock \in 1..(MaxClock + 1)
    /\ want \in Strategy
    /\ tmp \in [strategy : Strategy, mtime : 0..clock]
    /\ file \in [strategy : Strategy, mtime : 0..clock]
    /\ cache \in [strategy : Strategy, mtime : 0..clock, at : 0..clock]
    /\ asking \in [mtime : 0..clock, at : 0..clock]
    /\ changes \in 0..MaxChanges
    /\ since \in 0..clock
    /\ spoiled \subseteq {"unpublished", "collided", "misread"}

OvrInit ==
    /\ clock = 1 /\ want = Static /\ changes = 0
    /\ tmp = NoFile /\ file = NoFile
    /\ cache = NoCache /\ asking = NotAsking
    /\ since = 0 /\ spoiled = {}

-----------------------------------------------------------------------------
(* The dashboard. *)

\* publish writes the temporary file, or fails and swallows the error.
WriteTmp(s) ==
    \/ /\ tmp' = [strategy |-> s, mtime |-> clock]
       /\ UNCHANGED spoiled
    \/ /\ tmp' = NoFile
       /\ spoiled' = spoiled \union {"unpublished"}

\* POST /api/settings/bridge or /features: what changes nothing is not published.
\* The strategy itself need not be what is changed.
Change(s) ==
    /\ changes < MaxChanges /\ changes' = changes + 1
    /\ ~Publishing
    /\ want' = s
    /\ WriteTmp(s)
    /\ UNCHANGED <<clock, file, cache, asking, since>>

\* os.replace: the new file keeps the time it was written at.
Replace ==
    /\ Publishing
    /\ tmp' = NoFile
    /\ \/ /\ file' = tmp /\ since' = clock
          /\ spoiled' = (spoiled \ {"unpublished", "collided"})
                        \union IF tmp.mtime = file.mtime THEN {"collided"} ELSE {}
       \/ /\ spoiled' = spoiled \union {"unpublished"}
          /\ UNCHANGED <<file, since>>
    /\ UNCHANGED <<clock, want, cache, asking, changes>>

\* create_app: the overrides revert to the env file and are published at once,
\* unless the directory cannot be written.
RestartDashboard ==
    /\ changes < MaxChanges /\ changes' = changes + 1
    /\ want' = Static
    /\ WriteTmp(Static)
    /\ UNCHANGED <<clock, file, cache, asking, since>>

-----------------------------------------------------------------------------
(* The bridge. *)

\* Faulty variant of Fresh: off by one.
FreshTooLong == cache.at # 0 /\ clock - cache.at <= CacheTTL

\* The cached strategy is the answer.
Fresh == cache.at # 0 /\ clock - cache.at < CacheTTL

\* _maybe_refresh after the TTL, up to the read: stat, and compare.
Ask ==
    /\ ~Reading /\ ~Fresh
    /\ IF file.mtime = cache.mtime /\ cache.at # 0
       THEN /\ cache' = [cache EXCEPT !.at = clock]
            /\ UNCHANGED asking
       ELSE /\ asking' = [mtime |-> file.mtime, at |-> clock]
            /\ UNCHANGED cache
    /\ UNCHANGED <<clock, want, tmp, file, changes, since, spoiled>>

\* _read_strategy, which falls back if the read fails, and the new cache: its time
\* and the time of its file are those of the stat.
ReadFile ==
    /\ Reading
    /\ \E failed \in BOOLEAN :
        /\ cache' = [strategy |-> IF failed THEN Static ELSE file.strategy,
                     mtime |-> asking.mtime, at |-> asking.at]
        /\ spoiled' = IF failed THEN spoiled \union {"misread"} ELSE spoiled \ {"misread"}
    /\ asking' = NotAsking
    /\ UNCHANGED <<clock, want, tmp, file, changes, since>>

RestartBridge ==
    /\ changes < MaxChanges /\ changes' = changes + 1
    /\ cache' = NoCache /\ asking' = NotAsking
    /\ UNCHANGED <<clock, want, tmp, file, since, spoiled>>

OvrTick ==
    /\ clock <= MaxClock
    /\ clock' = clock + 1
    /\ UNCHANGED <<want, tmp, file, cache, asking, changes, since, spoiled>>

OvrNext ==
    \/ \E s \in Strategy : Change(s)
    \/ Replace \/ RestartDashboard
    \/ Ask \/ ReadFile \/ RestartBridge
    \/ OvrTick

OvrSpec == OvrInit /\ [][OvrNext]_ovrVars

-----------------------------------------------------------------------------
(* Properties. *)

\* overrides_publisher.py:5, the bridge picks a change up with its next request
\* after the TTL: once the file has been in place that long, what the bridge
\* answers from its cache is what the operator set.  Three things spoil it, each
\* until the next publication or read that goes well: a publication that failed
\* (nothing repeats it), two files written within one tick of the file system's
\* clock (the second is taken for the first), and a read that failed (its
\* fallback is cached under the file's time).
AnswersWithinTTL ==
    /\ Fresh /\ ~Reading /\ ~Publishing
    /\ since + CacheTTL <= clock
    /\ spoiled = {}
    => cache.strategy = want
=============================================================================
