-------------------------- MODULE OperatorConsole --------------------------
(***************************************************************************)
(* The operators at the dashboard: logging in past the attempt limiter,    *)
(* the token a write needs, the pins that are written to the store by a    *)
(* worker thread under the store's lock, the settings held in the process, *)
(* and the audit lines that are to tell all of it afterwards.              *)
(***************************************************************************)
EXTENDS Integers, Sequences, FiniteSets

CONSTANTS
    Operator,        \* browsers, each with an address of its own
    Host,            \* attackers' addresses
    Persona, PinMode,   \* what a persona pin and a counter-deception pin may say
    Setting, EnvSetting,   \* values of an override, and the one of the environment
    Free,            \* no pin
    TokenUnit,       \* ticks until the limiter gives a token back
    LoginBurst,      \* capacity of a login bucket
    MaxBuckets,      \* buckets before the map is swept
    MaxTicks,        \* bound: the clock
    MaxAttempts,     \* bound: login attempts of an address
    MaxChangesMade   \* bound: requests that change something

ASSUME ConsoleAssumption ==
    /\ Free \notin Persona \union PinMode /\ EnvSetting \in Setting
    /\ TokenUnit \in Nat \ {0} /\ LoginBurst \in Nat \ {0} /\ MaxBuckets \in Nat
    /\ MaxTicks \in Nat /\ MaxAttempts \in Nat /\ MaxChangesMade \in Nat

VARIABLES
    csOpenMode,      \* no password is configured
    csCookie,        \* operator -> the session cookie of the browser
    csBucket,        \* peer -> [level, at] of LoginRateLimiter._buckets
    csTick,          \* its clock
    csTried,         \* history variable: peer -> the times of the logins it let through
    csTask,          \* operator -> the request under way
    csPins,          \* table -> host -> pin
    csSetting,       \* RuntimeOverrides of the process
    csTrail,         \* audit lines about changes
    csUntold,        \* history variable: pins whose line was lost or never written
    csGaps,          \* history variable: where in the trail a settings line was lost
    csSince          \* history variable: length of the trail when the process started

csHistory == <<csUntold, csGaps, csSince>>
csVars == <<csOpenMode, csCookie, csBucket, csTick, csTried, csTask, csPins, csSetting, csTrail, csHistory>>

Tables == {"persona", "counter_deception"}
NoTask == [step |-> "none"]
Absentee == [user |-> FALSE, token |-> FALSE]
NoneTried == [o \in Operator |-> <<>>]

CsInit ==
    /\ csOpenMode \in BOOLEAN
    /\ csCookie = [o \in Operator |-> Absentee]
    /\ csBucket = <<>> /\ csTick = 0 /\ csTried = NoneTried
    /\ csTask = [o \in Operator |-> NoTask]
    /\ csPins = [t \in Tables |-> [h \in Host |-> Free]]
    /\ csSetting = EnvSetting /\ csTrail = <<>>
    /\ csUntold = {} /\ csGaps = {} /\ csSince = 0

-----------------------------------------------------------------------------
(* LoginRateLimiter. *)

Full == LoginBurst * TokenUnit
Refill(b) == IF b.level + csTick - b.at > Full THEN Full ELSE b.level + csTick - b.at

\* _evict_locked: past the cap the full buckets go, then all of them.
Busy == {p \in DOMAIN csBucket : Refill(csBucket[p]) < Full}
Flooded == Cardinality(Busy) > MaxBuckets
Swept ==
    IF Cardinality(DOMAIN csBucket) <= MaxBuckets THEN csBucket
    ELSE IF Flooded THEN <<>> ELSE [p \in Busy |-> csBucket[p]]
Counted == IF Flooded THEN NoneTried ELSE csTried

LevelOf(p) == IF p \in DOMAIN Swept THEN Refill(Swept[p]) ELSE Full
Keep(p, bucket) == [q \in DOMAIN Swept \union {p} |-> IF q = p THEN bucket ELSE Swept[q]]

\* consume without a token: the refilled level is stored with its time.
Refused(p) == Keep(p, [level |-> LevelOf(p), at |-> csTick])

\* POST /api/login.  The attempt is counted before the password is looked at; a
\* success forgets the bucket and logs the browser in.
Login(o) ==
    /\ ~csOpenMode /\ Len(csTried[o]) < MaxAttempts
    /\ IF LevelOf(o) < TokenUnit
       THEN /\ csBucket' = Refused(o)
            /\ UNCHANGED <<csCookie, csTried>>
       ELSE \/ /\ csBucket' = [q \in DOMAIN Swept \ {o} |-> Swept[q]]
               /\ csTried' = [Counted EXCEPT ![o] = <<>>]
               /\ csCookie' = [csCookie EXCEPT ![o] = [user |-> TRUE, token |-> TRUE]]
            \/ /\ csBucket' = Keep(o, [level |-> LevelOf(o) - TokenUnit, at |-> csTick])
               /\ csTried' = [Counted EXCEPT ![o] = Append(@, csTick)]
               /\ UNCHANGED csCookie
    /\ UNCHANGED <<csOpenMode, csTick, csTask, csPins, csSetting, csTrail, csHistory>>

Logout(o) ==
    /\ csCookie[o] # Absentee
    /\ csCookie' = [csCookie EXCEPT ![o] = Absentee]
    /\ UNCHANGED <<csOpenMode, csBucket, csTick, csTried, csTask, csPins, csSetting, csTrail, csHistory>>

\* GET /api/csrf: whoever asks gets a token for the session.
FetchToken(o) ==
    /\ ~csCookie[o].token
    /\ csCookie' = [csCookie EXCEPT ![o].token = TRUE]
    /\ UNCHANGED <<csOpenMode, csBucket, csTick, csTried, csTask, csPins, csSetting, csTrail, csHistory>>

CsTick ==
    /\ csTick < MaxTicks /\ csTick' = csTick + 1
    /\ UNCHANGED <<csOpenMode, csCookie, csBucket, csTried, csTask, csPins, csSetting, csTrail,
                   csHistory>>

-----------------------------------------------------------------------------
(* Pins and settings. *)

\* require_auth, require_csrf and _actor: with a token, whoever is logged in, names
\* the password in a Basic header, or finds the dashboard open.  A Basic header is
\* looked at without the limiter; with a wrong password it is a 401 and no more.
Actors(o) ==
    {a \in {"admin", "basic_auth", "open_mode"} :
        /\ csCookie[o].token
        /\ a = "admin" <=> csCookie[o].user
        /\ a = "open_mode" => csOpenMode}

Changes ==
    Len(csTrail) + Cardinality({o \in Operator : csTask[o].step # "none"}) + Cardinality(csUntold) + Cardinality(csGaps)
Holder == {o \in Operator : csTask[o].step \in {"writing", "written"}}

\* A request for a pin, or for its removal, waits for the store's lock; its
\* operator is fixed by what it came with.
AskPin(o, table, h, value) ==
    /\ csTask[o].step = "none" /\ Changes < MaxChangesMade
    /\ \E a \in Actors(o) : csTask' = [csTask EXCEPT ![o] =
        [step |-> "waiting", table |-> table, host |-> h, value |-> value, actor |-> a, hit |-> FALSE]]
    /\ UNCHANGED <<csOpenMode, csCookie, csBucket, csTick, csTried, csPins, csSetting, csTrail, csHistory>>

PinPersona(o) == \E h \in Host, p \in Persona : AskPin(o, "persona", h, p)
UnpinPersona(o) == \E h \in Host : AskPin(o, "persona", h, Free)
PinDeception(o) == \E h \in Host, m \in PinMode : AskPin(o, "counter_deception", h, m)
UnpinDeception(o) == \E h \in Host : AskPin(o, "counter_deception", h, Free)

\* Faulty variant of MayLock: the store has no lock.
MayLockAlways == TRUE

\* `async with self._lock`.
MayLock == Holder = {}

TakeLock(o) ==
    /\ csTask[o].step = "waiting" /\ MayLock
    /\ csTask' = [csTask EXCEPT ![o].step = "writing"]
    /\ UNCHANGED <<csOpenMode, csCookie, csBucket, csTick, csTried, csPins, csSetting, csTrail, csHistory>>

\* The worker thread's statement, which remembers whether it changed a row.
Write(o, hit) ==
    LET t == csTask[o] IN
    /\ t.step = "writing"
    /\ csPins' = [csPins EXCEPT ![t.table][t.host] = t.value]
    /\ csTask' = [csTask EXCEPT ![o].step = "written", ![o].hit = hit]
    /\ UNCHANGED <<csOpenMode, csCookie, csBucket, csTick, csTried, csSetting, csTrail, csHistory>>

Upserts(o, table) == csTask[o].step # "none" /\ csTask[o].table = table /\ csTask[o].value # Free
Deletes(o, table) == csTask[o].step # "none" /\ csTask[o].table = table /\ csTask[o].value = Free
Held(o) == csPins[csTask[o].table][csTask[o].host] # Free

\* ON CONFLICT DO UPDATE, and a DELETE that may find no row.
UpsertPersonaPin(o) == Upserts(o, "persona") /\ Write(o, TRUE)
DeletePersonaPin(o) == Deletes(o, "persona") /\ Write(o, Held(o))
UpsertDeceptionPin(o) == Upserts(o, "counter_deception") /\ Write(o, TRUE)
DeleteDeceptionPin(o) == Deletes(o, "counter_deception") /\ Write(o, Held(o))

\* The coroutine resumes: it gives the lock back and writes its line without
\* another await; a removal that hit nothing is a 404 without a line.  A line that
\* cannot be written is lost.
Answer(o) ==
    /\ csTask[o].step = "written"
    /\ csTask' = [csTask EXCEPT ![o] = NoTask]
    /\ LET t == csTask[o]
           line == [table |-> t.table, host |-> t.host, value |-> t.value, actor |-> t.actor]
       IN \/ /\ csTrail' = IF t.hit THEN Append(csTrail, line) ELSE csTrail
             /\ csUntold' = IF t.hit THEN csUntold \ {<<t.table, t.host>>} ELSE csUntold
          \/ /\ t.hit /\ csUntold' = csUntold \union {<<t.table, t.host>>} /\ UNCHANGED csTrail
    /\ UNCHANGED <<csOpenMode, csCookie, csBucket, csTick, csTried, csPins, csSetting, csGaps, csSince>>

\* apply_bridge and apply_features: only what differs is in the diff.
Diff(v) == {v} \ {csSetting}

\* POST /api/settings: applied and audited within one step of the event loop; a
\* line that cannot be written is lost, the setting stays.
ChangeSetting(o, v) ==
    /\ csTask[o].step = "none" /\ Changes < MaxChangesMade
    /\ csSetting' = v
    /\ \E a \in Actors(o) :
        \/ /\ csTrail' = IF Diff(v) = {} THEN csTrail
                         ELSE Append(csTrail, [table |-> "settings", old |-> csSetting, value |-> v, actor |-> a])
           /\ UNCHANGED csGaps
        \/ /\ Diff(v) # {} /\ csGaps' = csGaps \union {Len(csTrail)}
           /\ UNCHANGED csTrail
    /\ UNCHANGED <<csOpenMode, csCookie, csBucket, csTick, csTried, csTask, csPins, csUntold, csSince>>

\* The dashboard dies and comes back: the browsers keep their signed cookies, the
\* store its rows; the limiter, the requests and the overrides start anew.
RestartConsole ==
    /\ csBucket' = <<>> /\ csTried' = NoneTried
    /\ csTask' = [o \in Operator |-> NoTask]
    /\ csUntold' = csUntold \union
        {<<csTask[o].table, csTask[o].host>> : o \in {p \in Operator : csTask[p].step = "written" /\ csTask[p].hit}}
    /\ csSetting' = EnvSetting /\ csGaps' = {} /\ csSince' = Len(csTrail)
    /\ UNCHANGED <<csOpenMode, csCookie, csTick, csPins, csTrail>>

CsNext ==
    \/ \E o \in Operator :
        \/ Login(o) \/ Logout(o) \/ FetchToken(o)
        \/ PinPersona(o) \/ UnpinPersona(o) \/ PinDeception(o) \/ UnpinDeception(o)
        \/ TakeLock(o) \/ UpsertPersonaPin(o) \/ DeletePersonaPin(o)
        \/ UpsertDeceptionPin(o) \/ DeleteDeceptionPin(o) \/ Answer(o)
        \/ \E v \in Setting : ChangeSetting(o, v)
    \/ CsTick \/ RestartConsole

CsSpec == CsInit /\ [][CsNext]_csVars

-----------------------------------------------------------------------------
(* Properties. *)

\* The last of some lines says what a value is; without any it is the default.
Tells(lines, value, default) ==
    /\ lines = {} => value = default
    /\ \A i \in lines : (\A j \in lines : j <= i) => csTrail[i].value = value

LinesAbout(t, h) == {i \in DOMAIN csTrail : csTrail[i].table = t /\ csTrail[i].host = h}
SettingLines(n) == {i \in csSince + 1..n : csTrail[i].table = "settings"}
UnderWay(t, h) == \E o \in Holder : csTask[o].step = "written" /\ csTask[o].table = t /\ csTask[o].host = h

\* The settings line after the last of those up to the n-th line was lost.
Missing(n) == \E g \in csGaps : g <= n /\ \A i \in SettingLines(n) : i <= g

\* The trail tells the state: the last line about an address says what the store
\* holds for it, unless that line was lost, or its writer died or is just about to
\* write it; the settings lines since the start chain from the environment's value
\* to the present one, and break only where a line was lost.  Nobody anonymous
\* changes anything while a password is set.
TrailTellsState ==
    /\ \A t \in Tables, h \in Host :
        <<t, h>> \in csUntold \/ UnderWay(t, h) \/ Tells(LinesAbout(t, h), csPins[t][h], Free)
    /\ \A i \in SettingLines(Len(csTrail)) :
        /\ Missing(i - 1) \/ Tells(SettingLines(i - 1), csTrail[i].old, EnvSetting)
        /\ csTrail[i].old # csTrail[i].value
    /\ Missing(Len(csTrail)) \/ Tells(SettingLines(Len(csTrail)), csSetting, EnvSetting)
    /\ ~csOpenMode => \A i \in DOMAIN csTrail : csTrail[i].actor # "open_mode"

\* Between two successes no window lets more logins of an address reach the password
\* than the burst and the refill of its length, unless a flood of addresses made the
\* limiter forget them all; the map stays at its cap.  This is about POST /api/login
\* alone: a password in a Basic header never meets the limiter.
LoginsBounded ==
    /\ \A p \in Operator :
        \A i, j \in DOMAIN csTried[p] :
            i <= j => (j - i + 1) * TokenUnit <= Full + (csTried[p][j] - csTried[p][i])
    /\ Cardinality(DOMAIN csBucket) <= MaxBuckets + 1

\* What the console tells of its operators, and how often it lets them log in.
ConsoleSound == TrailTellsState /\ LoginsBounded
=============================================================================
