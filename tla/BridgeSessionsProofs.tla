------------------------ MODULE BridgeSessionsProofs ------------------------
(***************************************************************************)
(* The app's map and the service's dicts, proved to agree for any sets of  *)
(* sessions and commands, any cap and any interleaving of handlers.        *)
(***************************************************************************)
EXTENDS BridgeSessions, TLAPS

\* A session that was not started left no trace: it starts from nothing.
NewInv(s) ==
    phase[s] = "new" => state[s] = NoState /\ capAudits[s] = 0 /\ intents[s] = 0

\* The part of CapStops about s.
CapInv(s) ==
    s \in sessions =>
        /\ state[s].exhausted <=> state[s].wasted >= WastedCap
        /\ capAudits[s] = IF state[s].exhausted THEN 1 ELSE 0

\* A session that is gone and was quiet has no state, and no handler will come
\* back to give it any.
QuietInv(s) ==
    s \notin sessions \union busyAtEnd =>
        state[s] = NoState /\ InFlight(s) = {} /\ phase[s] # "pin"

SessionInv(s) ==
    /\ NewInv(s)
    /\ s \in sessions <=> state[s].activity # "none"
    /\ CapInv(s)
    /\ QuietInv(s)
    /\ intents[s] <= IF s \in sessions THEN 0 ELSE 1

\* A suspended handler serves a session that the lure was told of.
HandlersInv ==
    \A c \in Command : pc[c] \in {"classify", "run"} =>
        of[c] \in Session /\ phase[of[c]] = "open"

Inv == TypeOK /\ HandlersInv /\ \A s \in Session : SessionInv(s)

-----------------------------------------------------------------------------
LEMMA InitInv == Init => Inv
<1> SUFFICES ASSUME Init PROVE Inv
  OBVIOUS
<1> USE SessionsAssumption DEF Init
<1>1. TypeOK
  BY DEF TypeOK, NoState
<1>2. HandlersInv
  BY DEF HandlersInv
<1>3. ASSUME NEW s \in Session PROVE SessionInv(s)
  BY DEF SessionInv, NewInv, CapInv, QuietInv, InFlight, NoState
<1> QED BY <1>1, <1>2, <1>3 DEF Inv

LEMMA InvImplies ==
    Inv => TypeOK /\ LockStep /\ CapStops /\ DrainedWhenQuiet /\ AnalysedOnce
<1> SUFFICES ASSUME Inv
             PROVE  LockStep /\ CapStops /\ DrainedWhenQuiet /\ AnalysedOnce
  BY DEF Inv
<1>1. sessions \subseteq Session
  BY DEF Inv, TypeOK
<1> QED BY <1>1 DEF Inv, SessionInv, CapInv, QuietInv,
                    LockStep, CapStops, DrainedWhenQuiet, AnalysedOnce

-----------------------------------------------------------------------------
(* Each step of a session or of one of its handlers. *)

\* What the service keeps of a session.
Kept == [activity : {"none", "fresh", "idle"}, budget : BOOLEAN,
         clarified : Nat \union {None}, wasted : Nat, exhausted : BOOLEAN,
         sourceIp : BOOLEAN, engaged : BOOLEAN]

\* A step that changes a field or two of what is kept of s leaves the time
\* account as it is, and the other sessions alone.
SameAccount(f, g, s) ==
    /\ g \in [Session -> Kept]
    /\ g[s].wasted = f[s].wasted /\ g[s].exhausted = f[s].exhausted
    /\ \A r \in Session \ {s} : g[r] = f[r]

LEMMA StartedRecord ==
    ASSUME NEW k \in Kept
    PROVE  LET v == [k EXCEPT !.sourceIp = TRUE, !.activity = "fresh"] IN
           /\ v \in Kept /\ v.activity = "fresh"
           /\ v.wasted = k.wasted /\ v.exhausted = k.exhausted
BY DEF Kept

LEMMA BegunRecord ==
    ASSUME NEW k \in Kept, NEW n \in Nat, NEW asks \in BOOLEAN
    PROVE  LET v == Budgeted(k, asks, n) IN
           /\ v \in Kept /\ v.activity = k.activity
           /\ v.wasted = k.wasted /\ v.exhausted = k.exhausted
BY DEF Kept, Budgeted

\* One entry of what is kept is replaced.
LEMMA Replaced ==
    ASSUME NEW f \in [Session -> Kept], NEW s \in Session, NEW v \in Kept,
           v.wasted = f[s].wasted, v.exhausted = f[s].exhausted
    PROVE  LET g == [f EXCEPT ![s] = v] IN SameAccount(f, g, s) /\ g[s] = v
BY DEF SameAccount

LEMMA StateKept == TypeOK => state \in [Session -> Kept]
BY DEF TypeOK, Kept

\* A session that a step leaves alone.
LEMMA Untouched ==
    ASSUME NEW r \in Session, SessionInv(r),
           state'[r] = state[r], phase'[r] = phase[r],
           capAudits'[r] = capAudits[r], intents'[r] = intents[r],
           r \in sessions' <=> r \in sessions,
           busyAtEnd \subseteq busyAtEnd',
           InFlight(r)' \subseteq InFlight(r)
    PROVE  SessionInv(r)'
BY DEF SessionInv, NewInv, CapInv, QuietInv

\* A handler's session is known or was busy when it ended.
LEMMA HandlersSession ==
    ASSUME Inv, NEW c \in Command, pc[c] \in {"classify", "run"}
    PROVE  /\ of[c] \in Session /\ phase[of[c]] = "open"
           /\ of[c] \in sessions \union busyAtEnd
<1>1. of[c] \in Session /\ c \in InFlight(of[c])
  BY DEF Inv, HandlersInv, InFlight
<1> QED BY <1>1 DEF Inv, HandlersInv, SessionInv, QuietInv

LEMMA StartStep ==
    ASSUME Inv, NEW s \in Session, StartSession(s)
    PROVE  Inv'
<1>1. /\ state' \in [Session -> Kept]
      /\ state'[s].activity = "fresh"
      /\ state'[s].wasted = state[s].wasted /\ state'[s].exhausted = state[s].exhausted
      /\ \A r \in Session \ {s} : state'[r] = state[r]
  <2> DEFINE v == [state[s] EXCEPT !.sourceIp = TRUE, !.activity = "fresh"]
  <2>1. state \in [Session -> Kept] /\ state[s] \in Kept
    BY StateKept DEF Inv
  <2>2. /\ v \in Kept /\ v.activity = "fresh"
        /\ v.wasted = state[s].wasted /\ v.exhausted = state[s].exhausted
    BY <2>1, StartedRecord
  <2>3. state' = [state EXCEPT ![s] = v]
    BY DEF StartSession
  <2> HIDE DEF v
  <2>4. SameAccount(state, state', s) /\ state'[s] = v
    BY <2>1, <2>2, <2>3, Replaced
  <2> QED BY <2>2, <2>4 DEF SameAccount
<1> USE DEF StartSession, taskVars, histVars, Inv
<1>2. /\ phase' \in [Session -> {"new", "pin", "open"}] /\ phase'[s] = "pin"
      /\ \A r \in Session \ {s} : phase'[r] = phase[r]
  BY DEF TypeOK
<1>3. TypeOK'
  BY <1>1, <1>2 DEF TypeOK, Kept
<1>4. HandlersInv'
  BY <1>2 DEF HandlersInv
<1>5. SessionInv(s)'
  <2>1. /\ state'[s].wasted = 0 /\ state'[s].exhausted = FALSE
        /\ capAudits'[s] = 0 /\ intents'[s] = 0
    BY <1>1 DEF SessionInv, NewInv, NoState
  <2>2. NewInv(s)' /\ CapInv(s)'
    BY <1>2, <2>1, SessionsAssumption DEF NewInv, CapInv
  <2>3. s \in sessions' /\ QuietInv(s)'
    BY DEF QuietInv
  <2> QED BY <1>1, <2>1, <2>2, <2>3 DEF SessionInv
<1>6. ASSUME NEW r \in Session \ {s} PROVE SessionInv(r)'
  BY <1>1, <1>2, Untouched DEF InFlight
<1> QED BY <1>3, <1>4, <1>5, <1>6

LEMMA PinStep ==
    ASSUME Inv, NEW s \in Session, ApplyPin(s)
    PROVE  Inv'
<1> USE DEF ApplyPin, taskVars, histVars, Inv
<1>1. /\ state' \in [Session -> Kept]
      /\ state'[s].activity = state[s].activity
      /\ state'[s].wasted = state[s].wasted /\ state'[s].exhausted = state[s].exhausted
      /\ \A r \in Session \ {s} : state'[r] = state[r]
  <2>1. PICK e \in BOOLEAN : state' = [state EXCEPT ![s].engaged = e]
    OBVIOUS
  <2> QED BY <2>1 DEF TypeOK, Kept
<1>2. /\ phase' \in [Session -> {"new", "pin", "open"}] /\ phase'[s] = "open"
      /\ \A r \in Session \ {s} : phase'[r] = phase[r]
  BY DEF TypeOK
<1>3. TypeOK'
  BY <1>1, <1>2 DEF TypeOK, Kept
<1>4. HandlersInv'
  BY <1>2 DEF HandlersInv
<1>5. SessionInv(s)'
  BY <1>1, <1>2 DEF SessionInv, NewInv, CapInv, QuietInv
<1>6. ASSUME NEW r \in Session \ {s} PROVE SessionInv(r)'
  BY <1>1, <1>2, Untouched DEF InFlight
<1> QED BY <1>3, <1>4, <1>5, <1>6

LEMMA IdleStep ==
    ASSUME Inv, NEW s \in Session, Idle(s)
    PROVE  Inv'
<1> USE DEF Idle, taskVars, histVars, Inv
<1>1. /\ state' \in [Session -> Kept]
      /\ state'[s].activity = "idle"
      /\ state'[s].wasted = state[s].wasted /\ state'[s].exhausted = state[s].exhausted
      /\ \A r \in Session \ {s} : state'[r] = state[r]
  BY DEF TypeOK, Kept
<1>2. TypeOK' /\ HandlersInv'
  BY <1>1 DEF TypeOK, Kept, HandlersInv
<1>3. SessionInv(s)'
  BY <1>1 DEF SessionInv, NewInv, CapInv, QuietInv, NoState
<1>4. ASSUME NEW r \in Session \ {s} PROVE SessionInv(r)'
  BY <1>1, Untouched DEF InFlight
<1> QED BY <1>2, <1>3, <1>4

\* Dropping sessions, the busy ones of which are noted.
LEMMA DroppedInv ==
    ASSUME Inv, NEW S \in SUBSET Session, NEW r \in Session,
           state'[r] = Dropped(S)[r], sessions' = sessions \ S, Ended(sessions \intersect S),
           phase'[r] = phase[r], capAudits'[r] = capAudits[r],
           \/ intents'[r] = intents[r]
           \/ r \in sessions \intersect S /\ intents'[r] = intents[r] + 1,
           InFlight(r)' \subseteq InFlight(r)
    PROVE  SessionInv(r)'
<1>0. SessionInv(r)
  BY DEF Inv
<1>1. busyAtEnd \subseteq busyAtEnd'
  BY DEF Ended
<1>2. CASE r \notin S
  <2>1. state'[r] = state[r]
    BY <1>2 DEF Dropped
  <2>2. intents'[r] = intents[r] /\ (r \in sessions' <=> r \in sessions)
    BY <1>2
  <2> QED BY <1>0, <1>1, <2>1, <2>2, Untouched
<1>3. CASE r \in S
  <2>1. state'[r] = NoState /\ r \notin sessions'
    BY <1>3 DEF Dropped
  <2>2. intents[r] \in Nat /\ intents[r] <= (IF r \in sessions THEN 0 ELSE 1)
    BY <1>0 DEF SessionInv, Inv, TypeOK
  <2>3. intents'[r] <= 1
    BY <2>2
  <2>4. NewInv(r)'
    <3>1. phase[r] = "new" => r \notin sessions
      BY <1>0 DEF SessionInv, NewInv, NoState
    <3> QED BY <1>0, <2>1, <3>1 DEF SessionInv, NewInv
  <2>5. QuietInv(r)'
    <3>1. r \notin busyAtEnd' => InFlight(r) = {} /\ phase[r] # "pin"
      BY <1>0, <1>1, <1>3 DEF Ended, SessionInv, QuietInv
    <3> QED BY <2>1, <3>1 DEF QuietInv
  <2> QED BY <2>1, <2>3, <2>4, <2>5 DEF SessionInv, CapInv, NoState
<1> QED BY <1>2, <1>3

LEMMA EndStep ==
    ASSUME Inv, NEW s \in Session, EndSession(s)
    PROVE  Inv'
<1> USE DEF EndSession, taskVars, Inv
<1>1. TypeOK'
  BY DEF TypeOK, Dropped, NoState, Ended
<1>2. HandlersInv'
  BY DEF HandlersInv
<1>3. ASSUME NEW r \in Session PROVE SessionInv(r)'
  <2>1. \/ intents'[r] = intents[r]
        \/ r \in sessions \intersect {s} /\ intents'[r] = intents[r] + 1
    BY DEF TypeOK
  <2>2. InFlight(r)' \subseteq InFlight(r)
    BY DEF InFlight
  <2> QED BY <2>1, <2>2, DroppedInv
<1> QED BY <1>1, <1>2, <1>3

LEMMA ReceiveStep ==
    ASSUME Inv, NEW s \in Session, NEW c \in Command, Receive(c, s)
    PROVE  Inv'
<1> USE DEF Receive, MaySend, Goto, Inv
<1>1. Stale \in SUBSET Session /\ Stale \subseteq sessions
  BY DEF Stale, SessionInv
<1>2. TypeOK'
  <2>1. Dropped(Stale) \in [Session -> Kept]
    BY DEF TypeOK, Dropped, NoState, Kept
  <2>2. state' \in [Session -> Kept]
    BY <2>1 DEF Kept
  <2> QED BY <1>1, <2>2 DEF TypeOK, Ended, Kept
<1>3. HandlersInv'
  BY DEF HandlersInv, TypeOK
<1>4. ASSUME NEW r \in Session, r # s \/ s \notin sessions \ Stale PROVE SessionInv(r)'
  <2>1. InFlight(r)' \subseteq InFlight(r)
    BY <1>4 DEF InFlight, TypeOK
  <2>2. state'[r] = Dropped(Stale)[r]
    BY <1>4 DEF Dropped
  <2> QED BY <1>1, <2>1, <2>2, DroppedInv
<1>5. ASSUME s \in sessions \ Stale PROVE SessionInv(s)'
  <2>1. /\ state'[s].activity = "fresh" /\ s \in sessions'
        /\ state'[s].wasted = state[s].wasted /\ state'[s].exhausted = state[s].exhausted
    BY <1>5 DEF TypeOK, Dropped
  <2> QED BY <1>5, <2>1 DEF SessionInv, NewInv, CapInv, QuietInv
<1> QED BY <1>2, <1>3, <1>4, <1>5

LEMMA AnswerStep ==
    ASSUME Inv, NEW c \in Command, AnswerDirectly(c)
    PROVE  Inv'
<1> USE DEF AnswerDirectly, Goto, Inv
<1>1. of[c] \in Session
  BY HandlersSession
<1>2. TypeOK'
  BY <1>1 DEF TypeOK
<1>3. HandlersInv'
  BY DEF HandlersInv, TypeOK
<1>4. ASSUME NEW r \in Session PROVE SessionInv(r)'
  <2>1. InFlight(r)' \subseteq InFlight(r)
    BY DEF InFlight, TypeOK
  <2> QED BY <2>1, Untouched
<1> QED BY <1>2, <1>3, <1>4

LEMMA BeginStep ==
    ASSUME Inv, NEW c \in Command, Begin(c)
    PROVE  Inv'
<1> DEFINE s == of[c]
<1>1. s \in Session /\ phase[s] = "open" /\ s \in sessions \union busyAtEnd
  BY HandlersSession DEF Begin
<1>2. /\ state' \in [Session -> Kept]
      /\ state'[s].activity = state[s].activity
      /\ state'[s].wasted = state[s].wasted /\ state'[s].exhausted = state[s].exhausted
      /\ \A r \in Session \ {s} : state'[r] = state[r]
  <2>1. PICK asks \in BOOLEAN :
          state' = [state EXCEPT ![s] = Budgeted(@, asks, count[s])]
    BY DEF Begin
  <2> DEFINE v == Budgeted(state[s], asks, count[s])
  <2>2. state \in [Session -> Kept] /\ state[s] \in Kept /\ count[s] \in Nat
    BY <1>1, StateKept DEF Inv, TypeOK
  <2>3. /\ v \in Kept /\ v.activity = state[s].activity
        /\ v.wasted = state[s].wasted /\ v.exhausted = state[s].exhausted
    BY <2>2, BegunRecord
  <2>4. state' = [state EXCEPT ![s] = v]
    BY <2>1
  <2> HIDE DEF v
  <2>5. SameAccount(state, state', s) /\ state'[s] = v
    BY <1>1, <2>2, <2>3, <2>4, Replaced
  <2> QED BY <2>3, <2>5 DEF SameAccount
<1> USE DEF Begin, Goto, Inv
<1>3. TypeOK'
  <2>1. chain' \in [Session -> Nat] /\ wastes' \subseteq Command
    BY <1>1 DEF TypeOK
  <2> QED BY <1>2, <2>1 DEF TypeOK, Kept
<1>4. HandlersInv'
  BY DEF HandlersInv, TypeOK
<1>5. ASSUME NEW r \in Session PROVE InFlight(r)' \subseteq InFlight(r)
  BY DEF InFlight, TypeOK
<1>6. SessionInv(s)'
  BY <1>1, <1>2 DEF SessionInv, NewInv, CapInv, QuietInv
<1>7. ASSUME NEW r \in Session \ {s} PROVE SessionInv(r)'
  BY <1>2, <1>5, Untouched
<1> QED BY <1>3, <1>4, <1>6, <1>7

\* The cap is crossed by exactly one command.
LEMMA AccumulatedCap ==
    ASSUME NEW k \in Kept, NEW waste \in Nat
    PROVE  LET after == Accumulated(k, waste) IN
           /\ after \in Kept /\ after.activity = k.activity
           /\ (k.exhausted <=> k.wasted >= WastedCap)
                => (after.exhausted <=> after.wasted >= WastedCap)
           /\ k.exhausted => after.exhausted
<1>1. PICK e \in BOOLEAN :
        e <=> k.exhausted \/ (waste > 0 /\ k.wasted + waste >= WastedCap)
  OBVIOUS
<1>2. Accumulated(k, waste) = [k EXCEPT !.wasted = @ + waste, !.exhausted = e]
  BY <1>1 DEF Accumulated, Kept
<1>3. k.wasted + waste \in Nat /\ k.wasted \in Nat /\ waste \in Nat
  BY DEF Kept
<1>4. /\ Accumulated(k, waste) \in Kept
      /\ Accumulated(k, waste).activity = k.activity
      /\ Accumulated(k, waste).wasted = k.wasted + waste
      /\ Accumulated(k, waste).exhausted = e
  BY <1>2, <1>3 DEF Kept
<1> QED BY <1>1, <1>3, <1>4, SessionsAssumption

LEMMA FinishStep ==
    ASSUME Inv, NEW c \in Command, Finish(c)
    PROVE  Inv'
<1> DEFINE s == of[c]
<1> USE DEF Finish, Goto, Inv
<1>1. s \in Session /\ phase[s] = "open" /\ s \in sessions \union busyAtEnd
  BY HandlersSession
<1>2. PICK waste \in 0..MaxWaste :
        LET after == Accumulated(state[s], waste)
        IN  /\ state' = [state EXCEPT ![s] = after]
            /\ capAudits' = [capAudits EXCEPT
                 ![s] = @ + IF after.exhausted /\ ~state[s].exhausted THEN 1 ELSE 0]
  OBVIOUS
<1> DEFINE after == Accumulated(state[s], waste)
<1>3. waste \in Nat /\ state[s] \in Kept
  BY <1>1, SessionsAssumption DEF TypeOK, Kept
<1>4. /\ after \in Kept /\ after.activity = state[s].activity
      /\ (state[s].exhausted <=> state[s].wasted >= WastedCap)
           => (after.exhausted <=> after.wasted >= WastedCap)
      /\ state[s].exhausted => after.exhausted
  BY <1>3, AccumulatedCap
<1>5. /\ state' \in [Session -> Kept] /\ state'[s] = after
      /\ \A r \in Session \ {s} : state'[r] = state[r] /\ capAudits'[r] = capAudits[r]
  <2> HIDE DEF after
  <2> QED BY <1>1, <1>2, <1>4 DEF TypeOK, Kept, after
<1>6. TypeOK'
  <2>1. capAudits' \in [Session -> Nat]
    BY <1>1, <1>2 DEF TypeOK
  <2>2. count' \in [Session -> Nat] /\ wastes' \subseteq Command
    BY <1>1 DEF TypeOK
  <2> QED BY <1>5, <2>1, <2>2 DEF TypeOK, Kept
<1>7. HandlersInv'
  BY DEF HandlersInv, TypeOK
<1>8. ASSUME NEW r \in Session PROVE InFlight(r)' \subseteq InFlight(r)
  BY DEF InFlight, TypeOK
<1>9. SessionInv(s)'
  <2>1. CapInv(s)'
    <3>1. capAudits'[s] = capAudits[s] + IF after.exhausted /\ ~state[s].exhausted THEN 1 ELSE 0
      BY <1>1, <1>2 DEF TypeOK
    <3> HIDE DEF after
    <3> QED BY <1>1, <1>4, <1>5, <3>1 DEF SessionInv, CapInv
  <2>2. NewInv(s)' /\ QuietInv(s)'
    BY <1>1 DEF NewInv, QuietInv
  <2> HIDE DEF after
  <2> QED BY <1>1, <1>4, <1>5, <2>1, <2>2 DEF SessionInv
<1>10. ASSUME NEW r \in Session \ {s} PROVE SessionInv(r)'
  BY <1>5, <1>8, Untouched
<1> QED BY <1>6, <1>7, <1>9, <1>10

LEMMA LoseStep ==
    ASSUME Inv, NEW c \in Command, GiveUp(c) \/ Interrupt(c)
    PROVE  Inv'
<1> USE DEF GiveUp, Interrupt, Goto, histVars, Inv
<1>1. TypeOK' /\ HandlersInv'
  BY DEF TypeOK, HandlersInv
<1>2. ASSUME NEW r \in Session PROVE SessionInv(r)'
  <2>1. InFlight(r)' \subseteq InFlight(r)
    BY DEF InFlight, TypeOK
  <2> QED BY <2>1, Untouched
<1> QED BY <1>1, <1>2

LEMMA StepInv == Inv /\ [Next]_vars => Inv'
<1> SUFFICES ASSUME Inv, [Next]_vars PROVE Inv'
  OBVIOUS
<1>1. CASE Next
  BY <1>1, StartStep, PinStep, IdleStep, EndStep, ReceiveStep, AnswerStep, BeginStep,
     FinishStep, LoseStep DEF Next
<1>2. CASE UNCHANGED vars
  <2>1. ASSUME NEW r \in Session PROVE SessionInv(r)'
    BY <1>2, Untouched DEF vars, taskVars, histVars, Inv, InFlight
  <2> QED BY <1>2, <2>1 DEF vars, taskVars, histVars, Inv, TypeOK, HandlersInv
<1> QED BY <1>1, <1>2

-----------------------------------------------------------------------------
(* Clarifications in a row. *)

\* No handler of s was given up or cut short.
Whole(s) == \A c \in abandoned : of[c] # s

Running(s) == \E c \in Command : of[c] = s /\ pc[c] = "run"

\* The lure of a session that is whole waits for one handler at a time, so that
\* the count tells which command was the last one asked back: it is under way
\* and not counted, or the last one counted.
ChainInv(s) ==
    /\ phase[s] = "new" => chain[s] = 0
    /\ s \in sessions /\ Whole(s) =>
        /\ \A c, d \in InFlight(s) : c = d
        /\ chain[s] <= 1
        /\ chain[s] = 1 =>
            /\ state[s].clarified \in Nat
            /\ count[s] = IF Running(s) THEN state[s].clarified ELSE state[s].clarified + 1

SentInv == \A c \in abandoned : pc[c] # "new"

Chains == SentInv /\ \A s \in Session : ChainInv(s)

LEMMA InitChains == Init => Chains
BY DEF Init, Chains, SentInv, ChainInv

LEMMA ChainsImply == Inv /\ Chains => OneClarificationPerChain
BY DEF Inv, TypeOK, Chains, ChainInv, Whole, OneClarificationPerChain

\* A session that a step leaves alone, or ends.
LEMMA ChainKept ==
    ASSUME NEW s \in Session, ChainInv(s), chain'[s] = chain[s],
           phase'[s] = "new" => phase[s] = "new",
           s \in sessions' /\ Whole(s)' =>
               /\ s \in sessions /\ Whole(s) /\ InFlight(s)' = InFlight(s)
               /\ state'[s].clarified = state[s].clarified /\ count'[s] = count[s]
               /\ Running(s)' = Running(s)
    PROVE  ChainInv(s)'
BY DEF ChainInv

\* No handler is sent, moves or is given up.
LEMMA QuietChains ==
    ASSUME Chains, UNCHANGED <<taskVars, count, chain>>,
           \A s \in Session : phase'[s] = "new" => phase[s] = "new",
           \A s \in sessions' : s \in sessions /\ state'[s].clarified = state[s].clarified
    PROVE  Chains'
<1>1. ASSUME NEW s \in Session PROVE ChainInv(s)'
  <2>1. InFlight(s)' = InFlight(s) /\ Running(s)' = Running(s) /\ Whole(s)' = Whole(s)
    BY DEF InFlight, Running, Whole, taskVars
  <2> QED BY <2>1, ChainKept DEF Chains
<1> QED BY <1>1 DEF Chains, SentInv, taskVars

LEMMA StartChains ==
    ASSUME Inv, Chains, NEW s \in Session, StartSession(s)
    PROVE  Chains'
<1> USE DEF StartSession, taskVars, histVars
<1>1. ChainInv(s)'
  <2>1. chain'[s] = 0 /\ InFlight(s)' = {}
    BY DEF Chains, ChainInv, Inv, HandlersInv, InFlight
  <2> QED BY <2>1 DEF ChainInv
<1>2. ASSUME NEW r \in Session \ {s} PROVE ChainInv(r)'
  <2>1. InFlight(r)' = InFlight(r) /\ Running(r)' = Running(r) /\ Whole(r)' = Whole(r)
    BY DEF InFlight, Running, Whole
  <2>2. phase'[r] = phase[r] /\ state'[r] = state[r]
    BY DEF Inv, TypeOK
  <2> QED BY <2>1, <2>2, ChainKept DEF Chains
<1> QED BY <1>1, <1>2 DEF Chains, SentInv

LEMMA SessionChains ==
    ASSUME Inv, Chains, NEW s \in Session, ApplyPin(s) \/ EndSession(s) \/ Idle(s)
    PROVE  Chains'
<1>1. UNCHANGED <<taskVars, count, chain>> /\ sessions' \subseteq sessions
  BY DEF ApplyPin, EndSession, Idle, histVars
<1>2. \A r \in Session : phase'[r] = "new" => phase[r] = "new"
  BY DEF ApplyPin, EndSession, Idle, Inv, TypeOK
<1>3. ASSUME NEW r \in sessions' PROVE state'[r].clarified = state[r].clarified
  <2>1. r \in Session /\ r \in sessions /\ state[r] \in Kept
    BY <1>1, <1>3 DEF Inv, TypeOK, Kept
  <2>2. CASE ApplyPin(s)
    BY <2>1, <2>2 DEF ApplyPin, Inv, TypeOK
  <2>3. CASE EndSession(s)
    BY <1>3, <2>1, <2>3 DEF EndSession, Dropped
  <2>4. CASE Idle(s)
    BY <2>1, <2>4 DEF Idle, Inv, TypeOK
  <2> QED BY <2>2, <2>3, <2>4
<1> QED BY <1>1, <1>2, <1>3, QuietChains

\* The lure of a whole session sends when no handler is under way.
LEMMA ReceiveChains ==
    ASSUME Inv, Chains, NEW s \in Session, NEW c \in Command, Receive(c, s)
    PROVE  Chains'
<1> USE DEF Receive, MaySend, Goto
<1>1. /\ pc \in [Command -> {"new", "classify", "run", "done"}]
      /\ of \in [Command -> Session \union {None}]
      /\ pc[c] = "new" /\ c \notin abandoned /\ abandoned \subseteq Command
      /\ pc'[c] \in {"classify", "done"} /\ of'[c] = s
      /\ \A d \in Command \ {c} : pc'[d] = pc[d] /\ of'[d] = of[d]
  BY DEF Inv, TypeOK, Chains, SentInv
<1>2. SentInv'
  BY <1>1 DEF Chains, SentInv
<1>3. ASSUME NEW r \in Session PROVE Whole(r)' <=> Whole(r)
  BY <1>1 DEF Whole
<1>4. ASSUME NEW r \in Session PROVE Running(r)' <=> Running(r)
  BY <1>1 DEF Running
<1>5. ASSUME NEW r \in Session \ {s} PROVE InFlight(r)' = InFlight(r)
  BY <1>1 DEF InFlight
<1>6. InFlight(s)' \subseteq InFlight(s) \union {c}
  BY <1>1 DEF InFlight
<1>7. Whole(s) => InFlight(s) = {}
  BY DEF Whole, InFlight
<1>8. ASSUME NEW r \in sessions'
      PROVE  r \in Session /\ r \in sessions /\ state'[r].clarified = state[r].clarified
  <2>1. r \in Session /\ r \in sessions /\ r \notin Stale
    BY <1>8 DEF Inv, TypeOK
  <2>2. Dropped(Stale)[r] = state[r] /\ state[r] \in Kept /\ Dropped(Stale) = [q \in Session |-> Dropped(Stale)[q]]
    BY <2>1 DEF Dropped, Inv, TypeOK, Kept
  <2> QED BY <2>1, <2>2 DEF Kept
<1>9. ChainInv(s)'
  BY <1>3, <1>4, <1>6, <1>7, <1>8 DEF Chains, ChainInv
<1>10. ASSUME NEW r \in Session \ {s} PROVE ChainInv(r)'
  <2>1. ChainInv(r) /\ chain'[r] = chain[r] /\ phase'[r] = phase[r] /\ count'[r] = count[r]
    BY DEF Chains
  <2>2. Running(r)' = Running(r)
    BY <1>4 DEF Running
  <2> HIDE DEF Receive
  <2> QED BY <1>3, <1>5, <1>8, <2>1, <2>2, ChainKept
<1> QED BY <1>2, <1>9, <1>10 DEF Chains

\* A step of a handler is no step of another session's.
LEMMA HandlerMoves ==
    ASSUME Inv, NEW c \in Command, pc[c] \in {"classify", "run"},
           NEW w \in {"run", "done"}, pc' = [pc EXCEPT ![c] = w], UNCHANGED of
    PROVE  /\ of[c] \in Session /\ phase[of[c]] = "open" /\ c \in InFlight(of[c])
           /\ w = "done" => InFlight(of[c])' = InFlight(of[c]) \ {c}
           /\ w = "run" => InFlight(of[c])' = InFlight(of[c]) /\ Running(of[c])'
           /\ \A d \in Command : pc'[d] = "new" => pc[d] = "new"
           /\ \A r \in Session \ {of[c]} :
                InFlight(r)' = InFlight(r) /\ Running(r)' = Running(r)
<1>1. pc \in [Command -> {"new", "classify", "run", "done"}] /\ of[c] \in Session /\ phase[of[c]] = "open"
  BY DEF Inv, TypeOK, HandlersInv
<1>2. c \in InFlight(of[c])
  BY DEF InFlight
<1>3. pc'[c] = w /\ \A d \in Command \ {c} : pc'[d] = pc[d]
  BY <1>1
<1>4. w = "done" => InFlight(of[c])' = InFlight(of[c]) \ {c}
  BY <1>3 DEF InFlight
<1>5. w = "run" => InFlight(of[c])' = InFlight(of[c]) /\ Running(of[c])'
  BY <1>3 DEF InFlight, Running
<1>6. ASSUME NEW r \in Session \ {of[c]}
      PROVE  InFlight(r)' = InFlight(r) /\ Running(r)' = Running(r)
  BY <1>3 DEF InFlight, Running
<1> QED BY <1>1, <1>2, <1>3, <1>4, <1>5, <1>6

\* The only handler of a whole session that runs is the one that moves.
LEMMA OnlyHandler ==
    ASSUME Chains, NEW s \in Session, s \in sessions, Whole(s), NEW c \in InFlight(s)
    PROVE  /\ InFlight(s) = {c}
           /\ Running(s) <=> pc[c] = "run"
BY DEF Chains, ChainInv, InFlight, Running

LEMMA HandlerChains ==
    ASSUME Inv, Chains, NEW c \in Command,
           AnswerDirectly(c) \/ Begin(c) \/ Finish(c) \/ GiveUp(c) \/ Interrupt(c)
    PROVE  Chains'
<1> DEFINE s == of[c]
<1>1. CASE GiveUp(c) \/ Interrupt(c)
  <2> USE <1>1 DEF GiveUp, Interrupt, Goto, histVars
  <2>1. s \in Session /\ pc[c] \in {"classify", "run"} /\ abandoned' = abandoned \union {c}
        /\ UNCHANGED <<sessions, phase, state, count, of, chain>> /\ ~Whole(s)'
    BY HandlersSession DEF Whole
  <2>2. SentInv' /\ \A r \in Session \ {s} : InFlight(r)' = InFlight(r) /\ Running(r)' = Running(r)
    BY DEF Chains, SentInv, Inv, TypeOK, InFlight, Running
  <2>3. ASSUME NEW r \in Session PROVE ChainInv(r)'
    <3>1. Whole(r)' => Whole(r) /\ r # s
      BY <2>1 DEF Whole
    <3> QED BY <2>1, <2>2, <3>1, ChainKept DEF Chains
  <2> QED BY <2>2, <2>3 DEF Chains
<1>2. CASE AnswerDirectly(c) \/ Begin(c) \/ Finish(c)
  <2>1. PICK w \in {"run", "done"} :
          /\ pc' = [pc EXCEPT ![c] = w] /\ pc[c] \in {"classify", "run"}
          /\ Begin(c) <=> w = "run"
          /\ UNCHANGED <<sessions, phase, of, abandoned>>
    BY <1>2 DEF AnswerDirectly, Begin, Finish, Goto, Inv, TypeOK
  <2>2. /\ s \in Session /\ phase[s] = "open" /\ c \in InFlight(s)
        /\ w = "done" => InFlight(s)' = InFlight(s) \ {c}
        /\ w = "run" => InFlight(s)' = InFlight(s) /\ Running(s)'
        /\ \A d \in Command : pc'[d] = "new" => pc[d] = "new"
        /\ \A r \in Session \ {s} : InFlight(r)' = InFlight(r) /\ Running(r)' = Running(r)
    BY <2>1, HandlerMoves
  <2>3. \A r \in Session \ {s} : chain'[r] = chain[r] /\ count'[r] = count[r] /\ state'[r] = state[r]
    BY <1>2, <2>2 DEF AnswerDirectly, Begin, Finish, Inv, TypeOK
  <2>4. \A r \in Session : Whole(r)' <=> Whole(r)
    BY <2>1 DEF Whole
  <2>5. SentInv'
    BY <2>1, <2>2 DEF Chains, SentInv, Inv, TypeOK
  <2>6. ASSUME NEW r \in Session \ {s} PROVE ChainInv(r)'
    BY <2>1, <2>2, <2>3, <2>4, ChainKept DEF Chains
  <2>7. ASSUME s \in sessions, Whole(s)
        PROVE  /\ \A d, e \in InFlight(s)' : d = e
               /\ chain'[s] <= 1
               /\ chain'[s] = 1 =>
                   /\ state'[s].clarified \in Nat
                   /\ count'[s] = IF Running(s)' THEN state'[s].clarified ELSE state'[s].clarified + 1
    <3>1. InFlight(s) = {c} /\ (Running(s) <=> pc[c] = "run")
      BY <2>2, <2>7, OnlyHandler
    <3>2. \A d, e \in InFlight(s)' : d = e
      BY <2>2, <3>1
    <3>3. w = "done" => ~Running(s)'
      BY <2>2, <3>1 DEF InFlight, Running
    <3>4. /\ chain[s] <= 1 /\ chain[s] \in Nat /\ count[s] \in Nat /\ state[s] \in Kept
          /\ chain[s] = 1 =>
                   /\ state[s].clarified \in Nat
                   /\ count[s] = IF Running(s) THEN state[s].clarified ELSE state[s].clarified + 1
      BY <2>2, <2>7, StateKept DEF Chains, ChainInv, Inv, TypeOK
    <3>5. CASE AnswerDirectly(c)
      BY <2>2, <3>2, <3>5 DEF AnswerDirectly, Inv, TypeOK
    <3>6. CASE Begin(c)
      <4>1. PICK asks \in BOOLEAN :
              /\ asks => MayClarify(s)
              /\ state' = [state EXCEPT ![s] = Budgeted(@, asks, count[s])]
              /\ chain' = [chain EXCEPT ![s] = IF asks THEN @ + 1 ELSE 0]
        BY <3>6 DEF Begin
      <4>2. /\ chain'[s] = (IF asks THEN chain[s] + 1 ELSE 0) /\ count' = count /\ pc[c] = "classify"
            /\ state'[s].clarified = IF asks THEN count[s] ELSE state[s].clarified
        BY <2>2, <3>4, <3>6, <4>1 DEF Begin, Inv, TypeOK, Budgeted, Kept
      <4>3. asks => chain[s] = 0
        BY <3>1, <3>4, <4>1, <4>2, SessionsAssumption DEF MayClarify
      <4> QED BY <2>1, <2>2, <3>2, <3>4, <3>6, <4>2, <4>3
    <3>7. CASE Finish(c)
      <4>1. PICK waste \in 0..MaxWaste : state' = [state EXCEPT ![s] = Accumulated(state[s], waste)]
        BY <3>7 DEF Finish
      <4>2. /\ chain' = chain /\ count'[s] = count[s] + 1 /\ pc[c] = "run"
            /\ state'[s].clarified = state[s].clarified
        BY <2>2, <3>4, <3>7, <4>1 DEF Finish, Inv, TypeOK, Accumulated, Kept
      <4>3. w = "done"
        BY <2>1, <3>7 DEF Begin, Finish
      <4> QED BY <3>1, <3>2, <3>3, <3>4, <4>2, <4>3
    <3> QED BY <1>2, <3>5, <3>6, <3>7
  <2>8. ASSUME NEW r \in Session, r = s PROVE ChainInv(r)'
    BY <2>1, <2>2, <2>4, <2>7, <2>8 DEF ChainInv
  <2>9. \A r \in Session : ChainInv(r)'
    BY <2>6, <2>8
  <2> QED BY <2>5, <2>9 DEF Chains
<1> QED BY <1>1, <1>2

LEMMA StepChains == Inv /\ Chains /\ [Next]_vars => Chains'
<1> SUFFICES ASSUME Inv, Chains, [Next]_vars PROVE Chains'
  OBVIOUS
<1>1. CASE Next
  BY <1>1, StartChains, SessionChains, ReceiveChains, HandlerChains DEF Next
<1>2. CASE UNCHANGED vars
  <2>1. sessions \subseteq Session
    BY DEF Inv, TypeOK
  <2> QED BY <1>2, <2>1, QuietChains DEF vars, histVars
<1> QED BY <1>1, <1>2

-----------------------------------------------------------------------------
LEMMA AlwaysInv == Spec => []Inv
BY InitInv, StepInv, PTL DEF Spec

\* However starts, ends, evictions and suspended handlers are interleaved, the
\* app's map (bridge/server.py sessions) and the service's activity dict hold
\* the same sessions.
THEOREM SessionsKept == Spec => [](TypeOK /\ LockStep)
BY AlwaysInv, InvImplies, PTL

\* The cap of wasted time is reached exactly when the session is marked, and
\* audited by exactly the command that crosses it (_accumulate_wasted_ms).
THEOREM CapKept == Spec => []CapStops
BY AlwaysInv, InvImplies, PTL

\* A session that ends with no handler of it under way leaves nothing in the
\* dicts (end_session_budget), and no handler comes back to fill them.
THEOREM DrainedKept == Spec => []DrainedWhenQuiet
BY AlwaysInv, InvImplies, PTL

\* A session is analysed once at most, and only when it ended (end_session).
THEOREM AnalysedKept == Spec => []AnalysedOnce
BY AlwaysInv, InvImplies, PTL

\* An attacker is not asked back twice in a row (_should_inject_clarification)
\* by a session whose handlers all came to their end: because its lure sends one
\* command at a time, the count at the next one is one more than at the last.
THEOREM ClarificationsKept == Spec => []OneClarificationPerChain
<1>1. Spec => []Chains
  BY AlwaysInv, InitChains, StepChains, PTL DEF Spec
<1> QED BY <1>1, AlwaysInv, ChainsImply, PTL
=============================================================================
