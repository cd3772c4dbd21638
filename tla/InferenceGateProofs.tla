------------------------ MODULE InferenceGateProofs -------------------------
(***************************************************************************)
(* Theorems about InferenceGate, for any finite set of calls, any          *)
(* sessions, any number of slots and any cap.                              *)
(***************************************************************************)
EXTENDS InferenceGate, FiniteSetTheorems, TLAPS

\* What holds of the calls that are under way with a session's budget.
CallsInv ==
    /\ \A c \in Call : pc[c] = "chat" =>
        /\ of[c] \in locked \ StreamSession
        /\ consumed[of[c]] < Cap
    /\ \A c, d \in Call : pc[c] = "chat" /\ pc[d] = "chat" /\ of[c] = of[d] => c = d
    /\ \A c \in Call : pc[c] \in {"stream", "abandoned"} => of[c] \in StreamSession

Inv ==
    /\ TypeOK
    /\ SlotsConserved
    /\ BudgetBalances
    /\ CallsInv
    /\ ChatNearCap
    /\ StreamsWithinCap

-----------------------------------------------------------------------------
(* Arithmetic and cardinalities. *)

LEMMA OneMore == \A p, n \in Nat : p * n \in Nat /\ p * (n + 1) = p * n + p
OBVIOUS

LEMMA CardAdd ==
    ASSUME NEW S, IsFiniteSet(S), NEW x
    PROVE  /\ IsFiniteSet(S \union {x}) /\ Cardinality(S) \in Nat
           /\ x \notin S => Cardinality(S \union {x}) = Cardinality(S) + 1
BY FS_AddElement, FS_CardinalityType

LEMMA CardRemove ==
    ASSUME NEW S, IsFiniteSet(S), NEW x \in S
    PROVE  /\ Cardinality(S) \in Nat /\ Cardinality(S \ {x}) \in Nat
           /\ Cardinality(S) = Cardinality(S \ {x}) + 1
<1>1. IsFiniteSet(S \ {x}) /\ S = (S \ {x}) \union {x}
  BY FS_RemoveElement
<1> QED  BY <1>1, CardAdd, FS_CardinalityType

LEMMA CallsFinite ==
    /\ IsFiniteSet(Holders) /\ Cardinality(Holders) \in Nat
    /\ \A s \in Session : IsFiniteSet(Reserving(s)) /\ Cardinality(Reserving(s)) \in Nat
<1>1. Holders \subseteq Call /\ \A s \in Session : Reserving(s) \subseteq Call
  BY DEF Holders, Reserving
<1> QED  BY <1>1, GateAssumption, FS_Subset, FS_CardinalityType

-----------------------------------------------------------------------------
(* The semaphore. *)

SlotPlaces == {"slot", "chat", "stream"}

\* A step moves one call; the semaphore follows if the call gains or loses a
\* slot in it.
LEMMA SlotsFollow ==
    ASSUME TypeOK, SlotsConserved, NEW c \in Call, NEW w \in Where, Goto(c, w),
           \/ pc[c] \in SlotPlaces /\ w \in SlotPlaces /\ free' = free
           \/ pc[c] \notin SlotPlaces /\ w \notin SlotPlaces /\ free' = free
           \/ pc[c] \in SlotPlaces /\ w \notin SlotPlaces /\ free' = free + 1
           \/ pc[c] \notin SlotPlaces /\ w \in SlotPlaces /\ free > 0 /\ free' = free - 1
    PROVE  SlotsConserved' /\ free' \in 0..Slots
<1>1. free \in 0..Slots /\ Slots \in Nat /\ pc \in [Call -> Where]
  BY GateAssumption DEF TypeOK
<1>2. \A d \in Call : pc'[d] = IF d = c THEN w ELSE pc[d]
  BY <1>1 DEF Goto
<1>3. IsFiniteSet(Holders) /\ Cardinality(Holders) \in Nat
      /\ free + Cardinality(Holders) = Slots
  BY CallsFinite DEF SlotsConserved
<1>4. CASE (pc[c] \in SlotPlaces <=> w \in SlotPlaces) /\ free' = free
  <2>1. Holders' = Holders
    BY <1>2, <1>4 DEF Holders, SlotPlaces
  <2> QED  BY <1>1, <1>3, <1>4, <2>1 DEF SlotsConserved
<1>5. CASE pc[c] \in SlotPlaces /\ w \notin SlotPlaces /\ free' = free + 1
  <2>1. c \in Holders /\ Holders' = Holders \ {c}
    BY <1>2, <1>5 DEF Holders, SlotPlaces
  <2>2. Cardinality(Holders') \in Nat /\ Cardinality(Holders) = Cardinality(Holders') + 1
    BY <1>3, <2>1, CardRemove
  <2> QED  BY <1>1, <1>3, <1>5, <2>2 DEF SlotsConserved
<1>6. CASE pc[c] \notin SlotPlaces /\ w \in SlotPlaces /\ free > 0 /\ free' = free - 1
  <2>1. c \notin Holders /\ Holders' = Holders \union {c}
    BY <1>2, <1>6 DEF Holders, SlotPlaces
  <2>2. Cardinality(Holders') = Cardinality(Holders) + 1
    BY <1>3, <2>1, CardAdd
  <2> QED  BY <1>1, <1>3, <1>6, <2>2 DEF SlotsConserved
<1> QED  BY <1>4, <1>5, <1>6

-----------------------------------------------------------------------------
(* The reservations. *)

StreamPlaces == {"stream", "abandoned"}

\* Which calls of a session hold a reservation after one call moved.
LEMMA ReservingFollows ==
    ASSUME TypeOK, NEW c \in Call, NEW w \in Where, Goto(c, w), UNCHANGED of,
           NEW s \in Session
    PROVE  /\ of[c] # s \/ (pc[c] \in StreamPlaces <=> w \in StreamPlaces)
                => Reserving(s)' = Reserving(s)
           /\ of[c] = s /\ pc[c] \notin StreamPlaces /\ w \in StreamPlaces
                => Cardinality(Reserving(s)') = Cardinality(Reserving(s)) + 1
           /\ of[c] = s /\ pc[c] \in StreamPlaces /\ w \notin StreamPlaces
                => /\ Cardinality(Reserving(s)) = Cardinality(Reserving(s)') + 1
                   /\ Cardinality(Reserving(s)') \in Nat
<1>1. \A d \in Call : pc'[d] = IF d = c THEN w ELSE pc[d]
  BY DEF TypeOK, Goto
<1>2. IsFiniteSet(Reserving(s)) /\ Cardinality(Reserving(s)) \in Nat
  BY CallsFinite
<1>3. ASSUME of[c] # s \/ (pc[c] \in StreamPlaces <=> w \in StreamPlaces)
      PROVE  Reserving(s)' = Reserving(s)
  BY <1>1, <1>3 DEF Reserving, StreamPlaces
<1>4. ASSUME of[c] = s, pc[c] \notin StreamPlaces, w \in StreamPlaces
      PROVE  Cardinality(Reserving(s)') = Cardinality(Reserving(s)) + 1
  <2>1. c \notin Reserving(s) /\ Reserving(s)' = Reserving(s) \union {c}
    BY <1>1, <1>4 DEF Reserving, StreamPlaces
  <2> QED  BY <1>2, <2>1, CardAdd
<1>5. ASSUME of[c] = s, pc[c] \in StreamPlaces, w \notin StreamPlaces
      PROVE  /\ Cardinality(Reserving(s)) = Cardinality(Reserving(s)') + 1
             /\ Cardinality(Reserving(s)') \in Nat
  <2>1. c \in Reserving(s) /\ Reserving(s)' = Reserving(s) \ {c}
    BY <1>1, <1>5 DEF Reserving, StreamPlaces
  <2> QED  BY <1>2, <2>1, CardRemove
<1> QED  BY <1>3, <1>4, <1>5

\* A step that moves no call into or out of a stream and touches no budget.
LEMMA BudgetsStandStill ==
    ASSUME TypeOK, BudgetBalances, StreamsWithinCap, NEW c \in Call,
           NEW w \in Where, Goto(c, w), UNCHANGED <<of, consumed, spent>>,
           pc[c] \in StreamPlaces <=> w \in StreamPlaces
    PROVE  BudgetBalances' /\ StreamsWithinCap'
<1>1. \A s \in Session : Reserving(s)' = Reserving(s)
  BY ReservingFollows
<1> QED  BY <1>1, GateAssumption DEF BudgetBalances, StreamsWithinCap

-----------------------------------------------------------------------------
(* Every step keeps the invariant. *)

\* The steps that change neither a lock nor a budget.
LEMMA QuietStep ==
    ASSUME Inv, NEW c \in Call,
           \/ Admit(c) \/ Refuse(c) \/ GetSlot(c) \/ QueueTimeout(c)
           \/ CheckFails(c) \/ StreamBreaks(c)
    PROVE  Inv'
<1> USE DEF Inv
<1>1. PICK w \in Where \ {"chat", "stream"} :
        /\ Goto(c, w)
        /\ UNCHANGED <<of, locked, consumed, spent>>
        /\ pc[c] \in StreamPlaces <=> w \in StreamPlaces
        /\ w = "abandoned" => pc[c] = "stream"
        /\ \/ pc[c] \in SlotPlaces /\ w \in SlotPlaces /\ free' = free
           \/ pc[c] \notin SlotPlaces /\ w \notin SlotPlaces /\ free' = free
           \/ pc[c] \in SlotPlaces /\ w \notin SlotPlaces /\ free' = free + 1
           \/ pc[c] \notin SlotPlaces /\ w \in SlotPlaces /\ free > 0 /\ free' = free - 1
  <2>1. CASE Admit(c)
    BY <2>1 DEF Admit, Where, StreamPlaces, SlotPlaces
  <2>2. CASE Refuse(c) \/ QueueTimeout(c)
    BY <2>2 DEF Refuse, QueueTimeout, Where, StreamPlaces, SlotPlaces
  <2>3. CASE GetSlot(c)
    BY <2>3 DEF GetSlot, Where, StreamPlaces, SlotPlaces
  <2>4. CASE CheckFails(c)
    BY <2>4 DEF CheckFails, Where, StreamPlaces, SlotPlaces
  <2>5. CASE StreamBreaks(c)
    BY <2>5 DEF StreamBreaks, Where, StreamPlaces, SlotPlaces
  <2> QED  BY <2>1, <2>2, <2>3, <2>4, <2>5
<1>2. SlotsConserved' /\ free' \in 0..Slots
  BY <1>1, SlotsFollow
<1>3. BudgetBalances' /\ StreamsWithinCap'
  BY <1>1, BudgetsStandStill
<1>4. \A d \in Call : pc'[d] = IF d = c THEN w ELSE pc[d]
  BY <1>1 DEF TypeOK, Goto
<1>5. TypeOK'
  BY <1>1, <1>2, <1>4 DEF TypeOK, Goto
<1>6. CallsInv'
  BY <1>1, <1>4 DEF CallsInv, StreamPlaces
<1>7. ChatNearCap'
  BY <1>1 DEF ChatNearCap
<1> QED  BY <1>2, <1>3, <1>5, <1>6, <1>7

LEMMA StartChatStep ==
    ASSUME Inv, NEW c \in Call, StartChat(c)
    PROVE  Inv'
<1> USE DEF Inv
<1>1. /\ Goto(c, "chat") /\ pc[c] = "slot" /\ "chat" \in Where
      /\ UNCHANGED <<of, free, consumed, spent>>
      /\ of[c] \in Session \ StreamSession /\ of[c] \notin locked
      /\ locked' = locked \union {of[c]}
  BY DEF StartChat, TypeOK, Where
<1>2. SlotsConserved' /\ free' \in 0..Slots
  BY <1>1, SlotsFollow DEF SlotPlaces
<1>3. BudgetBalances' /\ StreamsWithinCap'
  BY <1>1, BudgetsStandStill DEF StreamPlaces
<1>4. \A d \in Call : pc'[d] = IF d = c THEN "chat" ELSE pc[d]
  BY <1>1 DEF TypeOK, Goto
<1>5. TypeOK'
  BY <1>1, <1>2, <1>4 DEF TypeOK, Goto
<1>6. consumed[of[c]] < Cap
  BY <1>1, GateAssumption DEF StartChat, Exhausted, TypeOK
<1>7. \A d \in Call : pc[d] = "chat" => of[d] # of[c]
  BY <1>1 DEF CallsInv
<1>8. CallsInv'
  BY <1>1, <1>4, <1>6, <1>7 DEF CallsInv
<1>9. ChatNearCap'
  BY <1>1 DEF ChatNearCap
<1> QED  BY <1>2, <1>3, <1>5, <1>8, <1>9

\* A chat ends: it adds its usage to a budget no other chat is under way with.
LEMMA ChatEndsStep ==
    ASSUME Inv, NEW c \in Call, ChatAnswers(c) \/ ChatFails(c)
    PROVE  Inv'
<1> USE DEF Inv
<1> DEFINE s == of[c]
<1>1. /\ Goto(c, "done") /\ pc[c] = "chat" /\ "done" \in Where
      /\ UNCHANGED of /\ free' = free + 1 /\ locked' = locked \ {s}
      /\ s \in Session \ StreamSession /\ consumed[s] < Cap
  BY DEF ChatAnswers, ChatFails, TypeOK, CallsInv, Where
<1>2. PICK usage \in 0..MaxUsage :
        /\ consumed' = [consumed EXCEPT ![s] = @ + usage]
        /\ spent' = [spent EXCEPT ![s] = @ + usage]
  <2>1. CASE ChatAnswers(c)
    BY <2>1 DEF ChatAnswers
  <2>2. CASE ChatFails(c)
    <3>1. consumed' = [consumed EXCEPT ![s] = @ + 0]
          /\ spent' = [spent EXCEPT ![s] = @ + 0]
      BY <1>1, <2>2 DEF ChatFails, TypeOK
    <3>2. 0 \in 0..MaxUsage
      BY GateAssumption
    <3> QED  BY <3>1, <3>2, Zenon
  <2> QED  BY <2>1, <2>2
<1>3. usage \in Nat /\ usage <= MaxUsage /\ MaxUsage \in Nat /\ Cap \in Nat
  BY GateAssumption
<1>4. \A d \in Call : pc'[d] = IF d = c THEN "done" ELSE pc[d]
  BY <1>1 DEF TypeOK, Goto
<1>5. \A r \in Session :
        /\ consumed[r] \in Nat /\ spent[r] \in Nat
        /\ consumed'[r] = IF r = s THEN consumed[r] + usage ELSE consumed[r]
        /\ spent'[r] = IF r = s THEN spent[r] + usage ELSE spent[r]
        /\ Reserving(r)' = Reserving(r) /\ Cardinality(Reserving(r)) \in Nat
  BY <1>1, <1>2, ReservingFollows, CallsFinite DEF TypeOK, StreamPlaces
<1>6. SlotsConserved' /\ free' \in 0..Slots
  BY <1>1, SlotsFollow DEF SlotPlaces
<1>7. TypeOK'
  BY <1>1, <1>2, <1>3, <1>4, <1>6 DEF TypeOK, Goto
<1>8. BudgetBalances'
  <2>1. \A r \in Session : Projected * Cardinality(Reserving(r)) \in Nat
    BY <1>5, GateAssumption, OneMore
  <2> QED  BY <1>3, <1>5, <2>1 DEF BudgetBalances
<1>9. StreamsWithinCap'
  BY <1>5, GateAssumption DEF StreamsWithinCap
<1>10. ChatNearCap'
  <2>1. consumed'[s] < Cap + MaxUsage
    BY <1>1, <1>3, <1>5
  <2> QED  BY <1>5, <2>1 DEF ChatNearCap
<1>11. CallsInv'
  <2>1. \A d \in Call : pc'[d] = "chat" => pc[d] = "chat" /\ of[d] # s /\ of[d] \in Session
    BY <1>1, <1>4 DEF CallsInv, TypeOK
  <2>2. \A d \in Call : pc'[d] = "chat" => consumed'[of[d]] < Cap
    BY <1>5, <2>1 DEF CallsInv
  <2> QED  BY <1>1, <1>4, <2>1, <2>2 DEF CallsInv
<1> QED  BY <1>6, <1>7, <1>8, <1>9, <1>10, <1>11

LEMMA StartStreamStep ==
    ASSUME Inv, NEW c \in Call, StartStream(c)
    PROVE  Inv'
<1> USE DEF Inv
<1> DEFINE s == of[c]
<1>1. /\ Goto(c, "stream") /\ pc[c] = "slot" /\ "stream" \in Where
      /\ UNCHANGED <<of, free, locked, spent>> /\ s \in StreamSession /\ s \in Session
      /\ consumed' = [consumed EXCEPT ![s] = @ + Projected] /\ consumed[s] < Cap
  BY GateAssumption DEF StartStream, Exhausted, TypeOK, Where
<1>2. \A d \in Call : pc'[d] = IF d = c THEN "stream" ELSE pc[d]
  BY <1>1 DEF TypeOK, Goto
<1>3. \A r \in Session :
        /\ consumed[r] \in Nat /\ spent[r] \in Nat /\ Cardinality(Reserving(r)) \in Nat
        /\ consumed'[r] = IF r = s THEN consumed[r] + Projected ELSE consumed[r]
        /\ r # s => Reserving(r)' = Reserving(r)
  BY <1>1, ReservingFollows, CallsFinite DEF TypeOK
<1>4. Cardinality(Reserving(s)') = Cardinality(Reserving(s)) + 1
  BY <1>1, ReservingFollows DEF StreamPlaces
<1>5. SlotsConserved' /\ free' \in 0..Slots
  BY <1>1, SlotsFollow DEF SlotPlaces
<1>6. Projected \in Nat /\ Cap \in Nat
      /\ \A r \in Session : Projected * Cardinality(Reserving(r)) \in Nat
      /\ Projected * (Cardinality(Reserving(s)) + 1)
            = Projected * Cardinality(Reserving(s)) + Projected
  BY <1>1, <1>3, GateAssumption, OneMore
<1>7. TypeOK'
  BY <1>1, <1>2, <1>5, <1>6 DEF TypeOK, Goto
<1>8. BudgetBalances'
  BY <1>1, <1>3, <1>4, <1>6 DEF BudgetBalances
<1>9. StreamsWithinCap'
  <2>1. Projected * Cardinality(Reserving(s)) < Cap
    BY <1>1, <1>3, <1>6 DEF BudgetBalances
  <2>2. Projected * Cardinality(Reserving(s)') < Cap + Projected
    BY <1>1, <1>3, <1>4, <1>6, <2>1
  <2> QED  BY <1>1, <1>3, <2>2, GateAssumption DEF StreamsWithinCap
<1>10. ChatNearCap'
  BY <1>1, <1>3 DEF ChatNearCap
<1>11. CallsInv'
  <2>1. \A d \in Call : pc'[d] = "chat" => pc[d] = "chat" /\ of[d] # s /\ of[d] \in Session
    BY <1>1, <1>2 DEF CallsInv, TypeOK
  <2>2. \A d \in Call : pc'[d] = "chat" => consumed'[of[d]] < Cap
    BY <1>3, <2>1 DEF CallsInv
  <2> QED  BY <1>1, <1>2, <2>1, <2>2 DEF CallsInv
<1> QED  BY <1>5, <1>7, <1>8, <1>9, <1>10, <1>11

\* A stream ends or its generator is closed: the reservation is swapped for what
\* was used, and it was part of the counter, so nothing is clamped.
LEMMA SettleStep ==
    ASSUME Inv, NEW c \in Call, StreamEnds(c) \/ CloseGenerator(c)
    PROVE  Inv'
<1> USE DEF Inv
<1> DEFINE s == of[c]
<1>1. /\ Goto(c, "done") /\ pc[c] \in StreamPlaces /\ "done" \in Where
      /\ UNCHANGED <<of, locked>> /\ s \in StreamSession /\ s \in Session
      /\ \/ pc[c] \in SlotPlaces /\ free' = free + 1
         \/ pc[c] \notin SlotPlaces /\ free' = free
  BY GateAssumption DEF StreamEnds, CloseGenerator, CallsInv, StreamPlaces,
     SlotPlaces, Where
<1>2. PICK actual \in 0..MaxUsage : Settle(s, actual)
  BY GateAssumption DEF StreamEnds, CloseGenerator
<1>3. \A d \in Call : pc'[d] = IF d = c THEN "done" ELSE pc[d]
  BY <1>1 DEF TypeOK, Goto
<1>4. /\ Cardinality(Reserving(s)) = Cardinality(Reserving(s)') + 1
      /\ Cardinality(Reserving(s)') \in Nat
      /\ \A r \in Session : r # s => Reserving(r)' = Reserving(r)
  BY <1>1, ReservingFollows DEF StreamPlaces
<1>5. /\ Projected \in Nat /\ Cap \in Nat /\ actual \in Nat
      /\ Projected * Cardinality(Reserving(s)') \in Nat
      /\ Projected * Cardinality(Reserving(s))
            = Projected * Cardinality(Reserving(s)') + Projected
  BY <1>1, <1>2, <1>4, GateAssumption, OneMore
<1>6. \A r \in Session : consumed[r] \in Nat /\ spent[r] \in Nat
  BY DEF TypeOK
<1>7. consumed[s] = spent[s] + Projected * Cardinality(Reserving(s)') + Projected
  BY <1>1, <1>5, <1>6 DEF BudgetBalances
<1>8. /\ consumed'[s] = consumed[s] + actual - Projected
      /\ spent'[s] = spent[s] + actual
      /\ \A r \in Session : r # s => consumed'[r] = consumed[r] /\ spent'[r] = spent[r]
  <2>1. ~(consumed[s] + actual < Projected)
    BY <1>1, <1>5, <1>6, <1>7
  <2> QED  BY <1>1, <1>2, <2>1 DEF Settle, TypeOK
<1>9. consumed'[s] \in Nat /\ spent'[s] \in Nat
      /\ consumed'[s] = spent'[s] + Projected * Cardinality(Reserving(s)')
  BY <1>1, <1>5, <1>6, <1>7, <1>8
<1>10. SlotsConserved' /\ free' \in 0..Slots
  BY <1>1, SlotsFollow DEF SlotPlaces
<1>11. TypeOK'
  <2>1. consumed' \in [Session -> Nat] /\ spent' \in [Session -> Nat]
    <3>1. consumed' = [consumed EXCEPT ![s] = consumed'[s]]
          /\ spent' = [spent EXCEPT ![s] = spent'[s]]
      BY <1>1, <1>2 DEF Settle, TypeOK
    <3> QED  BY <1>1, <1>9, <3>1 DEF TypeOK
  <2> QED  BY <1>1, <1>3, <1>10, <2>1 DEF TypeOK, Goto
<1>12. BudgetBalances'
  BY <1>1, <1>4, <1>8, <1>9 DEF BudgetBalances
<1>13. StreamsWithinCap'
  <2>1. Projected * Cardinality(Reserving(s)') < Cap + Projected
    BY <1>1, <1>5 DEF StreamsWithinCap
  <2> QED  BY <1>1, <1>4, <2>1, GateAssumption DEF StreamsWithinCap
<1>14. ChatNearCap'
  BY <1>1, <1>8 DEF ChatNearCap
<1>15. CallsInv'
  <2>1. \A d \in Call : pc'[d] = "chat" => pc[d] = "chat" /\ of[d] # s /\ of[d] \in Session
    BY <1>1, <1>3 DEF CallsInv, TypeOK
  <2>2. \A d \in Call : pc'[d] = "chat" => consumed'[of[d]] < Cap
    BY <1>8, <2>1 DEF CallsInv
  <2> QED  BY <1>1, <1>3, <2>1, <2>2 DEF CallsInv
<1> QED  BY <1>10, <1>11, <1>12, <1>13, <1>14, <1>15

-----------------------------------------------------------------------------
LEMMA InitInv == Init => Inv
<1> SUFFICES ASSUME Init PROVE Inv
  OBVIOUS
<1>1. Holders = {} /\ \A s \in Session : Reserving(s) = {}
  BY DEF Init, Holders, Reserving
<1>2. SlotsConserved
  BY <1>1, FS_EmptySet, GateAssumption DEF SlotsConserved, Init
<1>3. BudgetBalances /\ StreamsWithinCap
  <2>1. \A s \in Session : Projected * Cardinality(Reserving(s)) = 0
    BY <1>1, FS_EmptySet, GateAssumption
  <2> QED  BY <2>1, GateAssumption DEF BudgetBalances, StreamsWithinCap, Init
<1> QED
  BY <1>2, <1>3, GateAssumption DEF Inv, Init, TypeOK, Where, CallsInv, ChatNearCap

LEMMA Inv_Next == Inv /\ [Next]_vars => Inv'
<1> SUFFICES ASSUME Inv, [Next]_vars PROVE Inv'
  OBVIOUS
<1>1. CASE UNCHANGED vars
  BY <1>1 DEF vars, Inv, TypeOK, SlotsConserved, Holders, BudgetBalances,
     Reserving, CallsInv, ChatNearCap, StreamsWithinCap
<1>2. CASE Next
  BY <1>2, QuietStep, StartChatStep, ChatEndsStep, StartStreamStep, SettleStep
  DEF Next, Enter, Leave
<1> QED  BY <1>1, <1>2

\* The semaphore's value and the calls that hold a slot always add up
\* (rate_limit.py, slot's finally; timeouts, failures and abandoned streams).
THEOREM SlotsSafe == Spec => []SlotsConserved
<1>1. Inv => SlotsConserved
  BY DEF Inv
<1> QED  BY <1>1, InitInv, Inv_Next, PTL DEF Spec

\* A budget's counter is what was reported plus what is reserved (client.py,
\* stream_chat's reserve and settle), so settle's clamp is never needed.
THEOREM BudgetSafe == Spec => []BudgetBalances
<1>1. Inv => BudgetBalances
  BY DEF Inv
<1> QED  BY <1>1, InitInv, Inv_Next, PTL DEF Spec

\* The lock that chat holds from check to consume keeps any number of concurrent
\* chats of one session within one answer of the cap.
THEOREM ChatSafe == Spec => []ChatNearCap
<1>1. Inv => ChatNearCap
  BY DEF Inv
<1> QED  BY <1>1, InitInv, Inv_Next, PTL DEF Spec

\* Streams of one session run at once only as far as their reservations fit.
THEOREM StreamsSafe == Spec => []StreamsWithinCap
<1>1. Inv => StreamsWithinCap
  BY DEF Inv
<1> QED  BY <1>1, InitInv, Inv_Next, PTL DEF Spec
=============================================================================
