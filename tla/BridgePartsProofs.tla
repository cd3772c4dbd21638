------------------------- MODULE BridgePartsProofs -------------------------
(***************************************************************************)
(* Parts of the bridge, each with theorems of its own: the rate buckets,   *)
(* the runtime overrides, the shipper of its audit log, and its start.     *)
(***************************************************************************)
EXTENDS RateBucket, RuntimeOverrides, AuditShipper, BridgeStart, SequenceTheorems, TLAPS

-----------------------------------------------------------------------------
(* The budget of a session's commands, for any rate, burst and number of   *)
(* sessions; that no window is overdrawn where a bucket that is evicted    *)
(* would have been full again by then, that none is refused for nothing in *)
(* any case.                                                               *)

\* bucket_idle_eviction_s is long enough to refill a bucket.
EvictsFull == Capacity <= (IdleEviction + 1) * Rate

\* What the commands since the i-th one and the tokens at hand add up to.
Held(s, i) ==
    (Len(served[s]) - i + 1) * Unit + Available(s)
        <= Capacity + Rate * (now - served[s][i])

BucketInv ==
    /\ TypeOK
    /\ \A s \in tracked : refilled[s] = touched[s]
    /\ \A s \in Session : \A i \in DOMAIN served[s] : Held(s, i)
    /\ NoWindowOverBudget

-----------------------------------------------------------------------------
(* Lemmas. *)

LEMMA ConstantsNat ==
    /\ Unit \in Nat \ {0} /\ Rate \in Nat \ {0}
    /\ Capacity \in Nat
  BY ConfigAssumption DEF Capacity

LEMMA Times ==
    \A a, b, r \in Nat :
        /\ a * r \in Nat /\ (a + 1) * r = a * r + r
        /\ r * a \in Nat /\ r * (a + 1) = r * a + r /\ r * 0 = 0 /\ 0 * r = 0
        /\ a >= b => a * r >= b * r
  OBVIOUS

\* Refilling adds, up to the capacity.
LEMMA RefilledBounds ==
  ASSUME TypeOK, NEW s \in Session
  PROVE  /\ (now - refilled[s]) * Rate \in Nat
         /\ Refilled(s) \in 0..Capacity
         /\ Available(s) \in 0..Capacity
<1>1. now - refilled[s] \in Nat /\ tokens[s] \in 0..Capacity
  BY ConfigAssumption DEF TypeOK
<1>2. (now - refilled[s]) * Rate \in Nat
  BY <1>1, ConstantsNat
<1> QED
  BY <1>1, <1>2, ConstantsNat DEF Refilled, Available

\* An evicted bucket would be full: eviction changes nothing for its session.
LEMMA StaleIsFull ==
  ASSUME TypeOK, EvictsFull, NEW s \in tracked, refilled[s] = touched[s], Stale(s)
  PROVE  Refilled(s) = Capacity
<1>1. s \in Session /\ now - refilled[s] \in Nat /\ tokens[s] \in Nat
  BY ConfigAssumption, ConstantsNat DEF TypeOK
<1>2. now - refilled[s] >= IdleEviction + 1
  BY <1>1, ConfigAssumption DEF Stale, TypeOK
<1>3. (now - refilled[s]) * Rate >= Capacity
  BY <1>1, <1>2, Times, ConfigAssumption, ConstantsNat DEF EvictsFull
<1> QED
  BY <1>1, <1>3, ConstantsNat DEF Refilled

LEMMA AvailableIs ==
  ASSUME TypeOK, EvictsFull, \A r \in tracked : refilled[r] = touched[r],
         NEW s \in Session
  PROVE  Available(s) = IF s \in tracked THEN Refilled(s) ELSE Capacity
  BY StaleIsFull DEF Available

LEMMA BucketInit == Init => BucketInv
  BY ConfigAssumption, ConstantsNat
  DEF Init, BucketInv, TypeOK, NoWindowOverBudget

-----------------------------------------------------------------------------
(* A tick refills, but no faster than the windows grow. *)

LEMMA TickType == TypeOK /\ Tick => TypeOK'
<1> SUFFICES ASSUME TypeOK, Tick PROVE TypeOK'
  OBVIOUS
<1>1. now \in Nat /\ now' = now + 1 /\ now' \in 0..MaxTime
  BY ConfigAssumption DEF TypeOK, Tick
<1>2. \A s \in Session : served[s] \in Seq(0..now')
  <2> TAKE s \in Session
  <2>1. served[s] \in Seq(0..now)
    BY DEF TypeOK
  <2> QED BY <1>1, <2>1
<1>3. served' \in [Session -> Seq(0..now')]
  BY <1>2 DEF TypeOK, Tick
<1> QED
  BY <1>1, <1>3 DEF TypeOK, Tick, bucketVars

LEMMA TickAvailable ==
  ASSUME BucketInv, EvictsFull, Tick, NEW s \in Session
  PROVE  Available(s)' \in Nat /\ Available(s)' <= Available(s) + Rate
<1> DEFINE passed == now - refilled[s]
           full == tokens[s] + passed * Rate
<1>1. /\ passed \in Nat /\ tokens[s] \in Nat
      /\ now' = now + 1 /\ now' - refilled'[s] = passed + 1
      /\ tokens' = tokens /\ tracked' = tracked
  BY ConfigAssumption, ConstantsNat DEF BucketInv, TypeOK, Tick, bucketVars
<1>2. passed * Rate \in Nat /\ (passed + 1) * Rate = passed * Rate + Rate
  BY <1>1, Times, ConstantsNat
<1>3. full \in Nat /\ tokens'[s] + (now' - refilled'[s]) * Rate = full + Rate
  BY <1>1, <1>2, ConstantsNat
<1>4. Refilled(s) = IF full < Capacity THEN full ELSE Capacity
  BY DEF Refilled
<1>5. Refilled(s)' = IF full + Rate < Capacity THEN full + Rate ELSE Capacity
  BY <1>3 DEF Refilled, Capacity
<1>6. Available(s) = IF s \in tracked THEN Refilled(s) ELSE Capacity
  BY AvailableIs DEF BucketInv
<1>7. Available(s)' = IF s \in tracked THEN Refilled(s)' ELSE Capacity
  <2>1. CASE s \in tracked /\ Stale(s)'
    <3>1. passed + 1 >= IdleEviction + 1
      BY <1>1, <2>1, ConfigAssumption DEF Stale, Tick, bucketVars, BucketInv, TypeOK
    <3>2. (passed + 1) * Rate >= (IdleEviction + 1) * Rate
      <4>1. PICK a \in Nat, b \in Nat : a = passed + 1 /\ b = IdleEviction + 1
        BY <1>1, ConfigAssumption
      <4>2. a * Rate >= b * Rate
        BY <3>1, <4>1, Times, ConstantsNat
      <4> QED BY <4>1, <4>2
    <3>3. full + Rate >= Capacity
      <4>1. PICK more \in Nat, idle \in Nat : more = (passed + 1) * Rate /\ idle = (IdleEviction + 1) * Rate
        BY <1>1, ConfigAssumption, ConstantsNat, Times
      <4>2. more >= idle /\ idle >= Capacity
        BY <3>2, <4>1 DEF EvictsFull
      <4>3. full + Rate = tokens[s] + more
        BY <1>1, <1>2, <4>1, ConstantsNat
      <4> QED BY <1>1, <4>1, <4>2, <4>3, ConstantsNat
    <3> HIDE DEF full, passed
    <3> QED
      BY <1>3, <1>5, <2>1, <3>3, ConstantsNat DEF Available, Capacity
  <2>2. CASE ~(s \in tracked /\ Stale(s)')
    BY <1>1, <2>2 DEF Available, Capacity
  <2> QED BY <2>1, <2>2
<1> HIDE DEF full, passed
<1> QED
  BY <1>3, <1>4, <1>5, <1>6, <1>7, ConstantsNat

\* Positions and times of the commands that were let through.
LEMMA ServedBounds ==
  ASSUME TypeOK, NEW s \in Session, NEW i \in DOMAIN served[s]
  PROVE  /\ Len(served[s]) \in Nat /\ i \in 1..Len(served[s])
         /\ served[s][i] \in 0..now /\ now - served[s][i] \in Nat
         /\ Len(served[s]) - i + 1 \in Nat
<1>1. served[s] \in Seq(0..now) /\ now \in Nat
  BY ConfigAssumption DEF TypeOK
<1> QED  BY <1>1

LEMMA TickStep == BucketInv /\ EvictsFull /\ Tick => BucketInv'
<1> SUFFICES ASSUME BucketInv, EvictsFull, Tick PROVE BucketInv'
  OBVIOUS
<1>1. TypeOK' /\ \A r \in tracked' : refilled'[r] = touched'[r]
  BY TickType DEF BucketInv, Tick, bucketVars
<1>2. \A s \in Session : \A i \in DOMAIN served'[s] : Held(s, i)'
  <2> SUFFICES ASSUME NEW s \in Session, NEW i \in DOMAIN served[s] PROVE Held(s, i)'
    BY DEF Tick
  <2> DEFINE n == Len(served[s]) - i + 1
             d == now - served[s][i]
  <2>1. n \in Nat /\ d \in Nat /\ now' - served'[s][i] = d + 1
        /\ Len(served'[s]) - i + 1 = n
    <3>1. n \in Nat /\ d \in Nat /\ served[s][i] \in Nat
      BY ServedBounds DEF BucketInv
    <3>2. now' = now + 1 /\ served' = served /\ now \in Nat
      BY DEF BucketInv, TypeOK, Tick
    <3> QED BY <3>1, <3>2
  <2>2. n * Unit + Available(s) <= Capacity + Rate * d
    BY DEF BucketInv, Held
  <2>3. Available(s)' <= Available(s) + Rate
    BY TickAvailable
  <2>4. Available(s) \in Nat /\ Available(s)' \in Nat
    BY TickAvailable, RefilledBounds, ConstantsNat DEF BucketInv
  <2>5. n * Unit \in Nat /\ Rate * d \in Nat /\ Rate * (d + 1) = Rate * d + Rate
    BY <2>1, Times, ConstantsNat
  <2> HIDE DEF n, d
  <2>6. n * Unit + Available(s)' <= Capacity + Rate * (d + 1)
    BY <2>2, <2>3, <2>4, <2>5, ConstantsNat
  <2> QED
    BY <2>1, <2>6 DEF Held, Capacity
<1>3. NoWindowOverBudget'
  BY DEF BucketInv, NoWindowOverBudget, Fits, Capacity, Tick
<1> QED
  BY <1>1, <1>2, <1>3 DEF BucketInv

-----------------------------------------------------------------------------
(* A command takes what it costs, or is refused and takes nothing. *)

LEMMA ConsumeAvailable ==
  ASSUME TypeOK, NEW s \in Session, TryConsume(s)
  PROVE  /\ \A r \in Session \ {s} : Available(r)' = Available(r)
         /\ Available(s)' = tokens'[s]
         /\ tokens'[s] = IF Available(s) >= Unit THEN Available(s) - Unit
                                                 ELSE Available(s)
         /\ tokens' \in [Session -> 0..Capacity]
<1>1. Available(s) \in 0..Capacity
  BY RefilledBounds
<1>2. /\ tokens'[s] = IF Available(s) >= Unit THEN Available(s) - Unit ELSE Available(s)
      /\ tokens' = [tokens EXCEPT ![s] = tokens'[s]]
  BY DEF TryConsume, TypeOK
<1>3. tokens'[s] \in 0..Capacity
  BY <1>1, <1>2, ConstantsNat
<1>4. tokens' \in [Session -> 0..Capacity]
  BY <1>2, <1>3 DEF TypeOK
<1>5. Available(s)' = tokens'[s]
  <2>1. s \in tracked' /\ touched'[s] = now /\ refilled'[s] = now /\ now' = now
    BY DEF TryConsume, TypeOK
  <2>2. ~Stale(s)'
    BY <2>1, ConfigAssumption DEF Stale, TypeOK
  <2>3. (now' - refilled'[s]) * Rate = 0
    BY <2>1, Times, ConfigAssumption, ConstantsNat DEF TypeOK
  <2>4. Refilled(s)' = tokens'[s]
    BY <1>3, <2>3, ConstantsNat DEF Refilled, Capacity
  <2> QED BY <2>1, <2>2, <2>4 DEF Available
<1>6. ASSUME NEW r \in Session, r # s PROVE Available(r)' = Available(r)
  <2>1. /\ tokens'[r] = tokens[r] /\ refilled'[r] = refilled[r]
        /\ touched'[r] = touched[r] /\ now' = now
        /\ r \in tracked' <=> r \in tracked /\ ~Stale(r)
    BY <1>2, <1>6 DEF TryConsume, TypeOK
  <2>2. Refilled(r)' = Refilled(r) /\ (r \in tracked => (Stale(r)' <=> r \in tracked' /\ Stale(r)))
    BY <2>1 DEF Refilled, Stale, Capacity
  <2> QED BY <2>1, <2>2 DEF Available, Capacity
<1> QED
  BY <1>2, <1>4, <1>5, <1>6

LEMMA ConsumeType ==
  ASSUME TypeOK, NEW s \in Session, TryConsume(s)
  PROVE  TypeOK'
<1>1. tokens' \in [Session -> 0..Capacity] /\ now' = now /\ now \in 0..now
  <2>1. tokens' \in [Session -> 0..Capacity]
    BY ConsumeAvailable
  <2> QED BY <2>1, ConfigAssumption DEF TryConsume, TypeOK
<1>2. served' \in {served, [served EXCEPT ![s] = Append(@, now)]}
  BY DEF TryConsume
<1>3. served' \in [Session -> Seq(0..now)]
  <2>1. served[s] \in Seq(0..now)
    BY DEF TypeOK
  <2>2. Append(served[s], now) \in Seq(0..now)
    BY <1>1, <2>1
  <2> QED BY <1>2, <2>2 DEF TypeOK
<1> QED BY <1>1, <1>3 DEF TryConsume, TypeOK, Capacity

LEMMA ConsumeStep ==
  ASSUME BucketInv, NEW s \in Session, TryConsume(s)
  PROVE  BucketInv'
<1>1. now' = now /\ now \in Nat /\ Available(s) \in 0..Capacity
  BY RefilledBounds, ConfigAssumption DEF TryConsume, BucketInv, TypeOK
<1>2. CASE Available(s) >= Unit
  <2>1. /\ served' = [served EXCEPT ![s] = Append(@, now)]
        /\ Available(s)' = Available(s) - Unit
    BY <1>2, ConsumeAvailable DEF TryConsume, BucketInv
  <2>2. /\ served[s] \in Seq(0..now)
        /\ served'[s] = Append(served[s], now)
        /\ \A r \in Session \ {s} : served'[r] = served[r]
    BY <2>1 DEF BucketInv, TypeOK
  <2>3. TypeOK'
    BY ConsumeType DEF BucketInv
  <2>4. ASSUME NEW r \in Session, NEW i \in DOMAIN served'[r] PROVE Held(r, i)'
    <3>1. CASE r # s
      <4>1. r \in Session /\ served'[r] = served[r] /\ i \in DOMAIN served[r]
        BY <2>2, <3>1
      <4>2. Held(r, i)
        BY <4>1 DEF BucketInv
      <4>3. Available(r)' = Available(r)
        BY <3>1, <4>1, ConsumeAvailable DEF BucketInv
      <4> QED BY <1>1, <4>1, <4>2, <4>3 DEF Held, Capacity
    <3>2. CASE r = s /\ i \in DOMAIN served[s]
      <4> DEFINE n == Len(served[s]) - i + 1
                 w == Rate * (now - served[s][i])
      <4>1. n \in Nat /\ Len(served'[s]) - i + 1 = n + 1 /\ served'[s][i] = served[s][i]
        BY <2>2, <3>2, ServedBounds DEF BucketInv
      <4>2. n * Unit + Available(s) <= Capacity + w
        BY <3>2 DEF BucketInv, Held
      <4>3. n * Unit \in Nat /\ (n + 1) * Unit = n * Unit + Unit /\ w \in Nat
        BY <3>2, <4>1, Times, ServedBounds, ConstantsNat DEF BucketInv
      <4>4. Rate * (now' - served'[s][i]) = w
        BY <1>1, <4>1
      <4> HIDE DEF n, w
      <4>5. (n + 1) * Unit + Available(s)' <= Capacity + w
        BY <1>1, <2>1, <4>2, <4>3, ConstantsNat
      <4> QED
        BY <3>2, <4>1, <4>4, <4>5 DEF Held, Capacity
    <3>3. CASE r = s /\ i = Len(served[s]) + 1
      <4>1. Len(served'[s]) - i + 1 = 1 /\ now' - served'[s][i] = 0
        BY <1>1, <2>2, <3>3
      <4>2. 1 * Unit + Available(s)' <= Capacity + Rate * 0
        BY <1>1, <2>1, Times, ConstantsNat
      <4> QED
        BY <3>3, <4>1, <4>2 DEF Held, Capacity
    <3> QED
      BY <2>2, <2>4, <3>1, <3>2, <3>3
  <2>5. NoWindowOverBudget'
    <3> SUFFICES ASSUME NEW r \in Session, NEW j \in DOMAIN served'[r], NEW i \in 1..j
                 PROVE  Fits(j - i + 1, served'[r][j] - served'[r][i])
      BY DEF NoWindowOverBudget, Fits, Capacity
    <3>1. CASE r # s
      BY <2>2, <3>1 DEF BucketInv, NoWindowOverBudget
    <3>2. CASE r = s /\ j \in DOMAIN served[s]
      <4>1. i \in DOMAIN served[s]
        BY <2>2, <3>2
      <4>2. served'[s][i] = served[s][i] /\ served'[s][j] = served[s][j]
        BY <2>2, <3>2, <4>1
      <4> QED BY <3>2, <4>2 DEF BucketInv, NoWindowOverBudget
    <3>3. CASE r = s /\ j = Len(served[s]) + 1
      <4>1. i \in DOMAIN served'[s] /\ Len(served'[s]) = j /\ served'[s][j] = now
        BY <2>2, <3>3
      <4>2. Held(s, i)'
        BY <2>4, <4>1
      <4>3. (j - i + 1) * Unit + Available(s)' <= Capacity + Rate * (now - served'[s][i])
        BY <1>1, <4>1, <4>2 DEF Held, Capacity
      <4> DEFINE a == (j - i + 1) * Unit
                 w == Rate * (now - served'[s][i])
      <4>4. a \in Nat
        <5>1. j - i + 1 \in Nat
          BY <2>2, <3>3
        <5> QED BY <5>1, Times, ConstantsNat
      <4>5. w \in Nat
        <5>1. served'[s] \in Seq(0..now)
          BY <1>1, <2>2
        <5>2. now - served'[s][i] \in Nat
          BY <1>1, <4>1, <5>1
        <5> QED BY <5>2, Times, ConstantsNat
      <4>6. Available(s)' \in Nat
        BY <1>1, <1>2, <2>1, ConstantsNat
      <4> HIDE DEF a, w
      <4>7. a <= Capacity + w
        BY <4>3, <4>4, <4>5, <4>6, ConstantsNat DEF a, w
      <4> QED
        BY <3>3, <4>1, <4>7 DEF Fits, a, w
    <3> QED
      BY <2>2, <3>1, <3>2, <3>3
  <2>6. \A r \in tracked' : refilled'[r] = touched'[r]
    BY DEF TryConsume, BucketInv, TypeOK
  <2> QED
    BY <2>3, <2>4, <2>5, <2>6 DEF BucketInv
<1>3. CASE ~(Available(s) >= Unit)
  <2>1. served' = served /\ \A r \in Session : Available(r)' = Available(r)
    BY <1>3, ConsumeAvailable DEF TryConsume, BucketInv
  <2>2. TypeOK'
    BY ConsumeType DEF BucketInv
  <2>3. \A r \in Session : \A i \in DOMAIN served'[r] : Held(r, i)'
    BY <1>1, <2>1 DEF BucketInv, Held, Capacity
  <2>4. NoWindowOverBudget'
    BY <2>1 DEF BucketInv, NoWindowOverBudget, Fits, Capacity
  <2>5. \A r \in tracked' : refilled'[r] = touched'[r]
    BY DEF TryConsume, BucketInv, TypeOK
  <2> QED
    BY <2>2, <2>3, <2>4, <2>5 DEF BucketInv
<1> QED
  BY <1>2, <1>3

-----------------------------------------------------------------------------

\* NoWindowOverBudget, and the types, for every instance whose idle buckets are
\* full again when _evict_idle_locked drops them.
THEOREM BudgetKept == EvictsFull => (Spec => [](TypeOK /\ NoWindowOverBudget))
<1> SUFFICES ASSUME EvictsFull PROVE Spec => [](TypeOK /\ NoWindowOverBudget)
  OBVIOUS
<1>1. Init => BucketInv
  BY BucketInit
<1>2. BucketInv /\ [Next]_vars => BucketInv'
  <2>1. ASSUME BucketInv, UNCHANGED vars PROVE BucketInv'
    BY <2>1
    DEF vars, bucketVars, BucketInv, TypeOK, Held, Available, Refilled, Stale, Capacity,
        NoWindowOverBudget, Fits
  <2> QED
    BY <2>1, TickStep, ConsumeStep DEF Next
<1>3. BucketInv => TypeOK /\ NoWindowOverBudget
  BY DEF BucketInv
<1> QED
  BY <1>1, <1>2, <1>3, PTL DEF Spec

-----------------------------------------------------------------------------
(* A bucket that is not full is short of exactly what was let through since  *)
(* it last was.                                                              *)

Short(s, i) ==
    (Len(served[s]) - i + 1) * Unit + Available(s)
        = Capacity + Rate * (now - served[s][i])

TightInv == \A s \in Session : Available(s) < Capacity => \E i \in DOMAIN served[s] : Short(s, i)

LEMMA TightInit == Init => TightInv
  BY ConfigAssumption, ConstantsNat
  DEF Init, TightInv, Available, Stale

LEMMA TightTick ==
  ASSUME TypeOK, TightInv, Tick
  PROVE  TightInv'
<1> SUFFICES ASSUME NEW s \in Session, (Available(s) < Capacity)'
             PROVE  \E i \in DOMAIN served[s] : Short(s, i)'
  BY DEF TightInv, Tick
<1> DEFINE passed == now - refilled[s]
           full == tokens[s] + passed * Rate
<1>1. /\ passed \in Nat /\ tokens[s] \in Nat /\ now \in Nat
      /\ now' = now + 1 /\ now' - refilled'[s] = passed + 1
      /\ tokens' = tokens /\ tracked' = tracked /\ touched' = touched /\ served' = served
      /\ touched[s] \in Nat
  BY ConfigAssumption, ConstantsNat DEF TypeOK, Tick, bucketVars
<1>2. passed * Rate \in Nat /\ (passed + 1) * Rate = passed * Rate + Rate
  BY <1>1, Times, ConstantsNat
<1>3. full \in Nat /\ tokens'[s] + (now' - refilled'[s]) * Rate = full + Rate
  BY <1>1, <1>2, ConstantsNat
<1>4. s \in tracked /\ ~Stale(s)' /\ Available(s)' = Refilled(s)'
  <2>1. Available(s)' < Capacity
    BY DEF Capacity
  <2>2. Available(s)' = IF s \in tracked' /\ ~Stale(s)' THEN Refilled(s)' ELSE Capacity
    BY DEF Available, Capacity
  <2> QED BY <1>1, <2>1, <2>2, ConstantsNat
<1>5. ~Stale(s) /\ Available(s) = Refilled(s)
  BY <1>1, <1>4, ConfigAssumption DEF Stale, Available
<1>6. Refilled(s) = IF full < Capacity THEN full ELSE Capacity
  BY DEF Refilled
<1>7. Refilled(s)' = IF full + Rate < Capacity THEN full + Rate ELSE Capacity
  BY <1>3 DEF Refilled, Capacity
<1>8. Available(s)' < Capacity
  BY DEF Capacity
<1> HIDE DEF full, passed
<1>9. Available(s) = full /\ Available(s)' = full + Rate /\ full < Capacity
  BY <1>3, <1>4, <1>5, <1>6, <1>7, <1>8, ConstantsNat
<1>10. PICK i \in DOMAIN served[s] : Short(s, i)
  BY <1>9 DEF TightInv
<1> DEFINE n == Len(served[s]) - i + 1
           d == now - served[s][i]
<1>11. n \in Nat /\ d \in Nat /\ now' - served'[s][i] = d + 1 /\ Len(served'[s]) - i + 1 = n
  <2>1. /\ Len(served[s]) \in Nat /\ served[s][i] \in 0..now /\ now - served[s][i] \in Nat
        /\ Len(served[s]) - i + 1 \in Nat
    BY <1>10, ServedBounds
  <2>2. served'[s] = served[s] /\ now' = now + 1 /\ now \in Nat
    BY <1>1
  <2>3. n \in Nat /\ d \in Nat /\ Len(served'[s]) - i + 1 = n
    BY <2>1, <2>2
  <2>4. (now + 1) - served[s][i] = d + 1
    BY <2>1, <2>2
  <2> QED BY <2>2, <2>3, <2>4
<1>12. n * Unit + full = Capacity + Rate * d
  BY <1>9, <1>10 DEF Short
<1>13. n * Unit \in Nat /\ Rate * d \in Nat /\ Rate * (d + 1) = Rate * d + Rate
  BY <1>11, Times, ConstantsNat
<1> HIDE DEF n, d
<1>14. n * Unit + (full + Rate) = Capacity + Rate * (d + 1)
  BY <1>3, <1>12, <1>13, ConstantsNat
<1> QED BY <1>9, <1>11, <1>14 DEF Short, Capacity

LEMMA TightConsume ==
  ASSUME TypeOK, TightInv, NEW s \in Session, TryConsume(s)
  PROVE  TightInv'
<1> SUFFICES ASSUME NEW r \in Session, (Available(r) < Capacity)'
             PROVE  \E i \in DOMAIN served'[r] : Short(r, i)'
  BY DEF TightInv
<1>1. now' = now /\ now \in Nat /\ Available(s) \in 0..Capacity
  BY RefilledBounds, ConfigAssumption DEF TryConsume, TypeOK
<1>2. Available(r)' < Capacity
  BY DEF Capacity
<1>3. CASE r # s \/ ~(Available(s) >= Unit)
  <2>1. served'[r] = served[r] /\ Available(r)' = Available(r)
    <3>1. CASE r # s
      BY <3>1, ConsumeAvailable DEF TryConsume, TypeOK
    <3>2. CASE ~(Available(s) >= Unit)
      BY <3>2, ConsumeAvailable DEF TryConsume
    <3> QED BY <1>3, <3>1, <3>2
  <2>2. PICK i \in DOMAIN served[r] : Short(r, i)
    BY <1>2, <2>1 DEF TightInv
  <2>3. Short(r, i)'
    BY <1>1, <2>1, <2>2 DEF Short, Capacity
  <2> QED BY <2>1, <2>2, <2>3
<1>4. CASE r = s /\ Available(s) >= Unit
  <2>1. /\ served[s] \in Seq(0..now) /\ served'[s] = Append(served[s], now)
        /\ Available(s)' = Available(s) - Unit
    BY <1>4, ConsumeAvailable DEF TryConsume, TypeOK
  <2>2. /\ Len(served[s]) \in Nat /\ Len(served'[s]) = Len(served[s]) + 1
        /\ DOMAIN served[s] = 1..Len(served[s]) /\ DOMAIN served'[s] = 1..(Len(served[s]) + 1)
        /\ \A i \in DOMAIN served[s] : served'[s][i] = served[s][i]
        /\ served'[s][Len(served[s]) + 1] = now
    BY <1>1, <2>1
  <2>3. CASE Available(s) = Capacity
    <3>0. PICK e \in Nat : e = Len(served[s]) + 1
      BY <2>2
    <3>1. Len(served'[s]) - e + 1 = 1 /\ now' - served'[s][e] = 0 /\ e \in DOMAIN served'[s]
      BY <1>1, <2>2, <3>0
    <3>2. 1 * Unit + Available(s)' = Capacity + Rate * 0
      BY <1>1, <2>1, <2>3, Times, ConstantsNat
    <3>3. Short(s, e)'
      BY <3>1, <3>2 DEF Short, Capacity
    <3> QED BY <1>4, <3>1, <3>3
  <2>4. CASE Available(s) # Capacity
    <3>1. Available(s) < Capacity
      BY <1>1, <2>4, ConstantsNat
    <3>2. PICK i \in DOMAIN served[s] : Short(s, i)
      BY <3>1 DEF TightInv
    <3> DEFINE n == Len(served[s]) - i + 1
               d == now - served[s][i]
               w == Rate * d
    <3>3. /\ n \in Nat /\ d \in Nat /\ Len(served'[s]) - i + 1 = n + 1 /\ served'[s][i] = served[s][i]
          /\ i \in DOMAIN served'[s]
      BY <2>2, <3>2, ServedBounds
    <3>4. n * Unit + Available(s) = Capacity + w
      BY <3>2 DEF Short
    <3>5. n * Unit \in Nat /\ (n + 1) * Unit = n * Unit + Unit /\ w \in Nat
      <4> HIDE DEF n, d
      <4> QED BY <3>3, Times, ConstantsNat
    <3>6. Rate * (now' - served'[s][i]) = w
      BY <1>1, <3>3
    <3> HIDE DEF n, d, w
    <3>7. (n + 1) * Unit + Available(s)' = Capacity + w
      BY <1>1, <2>1, <3>4, <3>5, ConstantsNat
    <3>8. Short(s, i)'
      BY <3>3, <3>6, <3>7 DEF Short, Capacity
    <3> QED BY <1>4, <3>3, <3>8
  <2> QED BY <2>3, <2>4
<1> QED BY <1>3, <1>4

LEMMA TightRefuses == TypeOK /\ TightInv => RefusedOnlyOverBudget
<1> SUFFICES ASSUME TypeOK, TightInv, NEW s \in Session, Available(s) < Unit
             PROVE  \E i \in DOMAIN served[s] :
                        ~Fits(Len(served[s]) - i + 2, now - served[s][i])
  BY DEF RefusedOnlyOverBudget
<1>1. Available(s) \in Nat /\ Available(s) < Capacity
  <2>1. Available(s) \in 0..Capacity
    BY RefilledBounds
  <2>2. Burst * Unit >= 1 * Unit /\ 1 * Unit = Unit
    BY Times, ConfigAssumption
  <2> QED BY <2>1, <2>2, ConstantsNat DEF Capacity
<1>2. PICK i \in DOMAIN served[s] : Short(s, i)
  BY <1>1 DEF TightInv
<1> DEFINE n == Len(served[s]) - i + 1
           d == now - served[s][i]
           w == Rate * d
<1>3. n \in Nat /\ Len(served[s]) - i + 2 = n + 1 /\ d \in Nat
  BY <1>2, ServedBounds
<1>4. n * Unit \in Nat /\ (n + 1) * Unit = n * Unit + Unit /\ w \in Nat
  <2> HIDE DEF n, d
  <2> QED BY <1>3, Times, ConstantsNat
<1>5. n * Unit + Available(s) = Capacity + w
  BY <1>2 DEF Short
<1> HIDE DEF n, d, w
<1>6. ~((n + 1) * Unit <= Capacity + w)
  BY <1>1, <1>4, <1>5, ConstantsNat
<1>7. ~Fits(Len(served[s]) - i + 2, now - served[s][i])
  BY <1>3, <1>6 DEF Fits, w, d
<1> QED BY <1>2, <1>7

\* RefusedOnlyOverBudget, for every instance, however long an idle bucket is kept:
\* a refusal (slot, _refill_locked) means that some window is used up.
THEOREM RefusalsKept == Spec => []RefusedOnlyOverBudget
<1>1. Init => TypeOK /\ TightInv
  BY BucketInit, TightInit DEF BucketInv
<1>2. TypeOK /\ TightInv /\ [Next]_vars => (TypeOK /\ TightInv)'
  <2>1. ASSUME TypeOK, TightInv, UNCHANGED vars PROVE (TypeOK /\ TightInv)'
    BY <2>1
    DEF vars, bucketVars, TypeOK, TightInv, Short, Available, Refilled, Stale, Capacity
  <2> QED
    BY <2>1, TickType, TightTick, ConsumeType, TightConsume DEF Next
<1> QED BY <1>1, <1>2, TightRefuses, PTL DEF Spec

-----------------------------------------------------------------------------
(* Runtime overrides. *)

\* Times only grow: nothing that was read or written is younger than what it
\* was read from.
TimesInv ==
    /\ file.mtime <= since
    /\ Publishing => since <= tmp.mtime
    /\ cache.mtime <= file.mtime
    /\ asking.mtime <= file.mtime

\* What is published, or is about to be, is what the operator wants.
PublishedInv ==
    /\ Publishing => tmp.strategy = want
    /\ ~Publishing /\ "unpublished" \notin spoiled => file.strategy = want

\* A cache that carries the file's time carries its strategy, and one that was
\* refreshed after the file was put in place carries its time.
CacheInv ==
    /\ spoiled \intersect {"misread", "collided"} = {} =>
        (cache.at # 0 /\ cache.mtime = file.mtime => cache.strategy = file.strategy)
    /\ cache.at > since => cache.mtime = file.mtime
    /\ asking.at > since => asking.mtime = file.mtime

OvrInv == OvrTypeOK /\ TimesInv /\ PublishedInv /\ CacheInv

LEMMA OvrInitInv == OvrInit => OvrInv
  BY OverridesAssumption
  DEF OvrInit, OvrInv, OvrTypeOK, TimesInv, PublishedInv, CacheInv,
      NoFile, NoCache, NotAsking, Publishing, Reading

\* WriteTmp leaves no file to rename, and says so, or one with what is wanted.
LEMMA WriteTmpInv ==
  ASSUME OvrInv, NEW s \in Strategy, WriteTmp(s), want' = s,
         UNCHANGED <<clock, file, since>>
  PROVE  /\ tmp' \in [strategy : Strategy, mtime : 0..clock]
         /\ tmp'.mtime # 0 => since <= tmp'.mtime
         /\ PublishedInv'
         /\ spoiled \subseteq spoiled' /\ spoiled' \subseteq spoiled \union {"unpublished"}
<1> USE OverridesAssumption DEF OvrInv, OvrTypeOK, NoFile, PublishedInv, Publishing
<1>1. CASE tmp' = [strategy |-> s, mtime |-> clock] /\ spoiled' = spoiled
  <2>1. tmp'.strategy = s /\ tmp'.mtime = clock
    BY <1>1
  <2> QED BY <1>1, <2>1
<1>2. CASE tmp' = NoFile /\ spoiled' = spoiled \union {"unpublished"}
  <2>1. tmp'.mtime = 0
    BY <1>2
  <2> QED BY <1>2, <2>1
<1> QED BY <1>1, <1>2 DEF WriteTmp

LEMMA OvrStep == OvrInv /\ [OvrNext]_ovrVars => OvrInv'
<1> SUFFICES ASSUME OvrInv, [OvrNext]_ovrVars PROVE OvrInv'
  OBVIOUS
<1> USE OverridesAssumption DEF OvrInv, Publishing, Reading
<1>1. ASSUME NEW s \in Strategy, Change(s) PROVE OvrInv'
  <2>1. /\ tmp' \in [strategy : Strategy, mtime : 0..clock]
        /\ tmp'.mtime # 0 => since <= tmp'.mtime
        /\ PublishedInv'
        /\ spoiled \subseteq spoiled' /\ spoiled' \subseteq spoiled \union {"unpublished"}
    BY <1>1, WriteTmpInv DEF Change
  <2>2. OvrTypeOK'
    BY <1>1, <2>1 DEF Change, OvrTypeOK
  <2>3. TimesInv' /\ CacheInv'
    BY <1>1, <2>1 DEF Change, NoFile, TimesInv, CacheInv
  <2> QED BY <2>1, <2>2, <2>3
<1>2. CASE Replace
  <2>0. tmp' = NoFile /\ tmp'.mtime = 0
    BY <1>2 DEF Replace, NoFile
  <2>1. CASE /\ file' = tmp /\ since' = clock
             /\ spoiled' = (spoiled \ {"unpublished", "collided"})
                           \union IF tmp.mtime = file.mtime THEN {"collided"} ELSE {}
    <3>1. OvrTypeOK'
      <4>1. tmp' \in [strategy : Strategy, mtime : 0..clock]
        BY <2>0 DEF NoFile, OvrTypeOK
      <4>2. spoiled' \subseteq {"unpublished", "collided", "misread"}
        BY <2>1 DEF OvrTypeOK
      <4> QED BY <1>2, <2>1, <4>1, <4>2 DEF Replace, OvrTypeOK
    <3>2. TimesInv'
      BY <1>2, <2>0, <2>1 DEF Replace, OvrTypeOK, TimesInv
    <3>3. PublishedInv'
      BY <1>2, <2>0, <2>1 DEF Replace, PublishedInv
    <3>4. CacheInv'
      <4>1. CASE tmp.mtime = file.mtime
        BY <1>2, <2>1, <4>1 DEF Replace, OvrTypeOK, CacheInv
      <4>2. CASE tmp.mtime # file.mtime
        BY <1>2, <2>1, <4>2 DEF Replace, OvrTypeOK, TimesInv, CacheInv
      <4> QED BY <4>1, <4>2
    <3> QED BY <3>1, <3>2, <3>3, <3>4
  <2>2. CASE UNCHANGED <<file, since>> /\ spoiled' = spoiled \union {"unpublished"}
    BY <1>2, <2>2
    DEF Replace, NoFile, OvrTypeOK, TimesInv, PublishedInv, CacheInv
  <2> QED BY <1>2, <2>1, <2>2 DEF Replace
<1>3. CASE RestartDashboard
  <2>1. /\ tmp' \in [strategy : Strategy, mtime : 0..clock]
        /\ tmp'.mtime # 0 => since <= tmp'.mtime
        /\ PublishedInv'
        /\ spoiled \subseteq spoiled' /\ spoiled' \subseteq spoiled \union {"unpublished"}
    BY <1>3, WriteTmpInv DEF RestartDashboard
  <2>2. OvrTypeOK'
    BY <1>3, <2>1 DEF RestartDashboard, OvrTypeOK
  <2>3. TimesInv' /\ CacheInv'
    BY <1>3, <2>1 DEF RestartDashboard, NoFile, TimesInv, CacheInv
  <2> QED BY <2>1, <2>2, <2>3
<1>4. CASE Ask
  <2>1. CASE file.mtime = cache.mtime /\ cache.at # 0
    <3>1. cache' = [strategy |-> cache.strategy, mtime |-> cache.mtime, at |-> clock]
      BY <1>4, <2>1 DEF Ask, OvrTypeOK
    <3> QED
      BY <1>4, <2>1, <3>1
      DEF Ask, NoFile, OvrTypeOK, TimesInv, PublishedInv, CacheInv
  <2>2. CASE ~(file.mtime = cache.mtime /\ cache.at # 0)
    BY <1>4, <2>2 DEF Ask, NoFile, OvrTypeOK, TimesInv, PublishedInv, CacheInv
  <2> QED BY <2>1, <2>2
<1>5. CASE ReadFile
  <2>1. PICK failed \in BOOLEAN :
            /\ cache' = [strategy |-> IF failed THEN Static ELSE file.strategy,
                         mtime |-> asking.mtime, at |-> asking.at]
            /\ spoiled' = IF failed THEN spoiled \union {"misread"} ELSE spoiled \ {"misread"}
    BY <1>5 DEF ReadFile
  <2>2. OvrTypeOK'
    BY <1>5, <2>1 DEF ReadFile, NotAsking, OvrTypeOK
  <2>3. TimesInv' /\ PublishedInv'
    BY <1>5, <2>1 DEF ReadFile, NotAsking, NoFile, OvrTypeOK, TimesInv, PublishedInv
  <2>4. CacheInv'
    BY <1>5, <2>1 DEF ReadFile, NotAsking, OvrTypeOK, CacheInv
  <2> QED BY <2>2, <2>3, <2>4
<1>6. CASE RestartBridge
  BY <1>6
  DEF RestartBridge, NoCache, NotAsking, NoFile, OvrTypeOK, TimesInv, PublishedInv, CacheInv
<1>7. CASE OvrTick
  BY <1>7 DEF OvrTick, NoFile, OvrTypeOK, TimesInv, PublishedInv, CacheInv
<1>8. CASE UNCHANGED ovrVars
  BY <1>8 DEF ovrVars, NoFile, OvrTypeOK, TimesInv, PublishedInv, CacheInv
<1> QED
  BY <1>1, <1>2, <1>3, <1>4, <1>5, <1>6, <1>7, <1>8 DEF OvrNext

\* A cache that is still fresh was refreshed after the file was put in place.
LEMMA InvAnswers == OvrInv => AnswersWithinTTL
<1> SUFFICES ASSUME OvrInv, Fresh, ~Reading, ~Publishing,
                    since + CacheTTL <= clock, spoiled = {}
             PROVE  cache.strategy = want
  BY DEF AnswersWithinTTL
<1>1. cache.at # 0 /\ cache.at > since
  BY OverridesAssumption DEF Fresh, OvrInv, OvrTypeOK
<1> QED
  BY <1>1 DEF OvrInv, CacheInv, PublishedInv

\* Types and AnswersWithinTTL (overrides_publisher.py:5, the bridge picks a change
\* up within its cache's TTL), for every instance.
THEOREM AnswersInTime == OvrSpec => [](OvrTypeOK /\ AnswersWithinTTL)
<1>1. OvrInit => OvrInv
  BY OvrInitInv
<1>2. OvrInv /\ [OvrNext]_ovrVars => OvrInv'
  BY OvrStep
<1>3. OvrInv => OvrTypeOK /\ AnswersWithinTTL
  BY InvAnswers DEF OvrInv
<1> QED
  BY <1>1, <1>2, <1>3, PTL DEF OvrSpec

-----------------------------------------------------------------------------
(* The shipper. *)

\* What a cycle under way knows.  While its file is still the one at the path, the
\* collector has everything before its position, and the lines it sends follow
\* on.  Once the file was swapped its position says nothing any more, but then
\* what it saves carries the old inode.
CycleInv ==
    /\ cycle.at = "post" =>
        /\ cycle.pos <= cycle.next /\ cycle.next < cycle.last /\ cycle.last <= written
        /\ cycle.inode = inode => cycle.next = base + cycle.pos
    /\ cycle.inode = inode => (base + 1)..(base + cycle.pos) \subseteq received
    /\ cycle.at # "post" => cycle.next = 0 /\ cycle.last = 0

ShipInv == ShipTypeOK /\ SavedNotAhead /\ CycleInv

LEMMA ShipInitInv == ShipInit => ShipInv
  BY ShipperAssumption
  DEF ShipInit, ShipInv, ShipTypeOK, SavedNotAhead, CycleInv, Asleep

\* A batch is a part of what is left to send.
LEMMA BatchBounds ==
  ASSUME ShipInv, cycle.at = "post"
  PROVE  /\ BatchSize \in Nat \ {0}
         /\ cycle.next + BatchSize <= cycle.last
         /\ Batch \subseteq 1..written
  BY ShipperAssumption DEF ShipInv, ShipTypeOK, CycleInv, BatchSize, Batch

LEMMA ShipStep == ShipInv /\ [ShipNext]_shipVars => ShipInv'
<1> SUFFICES ASSUME ShipInv, [ShipNext]_shipVars PROVE ShipInv'
  OBVIOUS
<1> USE ShipperAssumption DEF ShipInv
<1>1. CASE WriteLine
  BY <1>1 DEF WriteLine, ShipTypeOK, SavedNotAhead, CycleInv
<1>2. CASE Swap
  BY <1>2 DEF Swap, ShipTypeOK, SavedNotAhead, CycleInv
<1>3. CASE Look
  <2>1. StartAt \in 0..MaxLines /\ (base + 1)..(base + StartAt) \subseteq received
    BY DEF StartAt, ShipTypeOK, SavedNotAhead
  <2>2. PICK p \in {0, StartAt} :
            cycle' = [at |-> "open", inode |-> inode, pos |-> p, next |-> 0, last |-> 0]
    BY <1>3 DEF Look, Asleep
  <2>3. ShipTypeOK'
    BY <1>3, <2>1, <2>2 DEF Look, ShipTypeOK
  <2>4. SavedNotAhead' /\ CycleInv'
    BY <1>3, <2>1, <2>2 DEF Look, ShipTypeOK, SavedNotAhead, CycleInv
  <2> QED BY <2>3, <2>4
<1>4. CASE Read
  <2>1. CASE base + cycle.pos < written
    <3>1. cycle' = [at |-> "post", inode |-> cycle.inode, pos |-> cycle.pos,
                    next |-> base + cycle.pos, last |-> written]
      BY <1>4, <2>1 DEF Read, ShipTypeOK
    <3>2. ShipTypeOK'
      BY <1>4, <2>1, <3>1 DEF Read, ShipTypeOK
    <3>3. SavedNotAhead' /\ CycleInv'
      BY <1>4, <2>1, <3>1 DEF Read, ShipTypeOK, SavedNotAhead, CycleInv
    <3> QED BY <3>2, <3>3
  <2>2. CASE ~(base + cycle.pos < written)
    <3>1. ShipTypeOK'
      BY <1>4, <2>2 DEF Read, SaveOffset, Saves, Asleep, ShipTypeOK
    <3>2. SavedNotAhead'
      BY <1>4, <2>2 DEF Read, SaveOffset, Saves, ShipTypeOK, SavedNotAhead, CycleInv
    <3>3. CycleInv'
      BY <1>4, <2>2 DEF Read, Asleep, ShipTypeOK, CycleInv
    <3> QED BY <3>1, <3>2, <3>3
  <2> QED BY <2>1, <2>2
<1>5. CASE Accept
  <2> DEFINE n == BatchSize
  <2>1. /\ n \in Nat \ {0}
        /\ cycle.next + n <= cycle.last
        /\ Batch = (cycle.next + 1)..(cycle.next + n)
        /\ Batch \subseteq 1..written
    BY <1>5, BatchBounds DEF Accept, Batch
  <2>2. cycle.inode = inode =>
            (base + 1)..(base + cycle.pos + n) \subseteq received \union Batch
    BY <1>5, <2>1 DEF Accept, ShipTypeOK, CycleInv
  <2>3. cycle.pos + n \in 0..MaxLines
    BY <1>5, <2>1 DEF Accept, ShipTypeOK, CycleInv
  <2>4. \/ cycle' = Asleep
        \/ /\ cycle.next + n # cycle.last
           /\ cycle' = [at |-> "post", inode |-> cycle.inode, pos |-> cycle.pos + n,
                        next |-> cycle.next + n, last |-> cycle.last]
    BY <1>5, <2>1 DEF Accept, Advance, ShipTypeOK
  <2>5. CycleInv'
    <3>1. CASE cycle' = Asleep
      BY <1>5, <3>1 DEF Accept, Asleep, ShipTypeOK, CycleInv
    <3>2. CASE cycle' # Asleep
      <4>1. /\ inode' = inode /\ base' = base /\ written' = written
            /\ received' = received \union Batch
        BY <1>5 DEF Accept
      <4>2. /\ cycle'.at = "post" /\ cycle'.inode = cycle.inode
            /\ cycle'.pos = cycle.pos + n
            /\ cycle'.next = cycle.next + n /\ cycle'.last = cycle.last
            /\ cycle.next + n # cycle.last
        BY <2>4, <3>2
      <4>3. cycle.at = "post"
        BY <1>5 DEF Accept
      <4> HIDE DEF n
      <4>4. /\ cycle'.pos <= cycle'.next /\ cycle'.next < cycle'.last
            /\ cycle'.last <= written'
            /\ cycle'.inode = inode' => cycle'.next = base' + cycle'.pos
        <5>1. /\ cycle.pos <= cycle.next /\ cycle.last <= written
              /\ cycle.inode = inode => cycle.next = base + cycle.pos
          BY <4>3 DEF CycleInv
        <5>2. /\ cycle.pos \in Nat /\ cycle.next \in Nat /\ cycle.last \in Nat
              /\ base \in Nat
          BY DEF ShipTypeOK
        <5>3. cycle.next + n < cycle.last
          BY <2>1, <4>2, <5>2
        <5> QED BY <2>1, <4>1, <4>2, <5>1, <5>2, <5>3
      <4>5. cycle'.inode = inode' => (base' + 1)..(base' + cycle'.pos) \subseteq received'
        <5>1. base' + cycle'.pos = base + cycle.pos + n
          BY <2>1, <4>1, <4>2 DEF ShipTypeOK
        <5> QED BY <2>2, <4>1, <4>2, <5>1
      <4> QED BY <4>2, <4>4, <4>5 DEF CycleInv
    <3> QED BY <3>1, <3>2
  <2>6. saved' \in {saved, [inode |-> cycle.inode, pos |-> cycle.pos + n]}
    BY <1>5 DEF Accept, SaveOffset, Saves
  <2>7. SavedNotAhead'
    <3>1. inode' = inode /\ base' = base /\ received' = received \union Batch
      BY <1>5 DEF Accept
    <3>2. CASE saved' = saved
      BY <3>1, <3>2 DEF SavedNotAhead
    <3>3. CASE saved' = [inode |-> cycle.inode, pos |-> cycle.pos + n]
      <4>1. saved'.inode = cycle.inode /\ saved'.pos = cycle.pos + n
        BY <3>3
      <4>2. base + saved'.pos = base + cycle.pos + n
        BY <2>1, <4>1 DEF ShipTypeOK
      <4> QED BY <2>2, <3>1, <4>1, <4>2 DEF SavedNotAhead
    <3> QED BY <2>6, <3>2, <3>3
  <2>8. saved' \in [inode : 0..inode, pos : 0..MaxLines] /\ trouble' \in 0..MaxTrouble
    <3>1. saved' \in [inode : 0..inode, pos : 0..MaxLines]
      BY <2>3, <2>6 DEF ShipTypeOK
    <3>2. trouble' \in 0..MaxTrouble
      BY <1>5 DEF Accept, SaveOffset, ShipTypeOK
    <3> QED BY <3>1, <3>2
  <2>9. cycle' \in [at : {"asleep", "open", "post"}, inode : 0..inode,
                    pos : 0..MaxLines, next : 0..MaxLines, last : 0..MaxLines]
    BY <1>5, <2>1, <2>3, <2>4 DEF Asleep, ShipTypeOK, CycleInv
  <2>10. ShipTypeOK'
    BY <1>5, <2>1, <2>8, <2>9 DEF Accept, ShipTypeOK
  <2> QED BY <2>5, <2>7, <2>10
<1>6. CASE Lose
  <2>1. Batch \subseteq 1..written
    BY <1>6, BatchBounds
    DEF Lose, Batch, BatchSize, ShipTypeOK, CycleInv
  <2> QED
    BY <1>6, <2>1 DEF Lose, Asleep, ShipTypeOK, SavedNotAhead, CycleInv
<1>7. CASE UNCHANGED shipVars
  BY <1>7 DEF shipVars, ShipTypeOK, SavedNotAhead, CycleInv
<1> QED
  BY <1>1, <1>2, <1>3, <1>4, <1>5, <1>6, <1>7 DEF ShipNext

\* As long as nothing failed, the lines the shipper saw are with the collector
\* or on their way there, and so is every line rotated away, unless it is late.
GapInv ==
    trouble = 0 => 1..base \union 1..read \subseteq received \union late \union InFlight

LEMMA GapStep == ShipInv /\ GapInv /\ [ShipNext]_shipVars => GapInv'
<1> SUFFICES ASSUME ShipInv, GapInv, [ShipNext]_shipVars, trouble' = 0
             PROVE  (1..base \union 1..read \subseteq received \union late \union InFlight)'
  BY DEF GapInv
<1> USE ShipperAssumption DEF ShipInv
<1>1. trouble = 0
  BY DEF ShipNext, WriteLine, Swap, Look, Read, Accept, Lose, SaveOffset, shipVars, ShipTypeOK
<1>2. 1..base \union 1..read \subseteq received \union late \union InFlight
  BY <1>1 DEF GapInv
<1>3. CASE WriteLine \/ UNCHANGED shipVars
  BY <1>2, <1>3 DEF WriteLine, InFlight, shipVars
<1>4. CASE Swap
  <2>1. 1..written \subseteq 1..base \union 1..read \union late'
    BY <1>4 DEF Swap, ShipTypeOK
  <2> QED BY <1>2, <1>4, <2>1 DEF Swap, InFlight
<1>5. CASE Look
  BY <1>2, <1>5 DEF Look, InFlight, Asleep
<1>6. CASE Read
  <2>1. InFlight = {} /\ UNCHANGED <<base, received, late>>
    BY <1>6 DEF Read, InFlight
  <2>2. CASE cycle.inode # inode
    BY <1>2, <1>6, <2>1, <2>2 DEF Read
  <2>3. CASE cycle.inode = inode
    <3>1. (base + 1)..(base + cycle.pos) \subseteq received /\ read' = written
      BY <1>6, <2>3 DEF Read, CycleInv
    <3>2. (base + cycle.pos + 1)..written \subseteq InFlight'
      <4>1. CASE base + cycle.pos < written
        BY <1>6, <4>1 DEF Read, InFlight, ShipTypeOK
      <4>2. CASE ~(base + cycle.pos < written)
        BY <4>2 DEF ShipTypeOK
      <4> QED BY <4>1, <4>2
    <3>3. 1..written \subseteq 1..base \union (base + 1)..(base + cycle.pos)
                                      \union (base + cycle.pos + 1)..written
      BY DEF ShipTypeOK
    <3>4. 1..base \subseteq 1..written
      BY DEF ShipTypeOK
    <3> QED BY <1>2, <2>1, <3>1, <3>2, <3>3, <3>4
  <2> QED BY <2>2, <2>3
<1>7. CASE Accept
  <2>1. InFlight \subseteq Batch \union InFlight'
    <3>1. /\ cycle.at = "post" /\ BatchSize \in Nat /\ cycle.next + BatchSize <= cycle.last
      BY <1>7, BatchBounds DEF Accept
    <3>2. CASE cycle.next + BatchSize = cycle.last
      BY <3>1, <3>2 DEF InFlight, Batch
    <3>3. CASE cycle.next + BatchSize # cycle.last
      <4> DEFINE n == BatchSize
      <4>1. cycle'.at = "post" /\ cycle'.next = cycle.next + n /\ cycle'.last = cycle.last
        BY <1>7, <3>1, <3>3 DEF Accept, Advance, ShipTypeOK
      <4>2. InFlight = (cycle.next + 1)..cycle.last /\ Batch = (cycle.next + 1)..(cycle.next + n)
            /\ InFlight' = (cycle.next + n + 1)..cycle.last
        BY <3>1, <4>1 DEF InFlight, Batch
      <4>3. n \in Nat /\ cycle.next \in Nat /\ cycle.last \in Nat
        BY <3>1 DEF ShipTypeOK
      <4> HIDE DEF n
      <4> QED BY <4>2, <4>3
    <3> QED BY <3>2, <3>3
  <2> QED BY <1>2, <1>7, <2>1 DEF Accept
<1>8. CASE Lose
  BY <1>1, <1>8 DEF Lose, ShipTypeOK
<1> QED BY <1>3, <1>4, <1>5, <1>6, <1>7, <1>8 DEF ShipNext

\* The bounded gap (audit_shipper.py:17): while nothing fails, a line that is
\* rotated away unshipped was written after the shipper last read its file.
THEOREM GapBounded == ShipSpec => []BoundedGap
<1>1. ShipInit => GapInv
  BY DEF ShipInit, GapInv
<1>2. GapInv => BoundedGap
  BY DEF GapInv, BoundedGap
<1> QED BY <1>1, <1>2, ShipInitInv, ShipStep, GapStep, PTL DEF ShipSpec

\* Types and SavedNotAhead (audit_shipper.py:9, the offset advances only after the
\* collector's acknowledgement), for every instance.
THEOREM OffsetSafe == ShipSpec => [](ShipTypeOK /\ SavedNotAhead)
<1>1. ShipInit => ShipInv
  BY ShipInitInv
<1>2. ShipInv /\ [ShipNext]_shipVars => ShipInv'
  BY ShipStep
<1>3. ShipInv => ShipTypeOK /\ SavedNotAhead
  BY DEF ShipInv
<1> QED
  BY <1>1, <1>2, <1>3, PTL DEF ShipSpec

-----------------------------------------------------------------------------
(* What a bridge that serves has checked, for any set of pinned roles, any *)
(* number of happenings and of attempts to pull.                           *)

AuditLine == [event : {"skipped", "verified", "failed"}, model : Model]

\* The line of a role that was let through, and that its digest was read.
Passed(i) ==
    /\ bsLines[i] = [event |-> IF Verified[i] \in Pinned THEN "verified" ELSE "skipped", model |-> Verified[i]]
    /\ Verified[i] \in Pinned => bsRead[Verified[i]] = "good"

\* The start has let through the roles before the one it is at, or all of them.
StartInv ==
    /\ bsManifest \in [Model -> Manifest] /\ bsAt \in 1..2 /\ bsLines \in Seq(AuditLine)
    /\ bsRead \in [Model -> Manifest \union {"unread"}]
    /\ bsPc \in {"down", "verifying", "stuck", "loading", "seeding", "opening", "serving"}
    /\ bsPc \in {"verifying", "stuck"} => Len(bsLines) = bsAt - 1 /\ \A i \in 1..bsAt - 1 : Passed(i)
    /\ bsPc \in {"loading", "seeding", "opening", "serving"} => Len(bsLines) = 2 /\ \A i \in 1..2 : Passed(i)

LEMMA Roles == Len(Verified) = 2 /\ DOMAIN Verified = 1..2 /\ Verified[1] = "fast" /\ Verified[2] = "deep"
  BY DEF Verified

LEMMA StartBegins == BsInit => StartInv
<1> SUFFICES ASSUME BsInit PROVE StartInv
  OBVIOUS
<1>1. PICK s \in {"good", "missing"} : bsManifest = [m \in Model |-> s]
  BY DEF BsInit
<1>2. bsManifest \in [Model -> Manifest]
  BY <1>1 DEF Manifest
<1>3. bsPc = "down" /\ bsAt = 1 /\ bsLines = <<>> /\ bsRead = [m \in Model |-> "unread"]
  BY DEF BsInit, Unread
<1> QED BY <1>2, <1>3 DEF StartInv

\* Where the start has not moved, the manifests may.
LEMMA StartStays ==
    ASSUME StartInv, bsManifest' \in [Model -> Manifest], UNCHANGED <<bsAt, bsLines, bsRead>>,
           \/ bsPc' = bsPc
           \/ bsPc' = "down"
           \/ bsPc' \in {"seeding", "opening", "serving"} /\ bsPc \in {"loading", "seeding", "opening"}
    PROVE  StartInv'
  BY DEF StartInv, Passed

LEMMA VerifyKeeps == ASSUME StartInv, Verify PROVE StartInv'
<1>1. bsPc = "verifying" /\ bsManifest' = bsManifest /\ bsAt \in 1..2 /\ bsManifest \in [Model -> Manifest]
  BY DEF Verify, bsWorld, StartInv
<1>2. PICK r \in Model : r = RoleAt /\ r = Verified[bsAt]
  <2>1. Verified[bsAt] \in Model
    BY <1>1, Roles DEF Model
  <2> QED BY <2>1 DEF RoleAt
<1>3. PICK state \in Manifest : state = bsManifest[r]
  BY <1>1
<1>4. ASSUME UNCHANGED <<bsAt, bsLines>>, bsRead' \in [Model -> Manifest \union {"unread"}], bsPc' = "down"
      PROVE  StartInv'
  BY <1>1, <1>4 DEF StartInv
<1>5. ASSUME NEW ev \in {"skipped", "verified"}, bsLines' = Append(bsLines, [event |-> ev, model |-> r]), Onward,
             ev = IF r \in Pinned THEN "verified" ELSE "skipped",
             IF r \in Pinned THEN bsRead' = [bsRead EXCEPT ![r] = "good"] ELSE bsRead' = bsRead
      PROVE  StartInv'
  <2>1. PICK n \in Nat : n = Len(bsLines) /\ n = bsAt - 1
    BY <1>1 DEF StartInv
  <2>2. /\ bsLines' \in Seq(AuditLine) /\ Len(bsLines') = n + 1
        /\ bsLines'[n + 1] = [event |-> ev, model |-> r]
        /\ \A i \in 1..n : bsLines'[i] = bsLines[i]
    <3>1. PICK x \in AuditLine : x = [event |-> ev, model |-> r]
      BY DEF AuditLine
    <3>2. bsLines \in Seq(AuditLine) /\ bsLines' = Append(bsLines, x)
      BY <1>5, <3>1 DEF StartInv
    <3>3. PICK q \in Seq(AuditLine) : q = bsLines
      BY <3>2
    <3>4. /\ Append(q, x) \in Seq(AuditLine) /\ Len(Append(q, x)) = Len(q) + 1
          /\ Append(q, x)[Len(q) + 1] = x
          /\ \A i \in 1..Len(q) : Append(q, x)[i] = q[i]
      BY AppendProperties
    <3> QED BY <2>1, <3>1, <3>2, <3>3, <3>4
  <2>3. bsRead' \in [Model -> Manifest \union {"unread"}] /\ \A m \in Model : m # r => bsRead'[m] = bsRead[m]
    BY <1>5 DEF StartInv, Manifest
  <2>4. r \in Pinned => bsRead'[r] = "good"
    BY <1>5 DEF StartInv
  <2>5. \A i \in 1..n + 1 : Passed(i)'
    <3> SUFFICES ASSUME NEW i \in 1..n + 1 PROVE Passed(i)'
      OBVIOUS
    <3>1. CASE i = n + 1
      <4>1. i = bsAt /\ Verified[i] = r
        BY <1>1, <1>2, <2>1, <3>1
      <4>2. bsLines'[i] = [event |-> ev, model |-> r]
        BY <2>2, <3>1
      <4> QED BY <1>5, <2>4, <4>1, <4>2 DEF Passed
    <3>2. CASE i # n + 1
      <4>1. i \in 1..n /\ i = 1 /\ bsAt = 2
        BY <1>1, <2>1, <3>2
      <4>2. Verified[i] = "fast" /\ r = "deep" /\ "fast" \in Model
        BY <1>2, <4>1, Roles DEF Model
      <4>3. Passed(i)
        BY <1>1, <2>1, <4>1 DEF StartInv
      <4> QED BY <2>2, <2>3, <4>1, <4>2, <4>3 DEF Passed
    <3> QED BY <3>1, <3>2
  <2>6. CASE bsAt = 2
    <3>1. bsPc' = "loading" /\ bsAt' = 1 /\ n + 1 = 2
      BY <1>5, <2>1, <2>6, Roles DEF Onward
    <3> QED BY <1>1, <2>2, <2>3, <2>5, <3>1 DEF StartInv
  <2>7. CASE bsAt = 1
    <3>1. bsPc' = "verifying" /\ bsAt' = 2 /\ n + 1 = 1
      BY <1>5, <2>1, <2>7, Roles DEF Onward
    <3> QED BY <1>1, <2>2, <2>3, <2>5, <3>1 DEF StartInv
  <2> QED BY <1>1, <2>6, <2>7
<1>6. CASE r \notin Pinned
  <2>1. Unpinned
    BY <1>2, <1>6 DEF Verify
  <2>2. bsLines' = Append(bsLines, [event |-> "skipped", model |-> r]) /\ Onward /\ bsRead' = bsRead
    BY <1>2, <2>1 DEF Unpinned, Line
  <2> QED BY <1>5, <1>6, <2>2
<1>7. CASE r \in Pinned
  <2>1. Checked(state)
    BY <1>2, <1>3, <1>7 DEF Verify
  <2>2. bsRead' = [bsRead EXCEPT ![r] = state] /\ bsRead' \in [Model -> Manifest \union {"unread"}]
    BY <1>2, <2>1 DEF Checked, StartInv
  <2>3. CASE Refuses(state)
    <3>1. bsLines' = Append(bsLines, [event |-> "failed", model |-> r]) /\ bsPc' = "down" /\ bsAt' = bsAt
      <4>1. state = "other" \/ state = "missing" \/ state = "malformed"
        BY <2>3 DEF Refuses
      <4> QED BY <1>2, <2>1, <4>1 DEF Checked, Refuses, Line
    <3>2. bsLines' \in Seq(AuditLine)
      <4>1. PICK x \in AuditLine : x = [event |-> "failed", model |-> r]
        BY DEF AuditLine
      <4>2. bsLines \in Seq(AuditLine) /\ bsLines' = Append(bsLines, x)
        BY <3>1, <4>1 DEF StartInv
      <4> QED BY <4>2, AppendProperties
    <3> QED BY <1>1, <2>2, <3>1, <3>2 DEF StartInv
  <2>4. CASE state = "denied"
    <3>1. UNCHANGED <<bsAt, bsLines>> /\ bsPc' = "down"
      BY <2>1, <2>4 DEF Checked, Refuses
    <3> QED BY <1>4, <2>2, <3>1
  <2>5. CASE state = "stalled"
    <3>1. UNCHANGED <<bsAt, bsLines>> /\ bsPc' = "stuck"
      BY <2>1, <2>5 DEF Checked, Refuses
    <3>2. \A i \in 1..bsAt - 1 : Passed(i)'
      <4> SUFFICES ASSUME NEW i \in 1..bsAt - 1 PROVE Passed(i)'
        OBVIOUS
      <4>1. i = 1 /\ bsAt = 2
        BY <1>1
      <4>2. Verified[i] = "fast" /\ r = "deep" /\ "fast" \in Model
        BY <1>2, <4>1, Roles DEF Model
      <4>3. Passed(i)
        BY <1>1 DEF StartInv
      <4>4. bsRead'["fast"] = bsRead["fast"]
        BY <2>2, <4>2 DEF StartInv
      <4> QED BY <3>1, <4>2, <4>3, <4>4 DEF Passed
    <3> QED BY <1>1, <2>2, <3>1, <3>2 DEF StartInv
  <2>6. CASE state = "good"
    <3>1. bsLines' = Append(bsLines, [event |-> "verified", model |-> r]) /\ Onward
      <4>1. Line("verified") /\ Onward
        BY <2>1, <2>6 DEF Checked, Refuses
      <4> QED BY <1>2, <4>1 DEF Line
    <3> QED BY <1>5, <1>7, <2>2, <2>6, <3>1
  <2>7. state = "good" \/ Refuses(state) \/ state = "denied" \/ state = "stalled"
    BY DEF Manifest, Refuses
  <2> QED BY <2>3, <2>4, <2>5, <2>6, <2>7
<1> QED BY <1>6, <1>7

LEMMA StartStep == StartInv /\ [BsNext]_bsVars => StartInv'
<1> SUFFICES ASSUME StartInv, [BsNext]_bsVars PROVE StartInv'
  OBVIOUS
<1>1. bsManifest \in [Model -> Manifest]
  BY DEF StartInv
<1>2. CASE Start
  <2>1. bsPc' = "verifying" /\ bsAt' = 1 /\ bsLines' = <<>> /\ bsRead' = [m \in Model |-> "unread"] /\ bsManifest' = bsManifest
    BY <1>2 DEF Start, Unread, bsWorld
  <2>2. \A i \in 1..bsAt' - 1 : FALSE
    BY <2>1
  <2> QED BY <1>1, <2>1, <2>2 DEF StartInv
<1>3. CASE Verify
  BY <1>3, VerifyKeeps
<1>4. CASE Unstick \/ LoadPersonas \/ SeedDatabase \/ OpenReader
  <2>1. bsManifest' = bsManifest /\ UNCHANGED <<bsAt, bsLines, bsRead>>
    BY <1>4 DEF Unstick, LoadPersonas, SeedDatabase, OpenReader, Reach, bsWorld
  <2>2. \/ bsPc' = "down"
        \/ bsPc' \in {"seeding", "opening", "serving"} /\ bsPc \in {"loading", "seeding", "opening"}
    BY <1>4 DEF Unstick, LoadPersonas, SeedDatabase, OpenReader, Reach
  <2> QED BY <1>1, <2>1, <2>2, StartStays
<1>5. CASE \/ \E m \in Model : WarmOnce(m) \/ Refresh(m)
           \/ EnsureModels \/ AlreadyPresent \/ PullSucceeds \/ PullEndsEarly \/ PullFails
           \/ ManifestChanges \/ OllamaTurns \/ DashboardCreates
  <2>1. bsPc' = bsPc /\ UNCHANGED <<bsAt, bsLines, bsRead>>
    BY <1>5 DEF WarmOnce, Refresh, EnsureModels, AlreadyPresent, PullSucceeds, PullEndsEarly, PullFails, ManifestChanges,
               OllamaTurns, DashboardCreates, Rest, bsStart
  <2>2. bsManifest' \in [Model -> Manifest]
    <3>1. CASE PullSucceeds
      BY <1>1, <3>1 DEF PullSucceeds, Manifest
    <3>2. CASE ManifestChanges
      BY <1>1, <3>2 DEF ManifestChanges
    <3>3. CASE bsManifest' = bsManifest
      BY <1>1, <3>3
    <3>4. PullSucceeds \/ ManifestChanges \/ bsManifest' = bsManifest
      BY <1>5 DEF WarmOnce, Refresh, EnsureModels, AlreadyPresent, PullEndsEarly, PullFails, OllamaTurns, DashboardCreates,
                  Rest, bsWorld
    <3> QED BY <3>1, <3>2, <3>3, <3>4
  <2> QED BY <2>1, <2>2, StartStays
<1>6. CASE StopBridge
  <2>1. bsManifest' = bsManifest /\ UNCHANGED <<bsAt, bsLines, bsRead>> /\ bsPc' = "down"
    BY <1>6 DEF StopBridge, bsWorld
  <2> QED BY <1>1, <2>1, StartStays
<1>7. CASE UNCHANGED bsVars
  <2>1. bsManifest' = bsManifest /\ UNCHANGED <<bsAt, bsLines, bsRead, bsPc>>
    BY <1>7 DEF bsVars, bsWorld, bsStart
  <2> QED BY <1>1, <2>1, StartStays
<1> QED BY <1>2, <1>3, <1>4, <1>5, <1>6, <1>7 DEF BsNext, ComeUp

LEMMA ServingIsVerified == StartInv => ServesVerified
<1> SUFFICES ASSUME StartInv, bsPc = "serving", NEW i \in DOMAIN Verified,
                    NEW m, m = Verified[i]
             PROVE  /\ m \in Pinned => bsRead[m] = "good"
                    /\ \E j \in DOMAIN bsLines :
                           bsLines[j].model = m /\ bsLines[j].event = IF m \in Pinned THEN "verified" ELSE "skipped"
                    /\ Len(bsLines) = Len(Verified)
  BY DEF ServesVerified
<1>1. i \in 1..2 /\ Len(bsLines) = 2 /\ Passed(i)
  BY Roles DEF StartInv
<1>2. i \in DOMAIN bsLines
  BY <1>1 DEF StartInv
<1> QED BY <1>1, <1>2, Roles DEF Passed

\* What a bridge that serves has checked (llm/integrity.py, ModelIntegrity.verify and
\* verify_all_roles, and the start of cli/__main__.py): the digest of every pinned role
\* was read in this start and was the pinned one, and its audit lines say so of each
\* role once, whatever earlier starts, pulls and people did to the manifests.
THEOREM VerifiedKept == BsSpec => []ServesVerified
<1>1. BsSpec => []StartInv
  BY StartBegins, StartStep, PTL DEF BsSpec
<1> QED BY <1>1, ServingIsVerified, PTL

=============================================================================
