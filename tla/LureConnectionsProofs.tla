------------------------ MODULE LureConnectionsProofs ------------------------
(***************************************************************************)
(* Whom the lure lets in, what its audit log tells of a connection and     *)
(* what a channel becomes: proved for any finite sets of addresses,        *)
(* connections and channels, any caps and windows, any files and commands. *)
(***************************************************************************)
EXTENDS LureConnections, LureShell, FiniteSetTheorems, SequenceTheorems, WellFoundedInduction, TLAPS

-----------------------------------------------------------------------------
(* Trimming a window. *)

\* The least-number principle, from the well-foundedness of finite sets.
LEMMA LeastNatural ==
    ASSUME NEW T \in SUBSET Nat, T # {}
    PROVE  \E m \in T : \A n \in T : m <= n
<1> DEFINE U == {0..n : n \in T}
<1>1. IsWellFoundedOn(StrictSubsetOrdering(Nat), FiniteSubsetsOf(Nat))
  BY FS_StrictSubsetOrderingWellFounded
<1>2. U \subseteq FiniteSubsetsOf(Nat) /\ U # {}
  <2>1. ASSUME NEW n \in T PROVE 0..n \in FiniteSubsetsOf(Nat)
    <3>1. IsFiniteSet(0..n)
      BY FS_Interval
    <3> QED BY <3>1 DEF FiniteSubsetsOf
  <2> QED BY <2>1
<1>3. \E x \in U : \A y \in U : <<y, x>> \notin StrictSubsetOrdering(Nat)
  <2> HIDE DEF U
  <2> QED BY <1>1, <1>2, WFMin
<1>4. PICK m \in T : \A n \in T : <<0..n, 0..m>> \notin StrictSubsetOrdering(Nat)
  BY <1>3
<1>5. ASSUME NEW n \in T, n < m PROVE FALSE
  <2>1. 0..n \subseteq 0..m /\ m \in 0..m /\ m \notin 0..n
    BY <1>5
  <2>2. 0..n \in SUBSET Nat /\ 0..m \in SUBSET Nat
    OBVIOUS
  <2> QED BY <1>4, <2>1, <2>2 DEF StrictSubsetOrdering
<1> QED BY <1>5

\* What SubSeq leaves when it takes the first k away.
LEMMA SuffixIs ==
    ASSUME NEW S, NEW w \in Seq(S), NEW k \in 0..Len(w)
    PROVE  LET v == SubSeq(w, k + 1, Len(w)) IN
           /\ v \in Seq(S) /\ Len(v) = Len(w) - k
           /\ \A m \in 1..Len(v) : v[m] = w[m + k]
OBVIOUS

LEMMA AppendSuffix ==
    ASSUME NEW S, NEW w \in Seq(S), NEW k \in 0..Len(w), NEW e \in S
    PROVE  Append(SubSeq(w, k + 1, Len(w)), e)
               = SubSeq(Append(w, e), k + 1, Len(Append(w, e)))
<1> DEFINE v == SubSeq(w, k + 1, Len(w))
           q == Append(w, e)
           a == Append(v, e)
           b == SubSeq(q, k + 1, Len(q))
<1>1. v \in Seq(S) /\ Len(v) = Len(w) - k /\ \A m \in 1..Len(v) : v[m] = w[m + k]
  BY SuffixIs
<1>2. /\ q \in Seq(S) /\ Len(q) = Len(w) + 1 /\ k \in 0..Len(q)
      /\ \A m \in 1..Len(w) : q[m] = w[m]
      /\ q[Len(w) + 1] = e
  BY AppendProperties
<1>3. /\ a \in Seq(S) /\ Len(a) = Len(v) + 1 /\ \A m \in 1..Len(v) : a[m] = v[m]
      /\ a[Len(v) + 1] = e
  <2> HIDE DEF v
  <2> QED BY <1>1, AppendProperties
<1>4. b \in Seq(S) /\ Len(b) = Len(q) - k /\ \A m \in 1..Len(b) : b[m] = q[m + k]
  <2> HIDE DEF q
  <2> QED BY <1>2, SuffixIs
<1>5. Len(w) \in Nat /\ k \in Nat /\ k <= Len(w)
  OBVIOUS
<1> HIDE DEF v, q, a, b
<1>6. Len(a) = Len(b)
  BY <1>1, <1>2, <1>3, <1>4, <1>5
<1>7. ASSUME NEW m \in 1..Len(a) PROVE a[m] = b[m]
  <2>1. CASE m \in 1..Len(v)
    <3>1. m + k \in 1..Len(w) /\ m \in 1..Len(b)
      BY <1>1, <1>3, <1>5, <1>6, <2>1
    <3> QED BY <1>1, <1>2, <1>3, <1>4, <2>1, <3>1
  <2>2. CASE m = Len(v) + 1
    <3>1. m + k = Len(w) + 1 /\ m \in 1..Len(b)
      BY <1>1, <1>5, <1>6, <2>2
    <3> QED BY <1>2, <1>3, <1>4, <2>2, <3>1
  <2> QED BY <1>1, <1>3, <1>5, <2>1, <2>2
<1>8. a = b
  BY <1>3, <1>4, <1>6, <1>7, SeqEqual, Zenon
<1> QED BY <1>8 DEF a, b, v, q

\* popleft stops somewhere.
LEMMA OutdatedStops ==
    ASSUME NEW w \in Seq(Nat)
    PROVE  LET d == Outdated(w) IN
           /\ d \in 0..Len(w)
           /\ \A m \in 1..d : Expired(w[m])
           /\ d < Len(w) => ~Expired(w[d + 1])
<1> DEFINE Stop(n) == n = Len(w) \/ ~Expired(w[n + 1])
           T == {n \in 0..Len(w) : Stop(n)}
<1>1. T \in SUBSET Nat /\ Len(w) \in T
  OBVIOUS
<1>2. PICK d \in T : \A n \in T : d <= n
  <2> HIDE DEF T
  <2> QED BY <1>1, LeastNatural
<1>3. d \in 0..Len(w) /\ (d < Len(w) => ~Expired(w[d + 1]))
  BY <1>2
<1>4. ASSUME NEW m \in 1..d PROVE Expired(w[m])
  <2>1. m - 1 \in 0..Len(w) /\ m - 1 < d /\ (m - 1) + 1 = m
    BY <1>3
  <2>2. m - 1 \notin T
    <3> HIDE DEF T
    <3> QED BY <1>1, <1>2, <2>1
  <2> QED BY <2>1, <2>2
<1> QED BY <1>3, <1>4 DEF Outdated

LEMMA TrimmedIs ==
    ASSUME NEW w \in Seq(Nat), NEW d \in 0..Len(w),
           \A m \in 1..d : Expired(w[m]), d < Len(w) => ~Expired(w[d + 1])
    PROVE  Trimmed(w) = SubSeq(w, d + 1, Len(w))
<1>1. d = Outdated(w)
  BY OutdatedStops
<1> QED BY <1>1 DEF Trimmed

\* Connections that no longer count may be gone already.
LEMMA TrimSuffix ==
    ASSUME NEW w \in Seq(Nat), NEW k \in 0..Len(w), \A m \in 1..k : Expired(w[m])
    PROVE  Trimmed(SubSeq(w, k + 1, Len(w))) = Trimmed(w)
<1> DEFINE v == SubSeq(w, k + 1, Len(w))
           d == Outdated(w)
<1>1. d \in 0..Len(w) /\ (\A m \in 1..d : Expired(w[m])) /\ (d < Len(w) => ~Expired(w[d + 1]))
  BY OutdatedStops
<1> HIDE DEF d
<1>2. k <= d
  BY <1>1
<1>3. v \in Seq(Nat) /\ Len(v) = Len(w) - k /\ \A m \in 1..Len(v) : v[m] = w[m + k]
  BY SuffixIs
<1>4. /\ d - k \in 0..Len(v)
      /\ \A m \in 1..(d - k) : Expired(v[m])
      /\ d - k < Len(v) => ~Expired(v[(d - k) + 1])
  BY <1>1, <1>2, <1>3
<1>5. Trimmed(v) = SubSeq(v, (d - k) + 1, Len(v))
  <2> HIDE DEF v
  <2> QED BY <1>3, <1>4, TrimmedIs
<1>6. SubSeq(v, (d - k) + 1, Len(v)) = SubSeq(w, d + 1, Len(w))
  <2> DEFINE a == SubSeq(v, (d - k) + 1, Len(v))
             b == SubSeq(w, d + 1, Len(w))
  <2>1. /\ a \in Seq(Nat) /\ Len(a) = Len(w) - d
        /\ \A m \in 1..Len(a) : a[m] = v[m + (d - k)]
    <3> HIDE DEF v
    <3> QED BY <1>1, <1>2, <1>3
  <2>2. b \in Seq(Nat) /\ Len(b) = Len(w) - d /\ \A m \in 1..Len(b) : b[m] = w[m + d]
    BY <1>1
  <2> HIDE DEF v, a, b
  <2>3. ASSUME NEW m \in 1..Len(a) PROVE a[m] = b[m]
    <3>1. m \in Nat /\ m + (d - k) \in 1..Len(v) /\ (m + (d - k)) + k = m + d
      BY <1>1, <1>2, <1>3, <2>1
    <3>2. a[m] = v[m + (d - k)] /\ v[m + (d - k)] = w[m + d]
      BY <1>3, <2>1, <3>1
    <3> QED BY <2>1, <2>2, <3>2
  <2>4. Len(a) = Len(b)
    BY <2>1, <2>2
  <2>5. a = b
    BY <2>1, <2>2, <2>3, <2>4, SeqEqual, Zenon
  <2> QED BY <2>5 DEF a, b
<1>7. Trimmed(w) = SubSeq(w, d + 1, Len(w))
  BY <1>1, TrimmedIs
<1> QED BY <1>5, <1>6, <1>7

-----------------------------------------------------------------------------
(* The limiter. *)

\* The window kept of an address; an address without an entry has none.
KeptOf(i) == IF i \in DOMAIN recent THEN recent[i] ELSE <<>>

InOrder(i) ==
    \A m, n \in DOMAIN admitted[i] : m <= n => admitted[i][m] <= admitted[i][n]

\* The window of an address lacks only connections that no longer count.
Shortened(i) ==
    \E k \in 0..Len(admitted[i]) :
        /\ \A m \in 1..k : Expired(admitted[i][m])
        /\ KeptOf(i) = SubSeq(admitted[i], k + 1, Len(admitted[i]))

\* The part of RateHeld about i.
Spaced(i) ==
    \A n \in DOMAIN admitted[i] : n + MaxRpm \in DOMAIN admitted[i] =>
        admitted[i][n + MaxRpm] - admitted[i][n] > Window

AddressInv(i) == InOrder(i) /\ (i \notin forgiven => Shortened(i) /\ Spaced(i))

LimiterInv == LimiterTypeOK /\ MapBounded /\ \A i \in Ip : AddressInv(i)

LEMMA LimiterInit_Inv == LimiterInit => LimiterInv
<1> SUFFICES ASSUME LimiterInit PROVE LimiterInv
  OBVIOUS
<1> USE LimiterAssumption DEF LimiterInit
<1>1. DOMAIN recent = {} /\ Cardinality(DOMAIN recent) = 0
  BY FS_EmptySet
<1>2. LimiterTypeOK /\ MapBounded
  BY <1>1 DEF LimiterTypeOK, MapBounded
<1>3. ASSUME NEW i \in Ip PROVE AddressInv(i)
  <2>1. admitted[i] = <<>> /\ KeptOf(i) = <<>>
    BY <1>1 DEF KeptOf
  <2> QED BY <2>1 DEF AddressInv, InOrder, Shortened, Spaced
<1> QED BY <1>2, <1>3 DEF LimiterInv

\* What types say of a window.
LEMMA WindowTypes ==
    ASSUME LimiterTypeOK, NEW i \in Ip
    PROVE  /\ admitted[i] \in Seq(Nat) /\ KeptOf(i) \in Seq(Nat)
           /\ KeptOf(i) \in Seq(0..now) /\ admitted[i] \in Seq(0..now)
           /\ now \in Nat /\ Window \in Nat /\ MaxRpm \in Nat \ {0}
<1>1. now \in Nat /\ 0..now \subseteq Nat
  BY LimiterAssumption DEF LimiterTypeOK
<1>2. admitted[i] \in Seq(0..now) /\ (i \in DOMAIN recent => recent[i] \in Seq(0..now))
  BY DEF LimiterTypeOK
<1>3. KeptOf(i) \in Seq(0..now)
  BY <1>2, EmptySeq DEF KeptOf
<1> QED BY <1>1, <1>2, <1>3, SeqMonotonic, LimiterAssumption

LEMMA KeptTrimmed ==
    ASSUME LimiterInv, NEW i \in Ip \ forgiven
    PROVE  Trimmed(KeptOf(i)) = Trimmed(admitted[i])
<1>1. admitted[i] \in Seq(Nat) /\ Shortened(i)
  BY WindowTypes DEF LimiterInv, AddressInv
<1> QED BY <1>1, TrimSuffix DEF Shortened

\* An address outside Live has nothing that counts.
LEMMA AllExpired ==
    ASSUME LimiterInv, NEW i \in Ip \ forgiven, i \notin Live
    PROVE  \A m \in 1..Len(admitted[i]) : Expired(admitted[i][m])
<1>1. PICK k \in 0..Len(admitted[i]) :
        /\ \A m \in 1..k : Expired(admitted[i][m])
        /\ KeptOf(i) = SubSeq(admitted[i], k + 1, Len(admitted[i]))
  BY DEF LimiterInv, AddressInv, Shortened
<1>2. /\ admitted[i] \in Seq(Nat) /\ now \in Nat /\ Window \in Nat /\ InOrder(i)
      /\ DOMAIN admitted[i] = 1..Len(admitted[i])
  BY WindowTypes DEF LimiterInv, AddressInv
<1> DEFINE w == admitted[i]
<1>3. CASE k = Len(w)
  BY <1>1, <1>3
<1>4. CASE k < Len(w)
  <2>1. /\ KeptOf(i) # <<>> /\ Len(KeptOf(i)) = Len(w) - k
        /\ KeptOf(i)[Len(KeptOf(i))] = w[Len(w)]
    <3> DEFINE v == SubSeq(w, k + 1, Len(w))
    <3>1. Len(v) = Len(w) - k /\ \A m \in 1..Len(v) : v[m] = w[m + k]
      BY <1>2, SuffixIs
    <3>2. KeptOf(i) = v
      BY <1>1
    <3> HIDE DEF v
    <3>3. Len(v) \in 1..Len(v) /\ Len(v) + k = Len(w)
      BY <1>2, <1>4, <3>1
    <3>4. Len(v) # 0 /\ v[Len(v)] = w[Len(w)]
      BY <3>1, <3>3
    <3> QED BY <3>1, <3>2, <3>4
  <2>2. Expired(w[Len(w)])
    BY <2>1 DEF Live, Newest, KeptOf
  <2>3. ASSUME NEW m \in 1..Len(w) PROVE w[m] <= w[Len(w)]
    BY <1>2, <1>4 DEF InOrder
  <2>4. \A m \in 1..Len(w) : w[m] \in Nat
    BY <1>2
  <2> QED BY <1>2, <2>2, <2>3, <2>4 DEF Expired
<1> QED BY <1>1, <1>3, <1>4

LEMMA NothingCounts ==
    ASSUME NEW w \in Seq(Nat), \A m \in 1..Len(w) : Expired(w[m])
    PROVE  Trimmed(w) = <<>>
<1>1. Trimmed(w) = SubSeq(w, Len(w) + 1, Len(w))
  BY TrimmedIs
<1> QED BY <1>1

\* Whatever the sweep keeps, the window an address gets is what it was let in for.
LEMMA WindowOfIs ==
    ASSUME LimiterInv, NEW i \in Ip \ forgiven, NEW kept \in SUBSET DOMAIN recent,
           i \notin Live \ kept
    PROVE  WindowOf(i, kept) = Trimmed(admitted[i])
<1>1. CASE i \in kept
  BY <1>1, KeptTrimmed DEF WindowOf, KeptOf
<1>2. CASE i \notin kept
  <2>1. Trimmed(admitted[i]) = <<>>
    BY <1>2, AllExpired, NothingCounts, WindowTypes DEF LimiterInv
  <2> QED BY <1>2, <2>1 DEF WindowOf
<1> QED BY <1>1, <1>2

LEMMA LimiterImplies == LimiterInv => RateHeld /\ WindowExact
<1> SUFFICES ASSUME LimiterInv PROVE RateHeld /\ WindowExact
  OBVIOUS
<1>1. RateHeld
  BY DEF LimiterInv, AddressInv, RateHeld, Spaced
<1>2. ASSUME NEW i \in Ip \ forgiven
      PROVE  WindowOf(i, DOMAIN recent) = Trimmed(admitted[i])
  BY WindowOfIs DEF Live
<1> QED BY <1>1, <1>2 DEF WindowExact

\* The windows of the other addresses, and the size of the map, when the one of i
\* is set; history aside, that is all admit does to them.
LEMMA WindowsStep ==
    ASSUME LimiterInv, NEW i \in Ip, NEW kept \in SUBSET DOMAIN recent, Sweeps(kept),
           NEW window \in Seq(0..now), SetWindow(i, kept, window), now' = now
    PROVE  /\ DOMAIN recent' \subseteq Ip /\ forgiven' \subseteq Ip
           /\ \A j \in DOMAIN recent' : recent'[j] \in Seq(0..now')
           /\ MapBounded'
           /\ i \in DOMAIN recent' /\ recent'[i] = window
           /\ forgiven \subseteq forgiven' /\ (i \notin forgiven' => i \notin Live \ kept)
           /\ \A j \in Ip \ {i} : j \notin forgiven' /\ admitted'[j] = admitted[j]
                                        => Shortened(j)'
<1> USE DEF LimiterInv
<1>1. /\ DOMAIN recent \subseteq Ip /\ forgiven \subseteq Ip
      /\ \A j \in DOMAIN recent : recent[j] \in Seq(0..now)
  BY DEF LimiterTypeOK
<1>2. /\ DOMAIN recent' = kept \union {i} /\ recent'[i] = window
      /\ \A j \in kept \ {i} : recent'[j] = recent[j]
      /\ forgiven' = forgiven \union (Live \ kept)
  BY DEF SetWindow
<1>3. MapBounded'
  <2>1. IsFiniteSet(DOMAIN recent) /\ IsFiniteSet(kept)
    BY <1>1, LimiterAssumption, FS_Subset
  <2>2. IsFiniteSet(Live)
    BY <2>1, FS_Subset DEF Live
  <2>3. Cardinality(DOMAIN recent) \in Nat /\ Cardinality(Live) \in Nat
    BY <2>1, <2>2, FS_CardinalityType
  <2>4. Cardinality(kept) <= SweepAbove
    BY <2>3, LimiterAssumption DEF Sweeps
  <2>5. /\ Cardinality(kept \union {i}) = IF i \in kept THEN Cardinality(kept)
                                                        ELSE Cardinality(kept) + 1
        /\ Cardinality(kept) \in Nat
    BY <2>1, FS_AddElement, FS_CardinalityType, Zenon
  <2> QED BY <1>2, <2>4, <2>5, LimiterAssumption DEF MapBounded
<1>4. ASSUME NEW j \in Ip \ {i}, j \notin forgiven', admitted'[j] = admitted[j]
      PROVE  Shortened(j)'
  <2>1. j \in Ip \ forgiven /\ Shortened(j) /\ j \notin Live \ kept
    BY <1>2, <1>4 DEF AddressInv
  <2>2. CASE j \in kept
    <3>1. KeptOf(j)' = KeptOf(j)
      BY <1>2, <1>4, <2>2 DEF KeptOf
    <3> QED BY <1>4, <2>1, <3>1 DEF Shortened, Expired
  <2>3. CASE j \notin kept
    <3>1. \A m \in 1..Len(admitted[j]) : Expired(admitted[j][m])
      BY <2>1, <2>3, AllExpired
    <3>2. KeptOf(j)' = <<>>
      BY <1>2, <1>4, <2>3 DEF KeptOf
    <3>3. SubSeq(admitted[j], Len(admitted[j]) + 1, Len(admitted[j])) = <<>>
      BY WindowTypes
    <3>4. Len(admitted[j]) \in 0..Len(admitted[j])
      BY WindowTypes
    <3> QED BY <1>4, <3>1, <3>2, <3>3, <3>4 DEF Shortened, Expired
  <2> QED BY <2>2, <2>3
<1>5. \A j \in DOMAIN recent' : recent'[j] \in Seq(0..now')
  BY <1>1, <1>2
<1> QED BY <1>1, <1>2, <1>3, <1>4, <1>5 DEF Live

LEMMA TrimmedType ==
    ASSUME LimiterTypeOK, NEW i \in Ip, NEW kept \in SUBSET DOMAIN recent
    PROVE  WindowOf(i, kept) \in Seq(0..now)
<1>1. CASE i \in kept
  <2>1. recent[i] \in Seq(0..now) /\ recent[i] \in Seq(Nat)
    BY <1>1, WindowTypes DEF KeptOf
  <2>2. Outdated(recent[i]) \in 0..Len(recent[i])
    BY <2>1, OutdatedStops
  <2>3. SubSeq(recent[i], Outdated(recent[i]) + 1, Len(recent[i])) \in Seq(0..now)
    BY <2>1, <2>2, SuffixIs
  <2> QED BY <1>1, <2>3 DEF WindowOf, Trimmed
<1>2. CASE i \notin kept
  BY <1>2, EmptySeq DEF WindowOf
<1> QED BY <1>1, <1>2

LEMMA RefuseRpmStep ==
    ASSUME LimiterInv, NEW i \in Ip, RefuseRpm(i)
    PROVE  LimiterInv'
<1>1. PICK kept \in SUBSET DOMAIN recent :
        Sweeps(kept) /\ SetWindow(i, kept, WindowOf(i, kept))
  BY DEF RefuseRpm
<1> USE DEF LimiterInv
<1>2. UNCHANGED <<now, total, concurrent, admitted>>
  BY DEF RefuseRpm
<1>3. WindowOf(i, kept) \in Seq(0..now)
  BY TrimmedType
<1>4. /\ DOMAIN recent' \subseteq Ip /\ forgiven' \subseteq Ip
      /\ \A j \in DOMAIN recent' : recent'[j] \in Seq(0..now')
      /\ MapBounded'
      /\ i \in DOMAIN recent' /\ recent'[i] = WindowOf(i, kept)
      /\ forgiven \subseteq forgiven' /\ (i \notin forgiven' => i \notin Live \ kept)
      /\ \A j \in Ip \ {i} : j \notin forgiven' => Shortened(j)'
  BY <1>1, <1>2, <1>3, WindowsStep
<1>5. LimiterTypeOK'
  BY <1>2, <1>4 DEF LimiterTypeOK
<1>6. ASSUME i \notin forgiven' PROVE Shortened(i)'
  <2>1. KeptOf(i)' = Trimmed(admitted[i])
    BY <1>4, <1>6, WindowOfIs DEF KeptOf
  <2>2. admitted[i] \in Seq(Nat)
    BY WindowTypes
  <2>3. /\ Outdated(admitted[i]) \in 0..Len(admitted[i])
        /\ \A m \in 1..Outdated(admitted[i]) : Expired(admitted[i][m])
    BY <2>2, OutdatedStops
  <2> QED BY <1>2, <2>1, <2>3 DEF Shortened, Trimmed, Expired
<1>7. ASSUME NEW j \in Ip PROVE AddressInv(j)'
  BY <1>2, <1>4, <1>6 DEF AddressInv, InOrder, Spaced
<1> QED BY <1>4, <1>5, <1>7

LEMMA AdmitStep ==
    ASSUME LimiterInv, NEW i \in Ip, Admit(i)
    PROVE  LimiterInv'
<1>1. PICK kept \in SUBSET DOMAIN recent :
        /\ Sweeps(kept) /\ Len(WindowOf(i, kept)) < MaxRpm
        /\ SetWindow(i, kept, Append(WindowOf(i, kept), now))
  BY DEF Admit
<1> USE DEF LimiterInv
<1> DEFINE w == admitted[i]
           q == Append(w, now)
           d == Outdated(w)
<1>2. /\ now' = now /\ total' = total + 1
      /\ concurrent' = [concurrent EXCEPT ![i] = @ + 1]
      /\ admitted' = [admitted EXCEPT ![i] = q]
  BY DEF Admit
<1>3. /\ w \in Seq(Nat) /\ w \in Seq(0..now) /\ now \in Nat
      /\ MaxRpm \in Nat \ {0} /\ Window \in Nat /\ now \in 0..now
  BY WindowTypes DEF LimiterTypeOK
<1>4. WindowOf(i, kept) \in Seq(0..now)
  BY TrimmedType
<1>5. Append(WindowOf(i, kept), now) \in Seq(0..now)
  BY <1>3, <1>4, AppendProperties
<1>6. /\ DOMAIN recent' \subseteq Ip /\ forgiven' \subseteq Ip
      /\ \A j \in DOMAIN recent' : recent'[j] \in Seq(0..now')
      /\ MapBounded'
      /\ i \in DOMAIN recent' /\ recent'[i] = Append(WindowOf(i, kept), now)
      /\ forgiven \subseteq forgiven' /\ (i \notin forgiven' => i \notin Live \ kept)
      /\ \A j \in Ip \ {i} : j \notin forgiven' /\ admitted'[j] = admitted[j]
                                   => Shortened(j)'
  BY <1>1, <1>2, <1>5, WindowsStep
<1>7. /\ q \in Seq(0..now) /\ Len(q) = Len(w) + 1
      /\ \A m \in 1..Len(w) : q[m] = w[m]
      /\ q[Len(w) + 1] = now
  BY <1>3, AppendProperties
<1>8. admitted' \in [Ip -> Seq(0..now')] /\ admitted'[i] = q
      /\ \A j \in Ip \ {i} : admitted'[j] = admitted[j]
  BY <1>2, <1>7 DEF LimiterTypeOK
<1>9. LimiterTypeOK'
  BY <1>2, <1>6, <1>8 DEF LimiterTypeOK
<1>10. /\ d \in 0..Len(w) /\ \A m \in 1..d : Expired(w[m])
  BY <1>3, OutdatedStops
<1>11. InOrder(i)'
  <2>1. /\ \A m \in 1..Len(w) : w[m] \in Nat /\ w[m] <= now
        /\ DOMAIN w = 1..Len(w) /\ Len(w) \in Nat /\ DOMAIN q = 1..(Len(w) + 1)
    BY <1>3, <1>7
  <2>2. \A m, n \in 1..Len(w) : m <= n => w[m] <= w[n]
    BY <2>1 DEF InOrder, AddressInv
  <2> HIDE DEF w, q
  <2>3. ASSUME NEW m \in 1..(Len(w) + 1), NEW n \in 1..(Len(w) + 1), m <= n
        PROVE  q[m] <= q[n]
    <3>1. CASE n \in 1..Len(w)
      BY <1>7, <2>1, <2>2, <2>3, <3>1
    <3>2. CASE n = Len(w) + 1
      <4>1. CASE m \in 1..Len(w)
        BY <1>7, <2>1, <3>2, <4>1
      <4>2. CASE m = Len(w) + 1
        BY <1>3, <1>7, <3>2, <4>2
      <4> QED BY <2>1, <4>1, <4>2
    <3> QED BY <2>1, <3>1, <3>2
  <2> QED BY <1>8, <2>1, <2>3 DEF InOrder
<1>12. ASSUME i \notin forgiven' PROVE Shortened(i)' /\ Spaced(i)'
  <2>1. WindowOf(i, kept) = SubSeq(w, d + 1, Len(w)) /\ Spaced(i)
    BY <1>6, <1>12, WindowOfIs DEF Trimmed, AddressInv
  <2>2. Append(SubSeq(w, d + 1, Len(w)), now) = SubSeq(q, d + 1, Len(q))
    BY <1>3, <1>10, AppendSuffix
  <2>3. Shortened(i)'
    <3>1. KeptOf(i)' = SubSeq(q, d + 1, Len(q))
      BY <1>6, <2>1, <2>2 DEF KeptOf
    <3>2. d \in 0..Len(q) /\ \A m \in 1..d : Expired(q[m])
      <4> HIDE DEF d, q, w
      <4> QED BY <1>3, <1>7, <1>10
    <3> HIDE DEF d, q, w
    <3> QED BY <1>2, <1>8, <3>1, <3>2 DEF Shortened, Expired
  <2>4. Len(w) - d < MaxRpm
    BY <1>1, <1>3, <1>10, <2>1, SuffixIs
  <2>5. ASSUME NEW n \in DOMAIN q, n + MaxRpm \in DOMAIN q
        PROVE  q[n + MaxRpm] - q[n] > Window
    <3>1. DOMAIN w = 1..Len(w) /\ Len(w) \in Nat /\ DOMAIN q = 1..(Len(w) + 1)
      BY <1>3, <1>7
    <3>2. \A m \in 1..Len(w) : w[m] \in Nat
      BY <1>3
    <3> HIDE DEF d, q, w
    <3>3. CASE n + MaxRpm <= Len(w)
      <4>1. n \in DOMAIN w /\ n + MaxRpm \in DOMAIN w
        BY <1>3, <2>5, <3>1, <3>3
      <4>2. w[n + MaxRpm] - w[n] > Window
        BY <2>1, <4>1 DEF Spaced, w
      <4> QED BY <1>7, <3>1, <4>1, <4>2
    <3>4. CASE n + MaxRpm = Len(w) + 1
      <4>1. n \in 1..d /\ n \in 1..Len(w)
        BY <1>3, <1>10, <2>4, <2>5, <3>1, <3>4
      <4>2. Expired(w[n]) /\ q[n] = w[n] /\ q[n + MaxRpm] = now
        BY <1>7, <1>10, <3>4, <4>1
      <4> QED BY <1>3, <3>2, <4>1, <4>2 DEF Expired
    <3> QED BY <1>3, <2>5, <3>1, <3>3, <3>4
  <2>6. Spaced(i)'
    BY <1>8, <2>5 DEF Spaced
  <2> QED BY <2>3, <2>6
<1>13. ASSUME NEW j \in Ip \ {i} PROVE AddressInv(j)'
  BY <1>6, <1>8 DEF AddressInv, InOrder, Spaced
<1> QED BY <1>6, <1>9, <1>11, <1>12, <1>13 DEF AddressInv

LEMMA ReleaseStep ==
    ASSUME LimiterInv, NEW i \in Ip, Release(i)
    PROVE  LimiterInv'
<1> USE DEF LimiterInv, Release
<1>1. LimiterTypeOK'
  BY DEF LimiterTypeOK
<1> QED BY <1>1 DEF MapBounded, AddressInv, InOrder, Shortened, Spaced, KeptOf, Expired

LEMMA TickStep ==
    ASSUME LimiterInv, Tick
    PROVE  LimiterInv'
<1> USE DEF LimiterInv, Tick
<1>1. now \in Nat /\ Window \in Nat /\ 0..now \subseteq 0..now'
  BY LimiterAssumption DEF LimiterTypeOK
<1>2. LimiterTypeOK'
  <2>1. \A j \in DOMAIN recent : recent[j] \in Seq(0..now')
    BY <1>1 DEF LimiterTypeOK
  <2>2. admitted \in [Ip -> Seq(0..now')]
    BY <1>1 DEF LimiterTypeOK
  <2> QED BY <1>1, <2>1, <2>2, LimiterAssumption DEF LimiterTypeOK
<1>3. \A t \in Nat : Expired(t) => Expired(t)'
  BY <1>1 DEF Expired
<1>4. ASSUME NEW i \in Ip PROVE AddressInv(i)'
  <2>1. admitted[i] \in Seq(Nat) /\ KeptOf(i)' = KeptOf(i)
    BY WindowTypes DEF KeptOf
  <2>2. \A m \in 1..Len(admitted[i]) : admitted[i][m] \in Nat
    BY <2>1
  <2>3. ASSUME Shortened(i) PROVE Shortened(i)'
    <3>1. PICK k \in 0..Len(admitted[i]) :
            /\ \A m \in 1..k : Expired(admitted[i][m])
            /\ KeptOf(i) = SubSeq(admitted[i], k + 1, Len(admitted[i]))
      BY <2>3 DEF Shortened
    <3>2. \A m \in 1..k : Expired(admitted[i][m])'
      BY <1>3, <2>1, <2>2, <3>1
    <3> QED BY <2>1, <3>1, <3>2 DEF Shortened
  <2> QED BY <2>3 DEF AddressInv, InOrder, Spaced
<1> QED BY <1>2, <1>4 DEF MapBounded

-----------------------------------------------------------------------------
(* Connections, their slots and their lines. *)

UpSlots == {k \in slot : conn[k] = "up"}

\* A refused connection holds no slot, so that what is lost gives back one it had.
SlotInv == SlotsMatch /\ \A k \in slot : conn[k] \in {"up", "lost"}

Started(k) == {c \in Channel : chan[<<k, c>>] # "none"}

\* What Steady says, without counting.
Alone(k) == k \notin hurried /\ \A c, d \in Started(k) : c = d

\* How the lines of k follow its handlers: nothing is announced before one has its
\* session; the one session of a steady connection is the one its state names;
\* and what is closed is what was announced.
PairInv(k) ==
    /\ conn[k] \in {"new", "refused"} => Started(k) = {}
    /\ (\A c \in Started(k) : chan[<<k, c>>] \in {"opening", "created"}) =>
           Named(opened, k) = {} /\ lureSession[k] = None
    /\ \A s, t \in Named(opened, k) : s = t
    /\ \A s, t \in Named(closed, k) : s = t
    /\ conn[k] # "lost" => Named(closed, k) = {}
    /\ conn[k] # "lost" /\ Alone(k) =>
           \A c \in Started(k) : chan[<<k, c>>] \in {"shell", "ended"} =>
               /\ Named(opened, k) = {<<k, lureSession[k]>>}
               /\ lureSession[k] # None
    /\ conn[k] = "lost" /\ k \notin hurried =>
           \A c \in Channel : chan[<<k, c>>] \notin {"opening", "created"}
    /\ conn[k] = "lost" /\ Alone(k) => Named(closed, k) = Named(opened, k)

Inv == TypeOK /\ LimiterInv /\ SlotInv /\ \A k \in Conn : PairInv(k)

LEMMA InitInv == Init => Inv
<1> SUFFICES ASSUME Init PROVE Inv
  OBVIOUS
<1> USE LimiterAssumption, ConnectionsAssumption DEF Init
<1>1. LimiterInv
  BY LimiterInit_Inv
<1>2. TypeOK
  BY <1>1 DEF TypeOK, LimiterInv
<1>3. SlotInv
  <2>1. Cardinality(UpSlots) = 0 /\ \A i \in Ip : Cardinality(Holding(i)) = 0
    <3>1. UpSlots = {} /\ \A i \in Ip : Holding(i) = {}
      BY DEF Holding, UpSlots
    <3> QED BY <3>1, FS_EmptySet
  <2>2. total = 0 /\ \A i \in Ip : concurrent[i] = 0
    BY DEF LimiterInit
  <2> QED BY <2>1, <2>2 DEF SlotInv, SlotsMatch, UpSlots
<1>4. ASSUME NEW k \in Conn PROVE PairInv(k)
  BY DEF PairInv, Started, Named
<1> QED BY <1>1, <1>2, <1>3, <1>4 DEF Inv

\* Counting one connection more or less.
LEMMA FiniteSlots ==
    ASSUME TypeOK
    PROVE  /\ IsFiniteSet(UpSlots) /\ Cardinality(UpSlots) \in Nat
           /\ \A i \in Ip : IsFiniteSet(Holding(i)) /\ Cardinality(Holding(i)) \in Nat
<1>1. UpSlots \in SUBSET Conn /\ \A i \in Ip : Holding(i) \in SUBSET Conn
  BY DEF TypeOK, UpSlots, Holding
<1>2. IsFiniteSet(UpSlots) /\ \A i \in Ip : IsFiniteSet(Holding(i))
  BY <1>1, ConnectionsAssumption, FS_Subset
<1> QED BY <1>2, FS_CardinalityType

LEMMA AdmittedSlots ==
    ASSUME TypeOK, SlotInv, NEW k \in Conn, conn[k] = "new", Admit(ip[k]), MoveConn(k, "up"),
           slot' = slot \union {k}, ip' = ip
    PROVE  SlotInv'
<1> DEFINE i == ip[k]
<1>1. i \in Ip /\ conn \in [Conn -> {"new", "up", "refused", "lost"}] /\ slot \subseteq Conn
      /\ concurrent \in [Ip -> Nat] /\ total \in Nat
  BY DEF TypeOK, LimiterTypeOK
<1>2. conn'[k] = "up" /\ \A j \in Conn \ {k} : conn'[j] = conn[j]
  BY <1>1 DEF MoveConn
<1>3. k \notin slot
  BY <1>1 DEF SlotInv
<1>4. UpSlots' = UpSlots \union {k} /\ k \notin UpSlots
  BY <1>1, <1>2, <1>3 DEF UpSlots
<1>5. Holding(i)' = Holding(i) \union {k} /\ k \notin Holding(i)
  BY <1>1, <1>2, <1>3 DEF Holding
<1>6. ASSUME NEW j \in Ip \ {i} PROVE Holding(j)' = Holding(j)
  BY <1>1, <1>2, <1>3 DEF Holding
<1>7. /\ Cardinality(UpSlots') = Cardinality(UpSlots) + 1
      /\ Cardinality(Holding(i)') = Cardinality(Holding(i)) + 1
  BY <1>1, <1>4, <1>5, FiniteSlots, FS_AddElement
<1>8. /\ total' = total + 1 /\ total < MaxTotal
      /\ concurrent'[i] = concurrent[i] + 1 /\ concurrent[i] < MaxConcurrent
      /\ \A j \in Ip \ {i} : concurrent'[j] = concurrent[j]
  BY <1>1, LimiterAssumption DEF Admit, Full
<1>9. /\ total = Cardinality(UpSlots)
      /\ \A j \in Ip : concurrent[j] = Cardinality(Holding(j)) /\ concurrent[j] <= MaxConcurrent
  BY DEF SlotInv, SlotsMatch, UpSlots
<1>10. total' = Cardinality(UpSlots') /\ total' <= MaxTotal
  BY <1>1, <1>7, <1>8, <1>9, LimiterAssumption
<1>11. ASSUME NEW j \in Ip
       PROVE  concurrent'[j] = Cardinality(Holding(j)') /\ concurrent'[j] <= MaxConcurrent
  <2>1. CASE j = i
    BY <1>1, <1>7, <1>8, <1>9, <2>1, LimiterAssumption
  <2>2. CASE j # i
    BY <1>6, <1>8, <1>9, <2>2
  <2> QED BY <2>1, <2>2
<1>12. \A j \in slot' : conn'[j] \in {"up", "lost"}
  BY <1>1, <1>2 DEF SlotInv
<1> QED BY <1>10, <1>11, <1>12 DEF SlotInv, SlotsMatch, UpSlots

LEMMA ReleasedSlots ==
    ASSUME TypeOK, SlotInv, NEW k \in Conn, conn[k] \in {"up", "refused"},
           MoveConn(k, "lost"), ReleaseSlot(k), slot' = slot, ip' = ip
    PROVE  SlotInv'
<1> DEFINE i == ip[k]
<1>1. i \in Ip /\ conn \in [Conn -> {"new", "up", "refused", "lost"}] /\ slot \subseteq Conn
      /\ concurrent \in [Ip -> Nat] /\ total \in Nat
  BY DEF TypeOK, LimiterTypeOK
<1>2. conn'[k] = "lost" /\ \A j \in Conn \ {k} : conn'[j] = conn[j]
  BY <1>1 DEF MoveConn
<1>3. \A j \in slot' : conn'[j] \in {"up", "lost"}
  BY <1>1, <1>2 DEF SlotInv
<1>4. /\ total = Cardinality(UpSlots) /\ total <= MaxTotal
      /\ \A j \in Ip : concurrent[j] = Cardinality(Holding(j)) /\ concurrent[j] <= MaxConcurrent
  BY DEF SlotInv, SlotsMatch, UpSlots
<1>5. CASE k \notin slot
  <2>1. UpSlots' = UpSlots /\ \A j \in Ip : Holding(j)' = Holding(j)
    BY <1>1, <1>2, <1>5 DEF UpSlots, Holding
  <2>2. UNCHANGED <<total, concurrent>>
    BY <1>5 DEF ReleaseSlot, limiterVars
  <2> QED BY <1>3, <1>4, <2>1, <2>2 DEF SlotInv, SlotsMatch, UpSlots
<1>6. CASE k \in slot
  <2>1. conn[k] = "up"
    BY <1>6 DEF SlotInv
  <2>2. UpSlots' = UpSlots \ {k} /\ k \in UpSlots
    BY <1>1, <1>2, <1>6, <2>1 DEF UpSlots
  <2>3. Holding(i)' = Holding(i) \ {k} /\ k \in Holding(i)
    BY <1>1, <1>2, <1>6, <2>1 DEF Holding
  <2>4. ASSUME NEW j \in Ip \ {i} PROVE Holding(j)' = Holding(j)
    BY <1>1, <1>2 DEF Holding
  <2>5. /\ Cardinality(UpSlots') = Cardinality(UpSlots) - 1
        /\ Cardinality(Holding(i)') = Cardinality(Holding(i)) - 1
    <3>1. IsFiniteSet(UpSlots) /\ IsFiniteSet(Holding(i))
      BY <1>1, FiniteSlots
    <3>2. /\ Cardinality(UpSlots \ {k}) = Cardinality(UpSlots) - 1
          /\ Cardinality(Holding(i) \ {k}) = Cardinality(Holding(i)) - 1
      BY <2>2, <2>3, <3>1, FS_RemoveElement
    <3> QED BY <2>2, <2>3, <3>2
  <2>6. Cardinality(UpSlots) # 0 /\ Cardinality(Holding(i)) # 0
    BY <1>1, <2>2, <2>3, FiniteSlots, FS_EmptySet
  <2>7. /\ total' = IF total > 0 THEN total - 1 ELSE 0
        /\ concurrent'[i] = IF concurrent[i] <= 1 THEN 0 ELSE concurrent[i] - 1
        /\ \A j \in Ip \ {i} : concurrent'[j] = concurrent[j]
    BY <1>1, <1>6 DEF ReleaseSlot, Release
  <2>8. total' = Cardinality(UpSlots') /\ total' <= MaxTotal
    BY <1>1, <1>4, <2>5, <2>6, <2>7, LimiterAssumption
  <2>9. ASSUME NEW j \in Ip
        PROVE  concurrent'[j] = Cardinality(Holding(j)') /\ concurrent'[j] <= MaxConcurrent
    <3>1. CASE j = i
      BY <1>1, <1>4, <2>5, <2>6, <2>7, <3>1, LimiterAssumption
    <3>2. CASE j # i
      BY <1>4, <2>4, <2>7, <3>2
    <3> QED BY <3>1, <3>2
  <2> QED BY <1>3, <2>8, <2>9 DEF SlotInv, SlotsMatch, UpSlots
<1> QED BY <1>5, <1>6

\* Steps that leave connections and slots alone.
LEMMA SameSlots ==
    ASSUME SlotInv, UNCHANGED <<conn, ip, slot, total, concurrent>>
    PROVE  SlotInv'
BY DEF SlotInv, SlotsMatch, Holding

LEMMA SameLimiter ==
    ASSUME LimiterInv, UNCHANGED limiterVars
    PROVE  LimiterInv'
BY DEF LimiterInv, limiterVars, LimiterTypeOK, MapBounded, AddressInv, InOrder, Shortened,
       Spaced, KeptOf, Expired

\* A connection that a step leaves alone.
LEMMA SamePair ==
    ASSUME NEW r, PairInv(r), conn'[r] = conn[r],
           \A c \in Channel : chan'[<<r, c>>] = chan[<<r, c>>],
           lureSession'[r] = lureSession[r],
           Named(opened, r)' = Named(opened, r), Named(closed, r)' = Named(closed, r),
           r \in hurried' <=> r \in hurried
    PROVE  PairInv(r)'
<1>1. Started(r)' = Started(r) /\ (Alone(r)' <=> Alone(r))
  BY DEF Started, Alone
<1> QED BY <1>1 DEF PairInv, Started

-----------------------------------------------------------------------------
(* Each step. *)

LEMMA MadeStep ==
    ASSUME Inv, NEW k \in Conn, ConnectionMade(k)
    PROVE  Inv'
<1> USE DEF Inv
<1>1. /\ conn[k] = "new"
      /\ UNCHANGED <<ip, chan, stateVars, opened, closed, bridgeVars, hurried>>
  BY DEF ConnectionMade
<1>2. ip[k] \in Ip /\ conn \in [Conn -> {"new", "up", "refused", "lost"}] /\ slot \subseteq Conn
  BY DEF TypeOK
<1>3. /\ LimiterInv' /\ SlotInv' /\ slot' \subseteq Conn
      /\ conn' \in [Conn -> {"new", "up", "refused", "lost"}]
      /\ conn'[k] \in {"up", "refused"} /\ \A j \in Conn \ {k} : conn'[j] = conn[j]
  <2>1. CASE Admit(ip[k]) /\ MoveConn(k, "up") /\ slot' = slot \union {k}
    BY <1>1, <1>2, <2>1, AdmitStep, AdmittedSlots DEF MoveConn
  <2>2. CASE /\ RefuseFull(ip[k]) \/ RefuseRpm(ip[k])
             /\ MoveConn(k, "refused") /\ UNCHANGED slot
    <3>1. LimiterInv' /\ UNCHANGED <<total, concurrent>>
      BY <1>2, <2>2, RefuseRpmStep, SameLimiter DEF RefuseFull, RefuseRpm, limiterVars
    <3>2. k \notin slot
      BY <1>1 DEF SlotInv
    <3>3. conn'[k] = "refused" /\ \A j \in Conn \ {k} : conn'[j] = conn[j]
      BY <1>2, <2>2 DEF MoveConn
    <3>4. UpSlots' = UpSlots /\ \A j \in Ip : Holding(j)' = Holding(j)
      BY <1>1, <1>2, <2>2, <3>2, <3>3 DEF UpSlots, Holding
    <3>5. \A j \in slot' : conn'[j] \in {"up", "lost"}
      BY <1>2, <2>2, <3>2, <3>3 DEF SlotInv
    <3>6. SlotInv'
      BY <3>1, <3>4, <3>5 DEF SlotInv, SlotsMatch, UpSlots
    <3> QED BY <1>2, <2>2, <3>1, <3>3, <3>6 DEF MoveConn
  <2> QED BY <2>1, <2>2 DEF ConnectionMade
<1>4. TypeOK'
  BY <1>1, <1>3 DEF TypeOK, LimiterInv, stateVars, bridgeVars
<1>5. ASSUME NEW r \in Conn PROVE PairInv(r)'
  <2>1. CASE r = k
    <3>1. Started(k)' = {} /\ Started(k) = {} /\ Named(opened, k)' = {} /\ Named(closed, k)' = {}
          /\ lureSession'[k] = None
      BY <1>1 DEF PairInv, Started, Named, stateVars
    <3> QED BY <1>1, <1>3, <2>1, <3>1 DEF PairInv
  <2>2. CASE r # k
    BY <1>1, <1>3, <2>2, SamePair DEF Named, stateVars
  <2> QED BY <2>1, <2>2
<1> QED BY <1>3, <1>4, <1>5

LEMMA LostStep ==
    ASSUME Inv, NEW k \in Conn, ConnectionLost(k)
    PROVE  Inv'
<1> USE DEF Inv
<1>1. /\ conn[k] \in {"up", "refused"} /\ MoveConn(k, "lost") /\ ReleaseSlot(k)
      /\ closed' = closed \union ({<<k, lureSession[k]>>} \intersect Sid)
      /\ closing' = closing \union ({<<k, bridgeUuid[k]>>} \intersect (Conn \X Channel))
      /\ hurried' = IF Opening(k) THEN hurried \union {k} ELSE hurried
      /\ UNCHANGED <<ip, slot, chan, stateVars, opened, live, failed>>
  BY DEF ConnectionLost
<1>2. ip[k] \in Ip /\ conn \in [Conn -> {"new", "up", "refused", "lost"}]
  BY DEF TypeOK
<1>3. conn'[k] = "lost" /\ \A j \in Conn \ {k} : conn'[j] = conn[j]
  BY <1>1, <1>2 DEF MoveConn
<1>4. LimiterInv'
  BY <1>1, <1>2, ReleaseStep, SameLimiter DEF ReleaseSlot
<1>5. SlotInv'
  BY <1>1, ReleasedSlots
<1>6. TypeOK'
  BY <1>1, <1>4 DEF TypeOK, LimiterInv, stateVars, MoveConn, Sid
<1>7. ASSUME NEW r \in Conn PROVE PairInv(r)'
  <2>1. CASE r = k
    <3> DEFINE line == {<<k, lureSession[k]>>} \intersect Sid
    <3>1. Named(closed, k)' = line /\ Named(opened, k)' = Named(opened, k)
      BY <1>1 DEF PairInv, Named
    <3>2. Started(k)' = Started(k) /\ (Alone(k)' => Alone(k))
      BY <1>1 DEF Started, Alone
    <3>3. k \notin hurried' => \A c \in Channel : chan[<<k, c>>] \notin {"opening", "created"}
      BY <1>1 DEF Opening
    <3>4. ASSUME Alone(k)' PROVE Named(closed, k)' = Named(opened, k)'
      <4>1. CASE Started(k) = {}
        <5>1. Named(opened, k) = {} /\ lureSession[k] = None
          BY <4>1 DEF PairInv
        <5>2. line = {}
          BY <5>1, ConnectionsAssumption DEF Sid
        <5> QED BY <3>1, <5>1, <5>2
      <4>2. CASE Started(k) # {}
        <5>1. PICK c \in Channel : c \in Started(k) /\ chan[<<k, c>>] \in {"shell", "ended"}
          BY <3>3, <3>4, <4>2 DEF Started, Alone, TypeOK
        <5>2. Named(opened, k) = {<<k, lureSession[k]>>}
          BY <1>1, <3>2, <3>4, <5>1 DEF PairInv
        <5>3. <<k, lureSession[k]>> \in opened /\ opened \subseteq Sid
          BY <5>2 DEF Named, TypeOK
        <5> QED BY <3>1, <5>2, <5>3
      <4> QED BY <4>1, <4>2
    <3>5. \A s, t \in line : s = t
      OBVIOUS
    <3>6. /\ chan' = chan /\ lureSession' = lureSession
          /\ (\A c \in Started(k) : chan[<<k, c>>] \in {"opening", "created"}) =>
                 Named(opened, k) = {} /\ lureSession[k] = None
          /\ \A s, t \in Named(opened, k) : s = t
      BY <1>1 DEF PairInv, stateVars
    <3> HIDE DEF line
    <3> QED BY <1>3, <2>1, <3>1, <3>2, <3>3, <3>4, <3>5, <3>6 DEF PairInv
  <2>2. CASE r # k
    <3>1. Named(closed, r)' = Named(closed, r)
      BY <1>1, <2>2 DEF Named
    <3> QED BY <1>1, <1>3, <2>2, <3>1, SamePair DEF Named, stateVars
  <2> QED BY <2>1, <2>2
<1> QED BY <1>4, <1>5, <1>6, <1>7

\* Handlers and background tasks leave connections, slots and the limiter alone,
\* and write no closed line.
LEMMA HandlerStep ==
    ASSUME Inv, NEW k \in Conn, NEW c \in Channel, NEW w,
           MoveChan(k, c, w), w \in {"opening", "created", "shell", "ended"},
           UNCHANGED <<limiterVars, conn, ip, slot, closed, hurried>>,
           \A r \in Conn \ {k} :
               lureSession'[r] = lureSession[r] /\ Named(opened, r)' = Named(opened, r),
           lureSession' \in [Conn -> Channel \union {None, Placeholder}],
           bridgeUuid' \in [Conn -> Channel \union {None}],
           opened' \subseteq Sid, live' \subseteq Conn \X Channel,
           closing' \subseteq Conn \X Channel, failed' \subseteq Conn \X Channel,
           PairInv(k)'
    PROVE  Inv'
<1> USE DEF Inv
<1>1. chan' \in [Conn \X Channel -> {"none", "opening", "created", "shell", "ended"}]
  BY DEF TypeOK, MoveChan
<1>2. LimiterInv' /\ SlotInv'
  BY SameLimiter, SameSlots DEF limiterVars
<1>3. TypeOK'
  BY <1>1, <1>2 DEF TypeOK, LimiterInv
<1>4. ASSUME NEW r \in Conn \ {k} PROVE PairInv(r)'
  <2>1. \A d \in Channel : chan'[<<r, d>>] = chan[<<r, d>>]
    BY DEF TypeOK, MoveChan
  <2> QED BY <2>1, SamePair DEF Named
<1> QED BY <1>2, <1>3, <1>4

LEMMA MovedChan ==
    ASSUME TypeOK, NEW k \in Conn, NEW c \in Channel, NEW w, MoveChan(k, c, w)
    PROVE  /\ chan'[<<k, c>>] = w
           /\ \A d \in Channel \ {c} : chan'[<<k, d>>] = chan[<<k, d>>]
           /\ w # "none" => Started(k)' = Started(k) \union {c}
<1>1. /\ chan'[<<k, c>>] = w
      /\ \A d \in Channel \ {c} : chan'[<<k, d>>] = chan[<<k, d>>]
  BY DEF TypeOK, MoveChan
<1> QED BY <1>1 DEF Started

LEMMA StartStep ==
    ASSUME Inv, NEW k \in Conn, NEW c \in Channel, StartHandler(k, c)
    PROVE  Inv'
<1> USE DEF Inv, StartHandler, stateVars, bridgeVars
<1>1. /\ chan'[<<k, c>>] = "opening" /\ Started(k)' = Started(k) \union {c}
      /\ \A d \in Channel \ {c} : chan'[<<k, d>>] = chan[<<k, d>>]
      /\ c \notin Started(k)
  BY MovedChan DEF Started
<1>2. /\ Named(opened, k)' = Named(opened, k) /\ Named(closed, k)' = Named(closed, k)
      /\ UNCHANGED <<conn, hurried, lureSession>>
  BY DEF Named
<1>3. Alone(k)' => Alone(k)
  BY <1>1, <1>2 DEF Alone
<1>4. /\ (\A d \in Started(k)' : chan'[<<k, d>>] \in {"opening", "created"}) =>
             \A d \in Started(k) : chan[<<k, d>>] \in {"opening", "created"}
      /\ \A d \in Started(k)' : chan'[<<k, d>>] \in {"shell", "ended"} =>
             d \in Started(k) /\ chan[<<k, d>>] \in {"shell", "ended"}
      /\ conn[k] = "lost" => k \in hurried
  BY <1>1 DEF PairInv, Started
<1>5. PairInv(k)'
  BY <1>1, <1>2, <1>3, <1>4 DEF PairInv
<1> QED BY <1>5, HandlerStep DEF TypeOK, Named

LEMMA CreateStep ==
    ASSUME Inv, NEW k \in Conn, NEW c \in Channel, BridgeCreates(k, c)
    PROVE  Inv'
<1> USE DEF Inv, BridgeCreates, stateVars
<1>1. /\ chan'[<<k, c>>] = "created" /\ Started(k)' = Started(k)
      /\ \A d \in Channel \ {c} : chan'[<<k, d>>] = chan[<<k, d>>]
      /\ c \in Started(k)
  BY MovedChan DEF Started
<1>2. /\ Named(opened, k)' = Named(opened, k) /\ Named(closed, k)' = Named(closed, k)
      /\ UNCHANGED <<conn, hurried, lureSession>>
  BY DEF Named
<1>3. Alone(k)' => Alone(k)
  BY <1>1, <1>2 DEF Alone
<1>4. /\ (\A d \in Started(k)' : chan'[<<k, d>>] \in {"opening", "created"}) =>
             \A d \in Started(k) : chan[<<k, d>>] \in {"opening", "created"}
      /\ \A d \in Started(k)' : chan'[<<k, d>>] \in {"shell", "ended"} =>
             d \in Started(k) /\ chan[<<k, d>>] \in {"shell", "ended"}
      /\ conn[k] = "lost" => k \in hurried
  BY <1>1 DEF PairInv, Started
<1>5. PairInv(k)'
  BY <1>1, <1>2, <1>3, <1>4 DEF PairInv
<1> QED BY <1>5, HandlerStep DEF TypeOK, Named

LEMMA EndsStep ==
    ASSUME Inv, NEW k \in Conn, NEW c \in Channel, HandlerEnds(k, c)
    PROVE  Inv'
<1> USE DEF Inv, HandlerEnds, stateVars, bridgeVars
<1>1. /\ chan'[<<k, c>>] = "ended" /\ Started(k)' = Started(k)
      /\ \A d \in Channel \ {c} : chan'[<<k, d>>] = chan[<<k, d>>]
      /\ c \in Started(k)
  BY MovedChan DEF Started
<1>2. /\ Named(opened, k)' = Named(opened, k) /\ Named(closed, k)' = Named(closed, k)
      /\ UNCHANGED <<conn, hurried, lureSession>>
  BY DEF Named
<1>3. Alone(k)' => Alone(k)
  BY <1>1, <1>2 DEF Alone
<1>4. PairInv(k)'
  BY <1>1, <1>2, <1>3 DEF PairInv
<1> QED BY <1>4, HandlerStep DEF TypeOK, Named

\* The first session of a connection is announced and its state told of it.
LEMMA AnnounceStep ==
    ASSUME Inv, NEW k \in Conn, NEW c \in Channel, NEW sid \in Channel \union {Placeholder},
           chan[<<k, c>>] \in {"opening", "created"}, MoveChan(k, c, "shell"),
           Announce(k, sid), lureSession' = [lureSession EXCEPT ![k] = sid],
           UNCHANGED <<conn, closed, hurried>>
    PROVE  /\ PairInv(k)' /\ opened' \subseteq Sid
           /\ lureSession' \in [Conn -> Channel \union {None, Placeholder}]
           /\ \A r \in Conn \ {k} :
                  lureSession'[r] = lureSession[r] /\ Named(opened, r)' = Named(opened, r)
<1> USE DEF Inv
<1>1. /\ chan'[<<k, c>>] = "shell" /\ Started(k)' = Started(k)
      /\ \A d \in Channel \ {c} : chan'[<<k, d>>] = chan[<<k, d>>]
      /\ c \in Started(k)
  BY MovedChan DEF Started
<1>2. lureSession'[k] = sid /\ sid # None
  BY ConnectionsAssumption DEF TypeOK
<1>3. Named(opened, k)' = IF Named(opened, k) = {} THEN {<<k, sid>>} ELSE Named(opened, k)
  BY DEF Announce, Named
<1>4. Alone(k)' => Named(opened, k) = {}
  BY <1>1 DEF PairInv, Alone
<1>5. conn[k] = "lost" => k \in hurried
  BY DEF PairInv
<1>6. PairInv(k)'
  BY <1>1, <1>2, <1>3, <1>4, <1>5 DEF PairInv, Alone, Named
<1>7. opened' \subseteq Sid
  BY DEF Announce, TypeOK, Sid
<1>8. \A r \in Conn \ {k} : Named(opened, r)' = Named(opened, r)
  BY DEF Announce, Named
<1> QED BY <1>6, <1>7, <1>8 DEF TypeOK

LEMMA ReadyStep ==
    ASSUME Inv, NEW k \in Conn, NEW c \in Channel, SessionReady(k, c)
    PROVE  Inv'
<1> USE DEF Inv, SessionReady, bridgeVars
<1>1. /\ PairInv(k)' /\ opened' \subseteq Sid
      /\ lureSession' \in [Conn -> Channel \union {None, Placeholder}]
      /\ \A r \in Conn \ {k} :
             lureSession'[r] = lureSession[r] /\ Named(opened, r)' = Named(opened, r)
  BY AnnounceStep
<1>2. bridgeUuid' \in [Conn -> Channel \union {None}]
  BY DEF TypeOK
<1> QED BY <1>1, <1>2, HandlerStep DEF TypeOK

LEMMA FailsStep ==
    ASSUME Inv, NEW k \in Conn, NEW c \in Channel, SessionFails(k, c)
    PROVE  Inv'
<1> USE DEF Inv, SessionFails
<1>1. /\ PairInv(k)' /\ opened' \subseteq Sid
      /\ lureSession' \in [Conn -> Channel \union {None, Placeholder}]
      /\ \A r \in Conn \ {k} :
             lureSession'[r] = lureSession[r] /\ Named(opened, r)' = Named(opened, r)
  BY AnnounceStep
<1>2. failed' \subseteq Conn \X Channel
  BY DEF TypeOK
<1> QED BY <1>1, <1>2, HandlerStep DEF TypeOK

\* A step that no connection, no slot and no line takes part in.
LEMMA ElsewhereStep ==
    ASSUME Inv, LimiterInv',
           UNCHANGED <<total, concurrent, conn, ip, slot, chan, stateVars, opened, closed,
                       hurried>>,
           live' \subseteq Conn \X Channel, closing' \subseteq Conn \X Channel,
           failed' \subseteq Conn \X Channel
    PROVE  Inv'
<1> USE DEF Inv, stateVars
<1>1. TypeOK'
  BY DEF TypeOK, LimiterInv
<1>2. \A r \in Conn : PairInv(r)'
  BY SamePair DEF Named
<1> QED BY <1>1, <1>2, SameSlots

LEMMA StepInv == Inv /\ [Next]_vars => Inv'
<1> SUFFICES ASSUME Inv, [Next]_vars PROVE Inv'
  OBVIOUS
<1>1. ASSUME NEW s \in closing, CloseSession(s) PROVE Inv'
  <2>1. LimiterInv'
    BY <1>1, SameLimiter DEF CloseSession, Inv
  <2>2. /\ live' \subseteq Conn \X Channel /\ closing' \subseteq Conn \X Channel
        /\ failed' \subseteq Conn \X Channel
    BY <1>1 DEF CloseSession, Inv, TypeOK
  <2> QED BY <1>1, <2>1, <2>2, ElsewhereStep DEF CloseSession, limiterVars
<1>2. CASE Tick /\ UNCHANGED <<conn, ip, slot, chan, stateVars, opened, closed, bridgeVars,
                               hurried>>
  BY <1>2, TickStep, ElsewhereStep DEF Tick, Inv, TypeOK, bridgeVars
<1>3. CASE UNCHANGED vars
  BY <1>3, SameLimiter, ElsewhereStep DEF vars, bridgeVars, limiterVars, Inv, TypeOK
<1>4. CASE Next
  BY <1>1, <1>2, <1>4, MadeStep, LostStep, StartStep, CreateStep, ReadyStep, FailsStep,
     EndsStep DEF Next
<1> QED BY <1>3, <1>4

\* A steady connection had one handler at most.
LEMMA SteadyAlone ==
    ASSUME NEW k \in Conn, Steady(k)
    PROVE  Alone(k)
<1>1. IsFiniteSet(Started(k)) /\ Started(k) = {c \in Channel : chan[<<k, c>>] # "none"}
  BY ConnectionsAssumption, FS_Subset DEF Started
<1>2. Cardinality(Started(k)) \in Nat /\ Cardinality(Started(k)) <= 1
  BY <1>1, FS_CardinalityType DEF Steady
<1>3. CASE Cardinality(Started(k)) = 0
  BY <1>1, <1>3, FS_EmptySet DEF Alone, Steady
<1>4. CASE Cardinality(Started(k)) = 1
  <2>1. PICK x : Started(k) = {x}
    BY <1>1, <1>4, FS_Singleton
  <2> QED BY <2>1 DEF Alone, Steady
<1> QED BY <1>2, <1>3, <1>4

LEMMA AtMostOne ==
    ASSUME NEW S, \A s, t \in S : s = t
    PROVE  Cardinality(S) <= 1 /\ (S = {} => Cardinality(S) = 0)
<1>1. CASE S = {}
  BY <1>1, FS_EmptySet
<1>2. CASE S # {}
  <2>1. PICK x : S = {x}
    BY <1>2
  <2>2. Cardinality(S) = 1
    BY <2>1, FS_Singleton, Zenon
  <2> QED BY <1>2, <2>2
<1> QED BY <1>1, <1>2

LEMMA InvImplies == Inv => AdmissionSound /\ LinesPaired
<1> SUFFICES ASSUME Inv PROVE AdmissionSound /\ LinesPaired
  OBVIOUS
<1>1. AdmissionSound
  BY LimiterImplies DEF Inv, AdmissionSound, SlotInv, LimiterInv
<1>2. OneRowPerConnection
  <2>1. ASSUME NEW k \in Conn
        PROVE  /\ Cardinality(Named(opened, k)) <= 1
               /\ Cardinality(Named(closed, k)) <= IF conn[k] = "lost" THEN 1 ELSE 0
    <3>1. \A s, t \in Named(opened, k) : s = t
      BY DEF Inv, PairInv
    <3>2. \A s, t \in Named(closed, k) : s = t
      BY DEF Inv, PairInv
    <3>3. conn[k] # "lost" => Named(closed, k) = {}
      BY DEF Inv, PairInv
    <3> QED BY <3>1, <3>2, <3>3, AtMostOne
  <2> QED BY <2>1 DEF OneRowPerConnection, Named
<1>3. PairedIfSteady
  BY SteadyAlone DEF Inv, PairInv, PairedIfSteady
<1> QED BY <1>1, <1>2, <1>3 DEF LinesPaired

-----------------------------------------------------------------------------
\* The limiter of the lure (lure/server.py _PerIPLimiter), under any interleaving of
\* connections made, refused and lost and any sweep of its windows: its counters
\* are the connections that are up and stay within the caps, no address whose live
\* window was not dropped is let in more than max_rpm times in a window, what is
\* counted against it is what it was let in for, and the map of windows is bounded.
THEOREM AdmissionKept == Spec => []AdmissionSound
<1>1. Spec => []Inv
  BY InitInv, StepInv, PTL DEF Spec
<1> QED BY <1>1, InvImplies, PTL

\* However channels, lost connections and failing requests are interleaved: the
\* audit log has one opened and one closed line of a connection, and those of a
\* steady connection name the same session (lure/server.py _process_handler,
\* connection_lost).
THEOREM LinesKept == Spec => []LinesPaired
<1>1. Spec => []Inv
  BY InitInv, StepInv, PTL DEF Spec
<1> QED BY <1>1, InvImplies, PTL

-----------------------------------------------------------------------------
(* One channel from the inside: the turns its commands become, and what    *)
(* the attacker sees of them.                                              *)

ShEntry == [n : Nat, event : {"native", "garble", "bridge", "unavailable", "fallback"}]

ShTypeOK ==
    /\ shMode \in {"shell", "exec", "subsystem"} /\ shStream \in BOOLEAN /\ shUp \in BOOLEAN
    /\ shPc \in {"opening", "prompt", "sleeping", "asked", "served", "done"}
    /\ shTyped \in Nat
    /\ shHist \in Seq([n : Nat, source : {"native", "bridge", "fallback"}])
    /\ shLines \in Seq(ShEntry)
    /\ shCut \subseteq 1..shTyped

\* A command under way has left nothing behind yet.
UnderWayInv ==
    /\ shPc = "opening" => shTyped = 0
    /\ shPc \in {"sleeping", "asked", "served"} => shTyped > 0 /\ shTyped \notin shCut
    /\ shPartial \subseteq Answered

\* What answers showed of a file is what the file system has for it since the
\* session was opened.
ToldInv == \A f \in File : shTold[f] \subseteq (IF shPc = "opening" THEN {} ELSE {Body(f), SizeShown(f)})

ShInv ==
    /\ ShTypeOK /\ UnderWayInv /\ ToldInv
    /\ TurnPerCommand /\ OneVoice
    /\ shCwd # shBridge.cwd => shDrift

TurnEvent == {"native", "bridge", "fallback"}
Events == {<<"native">>, <<"native", "garble">>, <<"bridge">>, <<"unavailable", "fallback">>}

\* Whatever way a command is answered, one of its lines becomes a turn.
LEMMA OneTurn ==
    ASSUME NEW events \in Events
    PROVE  \E m \in Nat : /\ m = Len(events) /\ DOMAIN events = 1..m
                          /\ \A q \in 1..m : events[q] \in TurnEvent \union {"garble", "unavailable"}
                          /\ \E p \in 1..m : /\ events[p] \in TurnEvent
                                             /\ \A q \in 1..m : q # p => events[q] \notin TurnEvent
<1>1. CASE events = <<"native">> \/ events = <<"bridge">>
  <2>1. Len(events) = 1 /\ DOMAIN events = 1..1 /\ events[1] \in TurnEvent
    BY <1>1 DEF TurnEvent
  <2> QED BY <2>1
<1>2. CASE events = <<"native", "garble">>
  <2>1. Len(events) = 2 /\ DOMAIN events = 1..2 /\ events[1] = "native" /\ events[2] = "garble"
    BY <1>2
  <2>2. \A q \in 1..2 : q = 1 \/ q = 2
    OBVIOUS
  <2> QED BY <2>1, <2>2 DEF TurnEvent
<1>3. CASE events = <<"unavailable", "fallback">>
  <2>1. Len(events) = 2 /\ DOMAIN events = 1..2 /\ events[1] = "unavailable" /\ events[2] = "fallback"
    BY <1>3
  <2>2. \A q \in 1..2 : q = 1 \/ q = 2
    OBVIOUS
  <2> QED BY <2>1, <2>2 DEF TurnEvent
<1> QED BY <1>1, <1>2, <1>3 DEF Events

\* The lines of the command in hand come after those there are, and its turn is
\* the last.
LEMMA TurnAdded ==
    ASSUME ShTypeOK, NEW events \in Events, Log(events),
           \A i \in Turns : shLines[i].n < shTyped,
           \A i, j \in Turns : i < j => shLines[i].n < shLines[j].n
    PROVE  /\ shLines' \in Seq(ShEntry)
           /\ {shLines'[i].n : i \in Turns'} = {shLines[i].n : i \in Turns} \union {shTyped}
           /\ \A i, j \in Turns' : i < j => shLines'[i].n < shLines'[j].n
<1>1. PICK k \in Nat : k = Len(shLines)
  BY DEF ShTypeOK
<1>2. shLines \in Seq(ShEntry) /\ DOMAIN shLines = 1..k
  BY <1>1 DEF ShTypeOK
<1>3. PICK m \in Nat : /\ m = Len(events) /\ DOMAIN events = 1..m
                       /\ \A q \in 1..m : events[q] \in TurnEvent \union {"garble", "unavailable"}
                       /\ \E p \in 1..m : /\ events[p] \in TurnEvent
                                          /\ \A q \in 1..m : q # p => events[q] \notin TurnEvent
  BY OneTurn
<1>4. PICK p \in 1..m : events[p] \in TurnEvent /\ \A q \in 1..m : q # p => events[q] \notin TurnEvent
  BY <1>3
<1> DEFINE new == [i \in DOMAIN events |-> Line(events[i])]
<1>5. \A q \in 1..m : new[q] = [n |-> shTyped, event |-> events[q]]
  BY <1>3 DEF Line
<1>6. new \in Seq(ShEntry) /\ Len(new) = m
  <2>1. \A q \in 1..m : [n |-> shTyped, event |-> events[q]] \in ShEntry
    BY <1>3 DEF ShEntry, TurnEvent, ShTypeOK
  <2>2. \A q \in 1..m : new[q] \in ShEntry
    BY <1>5, <2>1
  <2>3. DOMAIN new = 1..m
    BY <1>3
  <2> QED BY <2>2, <2>3
<1>7. shLines' = shLines \o new
  BY DEF Log
<1> HIDE DEF new
<1>8. /\ shLines' \in Seq(ShEntry) /\ Len(shLines') = k + m
      /\ \A i \in 1..k + m : shLines'[i] = IF i <= k THEN shLines[i] ELSE new[i - k]
  BY <1>1, <1>2, <1>6, <1>7, ConcatProperties
<1>9. DOMAIN shLines' = 1..k + m
  BY <1>1, <1>3, <1>8
<1>10. \A i \in 1..k : i \in 1..k + m /\ shLines'[i] = shLines[i]
  <2>1. \A i \in 1..k : i \in 1..k + m /\ i <= k
    BY <1>1, <1>3
  <2> QED BY <1>8, <2>1
<1>11. \A q \in 1..m : k + q \in 1..k + m /\ shLines'[k + q].n = shTyped /\ shLines'[k + q].event = events[q]
  <2> SUFFICES ASSUME NEW q \in 1..m
               PROVE  k + q \in 1..k + m /\ shLines'[k + q].n = shTyped /\ shLines'[k + q].event = events[q]
    OBVIOUS
  <2>1. k + q \in 1..k + m /\ ~(k + q <= k) /\ k + q - k = q
    BY <1>1, <1>3
  <2>2. shLines'[k + q] = new[q]
    BY <1>8, <2>1
  <2>3. shLines'[k + q] = [n |-> shTyped, event |-> events[q]]
    BY <1>5, <2>2
  <2> QED BY <2>1, <2>3
<1>12. \A i \in 1..k + m : i \in 1..k \/ \E q \in 1..m : i = k + q
  <2> SUFFICES ASSUME NEW i \in 1..k + m, i \notin 1..k PROVE \E q \in 1..m : i = k + q
    OBVIOUS
  <2>1. i - k \in 1..m /\ i = k + (i - k)
    BY <1>1, <1>3
  <2> QED BY <2>1
<1>13. Turns' = Turns \union {k + p}
  <2>1. Turns = {i \in 1..k : shLines[i].event \in TurnEvent} /\ Turns' = {i \in 1..k + m : shLines'[i].event \in TurnEvent}
    BY <1>2, <1>9 DEF Turns, TurnEvent
  <2>2. \A i \in Turns' : i \in Turns \/ i = k + p
    BY <1>4, <1>10, <1>11, <1>12, <2>1
  <2>3. Turns \subseteq Turns'
    BY <1>10, <2>1
  <2>4. k + p \in Turns'
    BY <1>4, <1>11, <2>1
  <2> QED BY <2>2, <2>3, <2>4
<1>14. Turns \subseteq 1..k /\ k + p \notin 1..k /\ \A i \in 1..k : i < k + p
  BY <1>1, <1>2, <1>3, <1>4 DEF Turns
<1>15. shLines'[k + p].n = shTyped /\ \A i \in Turns : shLines'[i] = shLines[i]
  BY <1>10, <1>11, <1>14
<1>16. {shLines'[i].n : i \in Turns'} = {shLines[i].n : i \in Turns} \union {shTyped}
  BY <1>13, <1>15
<1>17. \A i, j \in Turns' : i < j => shLines'[i].n < shLines'[j].n
  <2> SUFFICES ASSUME NEW i \in Turns', NEW j \in Turns', i < j PROVE shLines'[i].n < shLines'[j].n
    OBVIOUS
  <2>1. i \in Turns
    BY <1>1, <1>3, <1>13, <1>14
  <2>2. CASE j \in Turns
    BY <1>15, <2>1, <2>2
  <2>3. CASE j = k + p
    BY <1>15, <2>1, <2>3
  <2> QED BY <1>13, <2>2, <2>3
<1> QED BY <1>8, <1>16, <1>17

ShHist == Seq([n : Nat, source : {"native", "bridge", "fallback"}])

\* The window moves on by the command in hand.
LEMMA WindowMoves ==
    ASSUME ShTypeOK, NEW source \in {"native", "bridge", "fallback"}, Remember(source),
           NEW C, \A n \in C : n \in Nat /\ n < shTyped,
           TellsLatest(shHist, C, HistoryWindow)
    PROVE  shHist' \in ShHist /\ TellsLatest(shHist', C \union {shTyped}, HistoryWindow)
<1>1. PICK k \in Nat : k = Len(shHist)
  BY DEF ShTypeOK
<1>2. shHist \in ShHist /\ DOMAIN shHist = 1..k /\ k <= HistoryWindow /\ shTyped \in Nat
  BY <1>1 DEF ShTypeOK, ShHist, TellsLatest
<1>3. HistoryWindow \in Nat \ {0}
  BY ShellAssumption
<1> DEFINE last == [n |-> shTyped, source |-> source]
           h == Append(shHist, last)
<1>4. last \in [n : Nat, source : {"native", "bridge", "fallback"}] /\ last.n = shTyped
  BY <1>2
<1>5. shHist' = IF Len(h) > HistoryWindow THEN Tail(h) ELSE h
  BY DEF Remember
<1> HIDE DEF last
<1>6. /\ h \in ShHist /\ Len(h) = k + 1 /\ DOMAIN h = 1..k + 1
      /\ \A i \in 1..k : h[i] = shHist[i]
      /\ h[k + 1].n = shTyped
  BY <1>1, <1>2, <1>4 DEF ShHist
<1> HIDE DEF h
<1>7. /\ \A i \in 1..k : shHist[i].n \in C /\ shHist[i].n < shTyped
      /\ \A i, j \in 1..k : i < j => shHist[i].n < shHist[j].n
      /\ \A n \in C : (\E i \in 1..k : shHist[i].n = n) \/ (k = HistoryWindow /\ \A i \in 1..k : n < shHist[i].n)
  BY <1>1, <1>2 DEF TellsLatest
<1>8. \A i \in 1..k + 1 : i \in 1..k \/ i = k + 1
  BY <1>1
<1>9. /\ \A i \in 1..k + 1 : h[i].n \in C \union {shTyped}
      /\ \A i, j \in 1..k + 1 : i < j => h[i].n < h[j].n
  BY <1>6, <1>7, <1>8
<1>10. CASE k + 1 <= HistoryWindow
  <2>1. shHist' = h
    BY <1>3, <1>5, <1>6, <1>10
  <2>2. ASSUME NEW n \in C \union {shTyped} PROVE \E i \in 1..k + 1 : h[i].n = n
    <3>1. CASE n = shTyped
      BY <1>6, <3>1
    <3>2. CASE n \in C
      <4>1. k # HistoryWindow /\ 1..k \subseteq 1..k + 1
        BY <1>1, <1>3, <1>10
      <4> QED BY <1>6, <1>7, <3>2, <4>1
    <3> QED BY <3>1, <3>2
  <2> QED BY <1>6, <1>9, <1>10, <2>1, <2>2 DEF TellsLatest
<1>11. CASE ~(k + 1 <= HistoryWindow)
  <2>1. k = HistoryWindow /\ k > 0
    BY <1>1, <1>2, <1>3, <1>11
  <2>2. shHist' = Tail(h) /\ h # <<>>
    BY <1>5, <1>6, <2>1
  <2>3. /\ shHist' \in ShHist /\ Len(shHist') = k /\ DOMAIN shHist' = 1..k
        /\ \A i \in 1..k : shHist'[i] = h[i + 1]
    BY <1>6, <2>2 DEF ShHist
  <2>4. \A i \in 1..k : i + 1 \in 1..k + 1
    BY <1>1
  <2>5. /\ \A i \in 1..k : shHist'[i].n \in C \union {shTyped}
        /\ \A i, j \in 1..k : i < j => shHist'[i].n < shHist'[j].n
    <3>1. \A i \in 1..k : shHist'[i].n \in C \union {shTyped}
      BY <1>9, <2>3, <2>4
    <3>2. ASSUME NEW i \in 1..k, NEW j \in 1..k, i < j PROVE shHist'[i].n < shHist'[j].n
      <4>1. i + 1 < j + 1
        BY <3>2
      <4> QED BY <1>9, <2>3, <2>4, <4>1
    <3> QED BY <3>1, <3>2
  <2>6. ASSUME NEW n \in C \union {shTyped}
        PROVE  (\E i \in 1..k : shHist'[i].n = n) \/ \A i \in 1..k : n < shHist'[i].n
    <3>1. CASE n = shTyped
      <4>1. k \in 1..k /\ shHist'[k] = h[k + 1]
        BY <2>1, <2>3
      <4> QED BY <1>6, <3>1, <4>1
    <3>2. CASE n \in C /\ \A i \in 1..k : n < shHist[i].n
      <4> SUFFICES ASSUME NEW i \in 1..k PROVE n < h[i + 1].n
        BY <2>3
      <4>1. 1 \in 1..k /\ 1 \in 1..k + 1 /\ i + 1 \in 1..k + 1 /\ 1 < i + 1
        BY <2>1
      <4>2. n < h[1].n /\ h[1].n < h[i + 1].n
        BY <1>6, <1>9, <3>2, <4>1
      <4>3. n \in Nat /\ h[1].n \in Nat /\ h[i + 1].n \in Nat
        BY <1>2, <1>9, <3>2, <4>1
      <4> QED BY <4>2, <4>3
    <3>3. CASE n \in C /\ \E i \in 1..k : shHist[i].n = n
      <4>1. PICK i \in 1..k : shHist[i].n = n
        BY <3>3
      <4>2. h[i].n = n /\ i \in 1..k + 1
        BY <1>6, <4>1
      <4>3. CASE i = 1
        <5> SUFFICES ASSUME NEW j \in 1..k PROVE n < h[j + 1].n
          BY <2>3
        <5> QED BY <1>9, <2>4, <4>2, <4>3
      <4>4. CASE i # 1
        <5>1. i - 1 \in 1..k /\ i - 1 + 1 = i
          BY <4>4
        <5> QED BY <2>3, <4>2, <5>1
      <4> QED BY <4>3, <4>4
    <3> QED BY <1>7, <3>1, <3>2, <3>3
  <2>7. Len(shHist') = HistoryWindow /\ Len(shHist') <= HistoryWindow
    BY <1>3, <2>1, <2>3
  <2>8. \A n \in C \union {shTyped} :
            (\E i \in DOMAIN shHist' : shHist'[i].n = n) \/ \A i \in DOMAIN shHist' : n < shHist'[i].n
    BY <2>3, <2>6
  <2>9. \A i, j \in DOMAIN shHist' : i < j => shHist'[i].n < shHist'[j].n
    BY <2>3, <2>5
  <2>10. \A i \in DOMAIN shHist' : shHist'[i].n \in C \union {shTyped}
    BY <2>3, <2>5
  <2> QED BY <2>3, <2>7, <2>8, <2>9, <2>10, Zenon DEF TellsLatest
<1> QED BY <1>10, <1>11

\* A command under way has not been answered; when its handler is done with it, it
\* has.
LEMMA Completed ==
    ASSUME ShInv, shPc \in {"sleeping", "asked", "served"}, shPc' \in {"prompt", "done"},
           UNCHANGED <<shTyped, shCut>>
    PROVE  /\ Answered' = Answered \union {shTyped}
           /\ \A n \in Answered : n \in Nat /\ n < shTyped
<1>1. shTyped \in Nat /\ shTyped > 0 /\ shTyped \notin shCut
  BY DEF ShInv, ShTypeOK, UnderWayInv
<1>2. Answered = {n \in 1..shTyped : n < shTyped} \ shCut
  BY DEF Answered
<1>3. Answered' = (1..shTyped) \ shCut
  BY DEF Answered
<1> QED BY <1>1, <1>2, <1>3

\* The command in hand is done, by whatever way it was answered.
LEMMA DoneStep ==
    ASSUME ShInv, shPc \in {"sleeping", "asked", "served"}, NextLine,
           NEW events \in Events, Log(events), UNCHANGED <<shMode, shStream, shUp, shTyped, shCut>>,
           \/ /\ \E source \in {"native", "bridge", "fallback"} : Remember(source)
              /\ shPartial' = shPartial
           \/ shHist' = shHist /\ shPartial' = shPartial \union {shTyped}
    PROVE  ShTypeOK' /\ UnderWayInv' /\ TurnPerCommand'
<1>1. shPc' \in {"prompt", "done"} /\ ShTypeOK /\ TurnPerCommand
  BY DEF NextLine, ShInv
<1>2. Answered' = Answered \union {shTyped} /\ \A n \in Answered : n \in Nat /\ n < shTyped
  BY <1>1, Completed
<1>3. /\ {shLines[i].n : i \in Turns} = Answered
      /\ \A i, j \in Turns : i < j => shLines[i].n < shLines[j].n
      /\ TellsLatest(shHist, Answered \ shPartial, HistoryWindow)
  BY <1>1 DEF TurnPerCommand
<1>4. /\ shLines' \in Seq(ShEntry)
      /\ {shLines'[i].n : i \in Turns'} = {shLines[i].n : i \in Turns} \union {shTyped}
      /\ \A i, j \in Turns' : i < j => shLines'[i].n < shLines'[j].n
  <2>1. \A i \in Turns : shLines[i].n < shTyped
    BY <1>2, <1>3
  <2> QED BY <1>1, <1>3, <2>1, TurnAdded
<1>5. shPartial \subseteq Answered /\ shTyped \notin shPartial
  BY <1>2 DEF ShInv, UnderWayInv, ShTypeOK
<1>6. /\ shHist' \in ShHist /\ shPartial' \subseteq Answered'
      /\ TellsLatest(shHist', Answered' \ shPartial', HistoryWindow)
  <2>1. CASE (\E source \in {"native", "bridge", "fallback"} : Remember(source)) /\ shPartial' = shPartial
    <3>1. PICK source \in {"native", "bridge", "fallback"} : Remember(source)
      BY <2>1
    <3>2. Answered' \ shPartial' = (Answered \ shPartial) \union {shTyped}
      BY <1>2, <1>5, <2>1
    <3>3. \A n \in Answered \ shPartial : n \in Nat /\ n < shTyped
      BY <1>2
    <3>4. shHist' \in ShHist /\ TellsLatest(shHist', (Answered \ shPartial) \union {shTyped}, HistoryWindow)
      BY <1>1, <1>3, <3>1, <3>3, WindowMoves
    <3> QED BY <1>2, <1>5, <2>1, <3>2, <3>4
  <2>2. CASE shHist' = shHist /\ shPartial' = shPartial \union {shTyped}
    <3>1. Answered' \ shPartial' = Answered \ shPartial
      BY <1>2, <2>2
    <3> QED BY <1>1, <1>2, <1>3, <1>5, <2>2, <3>1 DEF ShTypeOK, ShHist
  <2> QED BY <2>1, <2>2
<1>7. ShTypeOK'
  BY <1>1, <1>4, <1>6 DEF ShTypeOK, ShHist
<1>8. UnderWayInv'
  BY <1>1, <1>6 DEF UnderWayInv
<1>9. TurnPerCommand'
  BY <1>2, <1>3, <1>4, <1>6 DEF TurnPerCommand
<1> QED BY <1>7, <1>8, <1>9

\* What holds of turns and of files as long as no command is done.
LEMMA TurnsStay ==
    ASSUME ShInv, Answered' = Answered, UNCHANGED <<shHist, shLines, shPartial>>
    PROVE  TurnPerCommand'
<1>1. Turns' = Turns
  BY DEF Turns
<1> QED BY <1>1 DEF ShInv, TurnPerCommand

LEMMA ToldStays ==
    ASSUME ShInv, UNCHANGED <<shTold, shOverlay>>, shPc # "opening", shPc' # "opening"
    PROVE  ToldInv'
<1>1. \A f \in File : Body(f)' = Body(f) /\ SizeShown(f)' = SizeShown(f)
  BY DEF Body, SizeShown
<1> QED BY <1>1 DEF ShInv, ToldInv

LEMMA ShInitInv == ShellInit => ShInv
<1> SUFFICES ASSUME ShellInit PROVE ShInv
  OBVIOUS
<1>1. ShTypeOK
  BY DEF ShellInit, ShTypeOK
<1>2. Answered = {} /\ Turns = {}
  BY DEF ShellInit, Answered, Turns
<1>3. UnderWayInv /\ ToldInv
  BY <1>2 DEF ShellInit, UnderWayInv, ToldInv
<1>4. TurnPerCommand
  <2>1. Len(shHist) = 0 /\ DOMAIN shHist = {}
    BY DEF ShellInit
  <2>2. TellsLatest(shHist, Answered \ shPartial, HistoryWindow)
    BY <1>2, <2>1, ShellAssumption DEF TellsLatest
  <2> QED BY <1>2, <2>2 DEF TurnPerCommand
<1>5. OneVoice /\ shCwd = shBridge.cwd
  BY DEF ShellInit, OneVoice
<1> QED BY <1>1, <1>3, <1>4, <1>5 DEF ShInv

LEMMA OpenShellStep == ASSUME ShInv, OpenShell PROVE ShInv'
<1>1. /\ shPc = "opening" /\ shPc' \in {"prompt", "done"}
      /\ shBridge'.cwd = shBridge.cwd
      /\ UNCHANGED <<shMode, shStream, shUp, shTyped, shCwd, shHist, shLines, shScreen, shTold, shCut, shPartial, shDrift>>
  <2>1. CASE shBridge' = [shBridge EXCEPT !.held = TRUE]
    <3>1. shBridge'.cwd = shBridge.cwd
      BY <2>1
    <3> QED BY <3>1 DEF OpenShell
  <2>2. CASE UNCHANGED shBridge
    BY <2>2 DEF OpenShell
  <2> QED BY <2>1, <2>2 DEF OpenShell
<1>2. shTyped = 0 /\ Answered = {} /\ Answered' = {}
  BY <1>1 DEF ShInv, UnderWayInv, Answered
<1>3. ShTypeOK' /\ OneVoice'
  BY <1>1 DEF ShInv, ShTypeOK, OneVoice
<1>4. UnderWayInv' /\ ToldInv'
  BY <1>1, <1>2 DEF ShInv, UnderWayInv, ToldInv
<1>5. TurnPerCommand'
  BY <1>1, <1>2, TurnsStay
<1> QED BY <1>1, <1>3, <1>4, <1>5 DEF ShInv

LEMMA TypeLineStep == ASSUME ShInv, NEW c \in Typable, TypeLine(c) PROVE ShInv'
<1>1. /\ shPc = "prompt" /\ shPc' \in {"sleeping", "asked"}
      /\ shTyped' = shTyped + 1 /\ shScreen' = <<>>
      /\ shCwd' = (IF c.verb = "cd" THEN c.dir ELSE shCwd)
      /\ shDrift' = (shDrift \/ (c.verb = "cd" /\ c.dir # shBridge.cwd))
      /\ UNCHANGED <<shMode, shStream, shUp, shBridge, shOverlay, shHist, shLines, shTold, shCut, shPartial>>
  BY DEF TypeLine
<1>2. shTyped \in Nat /\ shCut \subseteq 1..shTyped
  BY DEF ShInv, ShTypeOK
<1>3. Answered' = Answered
  <2>1. Answered = (1..shTyped) \ shCut
    BY <1>1 DEF Answered
  <2>2. Answered' = {n \in 1..shTyped + 1 : n < shTyped + 1} \ shCut
    BY <1>1 DEF Answered
  <2> QED BY <1>2, <2>1, <2>2
<1>4. ShTypeOK'
  BY <1>1, <1>2 DEF ShInv, ShTypeOK
<1>5. UnderWayInv'
  BY <1>1, <1>2, <1>3 DEF ShInv, UnderWayInv
<1>6. ToldInv' /\ TurnPerCommand'
  BY <1>1, <1>3, ToldStays, TurnsStay
<1>7. OneVoice'
  BY <1>1 DEF OneVoice
<1>8. shCwd' # shBridge'.cwd => shDrift'
  BY <1>1 DEF ShInv
<1> QED BY <1>4, <1>5, <1>6, <1>7, <1>8 DEF ShInv

LEMMA NativeStep == ASSUME ShInv, AnswerNative PROVE ShInv'
<1>1. /\ shPc = "sleeping" /\ Remember("native") /\ NextLine
      /\ shScreen' = (IF shUp THEN <<"native">> ELSE <<>>)
      /\ shTold' = [f \in File |-> shTold[f] \union Shown(shCmd, f)]
      /\ UNCHANGED <<shMode, shStream, shUp, shTyped, shCwd, shBridge, shOverlay, shCut, shPartial, shDrift>>
  BY DEF AnswerNative
<1>2. PICK events \in Events : Log(events)
  BY DEF AnswerNative, Events
<1>3. ShTypeOK' /\ UnderWayInv' /\ TurnPerCommand'
  BY <1>1, <1>2, DoneStep
<1>4. ToldInv'
  <2>1. shPc' # "opening"
    BY <1>1 DEF NextLine
  <2>2. \A f \in File : Shown(shCmd, f) \subseteq {Body(f), SizeShown(f)}
    BY DEF Shown, CatShows, LsShows
  <2>3. \A f \in File : Body(f)' = Body(f) /\ SizeShown(f)' = SizeShown(f)
    BY <1>1 DEF Body, SizeShown
  <2> QED BY <1>1, <2>1, <2>2, <2>3 DEF ShInv, ToldInv
<1>5. OneVoice' /\ (shCwd' # shBridge'.cwd => shDrift')
  BY <1>1 DEF ShInv, OneVoice
<1> QED BY <1>3, <1>4, <1>5 DEF ShInv

LEMMA ServeStep == ASSUME ShInv, ServeCommand PROVE ShInv'
<1>1. /\ shPc = "asked" /\ shPc' = "served"
      /\ shDrift' = (shDrift \/ shBridge'.cwd # shCwd)
      /\ UNCHANGED <<shMode, shStream, shUp, shTyped, shCwd, shOverlay, shHist, shLines, shScreen, shTold, shCut, shPartial>>
  BY DEF ServeCommand
<1>2. Answered' = Answered
  BY <1>1 DEF Answered
<1>3. ShTypeOK' /\ UnderWayInv' /\ OneVoice'
  BY <1>1, <1>2 DEF ShInv, ShTypeOK, UnderWayInv, OneVoice
<1>4. ToldInv' /\ TurnPerCommand'
  BY <1>1, <1>2, ToldStays, TurnsStay
<1> QED BY <1>1, <1>3, <1>4 DEF ShInv

LEMMA DeltaStep == ASSUME ShInv, TakeDelta PROVE ShInv'
<1>1. /\ shPc = "served"
      /\ \/ shScreen' = <<"ai">> /\ UNCHANGED <<shPc, shCut>>
         \/ shPc' = "done" /\ shCut' = shCut \union {shTyped} /\ UNCHANGED shScreen
      /\ UNCHANGED <<shMode, shStream, shUp, shTyped, shCwd, shBridge, shOverlay, shHist, shLines, shTold, shPartial, shDrift>>
  BY DEF TakeDelta
<1>2. shTyped \in Nat /\ shTyped > 0 /\ shCut \subseteq 1..shTyped
  BY <1>1 DEF ShInv, ShTypeOK, UnderWayInv
<1>3. Answered' = Answered
  <2>1. Answered = {n \in 1..shTyped : n < shTyped} \ shCut
    BY <1>1 DEF Answered
  <2>2. CASE UNCHANGED <<shPc, shCut>>
    BY <1>1, <2>2 DEF Answered
  <2>3. CASE shPc' = "done" /\ shCut' = shCut \union {shTyped}
    <3>1. Answered' = (1..shTyped) \ (shCut \union {shTyped})
      BY <1>1, <2>3 DEF Answered
    <3> QED BY <1>2, <2>1, <3>1
  <2> QED BY <1>1, <2>2, <2>3
<1>4. ShTypeOK'
  <2>1. shTyped \in 1..shTyped
    BY <1>2
  <2>2. shCut' \subseteq 1..shTyped
    BY <1>1, <1>2, <2>1
  <2>3. shPc' \in {"served", "done"}
    BY <1>1
  <2> QED BY <1>1, <2>2, <2>3 DEF ShInv, ShTypeOK
<1>5. UnderWayInv'
  BY <1>1, <1>3 DEF ShInv, UnderWayInv
<1>6. ToldInv' /\ TurnPerCommand'
  <2>1. shPc' # "opening"
    BY <1>1
  <2> QED BY <1>1, <1>3, <2>1, ToldStays, TurnsStay
<1>7. OneVoice'
  <2>1. CASE shScreen' = <<"ai">>
    <3>1. Len(shScreen') = 1
      BY <2>1
    <3> QED BY <3>1 DEF OneVoice
  <2>2. CASE UNCHANGED shScreen
    BY <2>2 DEF ShInv, OneVoice
  <2> QED BY <1>1, <2>1, <2>2
<1>8. shCwd' # shBridge'.cwd => shDrift'
  BY <1>1 DEF ShInv
<1> QED BY <1>4, <1>5, <1>6, <1>7, <1>8 DEF ShInv

LEMMA FinishStep == ASSUME ShInv, FinishCommand PROVE ShInv'
<1>1. /\ shPc = "served" /\ Remember("bridge") /\ Log(<<"bridge">>) /\ NextLine
      /\ shCwd' = shBridge.cwd
      /\ shScreen' = (IF shUp /\ ~shStream /\ Speaks THEN <<"ai">> ELSE shScreen)
      /\ UNCHANGED <<shMode, shStream, shUp, shTyped, shBridge, shOverlay, shTold, shCut, shPartial>>
  BY DEF FinishCommand, Apply
<1>2. ShTypeOK' /\ UnderWayInv' /\ TurnPerCommand'
  <2>1. <<"bridge">> \in Events
    BY DEF Events
  <2> QED BY <1>1, <2>1, DoneStep
<1>3. ToldInv'
  <2>1. shPc' # "opening"
    BY <1>1 DEF NextLine
  <2> QED BY <1>1, <2>1, ToldStays
<1>4. OneVoice' /\ shCwd' = shBridge'.cwd
  BY <1>1 DEF ShInv, OneVoice
<1> QED BY <1>2, <1>3, <1>4 DEF ShInv

LEMMA FailStep == ASSUME ShInv, FailCommand PROVE ShInv'
<1>1. /\ shPc \in {"asked", "served"} /\ Log(<<"unavailable", "fallback">>) /\ NextLine
      /\ \/ /\ shScreen = <<>> /\ Remember("fallback")
            /\ shScreen' = (IF shUp THEN Append(shScreen, "fallback") ELSE shScreen)
            /\ UNCHANGED shPartial
         \/ /\ shPartial' = shPartial \union {shTyped}
            /\ UNCHANGED <<shHist, shScreen>>
      /\ UNCHANGED <<shMode, shStream, shUp, shTyped, shCwd, shBridge, shOverlay, shTold, shCut, shDrift>>
  BY DEF FailCommand, MayFail, MayFallBack
<1>2. ShTypeOK' /\ UnderWayInv' /\ TurnPerCommand'
  <2>1. <<"unavailable", "fallback">> \in Events
    BY DEF Events
  <2> QED BY <1>1, <2>1, DoneStep
<1>3. ToldInv'
  <2>1. shPc' # "opening"
    BY <1>1 DEF NextLine
  <2> QED BY <1>1, <2>1, ToldStays
<1>4. OneVoice'
  <2>1. CASE shScreen = <<>> /\ shScreen' = (IF shUp THEN Append(shScreen, "fallback") ELSE shScreen)
    <3>1. CASE shScreen' = <<>>
      BY <3>1 DEF OneVoice
    <3>2. CASE shScreen' = Append(<<>>, "fallback")
      <4>1. Len(shScreen') = 1
        BY <3>2
      <4> QED BY <4>1 DEF OneVoice
    <3> QED BY <2>1, <3>1, <3>2
  <2>2. CASE UNCHANGED shScreen
    BY <2>2 DEF ShInv, OneVoice
  <2> QED BY <1>1, <2>1, <2>2
<1>5. shCwd' # shBridge'.cwd => shDrift'
  BY <1>1 DEF ShInv
<1> QED BY <1>2, <1>3, <1>4, <1>5 DEF ShInv

LEMMA LoseStep == ASSUME ShInv, LoseChannel PROVE ShInv'
<1>1. /\ shUp' = FALSE
      /\ shPc' = (IF shPc = "prompt" THEN "done" ELSE shPc)
      /\ UNCHANGED <<shMode, shStream, shTyped, shCwd, shBridge, shOverlay, shHist, shLines, shScreen, shTold, shCut, shPartial, shDrift>>
  BY DEF LoseChannel
<1>2. Answered' = Answered
  BY <1>1 DEF Answered
<1>3. ShTypeOK' /\ UnderWayInv' /\ OneVoice'
  BY <1>1, <1>2 DEF ShInv, ShTypeOK, UnderWayInv, OneVoice
<1>4. TurnPerCommand'
  BY <1>1, <1>2, TurnsStay
<1>5. ToldInv'
  <2>1. CASE shPc = "opening"
    BY <1>1, <2>1 DEF ShInv, ToldInv
  <2>2. CASE shPc # "opening"
    BY <1>1, <2>2, ToldStays
  <2> QED BY <2>1, <2>2
<1> QED BY <1>1, <1>3, <1>4, <1>5 DEF ShInv

LEMMA ForgetStep == ASSUME ShInv, ForgetSession PROVE ShInv'
<1>1. /\ shPc \in {"prompt", "sleeping"} /\ shBridge' = [shBridge EXCEPT !.held = FALSE]
      /\ UNCHANGED <<shMode, shStream, shPc, shUp, shTyped, shCwd, shOverlay, shHist, shLines, shScreen, shTold, shCut, shPartial, shDrift>>
  BY DEF ForgetSession
<1>2. shBridge'.cwd = shBridge.cwd
  BY <1>1
<1>3. Answered' = Answered
  BY <1>1 DEF Answered
<1>4. ShTypeOK' /\ UnderWayInv' /\ OneVoice'
  BY <1>1, <1>3 DEF ShInv, ShTypeOK, UnderWayInv, OneVoice
<1>5. TurnPerCommand' /\ ToldInv'
  BY <1>1, <1>3, TurnsStay, ToldStays
<1> QED BY <1>1, <1>2, <1>4, <1>5 DEF ShInv

LEMMA ShStepInv == ShInv /\ [ShellNext]_shVars => ShInv'
<1> SUFFICES ASSUME ShInv, [ShellNext]_shVars PROVE ShInv'
  OBVIOUS
<1>1. ASSUME NEW c \in Typable, TypeLine(c) PROVE ShInv'
  BY <1>1, TypeLineStep
<1>2. CASE OpenShell \/ LoseChannel \/ ForgetSession
  BY <1>2, OpenShellStep, LoseStep, ForgetStep
<1>3. CASE AnswerNative \/ ServeCommand \/ TakeDelta
  BY <1>3, NativeStep, ServeStep, DeltaStep
<1>4. CASE FinishCommand \/ FailCommand
  BY <1>4, FinishStep, FailStep
<1>5. CASE UNCHANGED shVars
  <2>1. UNCHANGED <<shMode, shStream, shPc, shUp, shTyped, shCwd, shBridge, shOverlay, shHist, shLines, shScreen, shTold>>
        /\ UNCHANGED <<shCut, shPartial, shDrift>>
    BY <1>5 DEF shVars
  <2>2. Answered' = Answered
    BY <2>1 DEF Answered
  <2>3. ShTypeOK' /\ UnderWayInv' /\ OneVoice'
    BY <2>1, <2>2 DEF ShInv, ShTypeOK, UnderWayInv, OneVoice
  <2>4. TurnPerCommand'
    BY <2>1, <2>2, TurnsStay
  <2>5. ToldInv'
    <3>1. CASE shPc = "opening"
      BY <2>1, <3>1 DEF ShInv, ToldInv
    <3>2. CASE shPc # "opening"
      BY <2>1, <3>2, ToldStays
    <3> QED BY <3>1, <3>2
  <2> QED BY <2>1, <2>3, <2>4, <2>5 DEF ShInv
<1> QED BY <1>1, <1>2, <1>3, <1>4, <1>5 DEF ShellNext

LEMMA ShInvSound == ShInv => ShellSound
<1> SUFFICES ASSUME ShInv PROVE SameBody
  BY DEF ShInv, ShellSound, ShellCoherent, DirectoriesAgree
<1> SUFFICES ASSUME NEW f \in File
             PROVE  /\ \A b, c \in shTold[f] \ {"static", "denied"} : b = c
                    /\ f \in shOverlay => shTold[f] \subseteq {"overlay"}
  BY DEF SameBody
<1>1. shTold[f] \subseteq {Body(f), SizeShown(f)}
  BY DEF ShInv, ToldInv
<1>2. SizeShown(f) \in {"static", Body(f)}
  BY DEF SizeShown
<1>3. f \in shOverlay => Body(f) = "overlay" /\ SizeShown(f) = "overlay"
  BY DEF Body, SizeShown
<1> QED BY <1>1, <1>2, <1>3

\* A channel from the inside (lure/server.py _process_handler, lure/commands.py dispatch, lure/fakefs.py read,
\* lure/session.py record): every command typed becomes one turn, in order, and the history tells the latest; an answer
\* has one voice; the two working directories differ only by what one side was not told; a file has one body.
THEOREM ShellKept == ShellSpec => []ShellSound
<1>1. ShellInit => ShInv
  BY ShInitInv
<1>2. ShInv /\ [ShellNext]_shVars => ShInv'
  BY ShStepInv
<1>3. ShInv => ShellSound
  BY ShInvSound
<1> QED BY <1>1, <1>2, <1>3, PTL DEF ShellSpec

=============================================================================
