------------------------ MODULE AttackerMemoryProofs ------------------------
(***************************************************************************)
(* What Anglerfish remembers of an address, proved for any finite number   *)
(* of commands, pins and restarts and any sets of addresses, sessions and  *)
(* personas; the baits it keeps for one, for any number of sessions,       *)
(* assessments and restarts of the tailer; and what the defenses let       *)
(* through and leave in a session's history, for every length of commands  *)
(* and answers and every cap.                                              *)
(***************************************************************************)
EXTENDS AttackerMemory, DecoyTokens, CommandDefense, FiniteSetTheorems, SequenceTheorems, WellFoundedInduction, TLAPS

-----------------------------------------------------------------------------
(* Sorting. *)

\* The least-number principle, from the well-foundedness of finite sets.
LEMMA LeastNatural ==
    ASSUME NEW T \in SUBSET Nat, T # {}
    PROVE  \E m \in T : \A n \in T : m <= n
<1> DEFINE U == {0..n : n \in T}
<1>1. IsWellFoundedOn(StrictSubsetOrdering(Nat), FiniteSubsetsOf(Nat))
  BY FS_StrictSubsetOrderingWellFounded
<1>2. U \subseteq FiniteSubsetsOf(Nat) /\ U # {}
  <2>1. ASSUME NEW n \in T PROVE 0..n \in FiniteSubsetsOf(Nat)
    <3>1. IsFiniteSet(0..n)
      BY FS_Interval
    <3> QED BY <3>1 DEF FiniteSubsetsOf
  <2> QED BY <2>1
<1>3. \E x \in U : \A y \in U : <<y, x>> \notin StrictSubsetOrdering(Nat)
  <2> HIDE DEF U
  <2> QED BY <1>1, <1>2, WFMin
<1>4. PICK m \in T : \A n \in T : <<0..n, 0..m>> \notin StrictSubsetOrdering(Nat)
  BY <1>3
<1>5. ASSUME NEW n \in T, n < m PROVE FALSE
  <2>1. 0..n \subseteq 0..m /\ m \in 0..m /\ m \notin 0..n
    BY <1>5
  <2>2. 0..n \in SUBSET Nat /\ 0..m \in SUBSET Nat
    OBVIOUS
  <2> QED BY <1>4, <2>1, <2>2 DEF StrictSubsetOrdering
<1> QED BY <1>5

Sorted(S, q) == q \in [1..Cardinality(S) -> S] /\ Increasing(q)

\* A finite set of line numbers has an order: by induction over its size, putting
\* the least element in front.
LEMMA HasOrder ==
    ASSUME NEW S \in SUBSET Nat, IsFiniteSet(S)
    PROVE  \E q : Sorted(S, q)
<1> DEFINE Bad(n) == \E R \in SUBSET Nat :
                         IsFiniteSet(R) /\ Cardinality(R) = n /\ ~\E q : Sorted(R, q)
           T == {n \in Nat : Bad(n)}
<1>1. T = {}
  <2> SUFFICES ASSUME T # {} PROVE FALSE
    OBVIOUS
  <2>1. PICK n \in T : \A m \in T : n <= m
    <3>1. T \in SUBSET Nat
      OBVIOUS
    <3> HIDE DEF T
    <3> QED BY <3>1, LeastNatural
  <2>2. PICK R \in SUBSET Nat :
          IsFiniteSet(R) /\ Cardinality(R) = n /\ ~\E q : Sorted(R, q)
    BY <2>1
  <2>3. R # {}
    <3>1. ASSUME R = {} PROVE FALSE
      <4>1. Cardinality(R) = 0
        BY <3>1, FS_EmptySet
      <4>2. Sorted(R, [i \in {} |-> 0])
        BY <3>1, <4>1 DEF Sorted, Increasing
      <4> QED BY <2>2, <4>2
    <3> QED BY <3>1
  <2>4. PICK x \in R : \A y \in R : x <= y
    BY <2>3, LeastNatural
  <2>5. IsFiniteSet(R \ {x}) /\ Cardinality(R \ {x}) = n - 1 /\ n \in Nat /\ n # 0
    <3>1. n \in Nat
      BY <2>1
    <3>2. n # 0
      BY <2>2, <2>3, FS_EmptySet
    <3> QED BY <2>2, <3>1, <3>2, FS_RemoveElement
  <2>6. n - 1 \notin T /\ n - 1 \in Nat
    <3> HIDE DEF T
    <3> QED BY <2>1, <2>5
  <2>7. PICK q : Sorted(R \ {x}, q)
    BY <2>5, <2>6
  <2> DEFINE p == [i \in 1..n |-> IF i = 1 THEN x ELSE q[i - 1]]
  <2>8. \A i \in 1..(n - 1) : q[i] \in R \ {x} /\ q[i] \in Nat /\ x < q[i]
    <3>1. \A y \in R \ {x} : y \in Nat /\ x < y
      BY <2>4
    <3>2. q \in [1..(n - 1) -> R \ {x}]
      BY <2>5, <2>7 DEF Sorted
    <3> QED BY <3>1, <3>2
  <2>9. \A i, j \in 1..(n - 1) : i < j => q[i] < q[j]
    BY <2>5, <2>7 DEF Sorted, Increasing
  <2>10. p \in [1..n -> R]
    BY <2>5, <2>8
  <2>11. ASSUME NEW i \in 1..n, NEW j \in 1..n, i < j PROVE p[i] < p[j]
    <3>1. j - 1 \in 1..(n - 1) /\ p[j] = q[j - 1]
      BY <2>5, <2>11
    <3>2. CASE i = 1
      BY <2>8, <3>1, <3>2
    <3>3. CASE i # 1
      <4>1. i - 1 \in 1..(n - 1) /\ p[i] = q[i - 1] /\ i - 1 < j - 1
        BY <2>5, <2>11, <3>3
      <4> QED BY <2>9, <3>1, <4>1
    <3> QED BY <3>2, <3>3
  <2> HIDE DEF p
  <2>12. Sorted(R, p)
    BY <2>2, <2>10, <2>11 DEF Sorted, Increasing
  <2> QED BY <2>2, <2>12
<1>2. Cardinality(S) \in Nat
  BY FS_CardinalityType
<1> QED BY <1>1, <1>2

-----------------------------------------------------------------------------
(* The invariant. *)

Install(n) == n \in DOMAIN log /\ log[n].kind = "install"

\* The table has install lines only, in order, and with any line all that come
\* before it; it has those the tailer is past and those its cache is past.  The
\* line whose neighbours are looked for is no install.
TableInv ==
    /\ Increasing(installs)
    /\ \A i \in DOMAIN installs : Install(installs[i])
    /\ \A i \in DOMAIN installs : \A n \in 1..installs[i] : Install(n) => Occurs(n, installs)
    /\ \A n \in 1..taken : Install(n) => Occurs(n, installs)
    /\ \A n \in 1..saved : Install(n) => Occurs(n, installs)
    /\ matching => taken < Len(log) /\ ~Install(taken + 1)

\* A session that is still being started made no install.
Starting == {"new", "pin", "recurrence", "events", "mode", "ready"}

SessionInv(s) ==
    /\ pc[s] \in Starting => busy[s] = 0 /\ \A n \in DOMAIN log : log[n].sid = s => ~Install(n)
    /\ Increasing(known[s])
    /\ \A i \in DOMAIN known[s] : known[s][i] \in InstallLines(ip[s])
    /\ \A n \in InstallLines(ip[s]) : log[n].sid = s => Occurs(n, known[s])

\* No row ever has a persona, so that the fallback decides without a pin.
PersonaInv == \A s \in Session : rows[s] \in {None, NoRow}

\* The calls under way are some of those ever made.
CallsInv == \A s \in Session : busy[s] <= looked

Inv == TypeOK /\ TableInv /\ PersonaInv /\ CallsInv /\ \A s \in Session : SessionInv(s)

LEMMA InitInv == Init => Inv
<1> SUFFICES ASSUME Init PROVE Inv
  OBVIOUS
<1> USE MemoryAssumption DEF Init
<1>1. TypeOK
  <2>1. <<>> \in Seq(Nat) /\ log \in Seq(Lines) /\ installs \in Seq(DOMAIN log) /\ Len(log) = 0
    BY EmptySeq
  <2>2. 0 \in 0..MaxCommands /\ 0 \in 0..MaxPins /\ 0 \in 0..MaxRestarts /\ 0 \in 0..0
    OBVIOUS
  <2> QED BY <2>1, <2>2 DEF TypeOK, Where
<1>2. TableInv /\ PersonaInv /\ CallsInv
  BY DEF TableInv, PersonaInv, CallsInv, Increasing
<1>3. ASSUME NEW s \in Session PROVE SessionInv(s)
  BY DEF SessionInv, Increasing, InstallLines, Install
<1> QED BY <1>1, <1>2, <1>3 DEF Inv

LEMMA InvImplies == Inv => InstallsTold
<1> SUFFICES ASSUME Inv PROVE InstallsTold
  OBVIOUS
<1>1. \A n \in 1..saved : n \in DOMAIN log
  BY DEF Inv, TypeOK
<1>2. InstallsOnceInOrder
  BY <1>1 DEF Inv, TableInv, InstallsOnceInOrder, Install
<1>3. KnownInOrder
  BY DEF Inv, SessionInv, KnownInOrder
<1> QED BY <1>2, <1>3 DEF Inv, InstallsTold

-----------------------------------------------------------------------------
(* Steps of the bridge. *)

\* A step that writes nothing, and tells no session of an install.
LEMMA Quiet ==
    ASSUME Inv, TypeOK', PersonaInv', CallsInv', UNCHANGED <<log, installs, ip, known>>,
           \A s \in Session : pc'[s] \in Starting => pc[s] \in Starting /\ busy'[s] = busy[s],
           \A n \in 1..taken' : Install(n) => Occurs(n, installs),
           \A n \in 1..saved' : Install(n) => Occurs(n, installs),
           matching' => taken' < Len(log) /\ ~Install(taken' + 1)
    PROVE  Inv'
<1>1. TableInv'
  BY DEF Inv, TableInv, Install, Occurs
<1>2. ASSUME NEW s \in Session PROVE SessionInv(s)'
  BY DEF Inv, SessionInv, InstallLines, Install, Occurs
<1> QED BY <1>1, <1>2 DEF Inv

\* The same when the tailer and its tables do not move.
LEMMA QuietBridge ==
    ASSUME Inv, NEW s \in Session, NEW w \in Where, pc' = [pc EXCEPT ![s] = w],
           w \in Starting => pc[s] \in Starting,
           UNCHANGED <<ip, known, busy, looked, log, tailerVars, pinVars, restarts>>,
           persona' \in [Session -> Persona \union {None}],
           mode' \in [Session -> Mode \union {None}],
           garbled' \subseteq Session, paths' \subseteq Ip
    PROVE  Inv'
<1> USE DEF Inv, tailerVars, storeVars, pinVars
<1>1. TypeOK'
  BY DEF TypeOK
<1>2. PersonaInv' /\ CallsInv'
  BY DEF PersonaInv, CallsInv
<1>3. \A r \in Session : pc'[r] \in Starting => pc[r] \in Starting /\ busy'[r] = busy[r]
  BY DEF TypeOK
<1> QED BY <1>1, <1>2, <1>3, Quiet DEF TableInv

LEMMA StartStep ==
    ASSUME Inv, NEW s \in Session, StartSession(s) \/ EndSession(s)
    PROVE  Inv'
<1>1. /\ UNCHANGED <<ip, persona, known, mode, garbled, paths>>
      /\ UNCHANGED <<busy, looked, log, tailerVars, pinVars, restarts>>
      /\ \E w \in Where : pc' = [pc EXCEPT ![s] = w] /\ (w \in Starting => pc[s] \in Starting)
  BY DEF StartSession, EndSession, Goto, Where, Starting
<1> QED BY <1>1, QuietBridge DEF Inv, TypeOK, PersonaInv

LEMMA ReadPinStep ==
    ASSUME Inv, NEW s \in Session, ReadPin(s)
    PROVE  Inv'
<1> USE DEF Inv
<1>1. PICK w \in Where : pc' = [pc EXCEPT ![s] = w] /\ pc[s] \in Starting
  BY DEF ReadPin, Goto, Where, Starting
<1>2. persona' \in [Session -> Persona \union {None}]
  BY DEF ReadPin, TypeOK
<1> QED BY <1>1, <1>2, QuietBridge DEF ReadPin, TypeOK

LEMMA RecurrenceStep ==
    ASSUME Inv, NEW s \in Session, ReadRecurrence(s)
    PROVE  Inv'
<1> USE DEF Inv
<1>1. PICK w \in Where : pc' = [pc EXCEPT ![s] = w] /\ pc[s] \in Starting
  BY DEF ReadRecurrence, Goto, Where, Starting
<1>2. Remembered(ip[s]) = {}
  BY MemoryAssumption DEF Remembered, PersonaInv
<1>3. ip[s] \in Ip /\ Fallback[ip[s]] \in Persona
  BY MemoryAssumption DEF TypeOK
<1>4. persona' = [persona EXCEPT ![s] = Fallback[ip[s]]]
  BY <1>2 DEF ReadRecurrence, Choice
<1>5. persona' \in [Session -> Persona \union {None}]
  BY <1>3, <1>4 DEF TypeOK
<1> QED BY <1>1, <1>5, QuietBridge DEF ReadRecurrence, TypeOK

LEMMA ReadModeStep ==
    ASSUME Inv, NEW s \in Session, ReadMode(s)
    PROVE  Inv'
<1> USE DEF Inv
<1>1. PICK w \in Where : pc' = [pc EXCEPT ![s] = w] /\ pc[s] \in Starting
  BY DEF ReadMode, Goto, Where, Starting
<1>2. /\ mode' \in [Session -> Mode \union {None}]
      /\ garbled' \subseteq Session /\ paths' \subseteq Ip
  BY DEF ReadMode, TypeOK
<1> QED BY <1>1, <1>2, QuietBridge DEF ReadMode, TypeOK, PersonaInv

\* The order by created_at is the one there is, and it has the rows of i only.
LEMMA InstallsOfIs ==
    ASSUME Inv, NEW i \in Ip
    PROVE  LET q == InstallsOf(i) IN
           /\ q \in Seq(Nat) /\ Increasing(q)
           /\ \A m \in DOMAIN q : q[m] \in InstallLines(i)
<1> DEFINE own == {n \in {installs[m] : m \in DOMAIN installs} : ip[log[n].sid] = i}
           q == InstallsOf(i)
<1>1. /\ log \in Seq(Lines) /\ installs \in Seq(DOMAIN log)
      /\ \A m \in DOMAIN installs : Install(installs[m])
  BY DEF Inv, TypeOK, TableInv
<1>2. own \subseteq InstallLines(i) /\ own \subseteq 1..Len(log) /\ Len(log) \in Nat
  BY <1>1 DEF Install, InstallLines
<1>3. IsFiniteSet(own) /\ own \in SUBSET Nat
  <2>1. IsFiniteSet(1..Len(log))
    <3>1. Len(log) \in Int
      BY <1>2
    <3> QED BY <3>1, FS_Interval
  <2>2. own \in SUBSET (1..Len(log)) /\ 1..Len(log) \subseteq Nat
    BY <1>2
  <2> HIDE DEF own
  <2>3. IsFiniteSet(own)
    BY <2>1, <2>2, FS_Subset
  <2> QED BY <2>2, <2>3
<1>4. \E p : p \in [1..Cardinality(own) -> own] /\ Increasing(p)
  <2> HIDE DEF own
  <2> QED BY <1>3, HasOrder DEF Sorted
<1>5. q = CHOOSE p \in [1..Cardinality(own) -> own] : Increasing(p)
  BY DEF InstallsOf
<1>6. q \in [1..Cardinality(own) -> own] /\ Increasing(q)
  <2> HIDE DEF own, q
  <2> QED BY <1>4, <1>5
<1>7. Cardinality(own) \in Nat
  <2> HIDE DEF own
  <2> QED BY <1>3, FS_CardinalityType
<1>8. /\ q \in Seq(Nat) /\ Increasing(q)
      /\ \A m \in DOMAIN q : q[m] \in InstallLines(i)
  <2> HIDE DEF own, q
  <2>1. q \in [1..Cardinality(own) -> Nat]
    BY <1>3, <1>6
  <2> QED BY <1>2, <1>6, <1>7, <2>1
<1> QED BY <1>8

LEMMA ReadEventsStep ==
    ASSUME Inv, NEW s \in Session, ReadEvents(s)
    PROVE  Inv'
<1> USE DEF Inv
<1> DEFINE q == InstallsOf(ip[s])
<1>1. /\ pc[s] = "events" /\ pc' = [pc EXCEPT ![s] = "mode"] /\ known' = [known EXCEPT ![s] = q]
      /\ UNCHANGED <<ip, persona, mode, garbled, busy, looked, paths, log, tailerVars,
                     pinVars, restarts>>
  BY DEF ReadEvents, Goto
<1>2. /\ q \in Seq(Nat) /\ Increasing(q)
      /\ \A m \in DOMAIN q : q[m] \in InstallLines(ip[s])
  BY InstallsOfIs DEF TypeOK
<1> HIDE DEF q
<1> USE DEF tailerVars, storeVars, pinVars
<1>3. known' \in [Session -> Seq(Nat)] /\ pc' \in [Session -> Where] /\ known'[s] = q
  BY <1>1, <1>2 DEF TypeOK, Where
<1>4. TypeOK'
  BY <1>1, <1>3 DEF TypeOK
<1>5. TableInv' /\ PersonaInv' /\ CallsInv'
  BY <1>1 DEF TableInv, PersonaInv, CallsInv, Install, Occurs
<1>6. SessionInv(s)'
  BY <1>1, <1>2, <1>3 DEF SessionInv, Starting, InstallLines, Install, TypeOK
<1>7. ASSUME NEW r \in Session \ {s} PROVE SessionInv(r)'
  BY <1>1 DEF SessionInv, InstallLines, Install, Occurs, TypeOK
<1> QED BY <1>4, <1>5, <1>6, <1>7

\* A line is written.
LEMMA Grown ==
    ASSUME Inv, NEW s \in Session, NEW k \in {"opened", "install", "embedding"}, Write(k, s),
           UNCHANGED <<installs, taken, saved, matching>>
    PROVE  /\ log' \in Seq(Lines) /\ installs' \in Seq(DOMAIN log')
           /\ taken' \in 0..Len(log') /\ saved' \in 0..Len(log')
           /\ Len(log) \in Nat /\ Len(log') = Len(log) + 1 /\ DOMAIN log = 1..Len(log)
           /\ DOMAIN log' = 1..(Len(log) + 1)
           /\ \A n \in DOMAIN log : log'[n] = log[n]
           /\ log'[Len(log) + 1] = [kind |-> k, sid |-> s]
           /\ \A n \in DOMAIN log : Install(n)' <=> Install(n)
           /\ TableInv'
<1> USE DEF Inv
<1> DEFINE e == [kind |-> k, sid |-> s]
<1>1. e \in Lines /\ log \in Seq(Lines) /\ log' = Append(log, e)
  BY DEF Write, Lines, TypeOK
<1> HIDE DEF e
<1>2. /\ log' \in Seq(Lines) /\ Len(log) \in Nat /\ Len(log') = Len(log) + 1
      /\ DOMAIN log = 1..Len(log) /\ DOMAIN log' = 1..(Len(log) + 1)
      /\ \A n \in DOMAIN log : log'[n] = log[n]
      /\ log'[Len(log) + 1] = e
  BY <1>1, AppendProperties
<1>3. /\ taken' \in 0..Len(log') /\ saved' \in 0..Len(log')
      /\ \A n \in 1..taken : n \in DOMAIN log /\ \A m \in 1..saved : m \in DOMAIN log
  BY <1>2 DEF TypeOK
<1>4. installs \in Seq(DOMAIN log) /\ DOMAIN log \subseteq DOMAIN log'
  BY <1>2 DEF TypeOK
<1>5. installs' \in Seq(DOMAIN log')
  BY <1>4, SeqMonotonic
<1>6. \A n \in DOMAIN log : Install(n)' <=> Install(n)
  BY <1>2 DEF Install
<1>7. \A i \in DOMAIN installs : installs[i] \in DOMAIN log /\ 1..installs[i] \subseteq DOMAIN log
  BY <1>2, <1>4
<1>8. 1..taken \subseteq DOMAIN log /\ 1..saved \subseteq DOMAIN log
  BY <1>2 DEF TypeOK
<1>9. (matching => taken < Len(log) /\ ~Install(taken + 1))'
  <2> SUFFICES ASSUME matching' PROVE (taken < Len(log) /\ ~Install(taken + 1))'
    OBVIOUS
  <2>1. taken \in 0..Len(log) /\ taken < Len(log) /\ ~Install(taken + 1)
    BY DEF TypeOK, TableInv
  <2>2. taken + 1 \in DOMAIN log
    BY <1>2, <2>1
  <2>3. Install(taken + 1)' <=> Install(taken + 1)
    BY <1>2, <2>2 DEF Install
  <2> QED BY <1>2, <2>1, <2>3
<1>10. TableInv'
  BY <1>6, <1>7, <1>8, <1>9 DEF TableInv, Occurs
<1> QED BY <1>2, <1>3, <1>5, <1>6, <1>10 DEF e

\* A line that is no install adds to nobody's installs.
LEMMA OtherLineStep ==
    ASSUME Inv, NEW s \in Session, Opened(s) \/ Embeds(s)
    PROVE  Inv'
<1> USE DEF Inv
<1>1. PICK k \in {"opened", "embedding"}, w \in Where \ Starting :
        Write(k, s) /\ pc' = [pc EXCEPT ![s] = w]
  BY DEF Opened, Embeds, Goto, Where, Starting
<1>2. UNCHANGED <<ip, persona, known, mode, garbled, busy, looked, paths, tailerVars,
                  pinVars, restarts>>
  BY DEF Opened, Embeds
<1> USE DEF tailerVars, storeVars, pinVars
<1>3. /\ log' \in Seq(Lines) /\ installs' \in Seq(DOMAIN log')
      /\ taken' \in 0..Len(log') /\ saved' \in 0..Len(log')
      /\ DOMAIN log = 1..Len(log) /\ Len(log) \in Nat /\ DOMAIN log' = 1..(Len(log) + 1)
      /\ \A n \in DOMAIN log : log'[n] = log[n]
      /\ log'[Len(log) + 1] = [kind |-> k, sid |-> s]
      /\ TableInv'
  BY <1>1, <1>2, Grown
<1>4. TypeOK'
  BY <1>1, <1>2, <1>3 DEF TypeOK
<1>5. PersonaInv' /\ CallsInv'
  BY <1>2 DEF PersonaInv, CallsInv
<1>6. \A i : InstallLines(i)' = InstallLines(i)
  BY <1>1, <1>2, <1>3 DEF InstallLines
<1>7. \A n \in DOMAIN log' : Install(n)' => n \in DOMAIN log /\ Install(n) /\ log'[n] = log[n]
  BY <1>1, <1>3 DEF Install
<1>8. \A i : \A n \in InstallLines(i) : log'[n] = log[n]
  BY <1>3 DEF InstallLines
<1>9. ASSUME NEW r \in Session PROVE SessionInv(r)'
  <2>1. pc'[r] \in Starting => pc[r] \in Starting
    BY <1>1 DEF TypeOK
  <2> QED BY <1>2, <1>6, <1>7, <1>8, <2>1 DEF SessionInv, Occurs
<1> QED BY <1>3, <1>4, <1>5, <1>9

LEMMA ClassifyStep ==
    ASSUME Inv, NEW s \in Session, Classify(s)
    PROVE  Inv'
<1> USE DEF Inv, Classify, tailerVars, storeVars, pinVars
<1>1. /\ busy \in [Session -> 0..MaxCommands] /\ looked \in 0..MaxCommands
      /\ busy[s] <= looked /\ looked + 1 \in 0..MaxCommands /\ MaxCommands \in Nat
  BY MemoryAssumption DEF TypeOK, CallsInv
<1>2. busy' \in [Session -> 0..MaxCommands] /\ looked' \in 0..MaxCommands
  BY <1>1
<1>3. TypeOK'
  BY <1>2 DEF TypeOK
<1>4. CallsInv'
  BY <1>1 DEF CallsInv
<1>5. PersonaInv'
  BY DEF PersonaInv
<1>6. \A r \in Session : pc'[r] \in Starting => pc[r] \in Starting /\ busy'[r] = busy[r]
  BY DEF TypeOK, Starting
<1> QED BY <1>3, <1>4, <1>5, <1>6, Quiet DEF TableInv

\* An install is told to its session, whose newest it is.
LEMMA InstallsStep ==
    ASSUME Inv, NEW s \in Session, Installs(s)
    PROVE  Inv'
<1> USE DEF Inv
<1>1. /\ busy[s] > 0 /\ busy' = [busy EXCEPT ![s] = @ - 1] /\ Write("install", s)
      /\ known' = [known EXCEPT ![s] = Append(@, Len(log'))]
      /\ UNCHANGED <<pc, ip, persona, mode, garbled, looked, paths, tailerVars, pinVars, restarts>>
  BY DEF Installs, Answered
<1> USE DEF tailerVars, storeVars, pinVars
<1> DEFINE e == Len(log) + 1
           q == Append(known[s], e)
<1>2. /\ log' \in Seq(Lines) /\ installs' \in Seq(DOMAIN log')
      /\ taken' \in 0..Len(log') /\ saved' \in 0..Len(log')
      /\ Len(log) \in Nat /\ Len(log') = e /\ DOMAIN log = 1..Len(log) /\ DOMAIN log' = 1..e
      /\ \A n \in DOMAIN log : log'[n] = log[n]
      /\ log'[e] = [kind |-> "install", sid |-> s]
      /\ TableInv'
  BY <1>1, Grown
<1>3. /\ known[s] \in Seq(Nat) /\ e \in Nat /\ known' = [known EXCEPT ![s] = q]
      /\ q \in Seq(Nat) /\ DOMAIN q = 1..(Len(known[s]) + 1) /\ Len(known[s]) \in Nat
      /\ DOMAIN known[s] = 1..Len(known[s])
      /\ \A m \in 1..Len(known[s]) : q[m] = known[s][m]
      /\ q[Len(known[s]) + 1] = e
  <2>1. known[s] \in Seq(Nat) /\ e \in Nat
    BY <1>2 DEF TypeOK
  <2> HIDE DEF e
  <2>2. /\ q \in Seq(Nat) /\ Len(q) = Len(known[s]) + 1
        /\ \A m \in 1..Len(known[s]) : q[m] = known[s][m]
        /\ q[Len(known[s]) + 1] = e
    BY <2>1, AppendProperties
  <2>3. known' = [known EXCEPT ![s] = q]
    BY <1>1, <1>2
  <2> HIDE DEF q
  <2> QED BY <2>1, <2>2, <2>3
<1> HIDE DEF q
<1>4. /\ known' \in [Session -> Seq(Nat)] /\ known'[s] = q
      /\ \A r \in Session \ {s} : known'[r] = known[r]
  BY <1>3 DEF TypeOK
<1>5. /\ busy' \in [Session -> 0..MaxCommands]
      /\ \A r \in Session : busy[r] = 0 => busy'[r] = 0
      /\ \A r \in Session : busy'[r] <= busy[r]
  BY <1>1, MemoryAssumption DEF TypeOK
<1>6. TypeOK'
  BY <1>1, <1>2, <1>4, <1>5 DEF TypeOK
<1>7. PersonaInv' /\ CallsInv'
  <2>1. CallsInv'
    BY <1>1, <1>5, MemoryAssumption DEF CallsInv, TypeOK
  <2> QED BY <1>1, <2>1 DEF PersonaInv
<1>8. /\ pc[s] \notin Starting
      /\ ip[s] \in Ip
  <2>1. busy[s] # 0
    BY <1>1, MemoryAssumption DEF TypeOK
  <2> QED BY <2>1 DEF SessionInv, TypeOK
<1>9. ASSUME NEW r \in Session
      PROVE  /\ \A n \in InstallLines(ip[r])' : n \in InstallLines(ip[r]) \/ (n = e /\ ip[s] = ip[r])
             /\ \A n \in InstallLines(ip[r]) : n \in InstallLines(ip[r])' /\ n \in Nat /\ n < e
             /\ \A n \in InstallLines(ip[r]) : log'[n] = log[n]
             /\ r = s => e \in InstallLines(ip[r])'
  <2>1. \A n \in DOMAIN log' : n \in DOMAIN log \/ n = e
    BY <1>2
  <2>2. \A n \in DOMAIN log : n < e /\ n \in Nat /\ n \in DOMAIN log' /\ e \in DOMAIN log'
    BY <1>2
  <2>3. e \in DOMAIN log'
    BY <1>2
  <2> HIDE DEF e
  <2> QED BY <1>1, <1>2, <2>1, <2>2, <2>3 DEF InstallLines
<1> HIDE DEF e
<1>10. SessionInv(s)'
  <2> DEFINE k == known[s]
  <2>1. /\ k \in Seq(Nat) /\ DOMAIN k = 1..Len(k) /\ Len(k) \in Nat
        /\ \A m \in 1..Len(k) : k[m] \in InstallLines(ip[s]) /\ k[m] \in Nat /\ k[m] < e
        /\ \A m, n \in 1..Len(k) : m < n => k[m] < k[n]
    BY <1>3, <1>9 DEF SessionInv, Increasing
  <2>2. /\ DOMAIN q = 1..(Len(k) + 1) /\ \A m \in 1..Len(k) : q[m] = k[m]
        /\ q[Len(k) + 1] = e /\ e \in Nat
    BY <1>3
  <2>3. \A n \in InstallLines(ip[s]) : log[n].sid = s => Occurs(n, k)
    BY DEF SessionInv
  <2> HIDE DEF k
  <2>4. \A m \in DOMAIN q : m \in 1..Len(k) \/ m = Len(k) + 1
    BY <2>1, <2>2
  <2>5. ASSUME NEW m \in DOMAIN q, NEW n \in DOMAIN q, m < n PROVE q[m] < q[n]
    <3>1. m \in 1..Len(k)
      BY <2>1, <2>2, <2>5
    <3> QED BY <2>1, <2>2, <2>4, <3>1, <2>5
  <2>6. Increasing(q)
    BY <2>5 DEF Increasing
  <2>7. ASSUME NEW m \in DOMAIN q PROVE q[m] \in InstallLines(ip[s])'
    <3>1. CASE m \in 1..Len(k)
      BY <1>9, <2>1, <2>2, <3>1
    <3>2. CASE m = Len(k) + 1
      BY <1>9, <2>2, <3>2
    <3> QED BY <2>4, <3>1, <3>2
  <2>8. ASSUME NEW n \in InstallLines(ip[s])', log'[n].sid = s PROVE Occurs(n, q)
    <3>1. CASE n = e
      <4>1. Len(k) + 1 \in DOMAIN q
        BY <2>1, <2>2
      <4> QED BY <2>2, <3>1, <4>1 DEF Occurs
    <3>2. CASE n \in InstallLines(ip[s])
      <4>1. PICK m \in 1..Len(k) : k[m] = n
        BY <1>9, <2>1, <2>3, <2>8, <3>2 DEF Occurs
      <4>2. m \in DOMAIN q /\ q[m] = n
        BY <2>1, <2>2, <4>1
      <4> QED BY <4>2 DEF Occurs
    <3> QED BY <1>9, <2>8, <3>1, <3>2
  <2>9. known'[s] = q /\ pc'[s] \notin Starting
    BY <1>1, <1>4, <1>8
  <2> QED BY <2>6, <2>7, <2>8, <2>9 DEF SessionInv
<1>11. ASSUME NEW r \in Session \ {s} PROVE SessionInv(r)'
  <2>1. ASSUME NEW n \in DOMAIN log', log'[n].sid = r
        PROVE  n \in DOMAIN log /\ log'[n] = log[n] /\ (Install(n)' <=> Install(n))
    <3>1. n \in DOMAIN log \/ n = e
      BY <1>2 DEF e
    <3>2. n # e
      BY <1>2, <2>1
    <3> QED BY <1>2, <3>1, <3>2 DEF Install
  <2>2. \A m \in DOMAIN known[r] : known[r][m] \in InstallLines(ip[r])'
    BY <1>9 DEF SessionInv
  <2>3. ASSUME NEW n \in InstallLines(ip[r])', log'[n].sid = r PROVE Occurs(n, known[r])
    <3>1. n # e
      BY <1>2, <2>3
    <3>2. n \in InstallLines(ip[r])
      BY <1>9, <3>1, <2>3
    <3> QED BY <1>9, <2>3, <3>2 DEF SessionInv
  <2>4. known'[r] = known[r] /\ pc'[r] = pc[r] /\ (busy[r] = 0 => busy'[r] = 0)
    BY <1>1, <1>4, <1>5
  <2> QED BY <2>1, <2>2, <2>3, <2>4 DEF SessionInv
<1> QED BY <1>2, <1>6, <1>7, <1>10, <1>11

LEMMA NothingStep ==
    ASSUME Inv, NEW s \in Session, InstallsNothing(s)
    PROVE  Inv'
<1> USE DEF Inv, InstallsNothing, Answered, tailerVars, storeVars, pinVars
<1>1. /\ busy' \in [Session -> 0..MaxCommands]
      /\ \A r \in Session : busy'[r] <= busy[r] /\ (busy[r] = 0 => busy'[r] = 0)
  BY MemoryAssumption DEF TypeOK
<1>2. TypeOK' /\ PersonaInv'
  BY <1>1 DEF TypeOK, PersonaInv
<1>3. CallsInv'
  BY <1>1, MemoryAssumption DEF CallsInv, TypeOK
<1>4. \A r \in Session : pc'[r] \in Starting => pc[r] \in Starting /\ busy'[r] = busy[r]
  BY <1>1 DEF SessionInv
<1> QED BY <1>2, <1>3, <1>4, Quiet DEF TableInv

-----------------------------------------------------------------------------
(* Steps of the tailer, of operators, and restarts. *)

LEMMA LineInHand ==
    ASSUME Inv, taken < Len(log)
    PROVE  /\ taken + 1 \in DOMAIN log /\ line \in Lines /\ sid \in Session
           /\ taken + 1 \in 1..Len(log) /\ taken + 1 \in 0..Len(log) /\ taken \in Nat
           /\ Len(log) \in Nat /\ DOMAIN log = 1..Len(log)
<1>1. log \in Seq(Lines) /\ taken \in 0..Len(log) /\ Len(log) \in Nat /\ DOMAIN log = 1..Len(log)
  BY DEF Inv, TypeOK
<1>2. taken + 1 \in 1..Len(log) /\ taken + 1 \in 0..Len(log) /\ taken \in Nat
  BY <1>1
<1>3. line \in Lines
  BY <1>1, <1>2 DEF line
<1> QED BY <1>1, <1>2, <1>3 DEF sid, Lines

\* A line that is no install, or one the table has, is passed.
LEMMA PassedStep ==
    ASSUME Inv, UNCHANGED <<bridgeVars, log, installs, pinVars>>, taken < Len(log),
           taken' \in {taken, taken + 1}, saved' = saved, restarts' = restarts,
           matching' \in BOOLEAN, matching' => taken' = taken /\ ~Install(taken + 1), embedded' \subseteq Session,
           rows' \in [Session -> {None, NoRow}],
           taken' = taken + 1 /\ Install(taken + 1) => Occurs(taken + 1, installs)
    PROVE  Inv'
<1> USE DEF Inv, bridgeVars, sessionVars, pinVars
<1>1. /\ taken + 1 \in 0..Len(log) /\ taken \in Nat
      /\ \A n \in 1..(taken + 1) : n \in 1..taken \/ n = taken + 1
  BY LineInHand
<1>2. TypeOK'
  BY <1>1 DEF TypeOK
<1>3. PersonaInv' /\ CallsInv'
  BY DEF PersonaInv, CallsInv
<1>4. \A n \in 1..taken' : Install(n) => Occurs(n, installs)
  BY <1>1 DEF TableInv
<1> QED BY <1>2, <1>3, <1>4, Quiet DEF TableInv

LEMMA OpenedLineStep ==
    ASSUME Inv, HandleOpened
    PROVE  Inv'
<1>1. taken < Len(log) /\ ~Install(taken + 1) /\ ~matching
  BY DEF HandleOpened, At, Install, line
<1>2. rows' \in [Session -> {None, NoRow}]
  BY <1>1, LineInHand DEF HandleOpened, Inv, TypeOK, PersonaInv
<1> QED BY <1>1, <1>2, PassedStep DEF HandleOpened, Taken, Inv, TypeOK, pinVars, bridgeVars, sessionVars

LEMMA EmbeddingLineStep ==
    ASSUME Inv, HandleEmbedding
    PROVE  Inv'
<1>1. taken < Len(log) /\ sid \in Session /\ ~Install(taken + 1)
  BY LineInHand DEF HandleEmbedding, At, Install, line
<1> QED BY <1>1, PassedStep DEF HandleEmbedding, Inv, TypeOK, PersonaInv, pinVars, bridgeVars, sessionVars

\* The newest line joins the table, which has all that come before it: it is past
\* the tailer, or it is a replay and already there.
LEMMA InstallLineStep ==
    ASSUME Inv, HandleInstall
    PROVE  Inv'
<1> DEFINE e == taken + 1
           q == Append(installs, e)
<1>1. /\ taken < Len(log) /\ Install(e) /\ taken' = e /\ ~matching
      /\ installs' = IF Occurs(e, installs) THEN installs ELSE q
      /\ UNCHANGED <<bridgeVars, log, saved, pinVars, restarts, rows, embedded, matching>>
  BY LineInHand DEF HandleInstall, At, Install, line, Taken, Occurs
<1>2. /\ e \in 1..Len(log) /\ e \in 0..Len(log) /\ e \in DOMAIN log /\ taken \in Nat /\ Len(log) \in Nat
  BY <1>1, LineInHand
<1> HIDE DEF e
<1>3. CASE Occurs(e, installs)
  <2>1. installs' = installs
    BY <1>1, <1>3
  <2> QED BY <1>1, <1>3, <2>1, PassedStep DEF Inv, TypeOK, PersonaInv, e
<1>4. CASE ~Occurs(e, installs)
  <2>1. installs' = q /\ installs \in Seq(Nat) /\ installs \in Seq(DOMAIN log) /\ e \in Nat
    BY <1>1, <1>2, <1>4 DEF Inv, TypeOK
  <2>2. /\ installs' \in Seq(DOMAIN log) /\ Len(installs') = Len(installs) + 1 /\ Len(installs) \in Nat
        /\ DOMAIN installs = 1..Len(installs) /\ DOMAIN installs' = 1..(Len(installs) + 1)
        /\ \A m \in 1..Len(installs) : installs'[m] = installs[m]
        /\ installs'[Len(installs) + 1] = e
    BY <1>2, <2>1, AppendProperties
  <2> HIDE DEF q
  <2>3. \A m \in DOMAIN installs' : m \in DOMAIN installs \/ m = Len(installs) + 1
    BY <2>2
  <2>4. \A n \in 1..taken : Install(n) => Occurs(n, installs)
    BY DEF Inv, TableInv
  <2>5. \A n : Occurs(n, installs) => Occurs(n, installs')
    BY <2>2 DEF Occurs
  <2>6. Occurs(e, installs')
    <3>1. Len(installs) + 1 \in DOMAIN installs'
      BY <2>2
    <3> QED BY <2>2, <3>1 DEF Occurs
  <2>7. \A n \in 1..e : Install(n) => Occurs(n, installs')
    <3>1. \A n \in 1..e : n \in 1..taken \/ n = e
      BY <1>2 DEF e
    <3> QED BY <2>4, <2>5, <2>6, <3>1
  \* The table has no later install, or it would have this one.
  <2>8. ASSUME NEW m \in DOMAIN installs PROVE installs[m] \in Nat /\ installs[m] < e
    <3>1. installs[m] \in Nat
      BY <2>1
    <3>2. ASSUME e <= installs[m] PROVE FALSE
      <4>1. e \in 1..installs[m]
        BY <1>2, <3>1, <3>2
      <4> QED BY <1>1, <1>4, <4>1 DEF Inv, TableInv
    <3> QED BY <1>2, <3>1, <3>2
  <2>9. Increasing(installs')
    <3>1. \A m, n \in DOMAIN installs : m < n => installs[m] < installs[n]
      BY DEF Inv, TableInv, Increasing
    <3>2. ASSUME NEW m \in DOMAIN installs', NEW n \in DOMAIN installs', m < n
          PROVE  installs'[m] < installs'[n]
      <4>1. m \in 1..Len(installs)
        BY <2>2, <3>2
      <4> QED BY <2>2, <2>3, <2>8, <3>1, <3>2, <4>1
    <3> QED BY <3>2 DEF Increasing
  <2>10. Install(e) /\ \A n : Install(n)' <=> Install(n)
    BY <1>1 DEF Install
  <2>11. TableInv'
    <3>1. \A m \in DOMAIN installs' : Install(installs'[m])
      BY <2>2, <2>3, <2>10 DEF Inv, TableInv
    <3>2. ASSUME NEW m \in DOMAIN installs', NEW n \in 1..installs'[m], Install(n)
          PROVE  Occurs(n, installs')
      <4>1. CASE m = Len(installs) + 1
        BY <2>2, <2>7, <3>2, <4>1
      <4>2. CASE m \in DOMAIN installs
        <5>1. Occurs(n, installs)
          BY <2>2, <3>2, <4>2 DEF Inv, TableInv
        <5> QED BY <2>5, <5>1
      <4> QED BY <2>3, <4>1, <4>2
    <3>3. saved' = saved /\ \A n \in 1..saved : Install(n) => Occurs(n, installs')
      BY <1>1, <2>5 DEF Inv, TableInv
    <3> QED BY <1>1, <2>7, <2>9, <2>10, <3>1, <3>2, <3>3 DEF TableInv
  <2>12. TypeOK'
    BY <1>1, <1>2, <2>2 DEF Inv, TypeOK, bridgeVars, sessionVars, pinVars
  <2>13. PersonaInv' /\ CallsInv'
    BY <1>1 DEF Inv, PersonaInv, CallsInv, bridgeVars, sessionVars, pinVars
  <2>14. ASSUME NEW s \in Session PROVE SessionInv(s)'
    BY <1>1 DEF Inv, SessionInv, InstallLines, Install, Occurs, bridgeVars, sessionVars
  <2> QED BY <2>11, <2>12, <2>13, <2>14 DEF Inv
<1> QED BY <1>3, <1>4

\* No row has a persona to pass on.
LEMMA RebindStep ==
    ASSUME Inv, RebindPersona
    PROVE  Inv'
<1>0. taken < Len(log) /\ ~Install(taken + 1)
  BY DEF RebindPersona, Inv, TableInv
<1>1. rows' \in [Session -> {None, NoRow}]
  BY <1>0, LineInHand DEF RebindPersona, Inv, TypeOK, PersonaInv
<1> QED BY <1>0, <1>1, PassedStep DEF RebindPersona, Taken, Inv, TypeOK, pinVars, bridgeVars, sessionVars

LEMMA SaveStep ==
    ASSUME Inv, SaveOffset
    PROVE  Inv'
<1> USE DEF Inv, SaveOffset, bridgeVars, sessionVars, storeVars, pinVars
<1>1. TypeOK' /\ PersonaInv' /\ CallsInv'
  BY DEF TypeOK, PersonaInv, CallsInv
<1> QED BY <1>1, Quiet DEF TableInv

\* An address that gets a pin is one of those the fallback no longer decides for.
LEMMA PinStep ==
    ASSUME Inv, NEW i \in Ip,
           \/ \E p \in Persona \union {None} : PinPersona(i, p)
           \/ \E m \in Mode \union {None} : PinMode(i, m)
    PROVE  Inv'
<1> USE DEF Inv, bridgeVars, sessionVars, tailerVars, storeVars
<1>1. /\ UNCHANGED <<bridgeVars, log, tailerVars, restarts>> /\ changes < MaxPins /\ changes' = changes + 1
      /\ personaPin' \in [Ip -> Persona \union {None}] /\ modePin' \in [Ip -> Mode \union {None}]
  <2>1. CASE \E p \in Persona \union {None} : PinPersona(i, p)
    BY <2>1 DEF PinPersona, TypeOK, PersonaInv
  <2>2. CASE \E m \in Mode \union {None} : PinMode(i, m)
    BY <2>2 DEF PinMode, TypeOK, PersonaInv
  <2> QED BY <2>1, <2>2
<1>2. changes' \in 0..MaxPins
  BY <1>1, MemoryAssumption DEF TypeOK
<1>3. TypeOK' /\ PersonaInv' /\ CallsInv'
  BY <1>1, <1>2 DEF TypeOK, PersonaInv, CallsInv
<1> QED BY <1>1, <1>3, Quiet DEF TableInv

LEMMA RestartStep ==
    ASSUME Inv, RestartBridge \/ RestartDashboard
    PROVE  Inv'
<1> USE DEF Inv, bridgeVars, sessionVars, tailerVars, storeVars, pinVars
<1>1. restarts' \in 0..MaxRestarts
  BY MemoryAssumption DEF RestartBridge, RestartDashboard, TypeOK
<1>2. CASE RestartBridge
  <2> USE <1>2 DEF RestartBridge
  <2>1. /\ pc' \in [Session -> Where] /\ busy' \in [Session -> 0..MaxCommands]
        /\ \A s \in Session : busy'[s] <= looked
        /\ \A s \in Session : pc'[s] \in Starting => pc[s] \in Starting /\ busy'[s] = busy[s]
    BY MemoryAssumption DEF TypeOK, Where, Starting, SessionInv
  <2>2. TypeOK' /\ PersonaInv' /\ CallsInv'
    BY <1>1, <2>1 DEF TypeOK, PersonaInv, CallsInv
  <2> QED BY <2>1, <2>2, Quiet DEF TableInv
<1>3. CASE RestartDashboard
  <2> USE <1>3 DEF RestartDashboard
  <2>1. taken' \in 0..Len(log) /\ \A n \in 1..taken' : Install(n) => Occurs(n, installs)
    BY DEF TypeOK, TableInv
  <2>2. TypeOK' /\ PersonaInv' /\ CallsInv'
    BY <1>1, <2>1 DEF TypeOK, PersonaInv, CallsInv
  <2> QED BY <2>1, <2>2, Quiet DEF TableInv
<1> QED BY <1>2, <1>3

-----------------------------------------------------------------------------
LEMMA StepInv == Inv /\ [Next]_vars => Inv'
<1> SUFFICES ASSUME Inv, [Next]_vars PROVE Inv'
  OBVIOUS
<1>1. ASSUME UNCHANGED vars PROVE Inv'
  <2> USE <1>1 DEF vars, bridgeVars, sessionVars, tailerVars, storeVars, pinVars
  <2>1. TypeOK' /\ PersonaInv' /\ CallsInv'
    BY DEF Inv, TypeOK, PersonaInv, CallsInv
  <2> QED BY <2>1, Quiet DEF Inv, TableInv
<1>2. ASSUME NEW s \in Session,
             \/ StartSession(s) \/ ReadPin(s) \/ ReadRecurrence(s) \/ ReadEvents(s)
             \/ ReadMode(s) \/ Opened(s)
             \/ Classify(s) \/ Installs(s) \/ InstallsNothing(s)
             \/ EndSession(s) \/ Embeds(s)
      PROVE  Inv'
  BY <1>2, StartStep, ReadPinStep, RecurrenceStep, ReadEventsStep, ReadModeStep,
     OtherLineStep, ClassifyStep, InstallsStep, NothingStep
<1>3. ASSUME HandleOpened \/ HandleInstall \/ HandleEmbedding \/ RebindPersona \/ SaveOffset
             \/ RestartBridge \/ RestartDashboard
      PROVE  Inv'
  BY <1>3, OpenedLineStep, InstallLineStep, EmbeddingLineStep, RebindStep, SaveStep,
     RestartStep
<1>4. ASSUME NEW i \in Ip,
             \/ \E p \in Persona \union {None} : PinPersona(i, p)
             \/ \E m \in Mode \union {None} : PinMode(i, m)
      PROVE  Inv'
  BY <1>4, PinStep
<1> QED BY <1>1, <1>2, <1>3, <1>4 DEF Next

\* Installs, from the line to the table and to the next prompt: the table has each
\* install line once and in order, with none missing below the saved offset
\* whatever restarts, and a session knows those of its address in order and all
\* of its own (_handle_fake_persistence, load_persistence, classify_command).
THEOREM InstallsKept == Spec => []InstallsTold
<1>1. Spec => []Inv
  BY InitInv, StepInv, PTL DEF Spec
<1> QED BY <1>1, InvImplies, PTL

-----------------------------------------------------------------------------
(* Baits, from the assessment that places them to the call that tells.     *)

KindSet == {"aws", "ssh_key"}
TokenLine == [kind : KindSet, ip : Address, sid : Visit]

DtTypeOK ==
    /\ dtIp \in [Visit -> Address]
    /\ dtAt \in [Visit -> {"new", "known", "open", "ended"}]
    /\ dtServed \in [Visit -> [KindSet -> Nat]]
    /\ dtSeen \in [Visit -> SUBSET Nat]
    /\ dtPlacedFor \subseteq Visit /\ dtTasks \subseteq Visit
    /\ dtEngaged \subseteq Visit /\ dtGarbles \subseteq Visit /\ dtEarly \subseteq Visit
    /\ dtLog \in Seq(TokenLine)
    /\ dtTaken \in 0..Len(dtLog)

\* A session whose task is to run or has run is marked, or it is over and nothing
\* marks it again; as long as the task is to run, no line is about it.
PlacingInv ==
    /\ \A s \in dtTasks : s \in dtPlacedFor \/ dtAt[s] = "ended"
    /\ \A i \in DOMAIN dtLog :
        LET s == dtLog[i].sid
        IN  dtLog[i].ip = dtIp[s] /\ s \notin dtTasks /\ (s \in dtPlacedFor \/ dtAt[s] = "ended")

\* The registry holds lines of the log, and whoever was started saw some of them.
RegistryInv ==
    /\ DOMAIN dtRows \subseteq DOMAIN dtLog
    /\ \A s \in Visit : dtSeen[s] \subseteq DOMAIN dtRows

\* From when its pin is applied a session that is not to be deceived is marked, so
\* that no assessment engages it.
PinnedInv == \A s \in Visit : dtAt[s] = "open" /\ PinOf[dtIp[s]] = "off" => s \in dtEngaged

DtInv == DtTypeOK /\ PlacingInv /\ RegistryInv /\ PinnedInv /\ PlacedOnce /\ ServedNewest /\ WhitelistKept

LEMMA KindsAre ==
    /\ Range(Kind) = KindSet /\ Len(Kind) = 2 /\ DOMAIN Kind = 1..2
    /\ Kind[1] = "aws" /\ Kind[2] = "ssh_key"
  BY DEF Kind, Range, KindSet

\* The newest of some lines is there.
LEMMA NewestIsThere ==
    ASSUME NEW n \in Nat, NEW T \in SUBSET (1..n), T # {}
    PROVE  Max(T) \in T /\ \A t \in T : t <= Max(T)
<1> DEFINE D == {n - t : t \in T}
<1>1. D \in SUBSET Nat /\ D # {}
  <2>1. \A t \in T : n - t \in Nat
    OBVIOUS
  <2>2. PICK t \in T : TRUE
    OBVIOUS
  <2>3. n - t \in D
    OBVIOUS
  <2> QED BY <2>1, <2>3
<1>2. PICK m \in D : \A d \in D : m <= d
  <2> HIDE DEF D
  <2> QED BY <1>1, LeastNatural
<1>3. PICK x \in T : m = n - x
  BY <1>2
<1>4. \A t \in T : x >= t
  <2> SUFFICES ASSUME NEW t \in T PROVE x >= t
    OBVIOUS
  <2>1. n - t \in D
    OBVIOUS
  <2>2. m <= n - t
    BY <1>2, <2>1
  <2> QED BY <1>3, <2>2
<1>5. \E y \in T : \A t \in T : y >= t
  BY <1>4
<1>6. Max(T) \in T /\ \A t \in T : Max(T) >= t
  BY <1>5, Zenon DEF Max
<1> QED BY <1>6

\* What a line becomes in the registry is all of it.
LEMMA RowIsLine ==
    ASSUME NEW told \in TokenLine PROVE RowOf(told) = told
  BY DEF TokenLine, RowOf

LEMMA DtInitInv == DtInit => DtInv
<1> SUFFICES ASSUME DtInit PROVE DtInv
  OBVIOUS
<1>1. DtTypeOK
  <2>1. dtIp \in [Visit -> Address]
    BY DecoyAssumption DEF DtInit, Visit
  <2> QED BY <2>1, KindsAre DEF DtInit, DtTypeOK, NoToken
<1>2. PlacingInv /\ RegistryInv /\ PinnedInv /\ WhitelistKept /\ PlacedOnce
  BY DEF DtInit, PlacingInv, RegistryInv, PinnedInv, WhitelistKept, PlacedOnce
<1>3. ServedNewest
  BY KindsAre DEF DtInit, ServedNewest
<1> QED BY <1>1, <1>2, <1>3 DEF DtInv

\* A bait that was served is in the registry, and there it is its line.
LEMMA Traced == DtInv => HitsTraced
<1> SUFFICES ASSUME DtInv, NEW t \in Stolen
             PROVE  CallbackLine(t).registered = IF t = NoToken THEN NoRowYet ELSE dtLog[t]
  BY DEF HitsTraced
<1>1. CallbackLine(t).registered = Looked(t)
  BY DEF CallbackLine
<1>2. NoToken \notin DOMAIN dtLog /\ DOMAIN dtRows \subseteq DOMAIN dtLog
  BY DEF DtInv, DtTypeOK, RegistryInv, NoToken
<1>3. ASSUME t # NoToken PROVE t \in DOMAIN dtRows
  <2>1. PICK s \in Visit, k \in KindSet : t = dtServed[s][k]
    BY <1>3, KindsAre DEF Stolen
  <2>2. t \in {u \in dtSeen[s] : dtLog[u].kind = k /\ dtLog[u].ip = dtIp[s]}
    BY <1>3, <2>1, KindsAre DEF DtInv, ServedNewest
  <2> QED BY <2>2 DEF DtInv, RegistryInv
<1>4. ASSUME t # NoToken PROVE dtRows[t] = dtLog[t]
  <2>1. dtRows[t] = RowOf(dtLog[t]) /\ dtLog[t] \in TokenLine
    BY <1>2, <1>3, <1>4 DEF DtInv, PlacedOnce, DtTypeOK
  <2> QED BY <2>1, RowIsLine
<1> QED BY <1>1, <1>2, <1>3, <1>4 DEF Looked

LEMMA DtInvSound == DtInv => DecoysSound
  BY Traced DEF DtInv, DecoysSound

\* What a session was served stays the newest it saw, whatever is logged later.
LEMMA ServedStays ==
    ASSUME DtInv, UNCHANGED <<dtSeen, dtServed, dtIp>>, \A i \in DOMAIN dtLog : dtLog'[i] = dtLog[i]
    PROVE  ServedNewest'
<1> SUFFICES ASSUME NEW s \in Visit, NEW k \in Range(Kind)
             PROVE  LET mine == {t \in dtSeen[s] : dtLog'[t].kind = k /\ dtLog'[t].ip = dtIp[s]}
                    IN  IF mine = {} THEN dtServed[s][k] = NoToken
                        ELSE dtServed[s][k] \in mine /\ \A t \in mine : t <= dtServed[s][k]
  BY DEF ServedNewest
<1>1. {t \in dtSeen[s] : dtLog'[t].kind = k /\ dtLog'[t].ip = dtIp[s]}
        = {t \in dtSeen[s] : dtLog[t].kind = k /\ dtLog[t].ip = dtIp[s]}
  <2>1. dtSeen[s] \subseteq DOMAIN dtLog
    BY DEF DtInv, RegistryInv
  <2> QED BY <2>1
<1> QED BY <1>1 DEF DtInv, ServedNewest

\* The rows of a set of tokens are their lines.
LEMMA RowsAreLines ==
    ASSUME DtInv, NEW t \in DOMAIN dtRows
    PROVE  t \in DOMAIN dtLog /\ dtLog[t] \in TokenLine /\ dtRows[t] = dtLog[t]
<1>1. t \in DOMAIN dtLog /\ dtLog[t] \in TokenLine /\ dtRows[t] = RowOf(dtLog[t])
  BY DEF DtInv, DtTypeOK, RegistryInv, PlacedOnce
<1> QED BY <1>1, RowIsLine

LEMMA ListStep == ASSUME DtInv, NEW s \in Visit, ListTokens(s) PROVE DtInv'
<1>1. PICK n \in Nat : n = Len(dtLog)
  BY DEF DtInv, DtTypeOK
<1>2. DOMAIN dtLog = 1..n /\ DOMAIN dtRows \subseteq 1..n
  BY <1>1 DEF DtInv, DtTypeOK, RegistryInv
<1> DEFINE mine(k) == {t \in DOMAIN dtRows : dtLog[t].kind = k /\ dtLog[t].ip = dtIp[s]}
<1>3. ASSUME NEW k \in KindSet
      PROVE  Overlay(TokensOf(dtIp[s]))[k] = IF mine(k) = {} THEN NoToken ELSE Max(mine(k))
  <2>1. {t \in TokensOf(dtIp[s]) : dtRows[t].kind = k} = mine(k)
    BY RowsAreLines DEF TokensOf
  <2> HIDE DEF mine
  <2> QED BY <2>1, KindsAre DEF Overlay
<1>4. ASSUME NEW k \in KindSet, mine(k) # {}
      PROVE  Max(mine(k)) \in mine(k) /\ Max(mine(k)) \in 1..n /\ \A t \in mine(k) : t <= Max(mine(k))
  <2>1. mine(k) \in SUBSET (1..n)
    BY <1>2
  <2> HIDE DEF mine
  <2> QED BY <1>4, <2>1, NewestIsThere
<1>5. Overlay(TokensOf(dtIp[s])) \in [KindSet -> Nat]
  <2>1. \A k \in KindSet : Overlay(TokensOf(dtIp[s]))[k] \in Nat
    <3> HIDE DEF mine
    <3> QED BY <1>3, <1>4 DEF NoToken
  <2> QED BY <2>1, KindsAre DEF Overlay
<1>6. /\ dtServed' = [dtServed EXCEPT ![s] = Overlay(TokensOf(dtIp[s]))]
      /\ dtSeen' = [dtSeen EXCEPT ![s] = DOMAIN dtRows]
      /\ dtAt[s] = "new" /\ dtAt' = [dtAt EXCEPT ![s] = "known"]
      /\ UNCHANGED <<dtIp, dtThreat, dtLog, dtTable>>
  BY DEF ListTokens
<1>7. DtTypeOK'
  <2>1. dtSeen' \in [Visit -> SUBSET Nat]
    BY <1>2, <1>6 DEF DtInv, DtTypeOK
  <2>2. dtServed' \in [Visit -> [KindSet -> Nat]]
    BY <1>5, <1>6 DEF DtInv, DtTypeOK
  <2> QED BY <1>6, <2>1, <2>2 DEF DtInv, DtTypeOK, dtThreat, dtTable
<1>8. PlacingInv' /\ PinnedInv'
  BY <1>6 DEF DtInv, DtTypeOK, PlacingInv, PinnedInv, dtThreat
<1>9. RegistryInv'
  BY <1>6 DEF DtInv, DtTypeOK, RegistryInv, dtTable
<1>10. PlacedOnce' /\ WhitelistKept'
  BY <1>6 DEF DtInv, PlacedOnce, WhitelistKept, RowOf, dtThreat, dtTable
<1>11. ServedNewest'
  <2> SUFFICES ASSUME NEW v \in Visit, NEW k \in KindSet
               PROVE  LET mine2 == {t \in dtSeen'[v] : dtLog[t].kind = k /\ dtLog[t].ip = dtIp[v]}
                      IN  IF mine2 = {} THEN dtServed'[v][k] = NoToken
                          ELSE dtServed'[v][k] \in mine2 /\ \A t \in mine2 : t <= dtServed'[v][k]
    BY <1>6, KindsAre DEF ServedNewest
  <2>1. CASE v = s
    <3>1. dtSeen'[v] = DOMAIN dtRows /\ dtServed'[v][k] = Overlay(TokensOf(dtIp[s]))[k]
      BY <1>6, <2>1 DEF DtInv, DtTypeOK
    <3>2. {t \in dtSeen'[v] : dtLog[t].kind = k /\ dtLog[t].ip = dtIp[v]} = mine(k)
      BY <2>1, <3>1
    <3> HIDE DEF mine
    <3> QED BY <1>3, <1>4, <3>1, <3>2
  <2>2. CASE v # s
    <3>1. dtSeen'[v] = dtSeen[v] /\ dtServed'[v] = dtServed[v]
      BY <1>6, <2>2 DEF DtInv, DtTypeOK
    <3> QED BY <3>1, KindsAre DEF DtInv, ServedNewest
  <2> QED BY <2>1, <2>2
<1> QED BY <1>7, <1>8, <1>9, <1>10, <1>11 DEF DtInv

LEMMA PinAppliedStep == ASSUME DtInv, NEW s \in Visit, ApplyPin(s) PROVE DtInv'
<1>1. /\ dtAt[s] = "known" /\ dtAt' = [dtAt EXCEPT ![s] = "open"]
      /\ UNCHANGED <<dtIp, dtServed, dtSeen, dtPlacedFor, dtTasks, dtEarly, dtAssessed, dtLog, dtTable>>
      /\ \/ (PinOf[dtIp[s]] = "none" \/ s \in dtEngaged) /\ UNCHANGED <<dtEngaged, dtGarbles>>
         \/ /\ PinOf[dtIp[s]] # "none" /\ dtEngaged' = dtEngaged \union {s}
            /\ dtGarbles' = IF PinOf[dtIp[s]] # "off" THEN dtGarbles \union {s} ELSE dtGarbles
  BY DEF ApplyPin, StateFor
<1>2. DtTypeOK'
  BY <1>1 DEF DtInv, DtTypeOK, dtTable
<1>3. PlacingInv' /\ RegistryInv'
  BY <1>1 DEF DtInv, DtTypeOK, PlacingInv, RegistryInv, dtTable
<1>4. PinnedInv'
  BY <1>1 DEF DtInv, DtTypeOK, PinnedInv
<1>5. WhitelistKept'
  BY <1>1 DEF DtInv, WhitelistKept
<1>6. PlacedOnce'
  BY <1>1 DEF DtInv, PlacedOnce, RowOf, dtTable
<1>7. ServedNewest'
  BY <1>1, ServedStays
<1> QED BY <1>2, <1>3, <1>4, <1>5, <1>6, <1>7 DEF DtInv

LEMMA AssessStep ==
    ASSUME DtInv, NEW s \in Visit, NEW score \in {"middle", "high"}, AssessThreat(s, score) PROVE DtInv'
<1>1. UNCHANGED <<dtSession, dtLog, dtTable>>
  BY DEF AssessThreat
<1>2. \/ UNCHANGED <<dtPlacedFor, dtTasks>>
      \/ /\ s \notin dtPlacedFor /\ dtAt[s] \in {"known", "open"}
         /\ dtPlacedFor' = dtPlacedFor \union {s} /\ dtTasks' = dtTasks \union {s}
  BY DEF AssessThreat, MayPlace, HasAddress
<1>3. \/ UNCHANGED <<dtEngaged, dtGarbles>>
      \/ s \notin dtEngaged /\ dtEngaged' = dtEngaged \union {s} /\ dtGarbles' = dtGarbles \union {s}
  BY DEF AssessThreat, MayEngage
<1>4. dtEarly' = IF dtAt[s] = "open" THEN dtEarly ELSE dtEarly \union {s}
  BY DEF AssessThreat
<1>5. DtTypeOK'
  BY <1>1, <1>2, <1>3, <1>4 DEF DtInv, DtTypeOK, dtSession, dtTable
<1>6. PlacingInv'
  <2>1. CASE UNCHANGED <<dtPlacedFor, dtTasks>>
    BY <1>1, <2>1 DEF DtInv, PlacingInv, dtSession
  <2>2. CASE /\ s \notin dtPlacedFor /\ dtAt[s] \in {"known", "open"}
             /\ dtPlacedFor' = dtPlacedFor \union {s} /\ dtTasks' = dtTasks \union {s}
    <3>1. \A i \in DOMAIN dtLog : dtLog[i].sid # s
      BY <2>2 DEF DtInv, PlacingInv
    <3> QED BY <1>1, <2>2, <3>1 DEF DtInv, PlacingInv, dtSession
  <2> QED BY <1>2, <2>1, <2>2
<1>7. RegistryInv' /\ PlacedOnce'
  BY <1>1 DEF DtInv, RegistryInv, PlacedOnce, RowOf, dtSession, dtTable
<1>8. PinnedInv'
  BY <1>1, <1>3 DEF DtInv, PinnedInv, dtSession
<1>9. WhitelistKept'
  BY <1>1, <1>3, <1>4 DEF DtInv, PinnedInv, WhitelistKept, dtSession
<1>10. ServedNewest'
  BY <1>1, ServedStays DEF dtSession
<1> QED BY <1>5, <1>6, <1>7, <1>8, <1>9, <1>10 DEF DtInv

LEMMA EndVisitStep == ASSUME DtInv, NEW s \in Visit, EndSessionBudget(s) PROVE DtInv'
<1>1. /\ dtAt[s] = "open" /\ dtAt' = [dtAt EXCEPT ![s] = "ended"]
      /\ dtPlacedFor' = dtPlacedFor \ {s}
      /\ dtEngaged' = dtEngaged \ {s} /\ dtGarbles' = dtGarbles \ {s}
      /\ UNCHANGED <<dtIp, dtServed, dtSeen, dtTasks, dtEarly, dtAssessed, dtLog, dtTable>>
  BY DEF EndSessionBudget
<1>2. DtTypeOK'
  BY <1>1 DEF DtInv, DtTypeOK, dtTable
<1>3. PlacingInv'
  <2>1. \A v \in Visit : v \in dtPlacedFor \/ dtAt[v] = "ended" => v \in dtPlacedFor' \/ dtAt'[v] = "ended"
    BY <1>1 DEF DtInv, DtTypeOK
  <2>2. \A i \in DOMAIN dtLog : dtLog[i].sid \in Visit
    <3>1. \A i \in DOMAIN dtLog : dtLog[i] \in TokenLine
      BY DEF DtInv, DtTypeOK
    <3> QED BY <3>1 DEF TokenLine
  <2> QED BY <1>1, <2>1, <2>2 DEF DtInv, DtTypeOK, PlacingInv
<1>4. RegistryInv' /\ PlacedOnce'
  BY <1>1 DEF DtInv, RegistryInv, PlacedOnce, RowOf, dtTable
<1>5. PinnedInv' /\ WhitelistKept'
  BY <1>1 DEF DtInv, DtTypeOK, PinnedInv, WhitelistKept
<1>6. ServedNewest'
  BY <1>1, ServedStays
<1> QED BY <1>2, <1>3, <1>4, <1>5, <1>6 DEF DtInv

LEMMA RestartTailerStep == ASSUME DtInv, RestartTailer PROVE DtInv'
<1>1. dtTaken' \in 0..dtTaken /\ UNCHANGED <<dtSession, dtThreat, dtLog, dtRows>>
  BY DEF RestartTailer
<1>2. DtTypeOK'
  BY <1>1 DEF DtInv, DtTypeOK, dtSession, dtThreat
<1>3. PlacingInv' /\ RegistryInv' /\ PinnedInv' /\ WhitelistKept'
  BY <1>1 DEF DtInv, PlacingInv, RegistryInv, PinnedInv, WhitelistKept, dtSession, dtThreat
<1>4. PlacedOnce'
  <2>1. dtTaken \in Nat /\ 1..dtTaken' \subseteq 1..dtTaken
    BY <1>1 DEF DtInv, DtTypeOK
  <2> QED BY <1>1, <2>1 DEF DtInv, PlacedOnce, RowOf
<1>5. ServedNewest'
  BY <1>1, ServedStays DEF dtSession
<1> QED BY <1>2, <1>3, <1>4, <1>5 DEF DtInv

LEMMA RegisterStep == ASSUME DtInv, Register PROVE DtInv'
<1>1. PICK n \in Nat : n = Len(dtLog)
  BY DEF DtInv, DtTypeOK
<1>2. /\ dtTaken \in Nat /\ dtTaken < n /\ dtTaken' = dtTaken + 1 /\ DOMAIN dtLog = 1..n
      /\ dtTaken + 1 \in 1..n
  BY <1>1 DEF Register, DtInv, DtTypeOK
<1>3. /\ DOMAIN dtRows' = DOMAIN dtRows \union {dtTaken + 1}
      /\ \A t \in DOMAIN dtRows' : dtRows'[t] = IF t \in DOMAIN dtRows THEN dtRows[t] ELSE RowOf(dtLog[t])
  BY <1>2 DEF Register
<1>4. UNCHANGED <<dtSession, dtThreat, dtLog, dtReread>>
  BY DEF Register
<1>5. DtTypeOK'
  BY <1>1, <1>2, <1>4 DEF DtInv, DtTypeOK, dtSession, dtThreat
<1>6. PlacingInv' /\ PinnedInv' /\ WhitelistKept'
  BY <1>4 DEF DtInv, PlacingInv, PinnedInv, WhitelistKept, dtSession, dtThreat
<1>7. RegistryInv'
  BY <1>2, <1>3, <1>4 DEF DtInv, RegistryInv, dtSession
<1>8. PlacedOnce'
  <2>1. \A i, j \in DOMAIN dtLog' : dtLog'[i] = dtLog'[j] => i = j
    BY <1>4 DEF DtInv, PlacedOnce
  <2>2. 1..dtTaken' \subseteq DOMAIN dtRows'
    <3>1. 1..dtTaken' = 1..dtTaken \union {dtTaken + 1}
      BY <1>2
    <3> QED BY <1>3, <3>1 DEF DtInv, PlacedOnce
  <2>3. \A t \in DOMAIN dtRows' : dtRows'[t] = RowOf(dtLog'[t])
    BY <1>3, <1>4 DEF DtInv, PlacedOnce
  <2> QED BY <2>1, <2>2, <2>3 DEF PlacedOnce, RowOf
<1>9. ServedNewest'
  BY <1>4, ServedStays DEF dtSession
<1> QED BY <1>5, <1>6, <1>7, <1>8, <1>9 DEF DtInv

\* The tokens of a task are the first of its session, and of different kinds.
LEMMA PlaceStep == ASSUME DtInv, NEW s \in Visit, NEW made \in Made, Place(s, made) PROVE DtInv'
<1> DEFINE tokens == [i \in DOMAIN made |-> NewToken(s, made[i])]
<1>1. PICK n \in Nat : n = Len(dtLog)
  BY DEF DtInv, DtTypeOK
<1>2. PICK m \in Nat : m = Len(made)
  BY DEF Made, Kind
<1>3. /\ DOMAIN made = 1..m
      /\ \A i \in 1..m : made[i] \in KindSet
      /\ \A i, j \in 1..m : made[i] = made[j] => i = j
  BY <1>2 DEF Made, Kind, KindSet
<1>4. tokens \in Seq(TokenLine) /\ Len(tokens) = m
  <2>1. \A i \in 1..m : NewToken(s, made[i]) \in TokenLine
    BY <1>3 DEF NewToken, TokenLine, DtInv, DtTypeOK
  <2> QED BY <1>3, <2>1
<1>5. /\ s \in dtTasks /\ dtTasks' = dtTasks \ {s} /\ dtLog' = dtLog \o tokens
      /\ UNCHANGED <<dtSession, dtPlacedFor, dtEngaged, dtGarbles, dtEarly, dtAssessed, dtTable>>
  BY DEF Place
<1>6. dtLog \in Seq(TokenLine) /\ DOMAIN dtLog = 1..n
  BY <1>1 DEF DtInv, DtTypeOK
<1>7. /\ dtLog' \in Seq(TokenLine) /\ Len(dtLog') = n + m /\ DOMAIN dtLog' = 1..n + m
      /\ \A i \in 1..n : dtLog'[i] = dtLog[i]
      /\ \A i \in n + 1..n + m : dtLog'[i] = tokens[i - n]
  <2> HIDE DEF tokens
  <2>1. dtLog' \in Seq(TokenLine) /\ Len(dtLog') = n + m
    BY <1>1, <1>4, <1>5, <1>6, ConcatProperties
  <2>2. \A i \in 1..n + m : dtLog'[i] = IF i <= n THEN dtLog[i] ELSE tokens[i - n]
    BY <1>1, <1>4, <1>5, <1>6, ConcatProperties
  <2>3. DOMAIN dtLog' = 1..n + m
    BY <1>1, <1>2, <2>1
  <2>4. ASSUME NEW i \in 1..n PROVE dtLog'[i] = dtLog[i]
    <3>1. i \in 1..n + m /\ i <= n
      BY <1>1, <1>2
    <3> QED BY <2>2, <3>1
  <2>5. ASSUME NEW i \in n + 1..n + m PROVE dtLog'[i] = tokens[i - n]
    <3>1. i \in 1..n + m /\ ~(i <= n)
      BY <1>1, <1>2
    <3> QED BY <2>2, <3>1
  <2> QED BY <2>1, <2>3, <2>4, <2>5
<1>8. \A i \in n + 1..n + m :
          i - n \in 1..m /\ dtLog'[i].kind = made[i - n] /\ dtLog'[i].ip = dtIp[s] /\ dtLog'[i].sid = s
  <2>1. \A i \in n + 1..n + m : i - n \in 1..m
    OBVIOUS
  <2>2. \A i \in 1..m : tokens[i] = [kind |-> made[i], ip |-> dtIp[s], sid |-> s]
    BY <1>3 DEF NewToken
  <2> HIDE DEF tokens
  <2>3. ASSUME NEW i \in n + 1..n + m
        PROVE  dtLog'[i].kind = made[i - n] /\ dtLog'[i].ip = dtIp[s] /\ dtLog'[i].sid = s
    <3>1. dtLog'[i] = [kind |-> made[i - n], ip |-> dtIp[s], sid |-> s]
      BY <1>7, <2>1, <2>2
    <3> QED BY <3>1
  <2> QED BY <2>1, <2>3
<1>9. \A i \in 1..n + m : i \in 1..n \/ i \in n + 1..n + m
  OBVIOUS
<1> HIDE DEF tokens
<1>10. \A i \in 1..n : dtLog[i].sid # s
  BY <1>5, <1>6 DEF DtInv, PlacingInv
<1>11. DtTypeOK'
  BY <1>1, <1>5, <1>7 DEF DtInv, DtTypeOK, dtSession, dtTable
<1>12. PlacingInv'
  <2>1. ASSUME NEW i \in 1..n
        PROVE  /\ dtLog'[i].ip = dtIp[dtLog'[i].sid] /\ dtLog'[i].sid \notin dtTasks'
               /\ dtLog'[i].sid \in dtPlacedFor \/ dtAt[dtLog'[i].sid] = "ended"
    BY <1>5, <1>6, <1>7 DEF DtInv, PlacingInv
  <2>2. ASSUME NEW i \in n + 1..n + m
        PROVE  /\ dtLog'[i].ip = dtIp[dtLog'[i].sid] /\ dtLog'[i].sid \notin dtTasks'
               /\ dtLog'[i].sid \in dtPlacedFor \/ dtAt[dtLog'[i].sid] = "ended"
    BY <1>5, <1>8 DEF DtInv, PlacingInv
  <2>3. \A v \in dtTasks' : v \in dtPlacedFor \/ dtAt[v] = "ended"
    BY <1>5 DEF DtInv, PlacingInv
  <2> QED BY <1>5, <1>7, <1>9, <2>1, <2>2, <2>3 DEF PlacingInv, dtSession
<1>13. RegistryInv'
  <2>1. 1..n \subseteq 1..n + m
    OBVIOUS
  <2> QED BY <1>5, <1>6, <1>7, <2>1 DEF DtInv, RegistryInv, dtSession, dtTable
<1>14. PlacedOnce'
  <2>1. ASSUME NEW i \in 1..n + m, NEW j \in 1..n + m, dtLog'[i] = dtLog'[j] PROVE i = j
    <3>1. CASE i \in 1..n /\ j \in 1..n
      BY <1>6, <1>7, <2>1, <3>1 DEF DtInv, PlacedOnce
    <3>2. CASE i \in n + 1..n + m /\ j \in n + 1..n + m
      <4>1. i - n \in 1..m /\ j - n \in 1..m /\ made[i - n] = made[j - n]
        BY <1>8, <2>1, <3>2
      <4>2. i - n = j - n
        BY <1>3, <4>1
      <4> QED BY <4>2
    <3>3. CASE i \in 1..n /\ j \in n + 1..n + m
      BY <1>7, <1>8, <1>10, <2>1, <3>3
    <3>4. CASE i \in n + 1..n + m /\ j \in 1..n
      BY <1>7, <1>8, <1>10, <2>1, <3>4
    <3> QED BY <1>9, <3>1, <3>2, <3>3, <3>4
  <2>2. \A t \in DOMAIN dtRows : dtRows[t] = RowOf(dtLog'[t])
    BY <1>6, <1>7 DEF DtInv, RegistryInv, PlacedOnce
  <2> QED BY <1>5, <1>7, <2>1, <2>2 DEF DtInv, PlacedOnce, RowOf, dtTable
<1>15. PinnedInv' /\ WhitelistKept'
  BY <1>5 DEF DtInv, PinnedInv, WhitelistKept, dtSession
<1>16. ServedNewest'
  BY <1>5, <1>6, <1>7, ServedStays DEF dtSession
<1> QED BY <1>11, <1>12, <1>13, <1>14, <1>15, <1>16 DEF DtInv

LEMMA DtStepInv == DtInv /\ [DtNext]_dtVars => DtInv'
<1> SUFFICES ASSUME DtInv, [DtNext]_dtVars PROVE DtInv'
  OBVIOUS
<1>1. ASSUME NEW s \in Visit, ListTokens(s) PROVE DtInv'
  BY <1>1, ListStep
<1>2. ASSUME NEW s \in Visit, ApplyPin(s) PROVE DtInv'
  BY <1>2, PinAppliedStep
<1>3. ASSUME NEW s \in Visit, EndSessionBudget(s) PROVE DtInv'
  BY <1>3, EndVisitStep
<1>4. ASSUME NEW s \in Visit, NEW score \in {"middle", "high"}, AssessThreat(s, score) PROVE DtInv'
  BY <1>4, AssessStep
<1>5. ASSUME NEW s \in Visit, NEW made \in Made, Place(s, made) PROVE DtInv'
  BY <1>5, PlaceStep
<1>6. CASE Register
  BY <1>6, RegisterStep
<1>7. CASE RestartTailer
  BY <1>7, RestartTailerStep
<1>8. CASE UNCHANGED dtVars
  <2>1. UNCHANGED <<dtIp, dtAt, dtServed, dtSeen, dtPlacedFor, dtTasks, dtEngaged, dtGarbles, dtEarly, dtAssessed>>
        /\ UNCHANGED <<dtLog, dtRows, dtTaken, dtReread>>
    BY <1>8 DEF dtVars, dtSession, dtThreat, dtTable
  <2>2. DtTypeOK' /\ PlacingInv' /\ RegistryInv' /\ PinnedInv' /\ WhitelistKept'
    BY <2>1 DEF DtInv, DtTypeOK, PlacingInv, RegistryInv, PinnedInv, WhitelistKept
  <2>3. PlacedOnce'
    BY <2>1 DEF DtInv, PlacedOnce, RowOf
  <2>4. ServedNewest'
    BY <2>1, ServedStays
  <2> QED BY <2>2, <2>3, <2>4 DEF DtInv
<1> QED BY <1>1, <1>2, <1>3, <1>4, <1>5, <1>6, <1>7, <1>8 DEF DtNext

\* Baits (bridge/service.py _maybe_schedule_honeytoken_placement and list_honeytokens,
\* dashboard/audit_tailer.py, callback/routes.py): a session has one token of a kind at most, the next sessions of
\* its address are served the newest, whoever calls with one is traced to the address and the session, and an address
\* pinned off is not deceived unless it was assessed early.
THEOREM DecoysKept == DtSpec => []DecoysSound
<1>1. DtInit => DtInv
  BY DtInitInv
<1>2. DtInv /\ [DtNext]_dtVars => DtInv'
  BY DtStepInv
<1>3. DtInv => DecoysSound
  BY DtInvSound
<1> QED BY <1>1, <1>2, <1>3, PTL DEF DtSpec

-----------------------------------------------------------------------------
(* A session's commands: what the scans let through, and what the history  *)
(* is made of.                                                             *)

Command == {Sanitised(raw) : raw \in TextsOf(Typed, MaxTyped)}
Word == Spoken \union {"p"}
Text == Seq(Word \union {"f"})

DfTypeOK ==
    /\ dfStream \in BOOLEAN /\ dfScripts \in BOOLEAN /\ dfLost \in BOOLEAN
    /\ dfPc \in {"ready", "asked", "speaking"}
    /\ dfSource \in {"none", "ai", "fallback", "rejected"}
    /\ dfHistory \in Seq([command : Command, response : Text])
    /\ dfShipped \in Text /\ dfSaid \in Seq(Word)
    /\ dfPc # "ready" => dfCommand \in Command

Silent(text) == \A i \in DOMAIN text : text[i] # "p"

\* What was said is what was sent, as long as the answer is under way; without a
\* pre-message it is within the cap.
SayingInv ==
    /\ dfPc = "asked" => dfShipped = <<>> /\ dfSaid = <<>>
    /\ dfPc = "speaking" => dfStream /\ dfShipped = dfSaid
    /\ Silent(dfSaid) => Len(dfSaid) <= MaxResponse

DfInv == DfTypeOK /\ SayingInv /\ NothingPassesUntold /\ HistoryIsWhatWasSaid

\* The last of some positions is there.
LEMMA LastIsThere ==
    ASSUME NEW n \in Nat, NEW T \in SUBSET (1..n), T # {}
    PROVE  \E m \in T : \A t \in T : t <= m
  BY NewestIsThere

\* rstrip keeps a beginning of a text and drops white space only.
LEMMA StrippedIs ==
    ASSUME NEW S, NEW text \in Seq(S)
    PROVE  \E m \in 0..Len(text) : /\ Stripped(text) = SubSeq(text, 1, m)
                                   /\ \A i \in m + 1..Len(text) : text[i] = "w"
<1> DEFINE solid == {i \in DOMAIN text : text[i] # "w"}
<1>1. PICK n \in Nat : n = Len(text)
  OBVIOUS
<1>2. DOMAIN text = 1..n
  BY <1>1
<1>3. CASE solid = {}
  <2>1. Stripped(text) = SubSeq(text, 1, 0)
    BY <1>3 DEF Stripped
  <2>2. \A i \in 0 + 1..n : text[i] = "w"
    BY <1>2, <1>3
  <2> QED BY <1>1, <2>1, <2>2
<1>4. CASE solid # {}
  <2> DEFINE m == CHOOSE i \in solid : \A j \in solid : j <= i
  <2>1. \E i \in solid : \A j \in solid : j <= i
    <3>1. solid \in SUBSET (1..n)
      BY <1>2
    <3> HIDE DEF solid
    <3> QED BY <1>4, <3>1, LastIsThere
  <2>2. Stripped(text) = SubSeq(text, 1, m)
    BY <1>4 DEF Stripped
  <2>3. m \in solid /\ \A j \in solid : j <= m
    <3> HIDE DEF solid
    <3> QED BY <2>1
  <2> HIDE DEF m
  <2>4. m \in 0..n /\ \A i \in m + 1..n : text[i] = "w"
    BY <1>2, <2>3
  <2> QED BY <1>1, <2>2, <2>4
<1> QED BY <1>3, <1>4

\* cap_output of a text within the cap.
LEMMA CappedIs ==
    ASSUME NEW S, NEW text \in Seq(S), Len(text) <= MaxResponse
    PROVE  Capped(text) = Stripped(text)
<1>1. Cut(text, MaxResponse) = text
  BY DefenseAssumption DEF Cut
<1> QED BY <1>1 DEF Capped

LEMMA CappedType ==
    ASSUME NEW S, NEW text \in Seq(S)
    PROVE  Capped(text) \in Seq(S) /\ Stripped(text) \in Seq(S)
<1>1. ASSUME NEW t \in Seq(S) PROVE Stripped(t) \in Seq(S)
  <2>1. PICK m \in 0..Len(t) : Stripped(t) = SubSeq(t, 1, m)
    BY StrippedIs
  <2>2. SubSeq(t, 1, m) \in Seq(S)
    BY SubSeqProperties
  <2> QED BY <2>1, <2>2
<1>2. Cut(text, MaxResponse) \in Seq(S)
  BY DefenseAssumption, SubSeqProperties DEF Cut
<1> QED BY <1>1, <1>2 DEF Capped

\* The normal form of a text, symbol by symbol.
Unfolds(text, n, f) ==
    f = [i \in 0..n |-> IF i = 0 THEN <<>> ELSE f[i - 1] \o Unfolded(text[i])]

LEMMA UnfoldsEach ==
    ASSUME NEW text, NEW n \in Nat, NEW f, Unfolds(text, n, f)
    PROVE  f[0] = <<>> /\ \A i \in 1..n : f[i] = f[i - 1] \o Unfolded(text[i])
<1>1. \A i \in 0..n : f[i] = IF i = 0 THEN <<>> ELSE f[i - 1] \o Unfolded(text[i])
  BY DEF Unfolds
<1>2. 0 \in 0..n /\ \A i \in 1..n : i \in 0..n /\ i # 0
  OBVIOUS
<1> QED BY <1>1, <1>2

LEMMA UnfoldsThere ==
    ASSUME NEW text, NEW n \in Nat
    PROVE  \E f : Unfolds(text, n, f)
<1> DEFINE Bad == {m \in Nat : ~\E f : Unfolds(text, m, f)}
<1> SUFFICES ASSUME Bad # {} PROVE FALSE
  OBVIOUS
<1>1. PICK m \in Bad : \A k \in Bad : m <= k
  <2>1. Bad \in SUBSET Nat
    OBVIOUS
  <2> HIDE DEF Bad
  <2> QED BY <2>1, LeastNatural
<1>2. m \in Nat /\ ~\E f : Unfolds(text, m, f)
  BY <1>1
<1>3. CASE m = 0
  <2>1. Unfolds(text, 0, [i \in 0..0 |-> <<>>])
    BY DEF Unfolds
  <2> QED BY <1>2, <1>3, <2>1
<1>4. CASE m # 0
  <2>1. m - 1 \in Nat /\ ~(m <= m - 1)
    BY <1>2, <1>4
  <2>2. m - 1 \notin Bad
    BY <1>1, <2>1
  <2>3. PICK g : Unfolds(text, m - 1, g)
    BY <2>1, <2>2
  <2> DEFINE f == [i \in 0..m |-> IF i = m THEN g[m - 1] \o Unfolded(text[m]) ELSE g[i]]
  <2>4. \A i \in 0..m - 1 : i \in 0..m /\ i # m
    BY <1>2
  <2>5. \A i \in 0..m : i \in 0..m - 1 \/ i = m
    BY <1>2
  <2>6. m - 1 \in 0..m - 1 /\ \A i \in 1..m - 1 : i - 1 \in 0..m - 1
    BY <2>1
  <2>7. g[0] = <<>> /\ \A i \in 1..m - 1 : g[i] = g[i - 1] \o Unfolded(text[i])
    BY <2>1, <2>3, UnfoldsEach
  <2>8. f[m] = f[m - 1] \o Unfolded(text[m])
    <3>1. m \in 0..m
      BY <1>2
    <3> QED BY <2>4, <2>6, <3>1
  <2>9. \A i \in 0..m - 1 : f[i] = g[i]
    BY <2>4
  <2>10. \A i \in 0..m - 1 : f[i] = IF i = 0 THEN <<>> ELSE f[i - 1] \o Unfolded(text[i])
    <3> HIDE DEF f
    <3> SUFFICES ASSUME NEW i \in 0..m - 1 PROVE f[i] = IF i = 0 THEN <<>> ELSE f[i - 1] \o Unfolded(text[i])
      OBVIOUS
    <3>1. CASE i = 0
      BY <2>7, <2>9, <3>1
    <3>2. CASE i # 0
      <4>1. i \in 1..m - 1 /\ i - 1 \in 0..m - 1
        BY <2>1, <3>2
      <4> QED BY <2>7, <2>9, <3>2, <4>1
    <3> QED BY <3>1, <3>2
  <2>11. \A i \in 0..m : f[i] = IF i = 0 THEN <<>> ELSE f[i - 1] \o Unfolded(text[i])
    <3> HIDE DEF f
    <3> QED BY <1>4, <2>5, <2>8, <2>10
  <2>12. f = [i \in 0..m |-> f[i]]
    OBVIOUS
  <2> HIDE DEF f
  <2>13. Unfolds(text, m, f)
    BY <2>11, <2>12 DEF Unfolds
  <2> QED BY <1>2, <2>13
<1> QED BY <1>3, <1>4

LEMMA NormalFormIs ==
    ASSUME NEW text, Len(text) \in Nat
    PROVE  \E f : Unfolds(text, Len(text), f) /\ NormalForm(text) = f[Len(text)]
<1> DEFINE f == CHOOSE f : Unfolds(text, Len(text), f)
<1>1. NormalForm(text) = f[Len(text)]
  BY DEF NormalForm, Unfolds
<1>2. Unfolds(text, Len(text), f)
  BY UnfoldsThere
<1> QED BY <1>1, <1>2

Symbol == {"a", "b", "e", "z", "c", "w", "m", "p", "f"}

LEMMA UnfoldedType == \A s \in Symbol : Unfolded(s) \in Seq(Symbol)
<1> SUFFICES ASSUME NEW s \in Symbol PROVE Unfolded(s) \in Seq(Symbol)
  OBVIOUS
<1>1. <<>> \in Seq(Symbol) /\ <<"a", "b">> \in Seq(Symbol) /\ <<s>> \in Seq(Symbol)
  BY DEF Symbol
<1> QED BY <1>1 DEF Unfolded

\* Each beginning of a text unfolds to a text.
LEMMA UnfoldsType ==
    ASSUME NEW text \in Seq(Symbol), NEW n \in 0..Len(text), NEW f, Unfolds(text, n, f)
    PROVE  \A i \in 0..n : f[i] \in Seq(Symbol)
<1> DEFINE Bad == {i \in 0..n : f[i] \notin Seq(Symbol)}
<1> SUFFICES ASSUME Bad # {} PROVE FALSE
  OBVIOUS
<1>1. PICK m \in Bad : \A k \in Bad : m <= k
  <2>1. Bad \in SUBSET Nat
    OBVIOUS
  <2> HIDE DEF Bad
  <2> QED BY <2>1, LeastNatural
<1>2. m \in 0..n /\ f[m] \notin Seq(Symbol)
  BY <1>1
<1>3. f[0] = <<>> /\ \A i \in 1..n : f[i] = f[i - 1] \o Unfolded(text[i])
  <2>1. n \in Nat
    OBVIOUS
  <2> QED BY <2>1, UnfoldsEach
<1>4. m # 0
  <2>1. <<>> \in Seq(Symbol)
    OBVIOUS
  <2> QED BY <1>2, <1>3, <2>1
<1>5. m \in 1..n /\ m - 1 \in 0..n /\ ~(m <= m - 1) /\ m \in 1..Len(text)
  BY <1>2, <1>4
<1>6. f[m - 1] \in Seq(Symbol)
  BY <1>1, <1>5
<1>7. Unfolded(text[m]) \in Seq(Symbol)
  BY <1>5, UnfoldedType
<1>8. f[m] = f[m - 1] \o Unfolded(text[m])
  BY <1>3, <1>5
<1> HIDE DEF Bad
<1> QED BY <1>2, <1>6, <1>7, <1>8, ConcatProperties

\* A text and one of its beginnings unfold alike as far as they go.
LEMMA UnfoldsAlike ==
    ASSUME NEW text, NEW n \in Nat, NEW f, Unfolds(text, n, f),
           NEW short, NEW m \in 0..n, NEW g, Unfolds(short, m, g),
           \A i \in 1..m : short[i] = text[i]
    PROVE  \A i \in 0..m : f[i] = g[i]
<1> DEFINE Bad == {i \in 0..m : f[i] # g[i]}
<1> SUFFICES ASSUME Bad # {} PROVE FALSE
  OBVIOUS
<1>1. PICK k \in Bad : \A j \in Bad : k <= j
  <2>1. Bad \in SUBSET Nat
    OBVIOUS
  <2> HIDE DEF Bad
  <2> QED BY <2>1, LeastNatural
<1>2. k \in 0..m /\ f[k] # g[k]
  BY <1>1
<1>3. f[0] = <<>> /\ \A i \in 1..n : f[i] = f[i - 1] \o Unfolded(text[i])
  BY UnfoldsEach
<1>4. g[0] = <<>> /\ \A i \in 1..m : g[i] = g[i - 1] \o Unfolded(short[i])
  <2>1. m \in Nat
    OBVIOUS
  <2> QED BY <2>1, UnfoldsEach
<1>5. k # 0
  BY <1>2, <1>3, <1>4
<1>6. k \in 1..m /\ k \in 1..n /\ k - 1 \in 0..m /\ ~(k <= k - 1)
  BY <1>2, <1>5
<1>7. f[k - 1] = g[k - 1]
  BY <1>1, <1>6
<1> QED BY <1>2, <1>3, <1>4, <1>6, <1>7

\* White space at the end of a text neither makes nor hides the pattern.
LEMMA ScanOfStripped ==
    ASSUME NEW text \in Seq(Symbol), HasPattern(NormalForm(text))
    PROVE  /\ HasPattern(NormalForm(Stripped(text)))
           /\ Len(NormalForm(Stripped(text))) <= Len(NormalForm(text))
<1>1. PICK n \in Nat : n = Len(text)
  OBVIOUS
<1>2. PICK m \in 0..n : Stripped(text) = SubSeq(text, 1, m) /\ \A i \in m + 1..n : text[i] = "w"
  BY <1>1, StrippedIs
<1> DEFINE short == Stripped(text)
<1>3. Len(short) = m /\ \A i \in 1..m : short[i] = text[i]
  <2>1. \A i \in 1..m : text[i] \in Symbol
    BY <1>1
  <2>2. Len(SubSeq(text, 1, m)) = m /\ \A i \in 1..m : SubSeq(text, 1, m)[i] = text[i]
    BY <2>1, SubSeqProperties
  <2> QED BY <1>2, <2>2
<1> HIDE DEF short
<1>4. PICK f : Unfolds(text, n, f) /\ NormalForm(text) = f[n]
  BY <1>1, NormalFormIs
<1>5. PICK g : Unfolds(short, m, g) /\ NormalForm(short) = g[m]
  BY <1>3, NormalFormIs
<1>6. f[m] = g[m]
  BY <1>3, <1>4, <1>5, UnfoldsAlike
<1>7. \A i \in 0..n : f[i] \in Seq(Symbol)
  BY <1>1, <1>4, UnfoldsType
<1> DEFINE Bad == {i \in m..n : HasPattern(f[i]) /\ ~(HasPattern(f[m]) /\ Len(f[m]) <= Len(f[i]))}
<1>8. Bad = {}
  <2> SUFFICES ASSUME Bad # {} PROVE FALSE
    OBVIOUS
  <2>1. PICK k \in Bad : \A j \in Bad : k <= j
    <3>1. Bad \in SUBSET Nat
      OBVIOUS
    <3> HIDE DEF Bad
    <3> QED BY <3>1, LeastNatural
  <2>2. k \in m..n /\ HasPattern(f[k]) /\ ~(HasPattern(f[m]) /\ Len(f[m]) <= Len(f[k]))
    BY <2>1
  <2>3. k # m
    <3>1. m \in 0..n /\ Len(f[m]) \in Nat
      BY <1>7
    <3> QED BY <2>2, <3>1
  <2>4. k \in m + 1..n /\ k \in 1..n /\ k - 1 \in m..n /\ k - 1 \in 0..n /\ k \in 0..n /\ ~(k <= k - 1)
    BY <2>2, <2>3
  <2>5. f[k] = Append(f[k - 1], "w")
    <3>1. f[k] = f[k - 1] \o Unfolded(text[k])
      BY <1>4, <2>4, UnfoldsEach
    <3>2. Unfolded(text[k]) = <<"w">>
      BY <1>2, <2>4 DEF Unfolded
    <3> QED BY <1>7, <2>4, <3>1, <3>2
  <2>6. PICK q \in Seq(Symbol) : q = f[k - 1]
    BY <1>7, <2>4
  <2>7. /\ Len(f[k]) = Len(q) + 1 /\ Len(q) \in Nat
        /\ \A i \in 1..Len(q) : f[k][i] = q[i]
        /\ f[k][Len(q) + 1] = "w"
    BY <2>5, <2>6
  <2>8. HasPattern(q)
    <3>1. PICK i \in 1..Len(q) : f[k][i] = "a" /\ f[k][i + 1] = "b"
      BY <2>2, <2>7 DEF HasPattern
    <3>2. i # Len(q)
      BY <2>7, <3>1
    <3>3. i \in 1..(Len(q) - 1) /\ i + 1 \in 1..Len(q)
      BY <2>7, <3>2
    <3> QED BY <2>7, <3>1, <3>3 DEF HasPattern
  <2>9. HasPattern(f[m]) /\ Len(f[m]) <= Len(q)
    BY <2>1, <2>4, <2>6, <2>8
  <2>10. Len(f[m]) \in Nat
    <3>1. m \in 0..n
      OBVIOUS
    <3> QED BY <1>7, <3>1
  <2> QED BY <2>2, <2>7, <2>9, <2>10
<1>9. n \in m..n
  BY <1>1
<1> HIDE DEF Bad
<1>10. HasPattern(f[m]) /\ Len(f[m]) <= Len(f[n])
  BY <1>4, <1>8, <1>9 DEF Bad
<1> QED BY <1>4, <1>5, <1>6, <1>10 DEF short

\* An empty text has no pattern.
LEMMA NothingThere == ~HasPattern(NormalForm(<<>>))
<1>1. Len(<<>>) = 0
  OBVIOUS
<1>2. PICK f : Unfolds(<<>>, 0, f) /\ NormalForm(<<>>) = f[0]
  BY <1>1, NormalFormIs
<1>3. NormalForm(<<>>) = <<>>
  BY <1>2, UnfoldsEach
<1> QED BY <1>1, <1>3 DEF HasPattern


LEMMA NormalFormType == \A text \in Seq(Symbol) : NormalForm(text) \in Seq(Symbol)
<1> SUFFICES ASSUME NEW text \in Seq(Symbol) PROVE NormalForm(text) \in Seq(Symbol)
  OBVIOUS
<1>1. Len(text) \in Nat /\ Len(text) \in 0..Len(text)
  OBVIOUS
<1>2. PICK f : Unfolds(text, Len(text), f) /\ NormalForm(text) = f[Len(text)]
  BY <1>1, NormalFormIs
<1> QED BY <1>1, <1>2, UnfoldsType

\* A scan that is not cut sees the whole text.
LEMMA ScanSeesAll ==
    ASSUME NEW text \in Seq(Symbol), Len(NormalForm(text)) <= ScanCap
    PROVE  CheckFires(text) <=> HasPattern(NormalForm(text))
<1>1. Len(NormalForm(text)) \in Nat
  BY NormalFormType
<1>2. ~(Len(NormalForm(text)) > ScanCap)
  BY <1>1, DefenseAssumption
<1> QED BY <1>2 DEF CheckFires, Cut

LEMMA Alphabet == Word \subseteq Symbol /\ Word \union {"f"} \subseteq Symbol /\ Spoken \subseteq Word
                  /\ "p" \notin Spoken /\ "f" \notin Word
  BY DefenseAssumption DEF Word, Symbol

LEMMA TextsAre ==
    ASSUME NEW S, NEW n \in Nat
    PROVE  TextsOf(S, n) \subseteq Seq(S)
  BY DEF TextsOf

LEMMA Casts == Seq(Spoken) \subseteq Seq(Word) /\ Seq(Word) \subseteq Text /\ Text \subseteq Seq(Symbol)
<1>1. ASSUME NEW S, NEW T, S \subseteq T PROVE Seq(S) \subseteq Seq(T)
  BY <1>1
<1> QED BY <1>1, Alphabet DEF Text

LEMMA ScriptedIs ==
    /\ Scripted \in Text /\ (\A i \in DOMAIN Scripted : Scripted[i] = "f" => Scripted = <<"f">>)
    /\ ScriptSource \in {"fallback", "rejected"}
<1>1. <<>> \in Text /\ <<"f">> \in Text
  BY DEF Text
<1> QED BY <1>1 DEF Scripted, ScriptSource

\* record: the newest turn of the history is the one just recorded.
LEMMA RecordIs ==
    ASSUME dfHistory \in Seq([command : Command, response : Text]),
           NEW c \in Command, NEW r \in Text, Record(c, r)
    PROVE  /\ dfHistory' \in Seq([command : Command, response : Text])
           /\ dfRecorded' = r
           /\ DfWindow > 0 => dfHistory'[Len(dfHistory')] = [command |-> c, response |-> r]
<1> DEFINE Turn == [command : Command, response : Text]
<1>1. PICK t : t = [command |-> c, response |-> r]
  OBVIOUS
<1>2. t \in Turn
  BY <1>1
<1>3. PICK h : h = Append(dfHistory, t)
  OBVIOUS
<1>4. PICK n \in Nat : n = Len(dfHistory)
  OBVIOUS
<1> HIDE DEF Turn
<1>5. h \in Seq(Turn) /\ Len(h) = n + 1 /\ h[n + 1] = t
  BY <1>2, <1>3, <1>4 DEF Turn
<1>6. PICK k : k = IF Len(h) > DfWindow THEN Len(h) - DfWindow + 1 ELSE 1
  OBVIOUS
<1>7. dfHistory' = SubSeq(h, k, n + 1) /\ dfRecorded' = r
  <2>1. /\ dfHistory' = SubSeq(h, IF Len(h) > DfWindow THEN Len(h) - DfWindow + 1 ELSE 1, Len(h))
        /\ dfRecorded' = r
    BY <1>1, <1>3 DEF Record
  <2> QED BY <1>5, <1>6, <2>1
<1>8. k \in 1..n + 2 /\ (DfWindow > 0 => k <= n + 1)
  BY <1>4, <1>5, <1>6, DefenseAssumption
<1>9. \A i \in k..n + 1 : i \in 1..n + 1
  BY <1>8
<1>10. \A i \in k..n + 1 : h[i] \in Turn
  BY <1>5, <1>9
<1>11. dfHistory' \in Seq(Turn)
  BY <1>5, <1>7, <1>8, <1>10, SubSeqProperties
<1>12. ASSUME DfWindow > 0 PROVE dfHistory'[Len(dfHistory')] = t
  <2>1. k \in 1..n + 1 /\ n + 2 - k \in 1..n + 1 /\ k + (n + 2 - k) - 1 = n + 1
    BY <1>8, <1>12
  <2>2. Len(SubSeq(h, k, n + 1)) = n + 2 - k
    BY <1>5, <1>10, <2>1, SubSeqProperties
  <2>3. SubSeq(h, k, n + 1)[n + 2 - k] = h[n + 1]
    BY <1>5, <1>10, <2>1, SubSeqProperties
  <2> QED BY <1>5, <1>7, <2>2, <2>3
<1> QED BY <1>1, <1>7, <1>11, <1>12 DEF Turn

\* How a command ends that was answered: the response that is recorded is what
\* was sent, or that cut.
EndsWith(r) ==
    /\ Record(dfCommand', r) /\ dfPc' = "ready"
    /\ r \in {dfShipped', Stripped(dfShipped'), Capped(dfShipped')}
    /\ "p" \notin {dfShipped'[i] : i \in DOMAIN dfShipped'} => r \in {dfShipped', Stripped(dfShipped')}
    /\ \A i \in DOMAIN dfShipped' : dfShipped'[i] = "f" => dfShipped' = <<"f">>

LEMMA EndKeepsHistory ==
    ASSUME dfHistory \in Seq([command : Command, response : Text]), dfCommand' \in Command,
           NEW r \in Text, EndsWith(r)
    PROVE  HistoryIsWhatWasSaid' /\ dfHistory' \in Seq([command : Command, response : Text])
<1>1. /\ dfHistory' \in Seq([command : Command, response : Text])
      /\ dfRecorded' = r
      /\ DfWindow > 0 => dfHistory'[Len(dfHistory')] = [command |-> dfCommand', response |-> r]
  <2>1. Record(dfCommand', r)
    BY DEF EndsWith
  <2> QED BY <2>1, RecordIs
<1> QED BY <1>1 DEF EndsWith, HistoryIsWhatWasSaid

LEMMA DfInitInv == DfInit => DfInv
<1> SUFFICES ASSUME DfInit PROVE DfInv
  OBVIOUS
<1>1. DfTypeOK
  <2>1. <<>> \in Text /\ <<>> \in Seq(Word) /\ <<>> \in Seq([command : Command, response : Text])
    BY DEF Text
  <2> QED BY <2>1 DEF DfInit, DfTypeOK
<1>2. SayingInv
  BY DefenseAssumption DEF DfInit, SayingInv
<1>3. NothingPassesUntold /\ HistoryIsWhatWasSaid
  BY DEF DfInit, NothingPassesUntold, HistoryIsWhatWasSaid, DfAnswered
<1> QED BY <1>1, <1>2, <1>3 DEF DfInv

LEMMA TakeKeeps ==
    ASSUME DfInv, NEW raw \in TextsOf(Typed, MaxTyped), NEW isCd \in BOOLEAN, Take(raw, isCd)
    PROVE  DfInv'
<1>1. PICK command : command = Sanitised(raw)
  OBVIOUS
<1>2. command \in Command
  BY <1>1 DEF Command
<1>3. PICK fired \in BOOLEAN : fired <=> ScoreFires(command)
  OBVIOUS
<1>4. PICK answer : answer = IF fired THEN Scripted ELSE <<>>
  OBVIOUS
<1>5. answer \in Text
  <2>1. <<>> \in Text
    BY DEF Text
  <2> QED BY <1>4, <2>1, ScriptedIs
<1>6. dfPc = "ready" /\ dfCommand' = command /\ dfSaid' = <<>> /\ UNCHANGED <<dfStream, dfScripts, dfLost>>
  BY <1>1 DEF Take
<1>7. dfSaid' \in Seq(Word) /\ dfCommand' \in Command
  BY <1>2, <1>6
<1>8. CASE IsBlank(command) \/ fired \/ isCd
  <2>1. /\ Record(command, answer) /\ dfShipped' = answer /\ dfPc' = "ready"
        /\ dfSource' = IF fired THEN ScriptSource ELSE "ai"
    BY <1>1, <1>3, <1>4, <1>6, <1>8 DEF Take
  <2>2. \A i \in DOMAIN answer : answer[i] = "f" => answer = <<"f">>
    BY <1>4, ScriptedIs
  <2>3. EndsWith(answer)
    BY <1>6, <2>1, <2>2 DEF EndsWith
  <2>4. HistoryIsWhatWasSaid' /\ dfHistory' \in Seq([command : Command, response : Text])
    BY <1>5, <1>7, <2>3, EndKeepsHistory DEF DfInv, DfTypeOK
  <2>5. DfTypeOK'
    BY <1>5, <1>6, <1>7, <2>1, <2>4, ScriptedIs DEF DfInv, DfTypeOK
  <2>6. SayingInv'
    BY <1>6, <2>1, DefenseAssumption DEF SayingInv
  <2>7. NothingPassesUntold'
    <3>1. dfSource' = "ai" => dfShipped' = <<>>
      BY <1>4, <2>1, ScriptedIs
    <3> QED BY <2>1, <3>1, NothingThere DEF NothingPassesUntold
  <2> QED BY <2>4, <2>5, <2>6, <2>7 DEF DfInv
<1>9. CASE ~(IsBlank(command) \/ fired \/ isCd)
  <2>1. /\ dfPc' = "asked" /\ dfShipped' = <<>> /\ dfSource' = "none" /\ UNCHANGED dfHistory
        /\ ScanTruncated(command) => "injection truncated" \in dfLines'
    BY <1>1, <1>3, <1>9 DEF Take
  <2>2. DfTypeOK'
    <3>1. <<>> \in Text
      BY DEF Text
    <3> QED BY <1>6, <1>7, <2>1, <3>1 DEF DfInv, DfTypeOK
  <2>3. SayingInv'
    <3>1. Len(<<>>) <= MaxResponse
      BY DefenseAssumption
    <3> QED BY <1>6, <2>1, <3>1 DEF SayingInv
  <2>4. NothingPassesUntold'
    <3>1. HasPattern(NormalForm(command)) => ScanTruncated(command)
      BY <1>3, <1>9 DEF ScoreFires, ScanTruncated, Cut
    <3> QED BY <1>6, <2>1, <3>1 DEF NothingPassesUntold, DfAnswered
  <2>5. HistoryIsWhatWasSaid'
    <3>1. ~DfAnswered'
      BY <2>1 DEF DfAnswered
    <3>2. \A i \in DOMAIN <<>> : FALSE
      OBVIOUS
    <3> QED BY <2>1, <3>1, <3>2 DEF HistoryIsWhatWasSaid
  <2> QED BY <2>2, <2>3, <2>4, <2>5 DEF DfInv
<1> QED BY <1>8, <1>9

\* A command answered by script, before a word was said.
LEMMA ScriptKeeps ==
    ASSUME DfInv, dfPc # "ready", dfShipped = <<>>, AnswerWith(Scripted, ScriptSource)
    PROVE  DfInv'
<1>1. /\ Record(dfCommand, Scripted) /\ dfSource' = ScriptSource /\ dfPc' = "ready"
      /\ UNCHANGED <<dfStream, dfScripts, dfCommand, dfSaid, dfLost>>
  BY DEF AnswerWith
<1>2. dfShipped' = Scripted
  <2>1. dfShipped' = <<>> \o Scripted
    BY DEF AnswerWith
  <2> QED BY <2>1, ScriptedIs DEF Text
<1>3. EndsWith(Scripted)
  BY <1>1, <1>2, ScriptedIs DEF EndsWith
<1>4. dfCommand' \in Command
  BY <1>1 DEF DfInv, DfTypeOK
<1>5. HistoryIsWhatWasSaid' /\ dfHistory' \in Seq([command : Command, response : Text])
  BY <1>3, <1>4, ScriptedIs, EndKeepsHistory DEF DfInv, DfTypeOK
<1>6. DfTypeOK'
  BY <1>1, <1>2, <1>4, <1>5, ScriptedIs DEF DfInv, DfTypeOK
<1>7. SayingInv'
  BY <1>1 DEF DfInv, SayingInv
<1>8. NothingPassesUntold'
  BY <1>1, ScriptedIs DEF NothingPassesUntold
<1> QED BY <1>5, <1>6, <1>7, <1>8 DEF DfInv

LEMMA FailKeeps == ASSUME DfInv, Fail PROVE DfInv'
<1>1. dfPc # "ready" /\ dfShipped = <<>>
  BY DEF Fail, NothingSaid, DfInv, SayingInv
<1>2. AnswerWith(Scripted, ScriptSource)
  BY DEF Fail
<1> QED BY <1>1, <1>2, ScriptKeeps

LEMMA ReplyKeeps ==
    ASSUME DfInv, NEW content \in TextsOf(Spoken, MaxSpoken), Reply(content)
    PROVE  DfInv'
<1>1. dfPc = "asked" /\ dfShipped = <<>>
  BY DEF Reply, DfInv, SayingInv
<1>2. PICK text : text = Capped(content)
  OBVIOUS
<1>3. text \in Seq(Spoken)
  BY <1>2, TextsAre, CappedType, DefenseAssumption
<1>4. CASE ~Checked(text)
  <2>1. AnswerWith(Scripted, ScriptSource)
    BY <1>2, <1>4 DEF Reply
  <2> QED BY <1>1, <2>1, ScriptKeeps
<1>5. CASE Checked(text)
  <2>1. AnswerWith(text, "ai")
    BY <1>2, <1>5 DEF Reply
  <2>2. /\ Record(dfCommand, text) /\ dfSource' = "ai" /\ dfPc' = "ready"
        /\ UNCHANGED <<dfStream, dfScripts, dfCommand, dfSaid, dfLost>>
    BY <2>1 DEF AnswerWith
  <2>3. dfShipped' = text
    <3>1. dfShipped' = <<>> \o text
      BY <1>1, <2>1 DEF AnswerWith
    <3> QED BY <1>3, <3>1
  <2>4. text \in Text /\ text \in Seq(Symbol)
    BY <1>3, Casts
  <2>5. \A i \in DOMAIN text : text[i] # "f"
    BY <1>3, Alphabet
  <2>6. EndsWith(text)
    BY <2>2, <2>3, <2>5 DEF EndsWith
  <2>7. dfCommand' \in Command
    BY <1>1, <2>2 DEF DfInv, DfTypeOK
  <2>8. HistoryIsWhatWasSaid' /\ dfHistory' \in Seq([command : Command, response : Text])
    BY <2>4, <2>6, <2>7, EndKeepsHistory DEF DfInv, DfTypeOK
  <2>9. DfTypeOK'
    BY <2>2, <2>3, <2>4, <2>7, <2>8 DEF DfInv, DfTypeOK
  <2>10. SayingInv'
    BY <2>2 DEF DfInv, SayingInv
  <2>11. NothingPassesUntold'
    <3>1. ~(HasPattern(NormalForm(text)) /\ Len(NormalForm(text)) <= ScanCap)
      BY <1>5, <2>4, ScanSeesAll DEF Checked
    <3> QED BY <2>2, <2>3, <3>1 DEF NothingPassesUntold
  <2> QED BY <2>8, <2>9, <2>10, <2>11 DEF DfInv
<1> QED BY <1>4, <1>5

LEMMA SayFirstKeeps == ASSUME DfInv, SayFirst PROVE DfInv'
<1>1. /\ dfPc = "asked" /\ dfStream /\ dfPc' = "speaking"
      /\ UNCHANGED <<dfStream, dfScripts, dfCommand, dfHistory, dfCount, dfLines, dfSource, dfRecorded, dfLost>>
  BY DEF SayFirst
<1>2. dfSaid' = dfShipped' /\ (dfSaid' = <<>> \/ dfSaid' = <<"p">>)
  BY DEF SayFirst, DfInv, SayingInv
<1>3. dfSaid' \in Seq(Word) /\ dfShipped' \in Text
  <2>1. <<>> \in Seq(Word) /\ <<"p">> \in Seq(Word)
    BY DEF Word
  <2> QED BY <1>2, <2>1, Casts
<1>4. DfTypeOK'
  BY <1>1, <1>3 DEF DfInv, DfTypeOK
<1>5. SayingInv'
  <2>1. Len(<<>>) <= MaxResponse
    BY DefenseAssumption
  <2>2. ~Silent(<<"p">>)
    BY DEF Silent
  <2> QED BY <1>1, <1>2, <2>1, <2>2 DEF SayingInv
<1>6. NothingPassesUntold'
  BY <1>1 DEF DfInv, NothingPassesUntold, DfAnswered
<1>7. HistoryIsWhatWasSaid'
  <2>1. \A i \in DOMAIN dfShipped' : dfShipped'[i] # "f"
    BY <1>2
  <2> QED BY <1>1, <2>1 DEF HistoryIsWhatWasSaid, DfAnswered
<1> QED BY <1>4, <1>5, <1>6, <1>7 DEF DfInv

\* Where no pre-message was said, every character counts.
LEMMA SilentCounts ==
    ASSUME NEW n \in Nat, dfSaid \in Seq(Word), n = Len(dfSaid), Silent(dfSaid)
    PROVE  SaidByModel = n
<1>1. DOMAIN dfSaid = 1..n
  OBVIOUS
<1>2. {i \in DOMAIN dfSaid : dfSaid[i] # "p"} = 1..n
  BY <1>1 DEF Silent
<1>3. Cardinality(1..n) = n
  <2>1. 1 \in Int /\ n \in Int /\ n - 1 + 1 = n /\ (1 > n => n = 0)
    OBVIOUS
  <2>2. Cardinality(1..n) = IF 1 > n THEN 0 ELSE n - 1 + 1
    BY <2>1, FS_Interval
  <2> QED BY <2>1, <2>2
<1> QED BY <1>2, <1>3 DEF SaidByModel

LEMMA SayKeeps ==
    ASSUME DfInv, NEW chunk \in TextsOf(Spoken, MaxSpoken), Say(chunk)
    PROVE  DfInv'
<1>1. /\ dfPc = "speaking" /\ SaidByModel + Len(chunk) <= MaxResponse
      /\ UNCHANGED <<dfStream, dfScripts, dfPc, dfCommand, dfHistory, dfCount, dfLines, dfSource, dfRecorded, dfLost>>
  BY DEF Say
<1>2. dfSaid' = dfSaid \o chunk /\ dfShipped' = dfSaid'
  BY DEF Say, DfInv, SayingInv
<1>3. chunk \in Seq(Word) /\ dfSaid \in Seq(Word)
  BY TextsAre, Casts, DefenseAssumption DEF DfInv, DfTypeOK
<1>4. dfSaid' \in Seq(Word)
  BY <1>2, <1>3, ConcatProperties
<1>5. PICK n \in Nat : n = Len(dfSaid)
  BY <1>3
<1>6. PICK k \in Nat : k = Len(chunk)
  BY <1>3
<1>7. DfTypeOK'
  BY <1>1, <1>2, <1>4, Casts DEF DfInv, DfTypeOK
<1>8. SayingInv'
  <2>1. /\ Len(dfSaid') = n + k /\ DOMAIN dfSaid = 1..n /\ DOMAIN dfSaid' = 1..n + k
        /\ \A i \in 1..n : dfSaid'[i] = dfSaid[i]
    BY <1>2, <1>3, <1>4, <1>5, <1>6, ConcatProperties
  <2>2. ASSUME Silent(dfSaid') PROVE Len(dfSaid') <= MaxResponse
    <3>1. Silent(dfSaid)
      BY <2>1, <2>2 DEF Silent
    <3>2. SaidByModel = n
      BY <1>3, <1>5, <3>1, SilentCounts
    <3> QED BY <1>1, <1>6, <2>1, <3>2
  <2> QED BY <1>1, <1>2, <2>2 DEF SayingInv, Silent, DfInv
<1>9. NothingPassesUntold'
  BY <1>1 DEF DfInv, NothingPassesUntold, DfAnswered
<1>10. HistoryIsWhatWasSaid'
  <2>1. \A i \in DOMAIN dfShipped' : dfShipped'[i] # "f"
    BY <1>2, <1>4, Alphabet
  <2> QED BY <1>1, <2>1 DEF HistoryIsWhatWasSaid, DfAnswered
<1> QED BY <1>7, <1>8, <1>9, <1>10 DEF DfInv

\* A stream that is over, to its end or to a failure: `text` is what was said, or
\* that cut.
LEMMA ClosedKeeps ==
    ASSUME DfInv, dfPc = "speaking", NEW text, text \in {dfSaid, Capped(dfSaid)}, Noted(text), Closed(text)
    PROVE  DfInv'
<1>1. /\ Record(dfCommand, text) /\ dfSource' = "ai" /\ dfPc' = "ready"
      /\ UNCHANGED <<dfStream, dfScripts, dfCommand, dfSaid, dfShipped, dfLost>>
  BY DEF Closed
<1>2. dfStream /\ dfShipped = dfSaid /\ dfSaid \in Seq(Word) /\ dfCommand' \in Command
  BY <1>1 DEF DfInv, SayingInv, DfTypeOK
<1>3. text \in Text /\ dfSaid \in Seq(Symbol) /\ text \in Seq(Symbol)
  BY <1>2, CappedType, Casts
<1>4. ASSUME Silent(dfSaid) PROVE text \in {dfSaid, Stripped(dfSaid)}
  BY <1>2, <1>4, CappedIs DEF DfInv, SayingInv
<1>5. "p" \notin {dfShipped[i] : i \in DOMAIN dfShipped} => Silent(dfSaid)
  BY <1>2 DEF Silent
<1>6. EndsWith(text)
  <2>1. \A i \in DOMAIN dfShipped : dfShipped[i] # "f"
    BY <1>2, Alphabet
  <2> QED BY <1>1, <1>2, <1>4, <1>5, <2>1 DEF EndsWith
<1>7. HistoryIsWhatWasSaid' /\ dfHistory' \in Seq([command : Command, response : Text])
  BY <1>2, <1>3, <1>6, EndKeepsHistory DEF DfInv, DfTypeOK
<1>8. DfTypeOK'
  BY <1>1, <1>2, <1>7 DEF DfInv, DfTypeOK
<1>9. SayingInv'
  BY <1>1 DEF DfInv, SayingInv, Silent
<1>10. ASSUME HasPattern(NormalForm(dfSaid)), Len(NormalForm(dfSaid)) <= ScanCap, Silent(dfSaid)
       PROVE  "fired" \in dfLines'
  <2>1. HasPattern(NormalForm(text)) /\ Len(NormalForm(text)) <= ScanCap
    <3>1. CASE text = dfSaid
      BY <1>10, <3>1
    <3>2. CASE text = Stripped(dfSaid)
      <4>1. /\ HasPattern(NormalForm(text))
            /\ Len(NormalForm(text)) <= Len(NormalForm(dfSaid))
        BY <1>3, <1>10, <3>2, ScanOfStripped
      <4>2. Len(NormalForm(text)) \in Nat /\ Len(NormalForm(dfSaid)) \in Nat
        BY <1>3, NormalFormType
      <4> QED BY <1>10, <4>1, <4>2, DefenseAssumption
    <3> QED BY <1>4, <1>10, <3>1, <3>2
  <2>2. CheckFires(text)
    BY <1>3, <2>1, ScanSeesAll
  <2> QED BY <2>2 DEF Noted
<1>11. NothingPassesUntold'
  BY <1>1, <1>2, <1>5, <1>10 DEF NothingPassesUntold
<1> QED BY <1>7, <1>8, <1>9, <1>11 DEF DfInv

\* The lure goes away, or the handler fails: nothing is recorded.
LEMMA LostKeeps == ASSUME DfInv, Abandon \/ GuardError PROVE DfInv'
<1>1. /\ dfPc' = "ready" /\ dfLost' = TRUE
      /\ UNCHANGED <<dfStream, dfScripts, dfCommand, dfSaid, dfHistory, dfCount, dfRecorded>>
  BY DEF Abandon, GuardError
<1>2. dfShipped' \in {dfShipped, Scripted} /\ dfSource' \in {dfSource, "ai", ScriptSource}
  BY DEF Abandon, GuardError
<1>3. DfTypeOK'
  BY <1>1, <1>2, ScriptedIs DEF DfInv, DfTypeOK
<1>4. SayingInv'
  BY <1>1 DEF DfInv, SayingInv, Silent
<1>5. NothingPassesUntold'
  BY <1>1 DEF NothingPassesUntold, DfAnswered
<1>6. HistoryIsWhatWasSaid'
  <2>1. \A i \in DOMAIN dfShipped' : dfShipped'[i] = "f" => dfShipped' = <<"f">>
    BY <1>2, ScriptedIs DEF DfInv, HistoryIsWhatWasSaid
  <2> QED BY <1>1, <2>1 DEF HistoryIsWhatWasSaid, DfAnswered
<1> QED BY <1>3, <1>4, <1>5, <1>6 DEF DfInv

LEMMA DfInvStep == DfInv /\ [DfNext]_dfVars => DfInv'
<1> SUFFICES ASSUME DfInv, [DfNext]_dfVars PROVE DfInv'
  OBVIOUS
<1>1. CASE \E raw \in TextsOf(Typed, MaxTyped), isCd \in BOOLEAN : Take(raw, isCd)
  BY <1>1, TakeKeeps
<1>2. CASE \E content \in TextsOf(Spoken, MaxSpoken) : Reply(content) \/ Say(content)
  BY <1>2, ReplyKeeps, SayKeeps
<1>3. CASE Fail
  BY <1>3, FailKeeps
<1>4. CASE SayFirst
  BY <1>4, SayFirstKeeps
<1>5. CASE Finish \/ BreakOff
  <2>1. dfPc = "speaking" /\ \E text \in {dfSaid, Capped(dfSaid)} : Noted(text) /\ Closed(text)
    BY <1>5 DEF Finish, BreakOff
  <2> QED BY <2>1, ClosedKeeps
<1>6. CASE Abandon \/ GuardError
  BY <1>6, LostKeeps
<1>7. CASE UNCHANGED dfVars
  <2> USE <1>7 DEF dfVars, DfInv
  <2>1. DfTypeOK'
    BY DEF DfTypeOK
  <2>2. SayingInv'
    BY DEF SayingInv, Silent
  <2>3. NothingPassesUntold'
    BY DEF NothingPassesUntold, DfAnswered
  <2>4. HistoryIsWhatWasSaid'
    BY DEF HistoryIsWhatWasSaid, DfAnswered
  <2> QED BY <2>1, <2>2, <2>3, <2>4
<1> QED BY <1>1, <1>2, <1>3, <1>4, <1>5, <1>6, <1>7 DEF DfNext

\* What the defenses let through (bridge/server.py, _run_command and
\* _run_command_stream with sanitize_command, InjectionScorer, OutputFilter and
\* SessionContext.record): for every length of commands and answers, every cap the
\* settings admit and every history window, whatever has the pattern in its normal
\* form and passes is told, unless the scan was cut, and what the session
\* remembers is what was sent.
THEOREM DefenseKept == DfSpec => []DefenseSound
<1>1. DfInit => DfInv
  BY DfInitInv
<1>2. DfInv /\ [DfNext]_dfVars => DfInv'
  BY DfInvStep
<1>3. DfInv => DefenseSound
  BY DEF DfInv, DefenseSound
<1> QED BY <1>1, <1>2, <1>3, PTL DEF DfSpec

=============================================================================
