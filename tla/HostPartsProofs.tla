-------------------------- MODULE HostPartsProofs ---------------------------
(***************************************************************************)
(* Parts of the host the lure runs on, each with theorems of its own: the  *)
(* databases of addresses its units refresh, the life of the lure as a     *)
(* service, and the wizard of the first boot.                              *)
(***************************************************************************)
EXTENDS GeoUpdate, LureLife, FirstBoot, SequenceTheorems, TLAPS

-----------------------------------------------------------------------------
(* The databases of addresses, whatever runs die, fail or follow each      *)
(* other, for any number of runs and builds.                               *)

Editions == {"City", "ASN"}

LEMMA EditionsAre ==
    /\ Range(Edition) = Editions
    /\ Len(Edition) = 2 /\ Edition[1] \in Editions /\ Edition[2] \in Editions
    /\ Editions = {Edition[1], Edition[2]}
  BY DEF Range, Edition, Editions

Copying == {"first", "second", "replace"}
Active(r) == guRun[r].step \notin Stopped

GuSteps == Stopped \union Copying \union {"manifest", "archive", "check"}
HandOfRun == [step : GuSteps, at : {1, 2}, want : Nat, have : Nat, file : Nat]

GuTypeOK ==
    /\ guBuild \in [Editions -> Nat \ {0}]
    /\ guRun \in [Run -> HandOfRun]
    /\ guFiles \in Seq(Nat \X Nat)
    /\ guStaged \in [Editions -> 0..Len(guFiles)]
    /\ guDatabase \in [Editions -> 0..Len(guFiles)]
    /\ guNewest \in [Editions -> Nat]
    /\ guOverlapped \in BOOLEAN

\* A staged name leads to an inode of its own.
NamesInv ==
    \A e, f \in Editions : guStaged[e] # NoInode =>
        guStaged[e] # guDatabase[f] /\ (e # f => guStaged[e] # guStaged[f])

\* A run that has come to an edition has installed those before it.
BehindInv ==
    \A r \in Run :
        /\ guRun[r].at = 2 => guDatabase[Edition[1]] # NoInode
        /\ guRun[r].step = "succeeded" => guRun[r].at = 2 /\ guDatabase[Edition[2]] # NoInode

\* What a run has in hand: no build older than the one in place, and in the staged file as much of it as it copied.
HandInv(r) ==
    LET e == Of(r)
        s == guRun[r].step
        file == guFiles[guRun[r].file]
    IN
    /\ s \in {"archive", "check"} \union Copying => guRun[r].want \in guNewest[e]..guBuild[e] /\ guRun[r].want # Torn
    /\ s \in Copying => /\ guRun[r].have = guRun[r].want
                        /\ guRun[r].file = guStaged[e] /\ guStaged[e] # NoInode
    /\ s \in {"second", "replace"} => file[1] = guRun[r].have
    /\ s = "replace" => file[2] = guRun[r].have

\* One run at a time.
ApartInv ==
    ~guOverlapped =>
        /\ \A q, r \in Run : Active(q) /\ Active(r) => q = r
        /\ \A r \in Run : HandInv(r)
        /\ \A e \in Editions : guNewest[e] <= guBuild[e]
        /\ \A e \in Editions :
               guDatabase[e] # NoInode => guFiles[guDatabase[e]] = <<guNewest[e], guNewest[e]>>

GuInv == GuTypeOK /\ NamesInv /\ BehindInv /\ ApartInv

LEMMA InitGu == GuInit => GuInv
<1> SUFFICES ASSUME GuInit PROVE GuInv
  OBVIOUS
<1> USE EditionsAre DEF GuInit, NotRun, NoInode, Torn
<1>1. GuTypeOK
  <2>1. guRun \in [Run -> HandOfRun]
    BY DEF HandOfRun, GuSteps, Stopped
  <2>2. guFiles \in Seq(Nat \X Nat) /\ Len(guFiles) = 0
    OBVIOUS
  <2>3. guBuild \in [Editions -> Nat \ {0}] /\ guNewest \in [Editions -> Nat]
    OBVIOUS
  <2>4. guStaged \in [Editions -> 0..0] /\ guDatabase \in [Editions -> 0..0]
    OBVIOUS
  <2>5. guOverlapped \in BOOLEAN
    OBVIOUS
  <2> HIDE DEF GuInit
  <2> QED BY <2>1, <2>2, <2>3, <2>4, <2>5 DEF GuTypeOK
<1>2. NamesInv
  BY DEF NamesInv
<1>3. BehindInv
  BY DEF BehindInv
<1>4. ApartInv
  BY DEF ApartInv, Active, HandInv, Of, Stopped, Copying
<1> QED BY <1>1, <1>2, <1>3, <1>4 DEF GuInv

LEMMA GuSafe == GuInv => GeoSound
<1> SUFFICES ASSUME GuInv PROVE GeoSound
  OBVIOUS
<1>1. DatabasesWhole
  BY EditionsAre DEF GuInv, ApartInv, DatabasesWhole
<1>2. SuccessInstalled
  BY EditionsAre DEF GuInv, BehindInv, SuccessInstalled, At
<1> QED BY <1>1, <1>2 DEF GeoSound

\* What is true of every run at a step: its edition, and that nobody else moves while runs do not overlap.
LEMMA RunType ==
  ASSUME GuInv, NEW r \in Run
  PROVE  /\ Of(r) \in Editions
         /\ guRun[r].want \in Nat /\ guRun[r].have \in Nat /\ guRun[r].file \in Nat /\ guRun[r].at \in {1, 2}
         /\ Of(r) = Edition[guRun[r].at]
  BY EditionsAre DEF GuInv, GuTypeOK, HandOfRun, Of

\* A run that only goes on to another step with other things in hand touches nothing on disk.
LEMMA HandOnly ==
  ASSUME GuInv, NEW r \in Run, UNCHANGED <<guBuild, guDisk, guOverlapped>>,
         guRun' = [guRun EXCEPT ![r] = guRun'[r]],
         guRun'[r] \in HandOfRun,
         Active(r), guRun'[r].at = guRun[r].at, guRun'[r].step # "succeeded",
         ~guOverlapped => HandInv(r)'
  PROVE  GuInv'
<1> USE DEF guDisk
<1>1. \A q \in Run \ {r} : guRun'[q] = guRun[q]
  BY DEF GuInv, GuTypeOK
<1>2. GuTypeOK'
  BY DEF GuInv, GuTypeOK
<1>3. NamesInv' /\ BehindInv'
  BY <1>1 DEF GuInv, NamesInv, BehindInv
<1>4. ApartInv'
  <2> SUFFICES ASSUME ~guOverlapped PROVE ApartInv'
    BY DEF ApartInv
  <2>1. \A q \in Run : HandInv(q)'
    BY <1>1 DEF GuInv, ApartInv, HandInv, Of
  <2>2. \A p, q \in Run : Active(p)' /\ Active(q)' => p = q
    BY <1>1 DEF GuInv, ApartInv, Active
  <2> QED BY <2>1, <2>2 DEF GuInv, ApartInv
<1> QED BY <1>2, <1>3, <1>4 DEF GuInv

LEMMA GuStartKeeps ==
  ASSUME GuInv, NEW r \in Run, StartUpdate(r)
  PROVE  GuInv'
<1> USE DEF guDisk
<1>1. /\ UNCHANGED <<guBuild, guFiles, guStaged, guDatabase, guNewest>>
      /\ guRun[r].step = "none" /\ guRun' = [guRun EXCEPT ![r].step = "manifest"]
      /\ guOverlapped' = (guOverlapped \/ \E q \in Run : Active(q))
  BY DEF StartUpdate, At, Go, Active
<1>2. guRun'[r].step = "manifest" /\ guRun'[r].at = guRun[r].at /\ \A q \in Run \ {r} : guRun'[q] = guRun[q]
  BY <1>1 DEF GuInv, GuTypeOK, HandOfRun
<1>3. GuTypeOK'
  <2>1. guRun' \in [Run -> HandOfRun]
    <3>1. guRun[r] \in HandOfRun
      BY DEF GuInv, GuTypeOK
    <3>2. [guRun[r] EXCEPT !.step = "manifest"] \in HandOfRun
      BY <3>1 DEF HandOfRun, GuSteps
    <3> QED BY <1>1, <3>2 DEF GuInv, GuTypeOK
  <2>2. guOverlapped' \in BOOLEAN
    BY <1>1
  <2> QED BY <1>1, <2>1, <2>2 DEF GuInv, GuTypeOK
<1>4. NamesInv' /\ BehindInv'
  BY <1>1, <1>2 DEF GuInv, NamesInv, BehindInv
<1>5. ApartInv'
  <2> SUFFICES ASSUME ~guOverlapped' PROVE ApartInv'
    BY DEF ApartInv
  <2>1. ~guOverlapped /\ \A q \in Run : ~Active(q)
    BY <1>1
  <2>2. \A q \in Run : Active(q)' => q = r
    BY <1>2, <2>1 DEF Active
  <2>3. \A q \in Run : HandInv(q)'
    BY <1>2, <2>1 DEF HandInv, Copying, Active, Stopped
  <2> QED BY <1>1, <2>1, <2>2, <2>3 DEF GuInv, ApartInv
<1> QED BY <1>3, <1>4, <1>5 DEF GuInv

LEMMA PublishKeeps ==
  ASSUME GuInv, NEW e \in Editions, Publish(e)
  PROVE  GuInv'
<1> USE DEF guDisk
<1>1. /\ UNCHANGED <<guRun, guFiles, guStaged, guDatabase, guNewest, guOverlapped>>
      /\ guBuild' = [guBuild EXCEPT ![e] = @ + 1]
  BY DEF Publish
<1>2. GuTypeOK'
  BY <1>1 DEF GuInv, GuTypeOK
<1>3. NamesInv' /\ BehindInv'
  BY <1>1 DEF GuInv, NamesInv, BehindInv
<1>4. \A f \in Editions : guBuild'[f] \in Nat /\ guBuild'[f] >= guBuild[f]
  BY <1>1 DEF GuInv, GuTypeOK
<1>5. ApartInv'
  <2> SUFFICES ASSUME ~guOverlapped PROVE ApartInv'
    BY <1>1 DEF ApartInv
  <2>1. ASSUME NEW q \in Run PROVE HandInv(q)'
    <3>1. HandInv(q) /\ Of(q) \in Editions /\ Of(q)' = Of(q)
      BY <1>1, RunType DEF GuInv, ApartInv, Of
    <3>2. guNewest[Of(q)] \in Nat /\ guBuild[Of(q)] \in Nat
      BY <3>1 DEF GuInv, GuTypeOK
    <3> QED BY <1>1, <1>4, <3>1, <3>2 DEF HandInv
  <2>2. \A f \in Editions : guNewest'[f] <= guBuild'[f]
    BY <1>1, <1>4 DEF GuInv, GuTypeOK, ApartInv
  <2> QED BY <1>1, <2>1, <2>2 DEF GuInv, ApartInv, Active
<1> QED BY <1>2, <1>3, <1>5 DEF GuInv

LEMMA ManifestKeeps ==
  ASSUME GuInv, NEW r \in Run, Manifest(r)
  PROVE  GuInv'
<1>1. /\ UNCHANGED <<guBuild, guDisk, guOverlapped>> /\ guRun[r].step = "manifest"
      /\ guRun' = [guRun EXCEPT ![r] = [guRun[r] EXCEPT !.step = "archive", !.want = guBuild[Of(r)]]]
  BY DEF Manifest, At, GuInv, GuTypeOK, HandOfRun
<1>2. guRun'[r] = [guRun[r] EXCEPT !.step = "archive", !.want = guBuild[Of(r)]] /\ guRun' = [guRun EXCEPT ![r] = guRun'[r]]
  BY <1>1 DEF GuInv, GuTypeOK
<1>3. Of(r) \in Editions /\ guBuild[Of(r)] \in Nat \ {0} /\ guRun[r] \in HandOfRun
  BY RunType DEF GuInv, GuTypeOK
<1>4. guRun'[r] \in HandOfRun /\ guRun'[r].at = guRun[r].at /\ guRun'[r].step = "archive"
      /\ guRun'[r].want = guBuild[Of(r)]
  BY <1>2, <1>3 DEF HandOfRun, GuSteps
<1>5. ~guOverlapped => HandInv(r)'
  BY <1>1, <1>3, <1>4 DEF HandInv, Of, Copying, Torn, GuInv, GuTypeOK, ApartInv, guDisk
<1>6. Active(r)
  BY <1>1 DEF Active, Stopped
<1> QED BY <1>1, <1>2, <1>4, <1>5, <1>6, HandOnly

LEMMA DownloadKeeps ==
  ASSUME GuInv, NEW r \in Run, Download(r)
  PROVE  GuInv'
<1>1. PICK got \in {guBuild[Of(r)], Torn} :
          guRun' = [guRun EXCEPT ![r] = [guRun[r] EXCEPT !.step = "check", !.have = got]]
  BY DEF Download, GuInv, GuTypeOK, HandOfRun
<1>2. UNCHANGED <<guBuild, guDisk, guOverlapped>> /\ guRun[r].step = "archive"
  BY DEF Download, At
<1>3. guRun'[r] = [guRun[r] EXCEPT !.step = "check", !.have = got] /\ guRun' = [guRun EXCEPT ![r] = guRun'[r]]
  BY <1>1 DEF GuInv, GuTypeOK
<1>4. got \in Nat /\ guRun[r] \in HandOfRun
  BY RunType DEF GuInv, GuTypeOK, Torn
<1>5. guRun'[r] \in HandOfRun /\ guRun'[r].at = guRun[r].at /\ guRun'[r].step = "check"
      /\ guRun'[r].want = guRun[r].want
  BY <1>3, <1>4 DEF HandOfRun, GuSteps
<1>6. ~guOverlapped => HandInv(r)'
  BY <1>2, <1>5 DEF HandInv, Of, Copying, GuInv, ApartInv, guDisk
<1>7. Active(r)
  BY <1>2 DEF Active, Stopped
<1> QED BY <1>2, <1>3, <1>5, <1>6, <1>7, HandOnly

LEMMA StoppingKeeps ==
  ASSUME GuInv, NEW r \in Run, FailUpdate(r) \/ DieUpdating(r)
  PROVE  GuInv'
<1>1. PICK s \in {"failed", "dead"} : guRun' = [guRun EXCEPT ![r] = [guRun[r] EXCEPT !.step = s]]
  BY DEF FailUpdate, DieUpdating, Go, GuInv, GuTypeOK, HandOfRun
<1>2. UNCHANGED <<guBuild, guDisk, guOverlapped>> /\ Active(r)
  BY DEF FailUpdate, DieUpdating, Active, Stopped
<1>3. guRun'[r] = [guRun[r] EXCEPT !.step = s] /\ guRun' = [guRun EXCEPT ![r] = guRun'[r]]
  BY <1>1 DEF GuInv, GuTypeOK
<1>4. guRun'[r] \in HandOfRun /\ guRun'[r].at = guRun[r].at /\ guRun'[r].step = s
  <2>1. guRun[r] \in HandOfRun
    BY DEF GuInv, GuTypeOK
  <2>2. s \in GuSteps
    BY DEF GuSteps, Stopped
  <2> QED BY <1>3, <2>1, <2>2 DEF HandOfRun
<1>5. HandInv(r)'
  BY <1>4 DEF HandInv, Copying
<1> QED BY <1>2, <1>3, <1>4, <1>5, HandOnly

\* With one run at a time, a step of that run leaves nothing to ask of the others.
LEMMA OthersIdle ==
  ASSUME GuInv, NEW r \in Run, Active(r), ~guOverlapped,
         \A q \in Run \ {r} : guRun'[q] = guRun[q]
  PROVE  /\ \A q \in Run \ {r} : HandInv(q)'
         /\ \A p, q \in Run : Active(p)' /\ Active(q)' => p = q
<1>1. \A q \in Run \ {r} : ~Active(q) /\ ~Active(q)'
  BY DEF GuInv, ApartInv, Active
<1>2. \A q \in Run \ {r} : HandInv(q)'
  BY <1>1 DEF HandInv, Active, Copying, Stopped
<1> QED BY <1>1, <1>2

LEMMA OpenKeeps ==
  ASSUME GuInv, NEW r \in Run, OpenStaged(r)
  PROVE  GuInv'
<1> DEFINE e == Of(r)
           n == Len(guFiles)
           i == IF guStaged[e] # NoInode THEN guStaged[e] ELSE n + 1
           m == IF i > n THEN i ELSE n
<1>1. /\ e \in Editions /\ guRun[r] \in HandOfRun /\ n \in Nat /\ guStaged[e] \in 0..n
      /\ guFiles \in [1..n -> Nat \X Nat]
  BY RunType DEF GuInv, GuTypeOK
<1>2. i \in 1..(n + 1) /\ m \in Nat /\ n <= m /\ i <= m /\ 1..m \subseteq 1..n \union {i}
  BY <1>1 DEF NoInode
<1>3. /\ guRun[r].step = "check" /\ guRun[r].have = guRun[r].want
      /\ guRun' = [guRun EXCEPT ![r] = [guRun[r] EXCEPT !.step = "first", !.file = i]]
      /\ guStaged' = [guStaged EXCEPT ![e] = i]
      /\ guFiles' = [j \in 1..m |-> IF j = i THEN <<Torn, Torn>> ELSE guFiles[j]]
      /\ UNCHANGED <<guBuild, guDatabase, guNewest, guOverlapped>>
  BY DEF OpenStaged, At, ChecksumMatches, GuInv, GuTypeOK, HandOfRun
<1> HIDE DEF e, n, i, m
<1>4. guFiles' \in [1..m -> Nat \X Nat]
  BY <1>1, <1>2, <1>3 DEF Torn
<1>5. guFiles' \in Seq(Nat \X Nat) /\ Len(guFiles') = m
  BY <1>2, <1>4
<1>6. /\ guRun'[r] \in HandOfRun /\ guRun'[r].at = guRun[r].at /\ guRun'[r].step = "first"
      /\ guRun'[r].want = guRun[r].want /\ guRun'[r].have = guRun[r].have /\ guRun'[r].file = i
  <2>1. guRun'[r] = [guRun[r] EXCEPT !.step = "first", !.file = i]
    BY <1>3 DEF GuInv, GuTypeOK
  <2>2. "first" \in GuSteps /\ i \in Nat
    BY <1>1, <1>2 DEF GuSteps, Copying
  <2> QED BY <1>1, <2>1, <2>2 DEF HandOfRun
<1>7. \A q \in Run \ {r} : guRun'[q] = guRun[q]
  BY <1>3 DEF GuInv, GuTypeOK
<1>8. guStaged' \in [Editions -> 0..m] /\ guDatabase' \in [Editions -> 0..m]
  BY <1>1, <1>2, <1>3 DEF GuInv, GuTypeOK, n
<1>9. GuTypeOK'
  <2>1. guRun' \in [Run -> HandOfRun]
    BY <1>3, <1>6, <1>7 DEF GuInv, GuTypeOK
  <2> QED BY <1>3, <1>5, <1>8, <2>1 DEF GuInv, GuTypeOK
<1>10. \A f \in Editions : guDatabase[f] # i /\ (f # e => guStaged[f] # i)
  <2>1. CASE guStaged[e] # NoInode
    BY <1>1, <2>1 DEF GuInv, NamesInv, i
  <2>2. CASE guStaged[e] = NoInode
    BY <1>1, <2>2 DEF GuInv, GuTypeOK, i, n
  <2> QED BY <2>1, <2>2
<1>11. NamesInv'
  <2> SUFFICES ASSUME NEW f \in Editions, NEW g \in Editions, guStaged'[f] # NoInode
               PROVE  guStaged'[f] # guDatabase'[g] /\ (f # g => guStaged'[f] # guStaged'[g])
    BY DEF NamesInv
  <2>1. guStaged'[e] = i /\ \A h \in Editions \ {e} : guStaged'[h] = guStaged[h]
    BY <1>1, <1>3 DEF GuInv, GuTypeOK
  <2> QED BY <1>1, <1>3, <1>10, <2>1 DEF GuInv, NamesInv
<1>12. BehindInv'
  BY <1>3, <1>6, <1>7 DEF GuInv, BehindInv
<1>13. ApartInv'
  <2> SUFFICES ASSUME ~guOverlapped PROVE ApartInv'
    BY <1>3 DEF ApartInv
  <2>1. Active(r)
    BY <1>3 DEF Active, Stopped
  <2>2. HandInv(r) /\ Of(r)' = e
    BY <1>6 DEF GuInv, ApartInv, Of, e
  <2>3. HandInv(r)'
    BY <1>1, <1>2, <1>3, <1>6, <2>2 DEF HandInv, Copying, NoInode, e, GuInv, GuTypeOK
  <2>4. \A f \in Editions : guDatabase[f] # NoInode => guFiles'[guDatabase[f]] = guFiles[guDatabase[f]]
    <3> SUFFICES ASSUME NEW f \in Editions, guDatabase[f] # NoInode
                 PROVE  guFiles'[guDatabase[f]] = guFiles[guDatabase[f]]
      OBVIOUS
    <3>1. guDatabase[f] \in 0..n
      BY DEF GuInv, GuTypeOK, n
    <3>2. guDatabase[f] \in 1..m /\ guDatabase[f] # i
      BY <1>1, <1>2, <1>10, <3>1 DEF NoInode
    <3> QED BY <1>3, <3>2
  <2> QED BY <1>3, <1>7, <2>1, <2>3, <2>4, OthersIdle DEF GuInv, ApartInv
<1> QED BY <1>9, <1>11, <1>12, <1>13 DEF GuInv

LEMMA CopyKeeps ==
  ASSUME GuInv, NEW r \in Run, Copy(r)
  PROVE  GuInv'
<1> DEFINE x == guRun[r].file
           h == guRun[r].have
<1>1. PICK half \in {1, 2}, next \in {"second", "replace"} :
          /\ guRun[r].step = (IF half = 1 THEN "first" ELSE "second")
          /\ next = (IF half = 1 THEN "second" ELSE "replace")
          /\ guRun' = [guRun EXCEPT ![r] = [guRun[r] EXCEPT !.step = next]]
          /\ guFiles' = [guFiles EXCEPT ![x] = [guFiles[x] EXCEPT ![half] = h]]
          /\ UNCHANGED <<guBuild, guStaged, guDatabase, guNewest, guOverlapped>>
  BY DEF Copy, CopyHalf, At, Go, GuInv, GuTypeOK, HandOfRun
<1>2. Of(r) \in Editions /\ guRun[r] \in HandOfRun /\ h \in Nat /\ x \in Nat
  BY RunType DEF GuInv, GuTypeOK
<1> HIDE DEF x, h
<1>3. /\ guRun'[r] \in HandOfRun /\ guRun'[r].at = guRun[r].at /\ guRun'[r].step = next
      /\ guRun'[r].want = guRun[r].want /\ guRun'[r].have = guRun[r].have /\ guRun'[r].file = guRun[r].file
  <2>1. guRun'[r] = [guRun[r] EXCEPT !.step = next]
    BY <1>1 DEF GuInv, GuTypeOK
  <2>2. next \in GuSteps
    BY DEF GuSteps, Copying
  <2> QED BY <1>2, <2>1, <2>2 DEF HandOfRun
<1>4. \A q \in Run \ {r} : guRun'[q] = guRun[q]
  BY <1>1 DEF GuInv, GuTypeOK
<1>5. x \in DOMAIN guFiles =>
          /\ guFiles'[x] \in Nat \X Nat /\ guFiles'[x][half] = h
          /\ \A k \in {1, 2} \ {half} : guFiles'[x][k] = guFiles[x][k]
  <2> SUFFICES ASSUME x \in DOMAIN guFiles
               PROVE  /\ guFiles'[x] \in Nat \X Nat /\ guFiles'[x][half] = h
                      /\ \A k \in {1, 2} \ {half} : guFiles'[x][k] = guFiles[x][k]
    OBVIOUS
  <2>1. guFiles[x] \in Nat \X Nat
    BY DEF GuInv, GuTypeOK
  <2>2. guFiles'[x] = [guFiles[x] EXCEPT ![half] = h]
    BY <1>1
  <2>3. CASE half = 1
    BY <1>2, <2>1, <2>2, <2>3
  <2>4. CASE half = 2
    BY <1>2, <2>1, <2>2, <2>4
  <2> QED BY <2>3, <2>4
<1>6. guFiles' \in Seq(Nat \X Nat) /\ Len(guFiles') = Len(guFiles)
      /\ \A j \in 1..Len(guFiles) : j # x => guFiles'[j] = guFiles[j]
  <2> DEFINE n == Len(guFiles)
  <2>1. n \in Nat /\ DOMAIN guFiles = 1..n /\ guFiles \in [1..n -> Nat \X Nat]
    BY DEF GuInv, GuTypeOK
  <2> HIDE DEF n
  <2>2. DOMAIN guFiles' = 1..n /\ \A j \in 1..n : j # x => guFiles'[j] = guFiles[j]
    BY <1>1, <2>1
  <2>3. \A j \in 1..n : guFiles'[j] \in Nat \X Nat
    BY <1>5, <2>1, <2>2
  <2>4. guFiles' = [j \in 1..n |-> guFiles'[j]]
    BY <1>1, <2>1
  <2>5. guFiles' \in [1..n -> Nat \X Nat]
    BY <2>3, <2>4
  <2>6. guFiles' \in Seq(Nat \X Nat) /\ Len(guFiles') = n
    BY <2>1, <2>5
  <2> QED BY <2>2, <2>6 DEF n
<1>7. GuTypeOK'
  <2>1. guRun' \in [Run -> HandOfRun]
    BY <1>1, <1>3, <1>4 DEF GuInv, GuTypeOK
  <2> QED BY <1>1, <1>6, <2>1 DEF GuInv, GuTypeOK
<1>8. NamesInv'
  BY <1>1 DEF GuInv, NamesInv
<1>9. BehindInv'
  BY <1>1, <1>3, <1>4 DEF GuInv, BehindInv
<1>10. ApartInv'
  <2> SUFFICES ASSUME ~guOverlapped PROVE ApartInv'
    BY <1>1 DEF ApartInv
  <2>1. Active(r)
    BY <1>1 DEF Active, Stopped
  <2>2. HandInv(r) /\ Of(r)' = Of(r)
    BY <1>3 DEF GuInv, ApartInv, Of
  <2>3. /\ guRun[r].want \in guNewest[Of(r)]..guBuild[Of(r)] /\ guRun[r].want # Torn
        /\ h = guRun[r].want /\ x = guStaged[Of(r)] /\ x # NoInode
        /\ half = 2 => guFiles[x][1] = h
    BY <1>1, <2>2 DEF HandInv, Copying, x, h
  <2>4. x \in DOMAIN guFiles
    BY <1>2, <2>3 DEF GuInv, GuTypeOK, NoInode
  <2>5. HandInv(r)'
    BY <1>1, <1>3, <1>5, <2>2, <2>3, <2>4 DEF HandInv, Copying, x, h
  <2>6. \A f \in Editions : guDatabase[f] # NoInode => guFiles'[guDatabase[f]] = guFiles[guDatabase[f]]
    <3> SUFFICES ASSUME NEW f \in Editions, guDatabase[f] # NoInode
                 PROVE  guFiles'[guDatabase[f]] = guFiles[guDatabase[f]]
      OBVIOUS
    <3>1. guDatabase[f] \in 1..Len(guFiles)
      BY DEF GuInv, GuTypeOK, NoInode
    <3>2. guDatabase[f] # x
      BY <1>2, <2>3 DEF GuInv, NamesInv
    <3> QED BY <1>6, <3>1, <3>2
  <2> QED BY <1>1, <1>4, <2>1, <2>5, <2>6, OthersIdle DEF GuInv, ApartInv
<1> QED BY <1>7, <1>8, <1>9, <1>10 DEF GuInv

LEMMA ReplaceKeeps ==
  ASSUME GuInv, NEW r \in Run, ReplaceDatabase(r)
  PROVE  GuInv'
<1> DEFINE e == Of(r)
           h == guRun[r].have
           i == guStaged[e]
<1>1. /\ e \in Editions /\ guRun[r] \in HandOfRun /\ h \in Nat /\ i \in 0..Len(guFiles)
      /\ guRun[r].at \in {1, 2} /\ e = Edition[guRun[r].at] /\ Len(Edition) = 2
      /\ Editions = {Edition[1], Edition[2]}
  BY RunType, EditionsAre DEF GuInv, GuTypeOK
<1>2. /\ guRun[r].step = "replace" /\ i # NoInode
      /\ guDatabase' = [guDatabase EXCEPT ![e] = i]
      /\ guStaged' = [guStaged EXCEPT ![e] = NoInode]
      /\ guNewest' = [guNewest EXCEPT ![e] = IF h > guNewest[e] THEN h ELSE guNewest[e]]
      /\ guRun' = [guRun EXCEPT ![r] = IF guRun[r].at < 2
                                        THEN [NotRun EXCEPT !.step = "manifest", !.at = guRun[r].at + 1]
                                        ELSE [guRun[r] EXCEPT !.step = "succeeded"]]
      /\ UNCHANGED <<guBuild, guFiles, guOverlapped>>
  BY <1>1 DEF ReplaceDatabase, At, GuInv, GuTypeOK
<1> HIDE DEF e, h, i
<1>3. /\ guRun'[r] \in HandOfRun /\ guRun'[r].at = 2
      /\ guRun[r].at = 1 => guRun'[r].step = "manifest"
      /\ guRun[r].at = 2 => guRun'[r].step = "succeeded"
  <2>1. CASE guRun[r].at = 1
    <3>1. guRun'[r] = [NotRun EXCEPT !.step = "manifest", !.at = 2]
      BY <1>2, <2>1 DEF GuInv, GuTypeOK
    <3>2. guRun'[r] = [step |-> "manifest", at |-> 2, want |-> 0, have |-> 0, file |-> 0]
      BY <3>1 DEF NotRun, Torn, NoInode
    <3>3. "manifest" \in GuSteps
      BY DEF GuSteps
    <3> QED BY <2>1, <3>2, <3>3 DEF HandOfRun
  <2>2. CASE guRun[r].at = 2
    <3>1. guRun'[r] = [guRun[r] EXCEPT !.step = "succeeded"]
      BY <1>2, <2>2 DEF GuInv, GuTypeOK
    <3> QED BY <1>1, <2>2, <3>1 DEF HandOfRun, GuSteps, Stopped
  <2> QED BY <1>1, <2>1, <2>2
<1>4. \A q \in Run \ {r} : guRun'[q] = guRun[q]
  BY <1>2 DEF GuInv, GuTypeOK
<1>5. /\ guDatabase'[e] = i /\ guStaged'[e] = NoInode
      /\ \A f \in Editions \ {e} : guDatabase'[f] = guDatabase[f] /\ guStaged'[f] = guStaged[f]
                                     /\ guNewest'[f] = guNewest[f]
      /\ guNewest'[e] = IF h > guNewest[e] THEN h ELSE guNewest[e]
  BY <1>1, <1>2 DEF GuInv, GuTypeOK
<1>6. GuTypeOK'
  <2>1. guRun' \in [Run -> HandOfRun]
    BY <1>2, <1>3, <1>4 DEF GuInv, GuTypeOK
  <2>2. guStaged' \in [Editions -> 0..Len(guFiles)] /\ guDatabase' \in [Editions -> 0..Len(guFiles)]
    BY <1>1, <1>2 DEF GuInv, GuTypeOK, NoInode
  <2>3. guNewest' \in [Editions -> Nat]
    BY <1>1, <1>2 DEF GuInv, GuTypeOK
  <2> QED BY <1>2, <2>1, <2>2, <2>3 DEF GuInv, GuTypeOK
<1>7. NamesInv'
  <2> SUFFICES ASSUME NEW f \in Editions, NEW g \in Editions, guStaged'[f] # NoInode
               PROVE  guStaged'[f] # guDatabase'[g] /\ (f # g => guStaged'[f] # guStaged'[g])
    BY DEF NamesInv
  <2>1. f # e /\ guStaged'[f] = guStaged[f]
    BY <1>5
  <2>2. guStaged[f] # i /\ guStaged[f] # guDatabase[g] /\ (f # g => guStaged[f] # guStaged[g])
    BY <1>1, <2>1 DEF GuInv, NamesInv, i
  <2>3. CASE g = e
    BY <1>5, <2>1, <2>2, <2>3
  <2>4. CASE g # e
    BY <1>5, <2>1, <2>2, <2>4
  <2> QED BY <2>3, <2>4
<1>8. BehindInv'
  <2>1. \A f \in Editions : guDatabase[f] # NoInode => guDatabase'[f] # NoInode
    BY <1>2, <1>5
  <2>2. \A q \in Run \ {r} : /\ guRun'[q].at = 2 => guDatabase'[Edition[1]] # NoInode
                             /\ guRun'[q].step = "succeeded" =>
                                    guRun'[q].at = 2 /\ guDatabase'[Edition[2]] # NoInode
    BY <1>1, <1>4, <2>1 DEF GuInv, BehindInv
  <2>3. CASE guRun[r].at = 1
    BY <1>1, <1>2, <1>3, <1>5, <2>2, <2>3 DEF BehindInv
  <2>4. CASE guRun[r].at = 2
    BY <1>1, <1>2, <1>3, <1>5, <2>1, <2>2, <2>4 DEF GuInv, BehindInv
  <2> QED BY <1>1, <2>3, <2>4
<1>9. ApartInv'
  <2> SUFFICES ASSUME ~guOverlapped PROVE ApartInv'
    BY <1>2 DEF ApartInv
  <2>1. Active(r)
    BY <1>2 DEF Active, Stopped
  <2>2. h \in guNewest[e]..guBuild[e] /\ guFiles[i][1] = h /\ guFiles[i][2] = h
    BY <1>2, <2>1 DEF GuInv, ApartInv, HandInv, Copying, e, h, i
  <2>3. guFiles[i] = <<h, h>>
    <3>1. guFiles[i] \in Nat \X Nat
      BY <1>1, <1>2 DEF GuInv, GuTypeOK, NoInode
    <3> QED BY <2>2, <3>1
  <2>4. guNewest'[e] = h
    BY <1>1, <1>5, <2>2 DEF GuInv, GuTypeOK
  <2>5. HandInv(r)'
    BY <1>1, <1>3 DEF HandInv, Copying
  <2>6. \A f \in Editions :
            guDatabase'[f] # NoInode => guFiles'[guDatabase'[f]] = <<guNewest'[f], guNewest'[f]>>
    BY <1>2, <1>5, <2>3, <2>4 DEF GuInv, ApartInv
  <2>7. \A f \in Editions : guNewest'[f] <= guBuild'[f]
    <3> SUFFICES ASSUME NEW f \in Editions PROVE guNewest'[f] <= guBuild[f]
      BY <1>2
    <3>1. guNewest[f] <= guBuild[f]
      BY DEF GuInv, ApartInv
    <3>2. h <= guBuild[e]
      BY <1>1, <2>2 DEF GuInv, GuTypeOK
    <3> QED BY <1>5, <2>4, <3>1, <3>2
  <2> QED BY <1>2, <1>4, <2>1, <2>5, <2>6, <2>7, OthersIdle DEF ApartInv
<1> QED BY <1>6, <1>7, <1>8, <1>9 DEF GuInv

LEMMA GuStep == GuInv /\ [GuNext]_guVars => GuInv'
<1> SUFFICES ASSUME GuInv, [GuNext]_guVars PROVE GuInv'
  OBVIOUS
<1>1. CASE \E r \in Run : StartUpdate(r)
  BY <1>1, GuStartKeeps
<1>2. CASE \E r \in Run : Manifest(r)
  BY <1>2, ManifestKeeps
<1>3. CASE \E r \in Run : Download(r)
  BY <1>3, DownloadKeeps
<1>4. CASE \E r \in Run : OpenStaged(r)
  BY <1>4, OpenKeeps
<1>5. CASE \E r \in Run : Copy(r)
  BY <1>5, CopyKeeps
<1>6. CASE \E r \in Run : ReplaceDatabase(r)
  BY <1>6, ReplaceKeeps
<1>7. CASE \E r \in Run : FailUpdate(r) \/ DieUpdating(r)
  BY <1>7, StoppingKeeps
<1>8. CASE \E e \in Range(Edition) : Publish(e)
  BY <1>8, PublishKeeps, EditionsAre
<1>9. CASE UNCHANGED guVars
  BY <1>9 DEF guVars, guDisk, GuInv, GuTypeOK, NamesInv, BehindInv, ApartInv, HandInv, Of, Active
<1> QED BY <1>1, <1>2, <1>3, <1>4, <1>5, <1>6, <1>7, <1>8, <1>9 DEF GuNext

\* Whatever runs of the geo update die, fail or follow each other, and whatever the
\* mirror publishes under a download: a database in place is one build from end to
\* end and the newest that was installed, as long as runs do not overlap, and
\* geo.update_succeeded means that both editions are in place.
THEOREM DatabasesKept == GuSpec => []GeoSound
<1>1. GuSpec => []GuInv
  BY InitGu, GuStep, PTL DEF GuSpec
<1> QED BY <1>1, GuSafe, PTL

-----------------------------------------------------------------------------
(* The lure as a service, for any number of connections and of starts.     *)

LlSteps == {"down", "rsa", "ed25519", "loading", "opening", "binding", "serving", "closing",
          "draining", "client", "store", "ending"}
Places == {"none", "kex", "auth", "stored", "in", "shell", "lost", "gone"}
Events == {"fingerprint", "key", "login", "closed"}
Tasks == [kind : {"fingerprint", "close"}, conn : Conn]

LlTypeOK ==
    /\ llPc \in LlSteps /\ llLives \in Nat
    /\ llKeys \in [HostKey -> Nat] /\ llShown \in [HostKey -> Nat]
    /\ llConn \in [Conn -> Places] /\ llTold \in [Conn -> Seq(Events)]
    /\ llHeld \subseteq Conn /\ llTasks \subseteq Tasks

\* A key file is written once, by a start that comes before the listener's.
KeysInv ==
    /\ llPc # "down" => llLives # 0
    /\ llPc \notin {"down", "rsa"} => llKeys["rsa"] # 0
    /\ llPc \notin {"down", "rsa", "ed25519"} => llKeys["ed25519"] # 0
    /\ llShown # NoKeys => llKeys = llShown /\ \A k \in HostKey : llKeys[k] # 0

\* The fingerprint is the first line about a connection that got as far, and is
\* there before any other line but the last; what is told was stored.
ToldInv(c) ==
    LET lines == llTold[c]
    IN  /\ llConn[c] \in {"none", "kex"} => lines = <<>>
        /\ llConn[c] \in {"auth", "stored", "in", "shell"} =>
               1 \in DOMAIN lines /\ lines[1] = "fingerprint"
        /\ \A i \in DOMAIN lines : lines[i] = "fingerprint" => i = 1
        /\ \A i \in DOMAIN lines : lines[i] \in {"key", "login"} => i > 1 /\ lines[1] = "fingerprint"
        /\ llConn[c] = "stored" => c \in llRows \union llRefused
        /\ \A i \in DOMAIN lines : lines[i] = "login" => c \in llRows \union llRefused

\* Sessions of the bridge that are due to be closed, and not excused.
Owed == (llHeld \intersect llDue) \ llExcused
CloseTask(c) == [kind |-> "close", conn |-> c]

\* Each has its task, which a stop waits for; once it did, there is none.
DueInv ==
    /\ \A c \in llDue : c \in Conn /\ llConn[c] = "lost"
    /\ llPc \in {"rsa", "ed25519", "loading", "opening", "binding"} => llDue = {}
    /\ llPc \in {"serving", "closing"} => \A c \in Owed : CloseTask(c) \in llTasks
    /\ llPc = "draining" => \A c \in Owed : CloseTask(c) \in llTasks \intersect llWaited
    /\ llPc \in {"client", "store", "ending", "down"} => Owed = {}

LlInv == LlTypeOK /\ KeysInv /\ DueInv /\ \A c \in Conn : ToldInv(c)

LEMMA LlInitInv == LlInit => LlInv
<1> SUFFICES ASSUME LlInit PROVE LlInv
  OBVIOUS
<1> USE DEF LlInit
<1>1. LlTypeOK
  <2>1. <<>> \in Seq(Events)
    BY EmptySeq
  <2> QED BY <2>1 DEF LlTypeOK, LlSteps, Places, NoKeys, HostKey
<1>2. KeysInv /\ DueInv
  BY DEF KeysInv, DueInv, Owed
<1>3. ASSUME NEW c \in Conn PROVE ToldInv(c)
  BY DEF ToldInv
<1> QED BY <1>1, <1>2, <1>3 DEF LlInv

LEMMA LlSafe == LlInv => LifeSound
<1> SUFFICES ASSUME LlInv PROVE LifeSound
  OBVIOUS
<1>1. KeysStay
  BY DEF LlInv, KeysInv, KeysStay
<1>2. LoginsTold
  <2> SUFFICES ASSUME NEW c \in Conn
      PROVE  LET lines == llTold[c]
             IN  /\ \A i, j \in DOMAIN lines : lines[i] = "fingerprint" /\ lines[j] = "fingerprint" => i = j
                 /\ \A j \in DOMAIN lines : lines[j] \in {"key", "login"} =>
                        \E i \in 1..(j - 1) : lines[i] = "fingerprint"
                 /\ (\E j \in DOMAIN lines : lines[j] = "login") => c \in llRows \union llRefused
    BY DEF LoginsTold
  <2> DEFINE lines == llTold[c]
  <2>1. ToldInv(c) /\ DOMAIN lines \subseteq Nat
    BY DEF LlInv, LlTypeOK
  <2>2. ASSUME NEW j \in DOMAIN lines, lines[j] \in {"key", "login"}
        PROVE  \E i \in 1..(j - 1) : lines[i] = "fingerprint"
    <3>1. j > 1 /\ lines[1] = "fingerprint" /\ j \in Nat
      BY <2>1, <2>2 DEF ToldInv
    <3>2. 1 \in 1..(j - 1)
      BY <3>1
    <3> QED BY <3>1, <3>2
  <2> QED BY <2>1, <2>2 DEF ToldInv
<1>3. StopsClean
  BY DEF LlInv, DueInv, Owed, StopsClean
<1> QED BY <1>1, <1>2, <1>3 DEF LifeSound

\* LlSteps of the service that leave connections, and what is told and kept of them.
LEMMA ServiceKeeps ==
    ASSUME LlInv, UNCHANGED <<llConn, llTold, llRows, llRefused>>
    PROVE  \A c \in Conn : ToldInv(c)'
BY DEF LlInv, ToldInv

LEMMA LlStartKeeps ==
    ASSUME LlInv, LlStart \/ EnsureKey \/ LoadKeys \/ OpenCredentials \/ Bind
    PROVE  LlInv'
<1> USE DEF LlInv, llLogins, llDrain
<1>1. UNCHANGED <<llConn, llTold, llRows, llRefused, llHeld, llTasks>>
  BY DEF LlStart, EnsureKey, LoadKeys, OpenCredentials, Bind, Reaches
<1>2. LlTypeOK' /\ KeysInv'
  <2>1. CASE LlStart
    BY <1>1, <2>1 DEF LlStart, LlTypeOK, KeysInv, LlSteps
  <2>2. CASE EnsureKey
    <3>1. llPc \in HostKey /\ llLives \in Nat /\ llLives # 0
      BY <2>2 DEF EnsureKey, HostKey, LlTypeOK, KeysInv
    <3>2. /\ llKeys' \in [HostKey -> Nat] /\ llKeys'[llPc] # 0
          /\ \A k \in HostKey : llKeys[k] # 0 => llKeys'[k] = llKeys[k]
          /\ (\A k \in HostKey : llKeys[k] # 0) => llKeys' = llKeys
      BY <2>2, <3>1 DEF EnsureKey, LlTypeOK
    <3>3. /\ llPc' = (IF llPc = "rsa" THEN "ed25519" ELSE "loading")
          /\ UNCHANGED <<llLives, llShown>>
      BY <2>2 DEF EnsureKey, Reaches
    <3>4. LlTypeOK'
      BY <1>1, <3>2, <3>3 DEF LlTypeOK, LlSteps
    <3>5. "rsa" \in HostKey /\ "ed25519" \in HostKey
      BY DEF HostKey
    <3>6. KeysInv'
      BY <3>1, <3>2, <3>3, <3>5 DEF KeysInv, HostKey, NoKeys
    <3> QED BY <3>4, <3>6
  <2>3. CASE LoadKeys \/ OpenCredentials
    BY <1>1, <2>3 DEF LoadKeys, OpenCredentials, Reaches, LlTypeOK, KeysInv, LlSteps
  <2>4. CASE Bind
    BY <1>1, <2>4 DEF Bind, LlTypeOK, KeysInv, LlSteps, HostKey
  <2> QED BY <2>1, <2>2, <2>3, <2>4
<1>3. DueInv'
  <2>1. CASE LlStart
    BY <2>1 DEF LlStart, DueInv, Owed
  <2>2. CASE EnsureKey
    BY <1>1, <2>2 DEF EnsureKey, HostKey, Reaches, DueInv, Owed
  <2>3. CASE LoadKeys \/ OpenCredentials
    BY <1>1, <2>3 DEF LoadKeys, OpenCredentials, Reaches, DueInv, Owed
  <2>4. CASE Bind
    BY <1>1, <2>4 DEF Bind, DueInv, Owed
  <2> QED BY <2>1, <2>2, <2>3, <2>4
<1> QED BY <1>1, <1>2, <1>3, ServiceKeeps

\* A line is told about a connection that goes on, or comes to its end.
LEMMA Told ==
    ASSUME LlInv, NEW c \in Conn, NEW e \in Events, Tell(c, e)
    PROVE  /\ llTold' \in [Conn -> Seq(Events)]
           /\ \A d \in Conn \ {c} : llTold'[d] = llTold[d]
           /\ Len(llTold[c]) \in Nat /\ DOMAIN llTold[c] = 1..Len(llTold[c])
           /\ DOMAIN llTold'[c] = 1..(Len(llTold[c]) + 1)
           /\ \A i \in DOMAIN llTold[c] : llTold'[c][i] = llTold[c][i]
           /\ llTold'[c][Len(llTold[c]) + 1] = e
           /\ llTold[c] = <<>> => Len(llTold[c]) = 0
<1>1. llTold[c] \in Seq(Events) /\ llTold \in [Conn -> Seq(Events)]
  BY DEF LlInv, LlTypeOK
<1>2. llTold' = [llTold EXCEPT ![c] = Append(llTold[c], e)]
  BY DEF Tell
<1>3. /\ Append(llTold[c], e) \in Seq(Events)
      /\ Len(Append(llTold[c], e)) = Len(llTold[c]) + 1
      /\ \A i \in 1..Len(llTold[c]) : Append(llTold[c], e)[i] = llTold[c][i]
      /\ Append(llTold[c], e)[Len(llTold[c]) + 1] = e
  BY <1>1, AppendProperties
<1>4. llTold'[c] = Append(llTold[c], e)
  BY <1>1, <1>2
<1> QED BY <1>1, <1>2, <1>3, <1>4

\* A connection moves: it is none that is due.
LEMMA Moved ==
    ASSUME LlInv, NEW c \in Conn, llConn[c] # "lost", NEW p \in Places, Become(c, p),
           UNCHANGED <<llServer, llLogins, llDrain>>, llTold' \in [Conn -> Seq(Events)],
           llHeld' \subseteq llHeld \union {c},
           llTasks \subseteq llTasks', llTasks' \subseteq Tasks,
           \A d \in Conn \ {c} : llTold'[d] = llTold[d],
           ToldInv(c)'
    PROVE  LlInv'
<1> USE DEF LlInv, Become, llServer, llLogins, llDrain
<1>1. llConn' \in [Conn -> Places] /\ \A d \in Conn \ {c} : llConn'[d] = llConn[d]
  BY DEF LlTypeOK
<1>2. LlTypeOK' /\ KeysInv'
  BY <1>1 DEF LlTypeOK, KeysInv
<1>3. c \notin llDue
  BY DEF DueInv
<1>4. Owed' \subseteq Owed
  BY <1>3 DEF Owed
<1>5. DueInv'
  BY <1>1, <1>3, <1>4 DEF DueInv, CloseTask
<1>6. ASSUME NEW d \in Conn \ {c} PROVE ToldInv(d)'
  BY <1>1 DEF ToldInv
<1> QED BY <1>2, <1>5, <1>6

LEMMA LoginKeeps ==
    ASSUME LlInv, NEW c \in Conn, Accept(c) \/ BeginAuth(c) \/ OfferKey(c) \/ TellAttempt(c) \/ OpenSession(c)
    PROVE  LlInv'
<1> USE DEF LlInv, Places, Events
<1>1. llTold \in [Conn -> Seq(Events)] /\ ToldInv(c) /\ llTasks \subseteq Tasks /\ llConn \in [Conn -> Places]
  BY DEF LlTypeOK
<1>2. CASE Accept(c)
  <2>1. ToldInv(c)'
    BY <1>1, <1>2 DEF Accept, Become, ToldInv, llLogins
  <2> QED BY <1>1, <1>2, <2>1, Moved DEF Accept
<1>3. CASE BeginAuth(c)
  <2>1. CASE Printed(c)
    <3>1. ToldInv(c)'
      BY <1>1, <1>3, <2>1 DEF BeginAuth, Become, ToldInv, llLogins, Printed
    <3> QED BY <1>1, <1>3, <2>1, <3>1, Moved DEF BeginAuth
  <2>2. CASE ~Printed(c)
    <3>1. llConn[c] = "kex" /\ llTold[c] = <<>>
      BY <1>1, <1>3, <2>2 DEF BeginAuth, ToldInv, Printed
    <3>2. Tell(c, "fingerprint") /\ Spawn("fingerprint", c) /\ llConn'[c] = "auth"
      BY <1>1, <1>3, <2>2 DEF BeginAuth, Become
    <3>3. /\ llTold' \in [Conn -> Seq(Events)] /\ DOMAIN llTold'[c] = 1..1 /\ llTold'[c][1] = "fingerprint"
          /\ \A d \in Conn \ {c} : llTold'[d] = llTold[d]
      BY <3>1, <3>2, Told
    <3>4. ToldInv(c)'
      BY <3>2, <3>3 DEF ToldInv
    <3>5. llTasks \subseteq llTasks' /\ llTasks' \subseteq Tasks
      BY <1>1, <3>2 DEF Spawn, Tasks
    <3> QED BY <1>3, <3>1, <3>3, <3>4, <3>5, Moved DEF BeginAuth
  <2> QED BY <2>1, <2>2
<1>4. CASE OfferKey(c) \/ TellAttempt(c)
  <2>1. PICK e \in {"key", "login"}, p \in {"auth", "in"} :
          /\ Tell(c, e) /\ llConn' = [llConn EXCEPT ![c] = p]
          /\ llConn[c] \in {"auth", "stored"} /\ (e = "login" => llConn[c] = "stored")
          /\ UNCHANGED <<llServer, llLogins, llHeld, llTasks, llDrain>>
    <3>1. CASE OfferKey(c)
      <4>1. llConn' = [llConn EXCEPT ![c] = "auth"]
        BY <1>1, <3>1 DEF OfferKey
      <4> QED BY <3>1, <4>1 DEF OfferKey
    <3>2. CASE TellAttempt(c)
      BY <3>2 DEF TellAttempt, Become
    <3> QED BY <1>4, <3>1, <3>2
  <2>2. /\ llTold' \in [Conn -> Seq(Events)]
        /\ \A d \in Conn \ {c} : llTold'[d] = llTold[d]
        /\ Len(llTold[c]) \in Nat /\ DOMAIN llTold[c] = 1..Len(llTold[c])
        /\ DOMAIN llTold'[c] = 1..(Len(llTold[c]) + 1)
        /\ \A i \in DOMAIN llTold[c] : llTold'[c][i] = llTold[c][i]
        /\ llTold'[c][Len(llTold[c]) + 1] = e
    BY <2>1, Told
  <2>3. 1 \in DOMAIN llTold[c] /\ llTold[c][1] = "fingerprint" /\ llConn'[c] = p
    BY <1>1, <2>1 DEF ToldInv
  <2>4. ToldInv(c)'
    <3>1. \A i \in DOMAIN llTold'[c] : i \in DOMAIN llTold[c] \/ (i = Len(llTold[c]) + 1 /\ llTold'[c][i] = e /\ i > 1)
      BY <2>2, <2>3
    <3>2. 1 \in DOMAIN llTold'[c] /\ llTold'[c][1] = "fingerprint"
      BY <2>2, <2>3
    <3>3. e = "login" => c \in llRows \union llRefused
      BY <1>1, <2>1 DEF ToldInv
    <3>4. llRows' = llRows /\ llRefused' = llRefused
      BY <2>1 DEF llLogins
    <3>5. ASSUME NEW i \in DOMAIN llTold'[c]
          PROVE  /\ llTold'[c][i] = "fingerprint" => i = 1
                 /\ llTold'[c][i] \in {"key", "login"} => i > 1
                 /\ llTold'[c][i] = "login" => c \in llRows \union llRefused
      <4>1. CASE i \in DOMAIN llTold[c]
        BY <1>1, <2>2, <4>1 DEF ToldInv
      <4>2. CASE llTold'[c][i] = e /\ i > 1
        BY <2>1, <3>3, <4>2
      <4> QED BY <3>1, <4>1, <4>2
    <3> HIDE DEF Events, Places
    <3> QED BY <2>1, <2>3, <3>2, <3>4, <3>5 DEF ToldInv
  <2> QED BY <1>1, <2>1, <2>2, <2>4, Moved DEF Become
<1>5. CASE OpenSession(c)
  <2>1. ToldInv(c)'
    BY <1>1, <1>5 DEF OpenSession, Become, ToldInv, llLogins
  <2> QED BY <1>1, <1>5, <2>1, Moved DEF OpenSession
<1> QED BY <1>2, <1>3, <1>4, <1>5

LEMMA StoreKeeps ==
    ASSUME LlInv, NEW c \in Conn, StoreAttempt(c)
    PROVE  LlInv'
<1> USE DEF LlInv, StoreAttempt, Become, llServer, llDrain
<1>1. llConn' \in [Conn -> Places] /\ llConn'[c] = "stored" /\ \A d \in Conn \ {c} : llConn'[d] = llConn[d]
  BY DEF LlTypeOK, Places
<1>2. LlTypeOK' /\ KeysInv'
  BY <1>1 DEF LlTypeOK, KeysInv
<1>3. DueInv'
  BY <1>1 DEF DueInv, Owed
<1>4. llRows \subseteq llRows' /\ llRefused \subseteq llRefused' /\ c \in llRows' \union llRefused'
  OBVIOUS
<1>5. ASSUME NEW d \in Conn PROVE ToldInv(d)'
  <2>1. CASE d = c
    BY <1>1, <1>4, <2>1 DEF ToldInv
  <2>2. CASE d # c
    BY <1>1, <1>4, <2>2 DEF ToldInv
  <2> QED BY <2>1, <2>2
<1> QED BY <1>2, <1>3, <1>5

\* A session that is lost while the lure serves is due, with its task.
LEMMA LoseKeeps ==
    ASSUME LlInv, NEW c \in Conn, Lose(c)
    PROVE  LlInv'
<1> USE DEF LlInv, Lose, llServer, llLogins
<1>1. /\ Tell(c, "closed") /\ llConn' = [llConn EXCEPT ![c] = "lost"]
      /\ llTasks' = IF c \in llHeld THEN llTasks \union {CloseTask(c)} ELSE llTasks
      /\ llDue' = IF llPc = "serving" THEN llDue \union {c} ELSE llDue
  BY DEF Become, Spawn, CloseTask
<1>2. /\ llTold' \in [Conn -> Seq(Events)]
      /\ \A d \in Conn \ {c} : llTold'[d] = llTold[d]
      /\ Len(llTold[c]) \in Nat /\ DOMAIN llTold[c] = 1..Len(llTold[c])
      /\ DOMAIN llTold'[c] = 1..(Len(llTold[c]) + 1)
      /\ \A i \in DOMAIN llTold[c] : llTold'[c][i] = llTold[c][i]
      /\ llTold'[c][Len(llTold[c]) + 1] = "closed"
  BY <1>1, Told DEF Events
<1>3. /\ llConn' \in [Conn -> Places] /\ llConn'[c] = "lost"
      /\ \A d \in Conn \ {c} : llConn'[d] = llConn[d]
  BY <1>1 DEF LlTypeOK, Places
<1>4. LlTypeOK' /\ KeysInv'
  BY <1>1, <1>2, <1>3 DEF LlTypeOK, KeysInv, CloseTask, Tasks
<1>5. DueInv'
  <2>1. Owed' \subseteq IF llPc = "serving" /\ c \in llHeld THEN Owed \union {c} ELSE Owed
    BY <1>1 DEF Owed
  <2>2. \A d \in llDue' : d \in Conn /\ llConn'[d] = "lost"
    BY <1>1, <1>3 DEF DueInv
  <2>3. CloseTask(c)' = CloseTask(c) /\ \A d : CloseTask(d)' = CloseTask(d)
    BY DEF CloseTask
  <2> QED BY <1>1, <2>1, <2>2, <2>3 DEF DueInv, Runs, CloseTask
<1>6. ToldInv(c)'
  <2>1. \A i \in DOMAIN llTold'[c] : i \in DOMAIN llTold[c] \/ llTold'[c][i] = "closed"
    BY <1>2
  <2>2. \A i \in DOMAIN llTold[c] : llTold[c][i] \in {"key", "login"} => llTold'[c][1] = "fingerprint"
    <3>1. \A i \in DOMAIN llTold[c] : 1 \in DOMAIN llTold[c]
      BY <1>2
    <3> QED BY <1>2, <3>1 DEF ToldInv
  <2> QED BY <1>2, <1>3, <2>1, <2>2 DEF ToldInv
<1>7. ASSUME NEW d \in Conn \ {c} PROVE ToldInv(d)'
  BY <1>2, <1>3 DEF ToldInv
<1> QED BY <1>4, <1>5, <1>6, <1>7

LEMMA TaskKeeps ==
    ASSUME LlInv, NEW t \in llTasks, RunTask(t)
    PROVE  LlInv'
<1> USE DEF LlInv, RunTask, llServer, llLogins
<1>1. LlTypeOK' /\ KeysInv'
  BY DEF LlTypeOK, KeysInv
<1>2. Owed' \subseteq Owed
  BY DEF Owed
<1>3. ASSUME NEW c \in Owed', CloseTask(c) \in llTasks, ClientOpen PROVE CloseTask(c) \in llTasks'
  <2>1. CASE t # CloseTask(c)
    BY <1>3, <2>1
  <2>2. CASE t = CloseTask(c)
    BY <1>3, <2>2 DEF CloseTask, Owed
  <2> QED BY <2>1, <2>2
<1>4. DueInv'
  BY <1>2, <1>3 DEF DueInv, Runs, ClientOpen, CloseTask
<1> QED BY <1>1, <1>4, ServiceKeeps

LEMMA StopKeeps ==
    ASSUME LlInv, Sigterm \/ CloseListener \/ Drained \/ CloseClients
    PROVE  LlInv'
<1> USE DEF LlInv, llLogins, llDrain
<1>1. UNCHANGED <<llLives, llKeys, llShown, llConn, llTold, llRows, llRefused, llHeld, llTasks, llDue>>
  BY DEF Sigterm, CloseListener, Drained, CloseClients, Reaches
<1>2. LlTypeOK' /\ KeysInv'
  BY <1>1 DEF Sigterm, CloseListener, Drained, CloseClients, Reaches, LlTypeOK, KeysInv, LlSteps
<1>3. DueInv'
  <2>1. CASE Sigterm
    BY <1>1, <2>1 DEF Sigterm, Reaches, DueInv, Owed, CloseTask
  <2>2. CASE CloseListener
    BY <1>1, <2>2 DEF CloseListener, DueInv, Owed, CloseTask
  <2>3. CASE Drained
    <3>1. \A c \in Owed : CloseTask(c) \in llTasks \intersect llWaited
      BY <2>3 DEF Drained, DueInv
    <3>2. \A c \in Owed : c \in llExcused'
      <4>1. CASE Waited
        BY <3>1, <4>1 DEF Waited
      <4>2. CASE llExcused' = llExcused \union {t.conn : t \in llTasks \intersect llWaited}
        <5> SUFFICES ASSUME NEW c \in Owed PROVE c \in llExcused'
          OBVIOUS
        <5>1. CloseTask(c) \in llTasks \intersect llWaited /\ CloseTask(c).conn = c
          BY <3>1 DEF CloseTask
        <5> HIDE DEF CloseTask
        <5> QED BY <4>2, <5>1
      <4> QED BY <2>3, <4>1, <4>2 DEF Drained
    <3>3. llExcused \subseteq llExcused'
      BY <2>3 DEF Drained
    <3>4. Owed' = {}
      BY <1>1, <3>2, <3>3 DEF Owed
    <3> QED BY <1>1, <2>3, <3>4 DEF Drained, DueInv
  <2>4. CASE CloseClients
    BY <1>1, <2>4 DEF CloseClients, Reaches, DueInv, Owed
  <2> QED BY <2>1, <2>2, <2>3, <2>4
<1> QED BY <1>1, <1>2, <1>3, ServiceKeeps

LEMMA EndKeeps ==
    ASSUME LlInv, Return \/ LlKill
    PROVE  LlInv'
<1> USE DEF LlInv, llLogins
<1>1. PICK due \in {llDue, {}} : Over(due) /\ (due = llDue => llPc = "ending" \/ llDue = {})
  BY DEF Return, LlKill
<1> USE <1>1 DEF Over
<1>2. llConn' \in [Conn -> Places] /\ \A c \in Conn : llConn'[c] = llConn[c] \/ llConn'[c] = "gone"
  BY DEF LlTypeOK, Places
<1>3. LlTypeOK' /\ KeysInv'
  BY <1>2 DEF LlTypeOK, KeysInv, LlSteps
<1>4. \A c \in Conn : llConn[c] = "lost" => llConn'[c] = "lost"
  BY DEF LlAlive
<1>5. DueInv'
  BY <1>4 DEF DueInv, Owed
<1>6. ASSUME NEW c \in Conn PROVE ToldInv(c)'
  BY <1>2 DEF ToldInv
<1> QED BY <1>3, <1>5, <1>6

LEMMA LlStep == LlInv /\ [LlNext]_llVars => LlInv'
<1> SUFFICES ASSUME LlInv, [LlNext]_llVars PROVE LlInv'
  OBVIOUS
<1>1. CASE LlNext
  BY <1>1, LlStartKeeps, LoginKeeps, StoreKeeps, LoseKeeps, TaskKeeps, StopKeeps, EndKeeps DEF LlNext
<1>2. CASE UNCHANGED llVars
  <2>1. LlTypeOK' /\ KeysInv' /\ DueInv'
    BY <1>2 DEF llVars, llServer, llLogins, llDrain, LlInv, LlTypeOK, KeysInv, DueInv, Owed
  <2> QED BY <1>2, <2>1, ServiceKeeps DEF llVars, llLogins, LlInv
<1> QED BY <1>1, <1>2

\* However often the lure is started, stopped by a signal and killed: its box
\* keeps its host keys (ensure_host_keys), no password is told that the store was
\* not asked to keep (validate_password), and a stop leaves the bridge no session
\* that was lost before it and not excused (LureServer.stop, run_lure).
THEOREM LifeKept == LlSpec => []LifeSound
BY LlInitInv, LlStep, LlSafe, PTL DEF LlSpec

-----------------------------------------------------------------------------
-----------------------------------------------------------------------------
(* The first boot: files, settings and services around a wizard that may   *)
(* be killed between any two of its writes.                                *)

\* What the steps of the wizard have left behind.
Placed(i) ==
    Skips(Artefacts[i]) \/ (fbFile[Artefacts[i]] = fbWizard.run /\ Artefacts[i] \notin fbTemp)

Wizard ==
    [step : {"none", "opening", "replacing", "done", "refused", "broken"},
     run : Nat, key : {"none", "good", "bad"}, env : {fbWizard.env}, at : 1..9]

WizardTypeOK ==
    /\ fbWizard \in Wizard
    /\ fbRunning = [s \in Service |-> fbRunning[s]]
    /\ fbWizard.run <= fbRuns
    /\ \A f \in WizardFile : fbFile[f] <= fbRuns
    /\ Present("env") => "edited" \in DOMAIN fbEnv

\* A run under way is through with the artefacts before the next one.
ProgressInv ==
    Working =>
        /\ \A i \in 1..8 : i < fbWizard.at => Placed(i)
        /\ fbWizard.step = "replacing" => fbWizard.at <= 8
        /\ fbWizard.at = 1 => EndpointLoads(fbWizard.env) /\ "edited" \in DOMAIN fbWizard.env

FbInv == WizardSound /\ WizardTypeOK /\ ProgressInv

LEMMA ArtefactsAre ==
    /\ Len(Artefacts) = 8 /\ DOMAIN Artefacts = 1..8
    /\ WizardFile = {"env", "nft", "bait", "service", "hostname", "hosts", "keys", "answers"}
    /\ \A i \in 1..8 : Artefacts[i] \in WizardFile
    /\ \A f \in WizardFile : \E i \in 1..8 : Artefacts[i] = f
    /\ \A i, j \in 1..8 : Artefacts[i] = Artefacts[j] => i = j
    /\ \A i \in 1..8 : Artefacts[i] = "env" <=> i = 1
<1>1. /\ Len(Artefacts) = 8 /\ DOMAIN Artefacts = 1..8
      /\ Artefacts[1] = "env" /\ Artefacts[2] = "nft" /\ Artefacts[3] = "bait" /\ Artefacts[4] = "service"
      /\ Artefacts[5] = "hostname" /\ Artefacts[6] = "hosts" /\ Artefacts[7] = "keys" /\ Artefacts[8] = "answers"
  BY DEF Artefacts
<1>2. \A i \in 1..8 : i \in {1, 2, 3, 4, 5, 6, 7, 8}
  OBVIOUS
<1>3. WizardFile = {Artefacts[i] : i \in 1..8}
  BY <1>1 DEF WizardFile, Range
<1>4. WizardFile = {"env", "nft", "bait", "service", "hostname", "hosts", "keys", "answers"}
  BY <1>1, <1>2, <1>3
<1>5. \A i, j \in 1..8 : Artefacts[i] = Artefacts[j] => i = j
  BY <1>1, <1>2
<1> QED BY <1>1, <1>3, <1>4, <1>5

LEMMA FbInitInv == FbInit => FbInv
<1> SUFFICES ASSUME FbInit PROVE FbInv
  OBVIOUS
<1>1. \A f \in WizardFile : fbFile[f] = 0
  BY DEF FbInit
<1>2. MaxRuns \in Nat /\ MaxMoves \in Nat
  BY BootAssumption
<1>3. FbTypeOK
  BY <1>2 DEF FbInit, FbTypeOK, Resting
<1>4. RunIsWhole /\ EndpointCaught /\ ScansReach
  BY <1>1, ArtefactsAre DEF FbInit, RunIsWhole, EndpointCaught, ScansReach, Resting, Present, AllDown
<1>5. WizardTypeOK
  BY <1>1, ArtefactsAre DEF FbInit, WizardTypeOK, Wizard, Resting, AllDown, Present
<1> QED BY <1>3, <1>4, <1>5 DEF FbInit, FbInv, WizardSound, ProgressInv, Working, Resting

\* Whatever answers pass the prompts and are rendered name an endpoint that loads.
LEMMA AcceptedLoads ==
    ASSUME NEW a \in Answers, NEW run, Accepts(a)
    PROVE  /\ EndpointLoads(EnvOf(a, run)) /\ "edited" \in DOMAIN EnvOf(a, run)
           /\ a.key \in {"none", "good", "bad"}
<1>1. a.endpoint \in Endpoint /\ a.key \in {"none", "good", "bad"}
  <2> DEFINE Endpoints == {[Plain EXCEPT !.endpoint = p[1], !.trusted = p[2]] : p \in Endpoint \X {"none", "10.0.0.9", "127.9.9.9"}}
             Singles == {[Plain EXCEPT !.terms = FALSE], [Plain EXCEPT !.service = "eth0"], [Plain EXCEPT !.bait = "eth 0"],
                         [Plain EXCEPT !.name = "loose"], [Plain EXCEPT !.control = TRUE], [Plain EXCEPT !.hostname = "odd name"]}
             Addresses == {[Plain EXCEPT !.address = x] : x \in {"static", "no gateway"}}
             Hooks == {[Plain EXCEPT !.hook = u] : u \in {"https", "http", "https inside"}}
             Decoys == {[Plain EXCEPT !.decoys = d] : d \in {"no url", "http", "https"}}
             Licenses == {[Plain EXCEPT !.license = l] : l \in {"alnum", "dashed"}}
             Keys == {[Plain EXCEPT !.key = k] : k \in {"good", "bad"}}
  <2>1. a \in {Plain} \union Singles \union Endpoints \union Addresses \union Hooks \union Decoys \union Licenses \union Keys
    BY Zenon DEF Answers
  <2>2. CASE a = Plain
    BY <2>2 DEF Plain, Endpoint
  <2>3. CASE a \in Singles
    <3>1. \/ a = [Plain EXCEPT !.terms = FALSE] \/ a = [Plain EXCEPT !.service = "eth0"]
          \/ a = [Plain EXCEPT !.bait = "eth 0"] \/ a = [Plain EXCEPT !.name = "loose"]
          \/ a = [Plain EXCEPT !.control = TRUE] \/ a = [Plain EXCEPT !.hostname = "odd name"]
      BY <2>3, Zenon
    <3>2. a.endpoint = "localhost" /\ a.key = "none"
      BY <3>1 DEF Plain
    <3> QED BY <3>2 DEF Endpoint
  <2>4. CASE a \in Endpoints
    <3>1. PICK p \in Endpoint \X {"none", "10.0.0.9", "127.9.9.9"} : a = [Plain EXCEPT !.endpoint = p[1], !.trusted = p[2]]
      BY <2>4, Zenon
    <3>2. p[1] \in Endpoint /\ a.endpoint = p[1] /\ a.key = "none"
      BY <3>1 DEF Plain
    <3> QED BY <3>2
  <2>5. CASE a \in Addresses
    <3>1. PICK x \in {"static", "no gateway"} : a = [Plain EXCEPT !.address = x]
      BY <2>5, Zenon
    <3> QED BY <3>1 DEF Plain, Endpoint
  <2>6. CASE a \in Hooks
    <3>1. PICK u \in {"https", "http", "https inside"} : a = [Plain EXCEPT !.hook = u]
      BY <2>6, Zenon
    <3> QED BY <3>1 DEF Plain, Endpoint
  <2>7. CASE a \in Decoys
    <3>1. PICK d \in {"no url", "http", "https"} : a = [Plain EXCEPT !.decoys = d]
      BY <2>7, Zenon
    <3> QED BY <3>1 DEF Plain, Endpoint
  <2>8. CASE a \in Licenses
    <3>1. PICK l \in {"alnum", "dashed"} : a = [Plain EXCEPT !.license = l]
      BY <2>8, Zenon
    <3> QED BY <3>1 DEF Plain, Endpoint
  <2>9. CASE a \in Keys
    <3>1. PICK k \in {"good", "bad"} : a = [Plain EXCEPT !.key = k]
      BY <2>9, Zenon
    <3> QED BY <3>1 DEF Plain, Endpoint
  <2> HIDE DEF Endpoints, Singles, Addresses, Hooks, Decoys, Licenses, Keys
  <2> QED BY <2>1, <2>2, <2>3, <2>4, <2>5, <2>6, <2>7, <2>8, <2>9
<1>2. EndpointPasses(a)
  BY DEF Accepts, PromptsPass
<1>3. /\ EnvOf(a, run).endpoint = a.endpoint
      /\ "edited" \in DOMAIN EnvOf(a, run)
      /\ EnvOf(a, run).trusted = IF a.endpoint \in {"localhost", "127.0.0.1"} THEN "none" ELSE a.trusted
  BY DEF EnvOf
<1> QED BY <1>1, <1>2, <1>3 DEF EndpointPasses, EndpointLoads, IsLoopback, IsLiteral, Endpoint

\* A line changed by hand leaves its mark.
LEMMA EditedByHand ==
    ASSUME NEW e, "edited" \in DOMAIN e, NEW x \in HandEdits(e)
    PROVE  x.edited /\ "edited" \in DOMAIN x
<1> DEFINE Scans == {[e EXCEPT !.scan = n] : n \in Size}
           Responses == {[e EXCEPT !.response = n] : n \in Size}
           Chunks == {[e EXCEPT !.chunk = n] : n \in Size}
           Inputs == {[e EXCEPT !.input = n] : n \in Size}
           Singles == {[e EXCEPT !.severe = 1], [e EXCEPT !.ceiling = 0], [e EXCEPT !.decoys = TRUE],
                       [e EXCEPT !.hash = TRUE], [e EXCEPT !.hash = TRUE, !.manifests = TRUE],
                       [e EXCEPT !.enabled = FALSE], [e EXCEPT !.listen = "static"]}
           Broken == {[e EXCEPT !.outside = {s}] : s \in Spoiled}
           Edits == Scans \union Responses \union Chunks \union Inputs \union Singles \union Broken
<1>1. PICK y \in Edits : x = [y EXCEPT !.edited = TRUE]
  BY Zenon DEF HandEdits
<1>2. y \in Scans => DOMAIN y = DOMAIN e
  OBVIOUS
<1>3. y \in Responses => DOMAIN y = DOMAIN e
  OBVIOUS
<1>4. y \in Chunks => DOMAIN y = DOMAIN e
  OBVIOUS
<1>5. y \in Inputs => DOMAIN y = DOMAIN e
  OBVIOUS
<1>6. y \in Singles => DOMAIN y = DOMAIN e
  OBVIOUS
<1>7. y \in Broken => DOMAIN y = DOMAIN e
  OBVIOUS
<1>8. DOMAIN y = DOMAIN e
  <2> HIDE DEF Scans, Responses, Chunks, Inputs, Singles, Broken
  <2> QED BY <1>1, <1>2, <1>3, <1>4, <1>5, <1>6, <1>7
<1> QED BY <1>1, <1>8

\* A step that leaves the files and the wizard alone.
LEMMA FilesStand ==
    ASSUME FbInv, UNCHANGED <<fbFiles, fbWizard, fbRuns>>, NEW run,
           fbRunning' = [s \in Service |-> run[s]]
    PROVE  WizardTypeOK' /\ ProgressInv' /\ RunIsWhole' /\ EndpointCaught'
<1>1. UNCHANGED <<fbFile, fbTemp, fbEnv, fbWizard, fbRuns>>
  BY DEF fbFiles
<1>2. fbRunning' = [s \in Service |-> fbRunning'[s]]
  OBVIOUS
<1>3. WizardTypeOK'
  BY <1>1, <1>2 DEF FbInv, WizardTypeOK, Wizard, Present
<1>4. ProgressInv'
  BY <1>1 DEF FbInv, ProgressInv, Working, Placed, Skips
<1>5. RunIsWhole' /\ EndpointCaught'
  BY <1>1 DEF FbInv, WizardSound, RunIsWhole, EndpointCaught, Skips, Present
<1> QED BY <1>3, <1>4, <1>5

LEMMA StartWizardStep == ASSUME FbInv, NEW a \in Answers, StartWizard(a) PROVE FbInv'
<1>1. /\ UNCHANGED <<fbFile, fbTemp, fbEnv, fbMoves, fbFirewall, fbRunning, fbAddress>>
      /\ fbRuns < MaxRuns /\ fbRuns' = fbRuns + 1 /\ fbUnit' \in {"running", "over"}
  BY DEF StartWizard, MayStart, fbFiles
<1>2. fbRuns \in Nat /\ MaxRuns \in Nat /\ fbFile \in [WizardFile -> Nat]
  BY BootAssumption DEF FbInv, WizardSound, FbTypeOK
<1>3. \A f \in WizardFile : fbFile[f] <= fbRuns /\ fbFile'[f] < fbRuns'
  BY <1>1, <1>2 DEF FbInv, WizardTypeOK
<1>4. CASE Accepts(a)
  <2>1. fbWizard' = [step |-> "opening", run |-> fbRuns + 1, key |-> a.key, env |-> EnvOf(a, fbRuns + 1), at |-> 1]
    BY <1>4 DEF StartWizard
  <2>2. /\ fbWizard'.step = "opening" /\ fbWizard'.at = 1 /\ fbWizard'.env = EnvOf(a, fbRuns + 1)
        /\ fbWizard'.run = fbRuns'
    BY <1>1, <2>1
  <2>3. ProgressInv'
    BY <1>4, <2>2, AcceptedLoads DEF ProgressInv
  <2>4. fbWizard' \in Wizard'
    BY <1>2, <1>4, <2>1, AcceptedLoads DEF Wizard
  <2>5. WizardTypeOK'
    BY <1>1, <1>2, <1>3, <2>2, <2>4 DEF WizardTypeOK, Present, FbInv
  <2>6. FbTypeOK'
    BY <1>1, <1>2, <2>2 DEF FbInv, WizardSound, FbTypeOK
  <2>7. RunIsWhole' /\ EndpointCaught' /\ ScansReach'
    BY <1>1, <2>2 DEF FbInv, WizardSound, RunIsWhole, EndpointCaught, ScansReach, Present
  <2> QED BY <2>3, <2>5, <2>6, <2>7 DEF FbInv, WizardSound
<1>5. CASE ~Accepts(a)
  <2>1. fbWizard' = [step |-> "refused", run |-> fbRuns + 1, key |-> "none", env |-> Blank, at |-> 1]
    BY <1>5 DEF StartWizard, Resting
  <2>2. fbWizard'.step = "refused" /\ fbWizard'.run = fbRuns'
    BY <1>1, <2>1
  <2>3. fbWizard' \in Wizard'
    BY <1>2, <2>1 DEF Wizard
  <2>4. WizardTypeOK' /\ ProgressInv'
    BY <1>1, <1>2, <1>3, <2>2, <2>3 DEF WizardTypeOK, Present, FbInv, ProgressInv, Working
  <2>5. FbTypeOK'
    BY <1>1, <1>2, <2>2 DEF FbInv, WizardSound, FbTypeOK
  <2>6. \A f \in WizardFile : fbFile'[f] # fbWizard'.run
    BY <1>1, <1>2, <1>3, <2>2
  <2>7. RunIsWhole' /\ EndpointCaught' /\ ScansReach'
    BY <1>1, <2>2, <2>6 DEF FbInv, WizardSound, RunIsWhole, EndpointCaught, ScansReach, Present
  <2> QED BY <2>4, <2>5, <2>7 DEF FbInv, WizardSound
<1> QED BY <1>4, <1>5

\* The wizard stops where it is: nothing says it is through, nor that it was refused in time.
LEMMA GivenUp ==
    ASSUME FbInv, NEW step \in {"refused", "broken"}, step = "refused" => fbWizard.key = "bad",
           UNCHANGED <<fbFiles, fbRuns>>,
           fbWizard' = [fbWizard EXCEPT !.step = step, !.env = Blank, !.at = 1], NEW run,
           fbRunning' = [s \in Service |-> run[s]]
    PROVE  WizardTypeOK' /\ ProgressInv' /\ RunIsWhole' /\ EndpointCaught' /\ fbWizard'.step = step
<1>1. UNCHANGED <<fbFile, fbTemp, fbEnv, fbRuns>>
  BY DEF fbFiles
<1>2. /\ fbWizard'.step = step /\ fbWizard'.run = fbWizard.run /\ fbWizard'.key = fbWizard.key
      /\ fbWizard' \in Wizard'
  <2>1. fbWizard \in Wizard
    BY DEF FbInv, WizardTypeOK
  <2>2. /\ fbWizard'.step = step /\ fbWizard'.run = fbWizard.run /\ fbWizard'.key = fbWizard.key
        /\ fbWizard'.at = 1
    BY <2>1 DEF Wizard
  <2>3. fbWizard' = [step |-> step, run |-> fbWizard.run, key |-> fbWizard.key, env |-> Blank, at |-> 1]
    BY <2>1 DEF Wizard
  <2> QED BY <2>1, <2>2, <2>3 DEF Wizard
<1>3. fbRunning' = [s \in Service |-> fbRunning'[s]]
  OBVIOUS
<1>4. WizardTypeOK'
  BY <1>1, <1>2, <1>3 DEF FbInv, WizardTypeOK, Present
<1>5. ProgressInv' /\ RunIsWhole'
  BY <1>2 DEF ProgressInv, Working, RunIsWhole
<1>6. EndpointCaught'
  BY <1>1 DEF FbInv, WizardSound, EndpointCaught, Present
<1> QED BY <1>2, <1>4, <1>5, <1>6

LEMMA OpenTempStep == ASSUME FbInv, OpenTemp PROVE FbInv'
<1>1. fbWizard.step = "opening" /\ fbWizard.at \in 1..8 /\ ~Skips(Artefact) /\ Artefact \in WizardFile
  BY ArtefactsAre DEF OpenTemp, FbInv, WizardTypeOK, Wizard, Artefact
<1>2. CASE Renderable(Artefact) /\ Artefact \notin Cleared(Artefact)
  <2>1. /\ fbTemp' = Cleared(Artefact) \union {Artefact}
        /\ fbWizard' = [fbWizard EXCEPT !.step = "replacing"]
        /\ UNCHANGED <<fbFile, fbEnv, fbRuns, fbMoves, fbUnit, fbFirewall, fbRunning, fbAddress>>
    BY <1>2 DEF OpenTemp, fbHost
  <2>2. /\ fbWizard' \in Wizard' /\ fbWizard'.step = "replacing" /\ fbWizard'.run = fbWizard.run
        /\ fbWizard'.at = fbWizard.at /\ fbWizard'.env = fbWizard.env /\ fbWizard'.key = fbWizard.key
    BY <2>1 DEF FbInv, WizardTypeOK, Wizard
  <2>3. \A i \in 1..8 : i < fbWizard.at => Artefacts[i] # Artefact
    BY <1>1, ArtefactsAre DEF Artefact
  <2>4. ASSUME NEW i \in 1..8, i < fbWizard.at PROVE Placed(i)'
    <3>1. Placed(i)
      BY <1>1, <2>4 DEF FbInv, ProgressInv, Working
    <3> QED BY <2>1, <2>2, <2>3, <2>4, <3>1 DEF Placed, Skips, Cleared
  <2>5. ProgressInv'
    BY <1>1, <2>2, <2>4 DEF FbInv, ProgressInv, Working
  <2>6. WizardTypeOK' /\ FbTypeOK'
    BY <1>1, <2>1, <2>2 DEF FbInv, WizardSound, WizardTypeOK, FbTypeOK, Cleared, Present
  <2>7. RunIsWhole' /\ EndpointCaught' /\ ScansReach'
    BY <2>1, <2>2 DEF FbInv, WizardSound, RunIsWhole, EndpointCaught, ScansReach, Present
  <2> QED BY <2>5, <2>6, <2>7 DEF FbInv, WizardSound
<1>3. CASE ~(Renderable(Artefact) /\ Artefact \notin Cleared(Artefact))
  <2>1. GiveUp("refused") /\ fbWizard.key = "bad"
    BY <1>1, <1>3 DEF OpenTemp, Renderable, Cleared, Skips, KeyParses, FbInv, WizardTypeOK, Wizard
  <2>2. /\ fbWizard' = [fbWizard EXCEPT !.step = "refused", !.env = Blank, !.at = 1]
        /\ fbUnit' = "over"
        /\ UNCHANGED <<fbFiles, fbRuns, fbMoves, fbFirewall, fbRunning, fbAddress>>
    BY <2>1 DEF GiveUp
  <2>3. fbRunning' = [s \in Service |-> fbRunning[s]]
    BY <2>2 DEF FbInv, WizardTypeOK
  <2>4. WizardTypeOK' /\ ProgressInv' /\ RunIsWhole' /\ EndpointCaught' /\ fbWizard'.step = "refused"
    BY <2>1, <2>2, <2>3, GivenUp
  <2>5. FbTypeOK' /\ ScansReach'
    BY <2>2, <2>4 DEF FbInv, WizardSound, FbTypeOK, ScansReach, fbFiles
  <2> QED BY <2>4, <2>5 DEF FbInv, WizardSound
<1> QED BY <1>2, <1>3

LEMMA BreakStep == ASSUME FbInv, Break PROVE FbInv'
<1>1. /\ fbWizard' = [fbWizard EXCEPT !.step = "broken", !.env = Blank, !.at = 1]
      /\ fbUnit' = "over"
      /\ UNCHANGED <<fbFiles, fbRuns, fbMoves, fbFirewall, fbRunning, fbAddress>>
  BY DEF Break, GiveUp
<1>2. fbRunning' = [s \in Service |-> fbRunning[s]]
  BY <1>1 DEF FbInv, WizardTypeOK
<1>3. WizardTypeOK' /\ ProgressInv' /\ RunIsWhole' /\ EndpointCaught' /\ fbWizard'.step = "broken"
  BY <1>1, <1>2, GivenUp
<1>4. FbTypeOK' /\ ScansReach'
  BY <1>1, <1>3 DEF FbInv, WizardSound, FbTypeOK, ScansReach, fbFiles
<1> QED BY <1>3, <1>4 DEF FbInv, WizardSound

LEMMA SkipKeysStep == ASSUME FbInv, SkipKeys PROVE FbInv'
<1>1. fbWizard.step = "opening" /\ fbWizard.at \in 1..8 /\ Skips(Artefact)
  BY ArtefactsAre DEF SkipKeys, FbInv, WizardTypeOK, Wizard
<1>2. /\ fbWizard' = [fbWizard EXCEPT !.at = @ + 1]
      /\ UNCHANGED <<fbFile, fbTemp, fbEnv, fbRuns, fbMoves, fbUnit, fbFirewall, fbRunning, fbAddress>>
  BY DEF SkipKeys, fbFiles, fbHost
<1>3. /\ fbWizard' \in Wizard' /\ fbWizard'.step = "opening" /\ fbWizard'.run = fbWizard.run
      /\ fbWizard'.at = fbWizard.at + 1 /\ fbWizard'.env = fbWizard.env /\ fbWizard'.key = fbWizard.key
  BY <1>1, <1>2 DEF FbInv, WizardTypeOK, Wizard
<1>4. ASSUME NEW i \in 1..8, i < fbWizard'.at PROVE Placed(i)'
  <2>1. i < fbWizard.at \/ i = fbWizard.at
    BY <1>1, <1>3, <1>4
  <2>2. Placed(i)
    BY <1>1, <2>1 DEF FbInv, ProgressInv, Working, Placed, Artefact
  <2> QED BY <1>2, <1>3, <2>2 DEF Placed, Skips
<1>5. ProgressInv'
  BY <1>1, <1>3, <1>4 DEF ProgressInv
<1>6. WizardTypeOK' /\ FbTypeOK'
  BY <1>2, <1>3 DEF FbInv, WizardSound, WizardTypeOK, FbTypeOK, Present
<1>7. RunIsWhole' /\ EndpointCaught' /\ ScansReach'
  BY <1>2, <1>3 DEF FbInv, WizardSound, RunIsWhole, EndpointCaught, ScansReach, Present
<1> QED BY <1>5, <1>6, <1>7 DEF FbInv, WizardSound

LEMMA ReplaceFileStep == ASSUME FbInv, ReplaceFile PROVE FbInv'
<1>1. /\ fbWizard.step = "replacing" /\ fbWizard.at \in 1..8
      /\ Artefact \in WizardFile /\ Artefact = Artefacts[fbWizard.at]
      /\ (Artefact = "env" <=> fbWizard.at = 1)
  BY ArtefactsAre DEF ReplaceFile, FbInv, WizardTypeOK, Wizard, ProgressInv, Working, Artefact
<1>2. /\ fbTemp' = fbTemp \ {Artefact}
      /\ fbFile' = [fbFile EXCEPT ![Artefact] = fbWizard.run]
      /\ fbEnv' = IF Artefact = "env" THEN fbWizard.env ELSE fbEnv
      /\ fbWizard' = [fbWizard EXCEPT !.step = "opening", !.env = Blank, !.at = @ + 1]
      /\ UNCHANGED <<fbRuns, fbMoves, fbUnit, fbFirewall, fbRunning, fbAddress>>
  BY DEF ReplaceFile, fbHost
<1>3. /\ fbWizard'.step = "opening" /\ fbWizard'.run = fbWizard.run
      /\ fbWizard'.at = fbWizard.at + 1 /\ fbWizard'.key = fbWizard.key
  BY <1>2 DEF FbInv, WizardTypeOK, Wizard
<1>4. fbWizard' \in Wizard'
  <2>1. fbWizard' = [step |-> "opening", run |-> fbWizard.run, key |-> fbWizard.key, env |-> Blank,
                     at |-> fbWizard.at + 1]
    BY <1>2 DEF FbInv, WizardTypeOK, Wizard
  <2> QED BY <1>1, <2>1 DEF FbInv, WizardTypeOK, Wizard
<1>5. fbFile \in [WizardFile -> 0..MaxRuns] /\ fbWizard.run \in Nat /\ fbRuns \in Nat
      /\ fbWizard.run <= fbRuns /\ fbRuns <= MaxRuns /\ MaxRuns \in Nat
  BY BootAssumption DEF FbInv, WizardSound, FbTypeOK, WizardTypeOK, Wizard
<1>6. \A f \in WizardFile : fbFile'[f] = IF f = Artefact THEN fbWizard.run ELSE fbFile[f]
  BY <1>2, <1>5
<1>7. ASSUME NEW i \in 1..8, i < fbWizard'.at PROVE Placed(i)'
  <2>1. Artefacts[i] \in WizardFile
    BY ArtefactsAre
  <2>2. CASE i < fbWizard.at
    <3>1. Placed(i)
      BY <1>1, <2>2 DEF FbInv, ProgressInv, Working
    <3> QED BY <1>2, <1>3, <1>6, <2>1, <3>1 DEF Placed, Skips
  <2>3. CASE i = fbWizard.at
    BY <1>1, <1>2, <1>3, <1>6, <2>1, <2>3 DEF Placed
  <2> QED BY <1>1, <1>3, <1>7, <2>2, <2>3
<1>8. ProgressInv'
  BY <1>1, <1>3, <1>7 DEF ProgressInv
<1>9. Present("env") => "edited" \in DOMAIN fbEnv
  BY DEF FbInv, WizardTypeOK
<1>10. fbWizard.at = 1 => EndpointLoads(fbWizard.env) /\ "edited" \in DOMAIN fbWizard.env
  BY <1>1 DEF FbInv, ProgressInv, Working
<1>11. WizardTypeOK' /\ FbTypeOK'
  <2>1. Present("env")' => "edited" \in DOMAIN fbEnv'
    BY <1>1, <1>2, <1>6, <1>9, <1>10, ArtefactsAre DEF Present
  <2>2. \A f \in WizardFile : fbFile'[f] <= fbRuns'
    BY <1>2, <1>5, <1>6 DEF FbInv, WizardTypeOK
  <2>3. fbFile' \in [WizardFile -> 0..MaxRuns]
    BY <1>1, <1>2, <1>5
  <2> QED BY <1>2, <1>3, <1>4, <2>1, <2>2, <2>3 DEF FbInv, WizardSound, WizardTypeOK, FbTypeOK
<1>12. EndpointCaught'
  BY <1>1, <1>2, <1>6, <1>10, ArtefactsAre DEF EndpointCaught, Present, FbInv, WizardSound
<1>13. RunIsWhole' /\ ScansReach'
  BY <1>2, <1>3 DEF FbInv, WizardSound, RunIsWhole, ScansReach
<1> QED BY <1>8, <1>11, <1>12, <1>13 DEF FbInv, WizardSound

LEMMA FinishRunStep == ASSUME FbInv, FinishRun PROVE FbInv'
<1>1. fbWizard.step = "opening" /\ fbWizard.at = 9
  BY ArtefactsAre DEF FinishRun, FbInv, WizardTypeOK, Wizard
<1>2. /\ fbWizard' = [fbWizard EXCEPT !.step = "done", !.at = 1]
      /\ fbUnit' = "over" /\ fbFirewall' \in {fbFile["nft"], fbFirewall}
      /\ UNCHANGED <<fbFile, fbTemp, fbEnv, fbRuns, fbMoves, fbRunning, fbAddress>>
  BY DEF FinishRun, fbFiles
<1>3. /\ fbWizard' \in Wizard' /\ fbWizard'.step = "done" /\ fbWizard'.run = fbWizard.run
      /\ fbWizard'.env = fbWizard.env /\ fbWizard'.key = fbWizard.key
  <2>1. fbWizard \in Wizard
    BY DEF FbInv, WizardTypeOK
  <2>2. fbWizard' = [step |-> "done", run |-> fbWizard.run, key |-> fbWizard.key, env |-> fbWizard.env, at |-> 1]
    BY <1>2, <2>1 DEF Wizard
  <2> QED BY <2>1, <2>2 DEF Wizard
<1>4. WizardTypeOK' /\ ProgressInv'
  BY <1>2, <1>3 DEF FbInv, WizardTypeOK, ProgressInv, Working, Present
<1>5. fbFile["nft"] \in 0..MaxRuns
  BY ArtefactsAre DEF FbInv, WizardSound, FbTypeOK
<1>6. FbTypeOK'
  BY <1>2, <1>3, <1>5 DEF FbInv, WizardSound, FbTypeOK
<1>7. RunIsWhole'
  <2> SUFFICES ASSUME NEW f \in WizardFile
               PROVE  Skips(f)' \/ (fbFile'[f] = fbWizard'.run /\ f \notin fbTemp')
    BY <1>3 DEF RunIsWhole
  <2>1. PICK i \in 1..8 : Artefacts[i] = f
    BY ArtefactsAre
  <2>2. Placed(i)
    BY <1>1 DEF FbInv, ProgressInv, Working
  <2> QED BY <1>2, <1>3, <2>1, <2>2 DEF Placed, Skips
<1>8. EndpointCaught' /\ ScansReach'
  BY <1>2 DEF FbInv, WizardSound, EndpointCaught, ScansReach, Present
<1> QED BY <1>4, <1>6, <1>7, <1>8 DEF FbInv, WizardSound

LEMMA BootStep == ASSUME FbInv, Boot PROVE FbInv'
<1>1. /\ fbMoves < MaxMoves /\ fbMoves' = fbMoves + 1
      /\ fbWizard' = IF Working THEN [fbWizard EXCEPT !.step = "broken", !.env = Blank, !.at = 1] ELSE fbWizard
      /\ fbUnit' \in {"over", "waiting"} /\ fbFirewall' = fbFile["nft"]
      /\ fbRunning' = AllDown /\ fbAddress' = "none" /\ UNCHANGED <<fbFiles, fbRuns>>
  BY DEF Boot
<1>2. fbRunning' = [s \in Service |-> Blank]
  BY <1>1 DEF AllDown
<1>3. WizardTypeOK' /\ ProgressInv' /\ RunIsWhole' /\ EndpointCaught'
      /\ fbWizard'.step \in {"none", "opening", "replacing", "done", "refused", "broken"}
  <2> DEFINE blank == [s \in Service |-> Blank]
  <2>1. fbRunning' = [s \in Service |-> blank[s]]
    BY <1>2
  <2> HIDE DEF blank
  <2>2. CASE Working
    BY <1>1, <2>1, <2>2, GivenUp
  <2>3. CASE ~Working
    BY <1>1, <2>1, <2>3, FilesStand DEF FbInv, WizardTypeOK, Wizard
  <2> QED BY <2>2, <2>3
<1>4. fbFile["nft"] \in 0..MaxRuns
  BY ArtefactsAre DEF FbInv, WizardSound, FbTypeOK
<1>5. FbTypeOK'
  BY <1>1, <1>3, <1>4, BootAssumption DEF FbInv, WizardSound, FbTypeOK, fbFiles
<1>6. ScansReach'
  BY <1>2 DEF ScansReach
<1> QED BY <1>3, <1>5, <1>6 DEF FbInv, WizardSound

LEMMA LeaseStep == ASSUME FbInv, Lease PROVE FbInv'
<1>1. /\ UNCHANGED <<fbFiles, fbWizard, fbRuns, fbMoves, fbUnit, fbFirewall, fbRunning>>
      /\ fbAddress' \in {"none", "static", "leased"}
  BY DEF Lease
<1>2. fbRunning' = [s \in Service |-> fbRunning[s]]
  BY <1>1 DEF FbInv, WizardTypeOK
<1>3. WizardTypeOK' /\ ProgressInv' /\ RunIsWhole' /\ EndpointCaught'
  BY <1>1, <1>2, FilesStand
<1>4. FbTypeOK' /\ ScansReach'
  BY <1>1 DEF FbInv, WizardSound, FbTypeOK, ScansReach, fbFiles
<1> QED BY <1>3, <1>4 DEF FbInv, WizardSound

LEMMA StartServiceStep == ASSUME FbInv, NEW s \in Service, StartService(s) PROVE FbInv'
<1>1. /\ UNCHANGED <<fbFiles, fbWizard, fbRuns, fbMoves, fbUnit, fbAddress>>
      /\ Loads(fbEnv) /\ fbRunning' = [fbRunning EXCEPT ![s] = fbEnv]
      /\ fbFirewall' \in {fbFile["nft"], fbFirewall}
  BY DEF StartService
<1>2. \A t \in Service : fbRunning'[t] = IF t = s THEN fbEnv ELSE fbRunning[t]
  BY <1>1 DEF FbInv, WizardTypeOK
<1>3. fbRunning' = [t \in Service |-> fbRunning'[t]]
  BY <1>1 DEF FbInv, WizardTypeOK
<1>4. WizardTypeOK' /\ ProgressInv' /\ RunIsWhole' /\ EndpointCaught'
  <2> DEFINE after == fbRunning'
  <2>1. fbRunning' = [t \in Service |-> after[t]]
    BY <1>3
  <2> HIDE DEF after
  <2> QED BY <1>1, <2>1, FilesStand
<1>5. fbFile["nft"] \in 0..MaxRuns
  BY ArtefactsAre DEF FbInv, WizardSound, FbTypeOK
<1>6. FbTypeOK'
  BY <1>1, <1>5 DEF FbInv, WizardSound, FbTypeOK, fbFiles
<1>7. ScansReach'
  BY <1>1, <1>2 DEF FbInv, WizardSound, ScansReach, Loads, ScanCovers
<1> QED BY <1>4, <1>6, <1>7 DEF FbInv, WizardSound

LEMMA StopServiceStep == ASSUME FbInv, NEW s \in Service, StopService(s) PROVE FbInv'
<1> DEFINE after == [t \in Service |-> IF t = s \/ (s = "bridge" /\ t = "lure") THEN Blank ELSE fbRunning[t]]
<1>1. /\ fbMoves < MaxMoves /\ fbMoves' = fbMoves + 1 /\ fbRunning' = after
      /\ UNCHANGED <<fbFiles, fbWizard, fbRuns, fbUnit, fbFirewall, fbAddress>>
  BY DEF StopService
<1>2. fbRunning' = [t \in Service |-> after[t]]
  BY <1>1
<1>3. ScansReach'
  BY <1>1 DEF FbInv, WizardSound, ScansReach
<1>4. FbTypeOK'
  BY <1>1, BootAssumption DEF FbInv, WizardSound, FbTypeOK, fbFiles
<1> HIDE DEF after
<1>5. WizardTypeOK' /\ ProgressInv' /\ RunIsWhole' /\ EndpointCaught'
  BY <1>1, <1>2, FilesStand
<1> QED BY <1>3, <1>4, <1>5 DEF FbInv, WizardSound

LEMMA EditStep == ASSUME FbInv, Edit PROVE FbInv'
<1>1. /\ UNCHANGED <<fbFile, fbTemp, fbWizard, fbRuns, fbUnit, fbFirewall, fbRunning, fbAddress>>
      /\ Present("env") /\ fbEnv' \in HandEdits(fbEnv)
      /\ fbMoves < MaxMoves /\ fbMoves' = fbMoves + 1
  BY DEF Edit, fbHost
<1>2. fbEnv'.edited /\ "edited" \in DOMAIN fbEnv'
  BY <1>1, EditedByHand DEF FbInv, WizardTypeOK
<1>3. EndpointCaught'
  BY <1>2 DEF EndpointCaught
<1>4. WizardTypeOK' /\ ProgressInv'
  BY <1>1, <1>2 DEF FbInv, WizardTypeOK, Wizard, ProgressInv, Working, Placed, Skips
<1>5. FbTypeOK'
  BY <1>1, BootAssumption DEF FbInv, WizardSound, FbTypeOK
<1>6. RunIsWhole' /\ ScansReach'
  BY <1>1 DEF FbInv, WizardSound, RunIsWhole, ScansReach, Skips
<1> QED BY <1>3, <1>4, <1>5, <1>6 DEF FbInv, WizardSound

LEMMA FbStep == ASSUME FbInv, [FbNext]_fbVars PROVE FbInv'
<1>1. CASE UNCHANGED fbVars
  <2>1. UNCHANGED <<fbFile, fbTemp, fbEnv, fbWizard, fbRuns, fbMoves, fbUnit, fbFirewall, fbRunning, fbAddress>>
    BY <1>1 DEF fbVars, fbHost
  <2>2. WizardTypeOK' /\ ProgressInv'
    BY <2>1 DEF FbInv, WizardTypeOK, Wizard, ProgressInv, Working, Placed, Skips, Present
  <2>3. WizardSound'
    BY <2>1 DEF FbInv, WizardSound, FbTypeOK, RunIsWhole, EndpointCaught, ScansReach, Skips, Present
  <2> QED BY <2>2, <2>3 DEF FbInv
<1>2. CASE FbNext
  BY <1>2, StartWizardStep, OpenTempStep, SkipKeysStep, ReplaceFileStep, FinishRunStep, BreakStep, BootStep,
     LeaseStep, EditStep, StartServiceStep, StopServiceStep DEF FbNext
<1> QED BY <1>1, <1>2

\* What the wizard leaves on disk, and what a service makes of it: a run that finishes has
\* replaced every file, one that is refused in time none, whatever killed runs left behind;
\* an endpoint the loader would refuse is caught at the prompts; no process runs with a
\* scan that is shorter than what it scans.
THEOREM WizardKept == FbSpec => []WizardSound
<1>1. FbInit => FbInv
  BY FbInitInv
<1>2. FbInv /\ [FbNext]_fbVars => FbInv'
  BY FbStep
<1>3. FbInv => WizardSound
  BY DEF FbInv
<1> QED BY <1>1, <1>2, <1>3, PTL DEF FbSpec

=============================================================================
