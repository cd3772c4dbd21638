------------------------ MODULE DashboardPartsProofs ------------------------
(***************************************************************************)
(* Parts of the dashboard, each with theorems of its own: the schema of    *)
(* its store and the import of old rows, the credential store it reads,    *)
(* whose key is rotated under a running lure, the console its operator     *)
(* logs in to, what it reads straight from the audit log, and the feed of  *)
(* events to the browsers.                                                 *)
(***************************************************************************)
EXTENDS StoreUpgrade, CredentialRotation, OperatorConsole, AuditReaders, LiveEvents, FiniteSetTheorems,
        SequenceTheorems, WellFoundedInduction, TLAPS

-----------------------------------------------------------------------------
(* The schema of a store that several processes upgrade at once and die    *)
(* at, for any number of processes, versions and deaths.                   *)

SchemaTypeOK ==
    /\ suVersion \in 0..Newest
    /\ suMishap \in BOOLEAN /\ suRefused \in BOOLEAN
    /\ suOpener \in [Opener -> [step : {"closed", "alter", "create", "stamp", "open"}, at : Nat]]

\* What an opener knows: everything below the version it is at is there, and so is
\* what it did itself, since nobody ever takes a column or a table away.
OpenerInv(o) ==
    LET v == suOpener[o].at IN
    /\ Migrating(o) => v \in 1..Newest /\ Whole(v - 1)
    /\ suOpener[o].step = "alter" => v \in Altering
    /\ suOpener[o].step \in {"create", "stamp"} /\ v \in Altering => v \in suColumns
    /\ suOpener[o].step = "stamp" => v \in suTables
    /\ suOpener[o].step = "open" => Whole(Newest)

\* The columns of the versions the opener has behind it, and of its own once it altered the table.
DoneBy(o) == 1..(IF suOpener[o].step = "alter" THEN suOpener[o].at - 1 ELSE suOpener[o].at)

\* As long as one migrates at a time and none dies at it, the columns are those of the
\* recorded version, and those the one that migrates has added.
AloneInv ==
    ~suMishap =>
        /\ ~suRefused
        /\ \A o, p \in Opener : Migrating(o) /\ Migrating(p) => o = p
        /\ \A o \in Opener : Migrating(o) => suVersion = suOpener[o].at - 1 /\ suColumns \subseteq DoneBy(o)
        /\ (\A o \in Opener : ~Migrating(o)) => suColumns \subseteq 1..suVersion

SchemaInv ==
    /\ SchemaTypeOK
    /\ Whole(suVersion)
    /\ \A o \in Opener : OpenerInv(o)
    /\ AloneInv

LEMMA InitSchema == UpInit => SchemaInv
<1> SUFFICES ASSUME UpInit PROVE SchemaInv
  OBVIOUS
<1>1. SchemaTypeOK /\ Whole(suVersion)
  BY UpgradeAssumption DEF UpInit, SchemaTypeOK, Whole, NotOpen
<1>2. \A o \in Opener : suOpener[o].step = "closed"
  BY DEF UpInit, NotOpen
<1>3. \A o \in Opener : OpenerInv(o)
  BY <1>2 DEF OpenerInv, Migrating
<1>4. AloneInv
  BY <1>2 DEF UpInit, AloneInv, Migrating
<1> QED BY <1>1, <1>3, <1>4 DEF SchemaInv

\* Where the next version leads: to its first statement, or to the open store.
LEMMA NextStep ==
  ASSUME SchemaTypeOK, NEW o \in Opener, NEW v \in 1..(Newest + 1), NextOf(o, v)
  PROVE  /\ suOpener' = [suOpener EXCEPT ![o] = [step |-> suOpener'[o].step, at |-> v]]
         /\ suOpener'[o].at = v
         /\ v = Newest + 1 => suOpener'[o].step = "open"
         /\ v \in 1..Newest => suOpener'[o].step = IF v \in Altering THEN "alter" ELSE "create"
  BY UpgradeAssumption DEF NextOf, Proceed, FirstOf, SchemaTypeOK

\* A version whose table and column are there is whole when those before it are.
LEMMA WholeNext ==
  ASSUME NEW v \in Nat \ {0}, Whole(v - 1), v \in suTables, v \in Altering => v \in suColumns
  PROVE  Whole(v)
  BY DEF Whole

LEMMA OpenKeeps ==
  ASSUME SchemaInv, NEW o \in Opener, OpenStore(o)
  PROVE  SchemaInv'
<1> USE UpgradeAssumption
<1>1. suVersion + 1 \in 1..(Newest + 1) /\ ~Migrating(o)
  BY DEF SchemaInv, SchemaTypeOK, OpenStore, Migrating
<1>2. /\ suOpener' = [suOpener EXCEPT ![o] = [step |-> suOpener'[o].step, at |-> suVersion + 1]]
      /\ suOpener'[o].at = suVersion + 1
      /\ suVersion = Newest => suOpener'[o].step = "open"
      /\ suVersion < Newest =>
             suOpener'[o].step = IF suVersion + 1 \in Altering THEN "alter" ELSE "create"
  BY <1>1, NextStep DEF OpenStore, SchemaInv, SchemaTypeOK
<1>3. UNCHANGED <<suVersion, suColumns, suTables, suRefused>>
  BY DEF OpenStore
<1>4. \A p \in Opener \ {o} : suOpener'[p] = suOpener[p]
  BY <1>2 DEF SchemaInv, SchemaTypeOK
<1>5. SchemaTypeOK'
  BY <1>1, <1>2, <1>3 DEF OpenStore, SchemaInv, SchemaTypeOK
<1>6. Whole(suVersion)'
  BY <1>3 DEF SchemaInv, Whole
<1>7. \A p \in Opener : OpenerInv(p)'
  BY <1>2, <1>3, <1>4, <1>5 DEF SchemaInv, SchemaTypeOK, OpenerInv, Migrating, Whole
<1>8. AloneInv'
  <2> SUFFICES ASSUME ~suMishap' PROVE AloneInv'
    BY DEF AloneInv
  <2>1. ~suMishap /\ (suVersion < Newest => \A p \in Opener \ {o} : ~Migrating(p))
    BY DEF OpenStore
  <2>2. CASE suVersion = Newest
    <3>1. \A p \in Opener : ~Migrating(p)
      BY <2>1, <2>2 DEF SchemaInv, SchemaTypeOK, OpenerInv, AloneInv, Migrating
    <3>2. \A p \in Opener : ~Migrating(p)'
      BY <1>2, <1>4, <2>2, <3>1 DEF Migrating
    <3> QED BY <1>3, <2>1, <3>1, <3>2 DEF SchemaInv, AloneInv
  <2>3. CASE suVersion < Newest
    <3>1. \A p \in Opener : ~Migrating(p)
      BY <1>1, <2>1, <2>3
    <3>2. suColumns \subseteq 1..suVersion /\ ~suRefused
      BY <2>1, <3>1 DEF SchemaInv, AloneInv
    <3>3. \A p \in Opener : Migrating(p)' <=> p = o
      BY <1>2, <1>4, <2>3, <3>1 DEF Migrating
    <3>4. suVersion' = suOpener'[o].at - 1 /\ suColumns' \subseteq DoneBy(o)'
      BY <1>2, <1>3, <3>2 DEF DoneBy, SchemaInv, SchemaTypeOK
    <3> QED BY <1>3, <3>2, <3>3, <3>4 DEF AloneInv
  <2> QED BY <2>2, <2>3 DEF SchemaInv, SchemaTypeOK
<1> QED BY <1>5, <1>6, <1>7, <1>8 DEF SchemaInv

LEMMA AlterKeeps ==
  ASSUME SchemaInv, NEW o \in Opener, AlterTable(o)
  PROVE  SchemaInv'
<1> USE UpgradeAssumption
<1> DEFINE v == suOpener[o].at
<1>1. v \in 1..Newest /\ v \in Altering /\ Whole(v - 1) /\ Migrating(o)
  BY DEF SchemaInv, OpenerInv, AlterTable, Migrating
<1>2. /\ suColumns' = suColumns \union {v}
      /\ UNCHANGED <<suVersion, suTables, suMishap>>
      /\ \A p \in Opener \ {o} : suOpener'[p] = suOpener[p]
  BY DEF AlterTable, Proceed, SchemaInv, SchemaTypeOK
<1>3. suOpener'[o] = IF v \in suColumns THEN [step |-> "closed", at |-> 0] ELSE [step |-> "create", at |-> v]
  BY DEF AlterTable, Proceed, SchemaInv, SchemaTypeOK
<1>4. SchemaTypeOK'
  BY <1>1 DEF AlterTable, Proceed, SchemaInv, SchemaTypeOK
<1>5. Whole(suVersion)'
  BY <1>2 DEF SchemaInv, Whole
<1>6. \A p \in Opener : OpenerInv(p)'
  BY <1>1, <1>2, <1>3 DEF SchemaInv, SchemaTypeOK, OpenerInv, Migrating, Whole
<1>7. AloneInv'
  <2> SUFFICES ASSUME ~suMishap PROVE AloneInv'
    BY <1>2 DEF AloneInv
  <2>1. /\ ~suRefused /\ suVersion = v - 1
        /\ \A p \in Opener \ {o} : ~Migrating(p)
        /\ suColumns \subseteq 1..(v - 1)
    BY <1>1 DEF SchemaInv, AloneInv, DoneBy, AlterTable
  <2>2. v \notin suColumns /\ ~suRefused'
    <3>1. v \notin 1..(v - 1)
      BY <1>1
    <3>2. v \notin suColumns
      BY <2>1, <3>1
    <3>3. suRefused' = (suRefused \/ v \in suColumns)
      BY DEF AlterTable
    <3> QED BY <2>1, <3>2, <3>3
  <2>3. suOpener'[o] = [step |-> "create", at |-> v]
    BY <1>3, <2>2
  <2>4. \A p \in Opener : Migrating(p)' <=> p = o
    BY <1>2, <2>1, <2>3 DEF Migrating
  <2>5. suOpener'[o].at = v /\ DoneBy(o)' = 1..v
    BY <2>3 DEF DoneBy
  <2>6. suVersion' = suOpener'[o].at - 1
    BY <1>2, <2>1, <2>5
  <2>7. suColumns' \subseteq DoneBy(o)'
    <3>1. 1..(v - 1) \union {v} \subseteq 1..v
      BY <1>1
    <3> HIDE DEF v
    <3>2. suColumns' \subseteq 1..v
      BY <1>2, <2>1, <3>1
    <3> QED BY <2>5, <3>2
  <2> QED BY <2>2, <2>4, <2>6, <2>7 DEF AloneInv
<1> QED BY <1>4, <1>5, <1>6, <1>7 DEF SchemaInv

LEMMA CreateKeeps ==
  ASSUME SchemaInv, NEW o \in Opener, CreateTables(o)
  PROVE  SchemaInv'
<1> USE UpgradeAssumption
<1> DEFINE v == suOpener[o].at
<1>1. v \in 1..Newest /\ Whole(v - 1) /\ Migrating(o) /\ (v \in Altering => v \in suColumns)
  BY DEF SchemaInv, OpenerInv, CreateTables, Migrating
<1>2. /\ suTables' = suTables \union {v}
      /\ UNCHANGED <<suVersion, suColumns, suMishap, suRefused>>
      /\ \A p \in Opener \ {o} : suOpener'[p] = suOpener[p]
      /\ suOpener'[o] = [step |-> "stamp", at |-> v]
  BY DEF CreateTables, Proceed, SchemaInv, SchemaTypeOK
<1>3. SchemaTypeOK'
  BY <1>1 DEF CreateTables, Proceed, SchemaInv, SchemaTypeOK
<1>4. Whole(suVersion)'
  BY <1>2 DEF SchemaInv, Whole
<1>5. \A p \in Opener : OpenerInv(p)'
  BY <1>1, <1>2 DEF SchemaInv, SchemaTypeOK, OpenerInv, Migrating, Whole
<1>6. \A p \in Opener : (Migrating(p)' <=> Migrating(p)) /\ suOpener'[p].at = suOpener[p].at
  BY <1>1, <1>2 DEF Migrating
<1>7. \A p \in Opener : DoneBy(p)' = DoneBy(p)
  BY <1>2 DEF DoneBy, CreateTables
<1>8. AloneInv'
  BY <1>2, <1>6, <1>7 DEF SchemaInv, AloneInv
<1> QED BY <1>3, <1>4, <1>5, <1>8 DEF SchemaInv

LEMMA StampKeeps ==
  ASSUME SchemaInv, NEW o \in Opener, Stamp(o)
  PROVE  SchemaInv'
<1> USE UpgradeAssumption
<1> DEFINE v == suOpener[o].at
<1>1. v \in 1..Newest /\ Migrating(o) /\ Whole(v)
  BY WholeNext DEF SchemaInv, SchemaTypeOK, OpenerInv, Stamp, Migrating
<1>2. /\ suVersion' = v
      /\ UNCHANGED <<suColumns, suTables, suMishap, suRefused>>
      /\ v + 1 \in 1..(Newest + 1)
  BY <1>1 DEF Stamp
<1>3. /\ suOpener' = [suOpener EXCEPT ![o] = [step |-> suOpener'[o].step, at |-> v + 1]]
      /\ suOpener'[o].at = v + 1
      /\ v + 1 = Newest + 1 => suOpener'[o].step = "open"
      /\ v + 1 \in 1..Newest => suOpener'[o].step = IF v + 1 \in Altering THEN "alter" ELSE "create"
  BY <1>2, NextStep DEF Stamp, SchemaInv
<1>4. \A p \in Opener \ {o} : suOpener'[p] = suOpener[p]
  BY <1>3 DEF SchemaInv, SchemaTypeOK
<1>5. SchemaTypeOK'
  BY <1>1, <1>2, <1>3 DEF SchemaInv, SchemaTypeOK
<1>6. Whole(suVersion)'
  BY <1>1, <1>2 DEF Whole
<1>7. \A p \in Opener : OpenerInv(p)'
  BY <1>1, <1>2, <1>3, <1>4, <1>5 DEF SchemaInv, SchemaTypeOK, OpenerInv, Migrating, Whole
<1>8. AloneInv'
  <2> SUFFICES ASSUME ~suMishap PROVE AloneInv'
    BY <1>2 DEF AloneInv
  <2>1. ~suRefused /\ suColumns \subseteq 1..v /\ \A p \in Opener \ {o} : ~Migrating(p)
    BY <1>1 DEF SchemaInv, AloneInv, DoneBy, Stamp
  <2>2. \A p \in Opener \ {o} : ~Migrating(p)'
    BY <1>4, <2>1 DEF Migrating
  <2>3. Migrating(o)' => suVersion' = suOpener'[o].at - 1 /\ suColumns' \subseteq DoneBy(o)'
    BY <1>1, <1>2, <1>3, <2>1 DEF Migrating, DoneBy
  <2> QED BY <1>2, <2>1, <2>2, <2>3 DEF AloneInv
<1> QED BY <1>5, <1>6, <1>7, <1>8 DEF SchemaInv

\* A death, or a stop, leaves what the process did.
LEMMA LeavingKeeps ==
  ASSUME SchemaInv, NEW o \in Opener, CloseStore(o) \/ DieAt(o)
  PROVE  SchemaInv'
<1>1. /\ UNCHANGED <<suVersion, suColumns, suTables, suRefused>>
      /\ \A p \in Opener \ {o} : suOpener'[p] = suOpener[p]
      /\ suOpener'[o] = [step |-> "closed", at |-> 0]
      /\ suMishap' = (suMishap \/ Migrating(o))
  BY DEF CloseStore, DieAt, Proceed, Migrating, SchemaInv, SchemaTypeOK
<1>2. SchemaTypeOK'
  BY <1>1 DEF CloseStore, DieAt, Proceed, SchemaInv, SchemaTypeOK
<1>3. Whole(suVersion)'
  BY <1>1 DEF SchemaInv, Whole
<1>4. \A p \in Opener : OpenerInv(p)'
  BY <1>1 DEF SchemaInv, OpenerInv, Migrating, Whole
<1>5. AloneInv'
  <2>1. /\ ~Migrating(o)'
        /\ \A p \in Opener \ {o} : (Migrating(p)' <=> Migrating(p)) /\ DoneBy(p)' = DoneBy(p)
    BY <1>1 DEF Migrating, DoneBy
  <2> SUFFICES ASSUME ~suMishap, ~Migrating(o) PROVE AloneInv'
    BY <1>1 DEF AloneInv
  <2>2. \A p \in Opener : Migrating(p)' <=> Migrating(p)
    BY <2>1
  <2>3. \A p \in Opener : Migrating(p)' => suOpener'[p] = suOpener[p] /\ DoneBy(p)' = DoneBy(p)
    BY <1>1, <2>1
  <2> QED BY <1>1, <2>2, <2>3 DEF SchemaInv, AloneInv
<1> QED BY <1>2, <1>3, <1>4, <1>5 DEF SchemaInv

LEMMA ImportKeeps ==
  ASSUME SchemaInv, UNCHANGED suVars
  PROVE  SchemaInv'
  BY DEF suVars, SchemaInv, SchemaTypeOK, Whole, OpenerInv, AloneInv, Migrating, DoneBy

LEMMA UpStep == SchemaInv /\ [UpNext]_upVars => SchemaInv'
<1> SUFFICES ASSUME SchemaInv, [UpNext]_upVars PROVE SchemaInv'
  OBVIOUS
<1>1. CASE \E o \in Opener : OpenStore(o)
  BY <1>1, OpenKeeps
<1>2. CASE \E o \in Opener : AlterTable(o)
  BY <1>2, AlterKeeps
<1>3. CASE \E o \in Opener : CreateTables(o)
  BY <1>3, CreateKeeps
<1>4. CASE \E o \in Opener : Stamp(o)
  BY <1>4, StampKeeps
<1>5. CASE \E o \in Opener : CloseStore(o) \/ DieAt(o)
  BY <1>5, LeavingKeeps
<1>6. CASE StartImport \/ EndOfLog \/ WriteTurn \/ WriteEnd \/ Flushed
  BY <1>6, ImportKeeps DEF StartImport, EndOfLog, WriteTurn, WriteEnd, Flushed
<1>7. CASE \E s \in Logged : WriteRow(s) \/ \E k \in {"connect", "command", "closed", "damaged"} : ReadEvent(s, k)
  BY <1>7, ImportKeeps DEF WriteRow, ReadEvent
<1>8. CASE UNCHANGED upVars
  BY <1>8, ImportKeeps DEF upVars
<1> QED BY <1>1, <1>2, <1>3, <1>4, <1>5, <1>6, <1>7, <1>8 DEF UpNext

LEMMA InvSound == SchemaInv => SchemaSound
  BY DEF SchemaInv, OpenerInv, AloneInv, SchemaSound

\* The recorded version of a store never promises a table or a column that is not
\* there and whoever has the store open finds all of them, however many processes
\* run sessions/schema.py's migrations at once and wherever they die; none that
\* runs them alone meets its own column again.
THEOREM SchemaKept == UpSpec => []SchemaSound
<1>1. UpSpec => []SchemaInv
  BY InitSchema, UpStep, PTL DEF UpSpec
<1> QED BY <1>1, InvSound, PTL

-----------------------------------------------------------------------------
(* The credential store and the rotation of its key, for any number of     *)
(* attempts to log in, of keys and of deaths.                              *)

\* What the database owes: the triples stored, but for the two exemptions, and of
\* those the ones stored under its own key.
Due == captured \ (skipped \union overwritten)
Sure == Due \ early
Under(stored, key) == {row \in stored : Key(row) = key}

\* Where the files are at each step of a rotation, and that a lure which starts
\* without its database next to a backup makes a fresh one.
FilesInv ==
    /\ rot.at \in {"fold", "read", "copy", "refold", "aside"} =>
           Exists("db") /\ ~Exists("bak") /\ ~fresh
    /\ rot.at \notin {"none", "fold"} => lure = -1 /\ wal = {}
    /\ rot.at = "place" => ~Exists("db") /\ Exists("bak") /\ ~fresh
    /\ fresh => Exists("db") /\ Exists("bak")
    /\ ~Exists("db") => lure = -1 /\ wal = {}

\* A copy is whole, under the new key.
CopyInv ==
    rot.at \in {"refold", "aside", "place"} =>
        Exists("new") /\ Due \subseteq Creds(Under(Rows("new"), rot.new))

\* A database that no lure had to make has everything, and reads what is sure.
WholeInv ==
    Exists("db") /\ ~fresh =>
        /\ Due \subseteq Creds(Stored)
        /\ Sure \subseteq Creds(Query(dbKey))

\* A backup without its database, or next to a fresh one, reads what is sure,
\* but for what the fresh one has.
BackupInv ==
    Exists("bak") /\ (~Exists("db") \/ fresh) =>
        Sure \ Creds(Stored) \subseteq Creds(Under(Rows("bak"), dbKey))

RotInv == RotTypeOK /\ NothingLost /\ FilesInv /\ CopyInv /\ WholeInv /\ BackupInv

\* Types, one variable after the other.
LEMMA RotTypes ==
    ASSUME dbFile' \in [Path -> (SUBSET Row) \union {Absent}], wal' \subseteq Row,
           rot' \in [at : {"none", "fold", "read", "copy", "refold", "aside", "place"},
                     old : 0..MaxKey, new : 0..MaxKey],
           keys' \in 0..MaxKey, dbKey' \in 0..MaxKey, envKey' \in 0..MaxKey, lure' \in -1..MaxKey,
           captured' \subseteq Cred, early' \subseteq Cred, skipped' \subseteq Cred,
           overwritten' \subseteq Cred, fresh' \in BOOLEAN
    PROVE  RotTypeOK'
BY DEF RotTypeOK

LEMMA RotTyped ==
    ASSUME RotTypeOK
    PROVE  /\ dbFile \in [Path -> (SUBSET Row) \union {Absent}] /\ wal \subseteq Row
           /\ rot \in [at : {"none", "fold", "read", "copy", "refold", "aside", "place"},
                     old : 0..MaxKey, new : 0..MaxKey]
           /\ keys \in 0..MaxKey /\ dbKey \in 0..MaxKey /\ envKey \in 0..MaxKey /\ lure \in -1..MaxKey
           /\ captured \subseteq Cred /\ early \subseteq Cred /\ skipped \subseteq Cred
           /\ overwritten \subseteq Cred /\ fresh \in BOOLEAN
           /\ envKey \in -1..MaxKey /\ -1 \in -1..MaxKey /\ MaxKey \in Nat
BY RotationAssumption DEF RotTypeOK

LEMMA RotInitInv == RotInit => RotInv
<1> SUFFICES ASSUME RotInit PROVE RotInv
  OBVIOUS
<1> USE RotationAssumption DEF RotInit, AtRest
<1>1. RotTypeOK
  <2>1. 0 \in 0..MaxKey /\ -1 \in -1..MaxKey
    OBVIOUS
  <2>2. rot \in [at : {"none", "fold", "read", "copy", "refold", "aside", "place"},
                old : 0..MaxKey, new : 0..MaxKey]
    BY <2>1
  <2> QED BY <2>1, <2>2 DEF RotTypeOK
<1>2. ~Exists("db") /\ ~Exists("bak") /\ Due = {} /\ Sure = {}
  BY DEF Exists, Path, Due, Sure
<1>3. NothingLost
  BY DEF NothingLost
<1> QED BY <1>1, <1>2, <1>3 DEF RotInv, FilesInv, CopyInv, WholeInv, BackupInv

LEMMA RotSafe == RotInv => RotationKeeps
<1> SUFFICES ASSUME RotInv PROVE RotationKeeps
  OBVIOUS
<1>1. AllReadable
  BY DEF RotInv, WholeInv, AllReadable, Sure, Due
<1> QED BY <1>1 DEF RotInv, RotationKeeps

LEMMA CredsOf ==
    /\ \A S, T : S \subseteq T => Creds(S) \subseteq Creds(T)
    /\ \A S, T : Creds(S \union T) = Creds(S) \union Creds(T)
    /\ Creds({}) = {}
BY DEF Creds

\* The files.
LEMMA FileTypes ==
    ASSUME RotTypeOK
    PROVE  /\ \A p \in Path : Rows(p) \subseteq Row /\ (dbFile[p] = Absent \/ dbFile[p] = Rows(p))
           /\ Stored \subseteq Row
           /\ \A stored \in SUBSET Row : stored # Absent
           /\ "db" \in Path /\ "new" \in Path /\ "bak" \in Path
BY RotationAssumption DEF RotTypeOK, Rows, Exists, Stored, Row, Path

\* A step that changes neither what the database and the backup hold nor what is
\* due of them.
LEMMA QuietFiles ==
    ASSUME RotInv, RotTypeOK', FilesInv', CopyInv',
           Stored' = Stored, Rows("bak")' = Rows("bak"),
           Exists("db")' = Exists("db"), Exists("bak")' = Exists("bak"),
           UNCHANGED <<dbKey, captured, early, skipped, overwritten, fresh>>
    PROVE  RotInv'
<1>1. Due' = Due /\ Sure' = Sure /\ Query(dbKey)' = Query(dbKey)
  BY DEF Due, Sure, Query
<1>2. NothingLost' /\ WholeInv' /\ BackupInv'
  BY <1>1 DEF RotInv, NothingLost, WholeInv, BackupInv, Under
<1> QED BY <1>2 DEF RotInv

LEMMA LureSteps ==
    ASSUME RotInv, LureStop \/ LureKill \/ (LureStart /\ Exists("db"))
    PROVE  RotInv'
<1> USE DEF RotInv, operVars
<1>1. /\ UNCHANGED <<rot, keys, dbKey, captured, early, skipped, overwritten>>
      /\ wal' \subseteq wal /\ lure' \in {-1, envKey} /\ envKey' = envKey
      /\ lure' # -1 => rot.at = "none"
      /\ Exists("db") /\ \E stored \in SUBSET Row : dbFile' = [dbFile EXCEPT !["db"] = stored]
      /\ fresh' = fresh
      /\ Rows("db")' \union wal' = Rows("db") \union wal
  <2>1. CASE LureStop
    <3>1. Exists("db") /\ dbFile' = [dbFile EXCEPT !["db"] = Stored] /\ Stored \in SUBSET Row
          /\ Stored # Absent
      BY <2>1, FileTypes DEF LureStop, FilesInv
    <3>2. Rows("db")' = Stored
      BY <3>1, FileTypes DEF Rows, Exists, RotTypeOK
    <3> QED BY <2>1, <3>1, <3>2 DEF LureStop, Stored
  <2>2. CASE LureKill
    <3>1. dbFile' = dbFile /\ Exists("db") /\ dbFile["db"] \in SUBSET Row
      BY <2>2, FileTypes DEF LureKill, FilesInv, Exists
    <3>2. dbFile' = [dbFile EXCEPT !["db"] = dbFile["db"]]
      BY <3>1, FileTypes DEF RotTypeOK
    <3> QED BY <2>2, <3>1, <3>2 DEF LureKill, Rows, Exists
  <2>3. CASE LureStart /\ Exists("db")
    <3>1. dbFile' = [dbFile EXCEPT !["db"] = Rows("db")] /\ Rows("db") \in SUBSET Row /\ Rows("db") # Absent
      BY <2>3, FileTypes DEF LureStart
    <3>2. Rows("db")' = Rows("db")
      BY <3>1, FileTypes DEF Rows, Exists, RotTypeOK
    <3>3. rot.at = "none" /\ lure' = envKey /\ (fresh' <=> fresh)
          /\ UNCHANGED <<wal, rot, keys, dbKey, envKey, captured, early, skipped, overwritten>>
      BY <2>3 DEF LureStart
    <3>4. fresh' = fresh
      BY <2>3, RotTyped DEF LureStart
    <3> QED BY <2>3, <3>1, <3>2, <3>3, <3>4
  <2> QED BY <2>1, <2>2, <2>3
<1>2. RotTypeOK'
  <2>1. dbFile' \in [Path -> (SUBSET Row) \union {Absent}]
    BY <1>1, RotTyped
  <2> QED BY <1>1, <2>1, RotTyped, RotTypes
<1>3. /\ Exists("db")' /\ dbFile'["bak"] = dbFile["bak"] /\ dbFile'["new"] = dbFile["new"]
  BY <1>1, FileTypes DEF Exists, RotTypeOK
<1>4. /\ Rows("bak")' = Rows("bak") /\ Rows("new")' = Rows("new")
      /\ Exists("bak")' = Exists("bak") /\ Exists("new")' = Exists("new")
  BY <1>3 DEF Rows, Exists
<1>5. FilesInv'
  BY <1>1, <1>3, <1>4 DEF FilesInv
<1>6. CopyInv'
  BY <1>1, <1>4 DEF CopyInv, Due, Under
<1>7. Stored' = Stored
  BY <1>1 DEF Stored
<1> QED BY <1>1, <1>2, <1>3, <1>4, <1>5, <1>6, <1>7, QuietFiles

\* A lure makes the first database, or a fresh one next to the backup.
LEMMA NewDatabase ==
    ASSUME RotInv, LureStart, ~Exists("db")
    PROVE  RotInv'
<1> USE DEF RotInv
<1>1. /\ rot.at = "none" /\ wal = {} /\ Rows("db") = {} /\ Stored = {}
      /\ dbFile' = [dbFile EXCEPT !["db"] = {}] /\ lure' = envKey
      /\ fresh' = Exists("bak") /\ ~fresh
      /\ UNCHANGED <<wal, rot, keys, dbKey, envKey, captured, early, skipped, overwritten>>
  <2>1. rot.at = "none" /\ ~fresh /\ wal = {} /\ Rows("db") = {} /\ Stored = {}
    BY DEF LureStart, FilesInv, Rows, Stored
  <2>2. fresh' = (fresh \/ Exists("bak"))
    BY DEF LureStart
  <2>3. fresh' = Exists("bak")
    BY <2>1, <2>2 DEF Exists
  <2> QED BY <2>1, <2>3 DEF LureStart
<1>2. RotTypeOK'
  <2>1. fresh' \in BOOLEAN
    BY <1>1 DEF Exists
  <2>2. dbFile' \in [Path -> (SUBSET Row) \union {Absent}]
    BY <1>1, RotTyped
  <2> QED BY <1>1, <2>1, <2>2, RotTyped, RotTypes
<1>3. /\ dbFile'["db"] = {} /\ {} # Absent /\ dbFile'["bak"] = dbFile["bak"]
  BY <1>1, FileTypes DEF RotTypeOK
<1>4. /\ Exists("db")' /\ Rows("db")' = {} /\ Stored' = {} /\ Rows("bak")' = Rows("bak")
      /\ Exists("bak")' = Exists("bak") /\ Due' = Due /\ Sure' = Sure
  BY <1>1, <1>3 DEF Exists, Rows, Stored, Due, Sure
<1>5. FilesInv' /\ CopyInv'
  BY <1>1, <1>4 DEF FilesInv, CopyInv
<1>6. NothingLost'
  BY <1>1, <1>4 DEF NothingLost
<1>7. WholeInv'
  <2>1. ~Exists("bak") => Due = {}
    BY <1>1, CredsOf DEF NothingLost, Due, Rows
  <2> QED BY <1>1, <1>4, <2>1 DEF WholeInv, Sure
<1>8. BackupInv'
  BY <1>1, <1>4 DEF BackupInv, Under
<1> QED BY <1>2, <1>5, <1>6, <1>7, <1>8

\* A triple joins what is due and what the database has.
LEMMA RecordStep ==
    ASSUME RotInv, NEW c \in Cred, RecordAttempt(c)
    PROVE  RotInv'
<1> USE DEF RotInv
<1> DEFINE row == <<c, lure>>
<1>1. /\ lure # -1 /\ captured' = captured \union {c} /\ wal' = wal \union (IF row \in Stored THEN {} ELSE {row})
      /\ early' = IF lure = dbKey THEN early ELSE early \union {c}
      /\ UNCHANGED <<dbFile, rot, keys, dbKey, envKey, lure, skipped, fresh, overwritten>>
  BY DEF RecordAttempt
<1>2. row \in Row /\ Exists("db") /\ rot.at \in {"none", "fold"}
  BY <1>1 DEF RotTypeOK, Row, FilesInv
<1>3. Stored' = Stored \union {row}
  BY <1>1 DEF Stored, Rows, Exists
<1>4. /\ \A p : Rows(p)' = Rows(p) /\ (Exists(p)' <=> Exists(p))
  BY <1>1 DEF Rows, Exists
<1>5. RotTypeOK'
  BY <1>1, <1>2 DEF RotTypeOK
<1>6. FilesInv' /\ CopyInv'
  BY <1>1, <1>2, <1>4 DEF FilesInv, CopyInv
<1>7. Due' \subseteq Due \union {c} /\ Sure' \subseteq Sure \union {c} /\ (lure # dbKey => Sure' \subseteq Sure)
  BY <1>1 DEF Due, Sure
<1>8. /\ Creds(Stored') = Creds(Stored) \union {c}
      /\ Creds(Stored \union Rows("bak")) \union {c} \subseteq Creds(Stored' \union Rows("bak"))
  <2>1. Creds({row}) = {c}
    BY DEF Creds
  <2>2. Creds(Stored') = Creds(Stored) \union {c}
    <3> HIDE DEF row
    <3> QED BY <1>3, <2>1, CredsOf
  <2>3. /\ Creds(Stored \union Rows("bak")) = Creds(Stored) \union Creds(Rows("bak"))
        /\ Creds(Stored' \union Rows("bak")) = Creds(Stored') \union Creds(Rows("bak"))
    BY CredsOf
  <2> QED BY <2>2, <2>3
<1>9. NothingLost'
  BY <1>4, <1>7, <1>8 DEF NothingLost, Due
<1>10. Creds(Query(dbKey)) \subseteq Creds(Query(dbKey)') /\ (lure = dbKey => c \in Creds(Query(dbKey)'))
  BY <1>1, <1>3 DEF Query, Creds, Key
<1>11. WholeInv'
  BY <1>1, <1>4, <1>7, <1>8, <1>10 DEF WholeInv
<1>12. BackupInv'
  BY <1>1, <1>4, <1>7, <1>8 DEF BackupInv, Under
<1> QED BY <1>5, <1>6, <1>9, <1>11, <1>12

\* The first steps of a rotation, its end at any of them, and what the operator
\* does between rotations.
LEMMA PlainSteps ==
    ASSUME RotInv, Rotate \/ FoldSource \/ CreateWork \/ CopyFails \/ FoldWork \/ RotationDies
                   \/ UpdateEnv \/ RemoveWork
    PROVE  RotInv'
<1> USE DEF RotInv, operVars
<1>0. /\ RotTypeOK' /\ Exists("db")' = Exists("db") /\ Exists("bak")' = Exists("bak")
      /\ Rows("bak")' = Rows("bak") /\ Stored' = Stored
      /\ UNCHANGED <<dbKey, captured, early, skipped, overwritten, fresh, lure>>
      /\ wal' \subseteq wal
      /\ rot'.at \in {"fold", "read", "copy", "refold", "aside"} =>
             Exists("db") /\ ~Exists("bak") /\ ~fresh
      /\ rot'.at \notin {"none", "fold"} => lure = -1 /\ wal' = {}
      /\ rot'.at = "place" => rot' = rot /\ wal' = {}
      /\ rot'.at \in {"refold", "aside", "place"} =>
           rot.at \in {"refold", "aside", "place"} /\ rot'.new = rot.new /\ dbFile' = dbFile
  <2>1. CASE Rotate
    <3>1. rot' = [at |-> "fold", old |-> envKey, new |-> keys + 1] /\ keys + 1 \in 0..MaxKey
      BY <2>1, RotTyped DEF Rotate
    <3>2. RotTypeOK'
      BY <2>1, <3>1, RotTyped, RotTypes DEF Rotate
    <3>3. ~fresh
      BY <2>1 DEF Rotate, MayRotate, FilesInv
    <3> QED BY <2>1, <3>1, <3>2, <3>3 DEF Rotate, MayRotate, Exists, Rows, Stored
  <2>2. CASE FoldSource
    <3>1. CASE lure = -1
      <4>1. /\ dbFile' = [dbFile EXCEPT !["db"] = Stored] /\ wal' = {} /\ rot' = [rot EXCEPT !.at = "read"]
            /\ UNCHANGED <<keys, dbKey, lure, skipped, operVars>>
            /\ Stored \in SUBSET Row /\ Stored # Absent /\ Exists("db") /\ ~Exists("bak") /\ ~fresh
        BY <2>2, <3>1, FileTypes DEF FoldSource, Step, FilesInv
      <4>2. RotTypeOK'
        <5>1. dbFile' \in [Path -> (SUBSET Row) \union {Absent}]
          BY <4>1, RotTyped
        <5> QED BY <4>1, <5>1, RotTyped, RotTypes
      <4>3. dbFile'["db"] = Stored /\ dbFile'["bak"] = dbFile["bak"] /\ rot'.at = "read"
        BY <4>1, RotTyped, FileTypes
      <4>4. Exists("db")' /\ Rows("db")' = Stored /\ Rows("bak")' = Rows("bak")
            /\ Exists("bak")' = Exists("bak")
        BY <4>1, <4>3 DEF Exists, Rows
      <4> QED BY <3>1, <4>1, <4>2, <4>3, <4>4 DEF Stored
    <3>2. CASE lure # -1
      <4>1. rot' = AtRest /\ UNCHANGED <<dbFile, wal, keys, dbKey, lure, skipped, operVars>>
        BY <2>2, <3>2 DEF FoldSource
      <4>2. RotTypeOK'
        BY <4>1, RotTyped, RotTypes DEF AtRest
      <4> QED BY <4>1, <4>2 DEF AtRest, Exists, Rows, Stored
    <3> QED BY <3>1, <3>2
  <2>3. CASE CreateWork \/ CopyFails \/ RemoveWork
    <3>1. PICK stored \in {{}, Absent}, at \in {"none", "copy"} :
            /\ dbFile' = [dbFile EXCEPT !["new"] = stored] /\ rot'.at = at
            /\ at = "copy" => rot.at = "read"
            /\ rot' \in [at : {"none", "copy"}, old : 0..MaxKey, new : 0..MaxKey]
            /\ UNCHANGED <<wal, keys, dbKey, lure, skipped, operVars>>
      <4>1. CASE CreateWork
        BY <4>1, RotTyped DEF CreateWork, Step
      <4>2. CASE CopyFails
        BY <4>2, RotTyped DEF CopyFails, AtRest
      <4>3. CASE RemoveWork
        BY <4>3, RotTyped DEF RemoveWork
      <4> QED BY <2>3, <4>1, <4>2, <4>3
    <3>2. RotTypeOK'
      <4>1. dbFile' \in [Path -> (SUBSET Row) \union {Absent}]
        BY <3>1, RotTyped
      <4> QED BY <3>1, <4>1, RotTyped, RotTypes
    <3>3. dbFile'["db"] = dbFile["db"] /\ dbFile'["bak"] = dbFile["bak"]
      BY <3>1, RotTyped, FileTypes
    <3>4. /\ Exists("db")' = Exists("db") /\ Exists("bak")' = Exists("bak")
          /\ Rows("bak")' = Rows("bak") /\ Stored' = Stored
      BY <3>1, <3>3 DEF Exists, Rows, Stored
    <3> QED BY <3>1, <3>2, <3>4 DEF FilesInv
  <2>4. CASE FoldWork
    <3>1. /\ rot' = [rot EXCEPT !.at = "aside"] /\ rot.at = "refold"
          /\ UNCHANGED <<dbFile, wal, keys, dbKey, lure, skipped, operVars>>
      BY <2>4 DEF FoldWork, Step
    <3>2. RotTypeOK' /\ rot'.at = "aside" /\ rot'.new = rot.new
      BY <3>1, RotTyped, RotTypes
    <3> QED BY <3>1, <3>2 DEF FilesInv, Exists, Rows, Stored
  <2>5. CASE RotationDies \/ UpdateEnv
    <3>1. /\ rot'.at = "none" /\ rot' \in {rot, AtRest} /\ envKey' \in {envKey, dbKey}
          /\ UNCHANGED <<dbFile, wal, keys, dbKey, lure, captured, early, skipped, overwritten, fresh>>
      BY <2>5 DEF RotationDies, UpdateEnv, AtRest
    <3>2. RotTypeOK'
      BY <3>1, RotTyped, RotTypes DEF AtRest
    <3> QED BY <3>1, <3>2 DEF Exists, Rows, Stored
  <2> QED BY <2>1, <2>2, <2>3, <2>4, <2>5
<1>1. FilesInv'
  BY <1>0 DEF FilesInv
<1>2. CopyInv'
  <2>1. Due' = Due
    BY <1>0 DEF Due
  <2> QED BY <1>0, <2>1 DEF CopyInv, Exists, Rows, Under
<1> QED BY <1>0, <1>1, <1>2, QuietFiles

\* Every triple of the database is in the copy, or counted as skipped.
LEMMA CopyStep ==
    ASSUME RotInv, CopyRows
    PROVE  RotInv'
<1> USE DEF RotInv, operVars
<1> DEFINE readable == Query(rot.old)
           copy == {<<row[1], rot.new>> : row \in readable}
<1>1. /\ rot.at = "copy" /\ dbFile' = [dbFile EXCEPT !["new"] = copy]
      /\ skipped' = skipped \union Creds(Stored \ readable)
      /\ rot' = [rot EXCEPT !.at = "refold"]
      /\ UNCHANGED <<wal, keys, dbKey, lure, envKey, captured, early, overwritten, fresh>>
  BY DEF CopyRows, Step
<1>2. Stored \subseteq Row /\ readable \subseteq Stored /\ rot.new \in 0..MaxKey
  BY FileTypes, RotTyped DEF Query
<1>3. copy \in SUBSET Row /\ copy # Absent
  BY <1>2, FileTypes DEF Row
<1>4. /\ Creds(Stored \ readable) \subseteq Cred
      /\ Creds(Stored) \subseteq Creds(copy) \union Creds(Stored \ readable)
      /\ Under(copy, rot.new) = copy
  <2>1. \A row \in Stored : row[1] \in Cred
    BY <1>2 DEF Row
  <2>2. ASSUME NEW row \in readable PROVE row[1] \in Creds(copy)
    <3>1. <<row[1], rot.new>> \in copy
      OBVIOUS
    <3> HIDE DEF copy, readable
    <3>2. <<row[1], rot.new>>[1] = row[1]
      OBVIOUS
    <3> QED BY <3>1, <3>2 DEF Creds
  <2>3. \A x \in copy : Key(x) = rot.new
    BY DEF Key
  <2> HIDE DEF copy
  <2>4. Under(copy, rot.new) = copy
    BY <2>3 DEF Under
  <2> HIDE DEF readable
  <2>5. Creds(Stored \ readable) \subseteq Cred
    BY <2>1 DEF Creds
  <2>6. Creds(Stored) \subseteq Creds(copy) \union Creds(Stored \ readable)
    BY <2>2 DEF Creds
  <2> QED BY <2>4, <2>5, <2>6
<1> HIDE DEF copy, readable
<1>5. RotTypeOK'
  <2>1. dbFile' \in [Path -> (SUBSET Row) \union {Absent}]
    BY <1>1, <1>3, RotTyped
  <2>2. rot' \in [at : {"none", "fold", "read", "copy", "refold", "aside", "place"},
                  old : 0..MaxKey, new : 0..MaxKey]
    BY <1>1, RotTyped
  <2> QED BY <1>1, <1>4, <2>1, <2>2, RotTyped, RotTypes
<1>6. /\ dbFile'["new"] = copy /\ dbFile'["db"] = dbFile["db"] /\ dbFile'["bak"] = dbFile["bak"]
      /\ rot'.at = "refold" /\ rot'.new = rot.new
  BY <1>1, RotTyped, FileTypes
<1>7. /\ Exists("new")' /\ Rows("new")' = copy
      /\ Exists("db")' = Exists("db") /\ Exists("bak")' = Exists("bak")
      /\ Rows("bak")' = Rows("bak") /\ Stored' = Stored /\ Query(dbKey)' = Query(dbKey)
  BY <1>1, <1>3, <1>6 DEF Exists, Rows, Stored, Query
<1>8. FilesInv'
  BY <1>1, <1>6, <1>7 DEF FilesInv
<1>9. Due' \subseteq Due /\ Due' \subseteq Due \ Creds(Stored \ readable) /\ Sure' \subseteq Sure
  BY <1>1 DEF Due, Sure
<1>10. Exists("db") /\ ~fresh /\ Due \subseteq Creds(Stored)
  BY <1>1 DEF FilesInv, WholeInv
<1>11. CopyInv'
  <2>1. Due' \subseteq Creds(copy) /\ Under(copy, rot.new) = copy
    BY <1>4, <1>9, <1>10
  <2> QED BY <1>6, <1>7, <2>1 DEF CopyInv, Under
<1>12. NothingLost' /\ WholeInv' /\ BackupInv'
  BY <1>1, <1>7, <1>9 DEF NothingLost, WholeInv, BackupInv, Due, Under
<1> QED BY <1>5, <1>8, <1>11, <1>12

\* The database becomes the backup.
LEMMA AsideStep ==
    ASSUME RotInv, MoveAside
    PROVE  RotInv'
<1> USE DEF RotInv, operVars
<1>1. /\ rot.at = "aside" /\ rot' = [rot EXCEPT !.at = "place"]
      /\ dbFile' = [dbFile EXCEPT !["bak"] = dbFile["db"], !["db"] = Absent]
      /\ UNCHANGED <<wal, keys, dbKey, lure, skipped, envKey, captured, early, overwritten, fresh>>
      /\ Exists("db") /\ ~fresh /\ wal = {} /\ lure = -1
  BY DEF MoveAside, Step, FilesInv
<1>2. /\ dbFile'["bak"] = dbFile["db"] /\ dbFile'["db"] = Absent /\ dbFile'["new"] = dbFile["new"]
      /\ rot'.at = "place" /\ rot'.new = rot.new
  BY <1>1, RotTyped, FileTypes
<1>3. RotTypeOK'
  <2>1. dbFile["db"] \in (SUBSET Row) \union {Absent}
    BY RotTyped, FileTypes
  <2>2. dbFile' \in [Path -> (SUBSET Row) \union {Absent}]
    BY <1>1, <2>1, RotTyped
  <2>3. rot' \in [at : {"none", "fold", "read", "copy", "refold", "aside", "place"},
                  old : 0..MaxKey, new : 0..MaxKey]
    BY <1>1, RotTyped
  <2> QED BY <1>1, <2>2, <2>3, RotTyped, RotTypes
<1>4. /\ ~Exists("db")' /\ Exists("bak")' /\ Rows("bak")' = Stored /\ Stored' = {}
      /\ Exists("new")' = Exists("new") /\ Rows("new")' = Rows("new")
      /\ Due' = Due /\ Sure' = Sure
  BY <1>1, <1>2 DEF Exists, Rows, Stored, Due, Sure
<1>5. FilesInv' /\ CopyInv' /\ WholeInv'
  BY <1>1, <1>2, <1>4 DEF FilesInv, CopyInv, WholeInv, Under
<1>6. Due \subseteq Creds(Stored) /\ Sure \subseteq Creds(Query(dbKey))
  BY <1>1 DEF WholeInv
<1>7. NothingLost'
  BY <1>4, <1>6 DEF NothingLost, Due
<1>8. BackupInv'
  <2>1. Under(Stored, dbKey) = Query(dbKey)
    BY DEF Under, Query
  <2> QED BY <1>1, <1>4, <1>6, <2>1 DEF BackupInv, Under
<1> QED BY <1>3, <1>5, <1>7, <1>8

\* The copy becomes the database.
LEMMA PlaceStep ==
    ASSUME RotInv, MovePlace
    PROVE  RotInv'
<1> USE DEF RotInv, operVars
<1>1. /\ rot.at = "place" /\ rot' = AtRest /\ dbKey' = rot.new
      /\ dbFile' = [dbFile EXCEPT !["db"] = dbFile["new"], !["new"] = Absent]
      /\ UNCHANGED <<wal, keys, lure, skipped, envKey, captured, early, overwritten, fresh>>
      /\ ~fresh /\ wal = {} /\ lure = -1 /\ Exists("bak") /\ Exists("new")
  BY DEF MovePlace, FilesInv, CopyInv
<1>2. /\ dbFile'["db"] = dbFile["new"] /\ dbFile'["bak"] = dbFile["bak"]
  BY <1>1, RotTyped, FileTypes
<1>3. RotTypeOK'
  <2>1. dbFile["new"] \in (SUBSET Row) \union {Absent}
    BY RotTyped, FileTypes
  <2>2. dbFile' \in [Path -> (SUBSET Row) \union {Absent}]
    BY <1>1, <2>1, RotTyped
  <2>3. rot.new \in 0..MaxKey /\ rot' \in [at : {"none"}, old : 0..MaxKey, new : 0..MaxKey]
    BY <1>1, RotTyped DEF AtRest
  <2> QED BY <1>1, <2>2, <2>3, RotTyped, RotTypes
<1>4. /\ Exists("db")' /\ Exists("bak")' /\ Rows("bak")' = Rows("bak") /\ Stored' = Rows("new")
      /\ Due' = Due /\ Sure' = Sure /\ Query(dbKey)' = Under(Rows("new"), rot.new)
  BY <1>1, <1>2 DEF Exists, Rows, Stored, Due, Sure, Query, Under
<1>5. FilesInv' /\ CopyInv'
  BY <1>1, <1>4 DEF FilesInv, CopyInv, AtRest
<1>6. Due \subseteq Creds(Under(Rows("new"), rot.new)) /\ Under(Rows("new"), rot.new) \subseteq Rows("new")
  BY <1>1 DEF CopyInv, Under
<1>7. Due \subseteq Creds(Rows("new"))
  BY <1>6, CredsOf
<1>8. NothingLost'
  <2>1. Creds(Rows("new")) \subseteq Creds(Rows("new") \union Rows("bak"))
    BY CredsOf
  <2> QED BY <1>4, <1>7, <2>1 DEF NothingLost, Due
<1>9. WholeInv' /\ BackupInv'
  BY <1>1, <1>4, <1>6, <1>7 DEF WholeInv, BackupInv, Sure
<1> QED BY <1>3, <1>5, <1>8, <1>9

\* The database is whole without its backup.
LEMMA RemoveStep ==
    ASSUME RotInv, RemoveBackup
    PROVE  RotInv'
<1> USE DEF RotInv, operVars
<1>1. /\ rot.at = "none" /\ ~fresh /\ Exists("db")
      /\ dbFile' = [dbFile EXCEPT !["bak"] = Absent]
      /\ UNCHANGED <<wal, rot, keys, dbKey, lure, skipped, envKey, captured, early, overwritten, fresh>>
  BY DEF RemoveBackup
<1>2. dbFile'["db"] = dbFile["db"] /\ dbFile'["bak"] = Absent
  BY <1>1, RotTyped, FileTypes
<1>3. RotTypeOK'
  <2>1. dbFile' \in [Path -> (SUBSET Row) \union {Absent}]
    BY <1>1, RotTyped
  <2> QED BY <1>1, <2>1, RotTyped, RotTypes
<1>4. /\ Exists("db")' /\ ~Exists("bak")' /\ Rows("bak")' = {} /\ Stored' = Stored
      /\ Due' = Due /\ Sure' = Sure /\ Query(dbKey)' = Query(dbKey)
  BY <1>1, <1>2 DEF Exists, Rows, Stored, Due, Sure, Query
<1>5. FilesInv' /\ CopyInv' /\ BackupInv'
  BY <1>1, <1>4 DEF FilesInv, CopyInv, BackupInv
<1>6. WholeInv' /\ Due \subseteq Creds(Stored)
  BY <1>1, <1>4 DEF WholeInv
<1>7. NothingLost'
  BY <1>4, <1>6 DEF NothingLost, Due
<1> QED BY <1>3, <1>5, <1>6, <1>7

\* The backup becomes the database again, over a fresh one.
LEMMA RecoverStep ==
    ASSUME RotInv, Recover
    PROVE  RotInv'
<1> USE DEF RotInv
<1>1. /\ rot.at = "none" /\ lure = -1 /\ wal = {} /\ Exists("bak") /\ (~Exists("db") \/ fresh)
      /\ overwritten' = overwritten \union Creds(Rows("db")) /\ fresh' = FALSE
      /\ dbFile' = [dbFile EXCEPT !["db"] = dbFile["bak"], !["bak"] = Absent]
      /\ UNCHANGED <<wal, rot, keys, dbKey, envKey, lure, captured, early, skipped>>
  BY DEF Recover
<1>2. dbFile'["db"] = dbFile["bak"] /\ dbFile'["bak"] = Absent
  BY <1>1, RotTyped, FileTypes
<1>3. RotTypeOK'
  <2>1. dbFile["bak"] \in (SUBSET Row) \union {Absent}
    BY RotTyped, FileTypes
  <2>2. dbFile' \in [Path -> (SUBSET Row) \union {Absent}]
    BY <1>1, <2>1, RotTyped
  <2>3. Creds(Rows("db")) \subseteq Cred
    BY FileTypes DEF Creds, Row
  <2> QED BY <1>1, <2>2, <2>3, RotTyped, RotTypes
<1>4. /\ Exists("db")' /\ ~Exists("bak")' /\ Rows("bak")' = {} /\ Stored' = Rows("bak")
      /\ Stored = Rows("db")
      /\ Query(dbKey)' = Under(Rows("bak"), dbKey)
  BY <1>1, <1>2 DEF Exists, Rows, Stored, Query, Under
<1>5. Due' \subseteq Due \ Creds(Stored) /\ Sure' \subseteq Sure \ Creds(Stored)
  BY <1>1, <1>4 DEF Due, Sure
<1>6. FilesInv' /\ CopyInv' /\ BackupInv'
  BY <1>1, <1>4 DEF FilesInv, CopyInv, BackupInv
<1>7. Due' \subseteq Creds(Rows("bak"))
  <2>1. Due \subseteq Creds(Stored) \union Creds(Rows("bak"))
    BY CredsOf DEF NothingLost, Due
  <2> QED BY <1>5, <2>1
<1>8. Sure' \subseteq Creds(Under(Rows("bak"), dbKey))
  BY <1>1, <1>5 DEF BackupInv
<1>9. NothingLost' /\ WholeInv'
  BY <1>1, <1>4, <1>7, <1>8 DEF NothingLost, WholeInv, Due
<1> QED BY <1>3, <1>6, <1>9

LEMMA RotStep == RotInv /\ [RotNext]_rotVars => RotInv'
<1> SUFFICES ASSUME RotInv, [RotNext]_rotVars PROVE RotInv'
  OBVIOUS
<1>1. CASE RotNext
  BY <1>1, LureSteps, NewDatabase, RecordStep, PlainSteps, CopyStep, AsideStep, PlaceStep,
     RemoveStep, RecoverStep DEF RotNext
<1>2. CASE UNCHANGED rotVars
  <2>1. RotTypeOK'
    BY <1>2, RotTyped, RotTypes DEF rotVars, RotInv
  <2> QED BY <1>2, <2>1, QuietFiles
      DEF rotVars, RotInv, FilesInv, CopyInv, Exists, Rows, Stored, Due, Under
<1> QED BY <1>1, <1>2

\* Whatever step a rotation dies at, however it is recovered and whatever a lure
\* stores meanwhile: no triple is lost, and the store reads every one once the
\* environment has the key (rotate_key, docs/RUNBOOK.md).
THEOREM CredentialsKept == RotSpec => []RotationKeeps
BY RotInitInv, RotStep, RotSafe, PTL DEF RotSpec

-----------------------------------------------------------------------------
-----------------------------------------------------------------------------
(* The operators' console: what the limiter lets through, and what the     *)
(* trail tells of pins and settings.                                       *)

PinValue == Persona \union PinMode \union {Free}
Actor == {"admin", "basic_auth", "open_mode"}
CsTask == {NoTask} \union
    [step : {"waiting", "writing", "written"}, table : Tables, host : Host, value : PinValue, actor : Actor, hit : BOOLEAN]
PinLine == [table : Tables, host : Host, value : PinValue, actor : Actor]
SettingLine == [table : {"settings"}, old : Setting, value : Setting, actor : Actor]

CsTypeOK ==
    /\ csOpenMode \in BOOLEAN
    /\ csCookie \in [Operator -> [user : BOOLEAN, token : BOOLEAN]]
    /\ csTick \in Nat
    /\ csTried \in [Operator -> Seq(Nat)]
    /\ IsFiniteSet(DOMAIN csBucket) /\ DOMAIN csBucket \subseteq Operator
    /\ \A p \in DOMAIN csBucket : csBucket[p] \in [level : 0..Full, at : 0..csTick]
    /\ csTask \in [Operator -> CsTask]
    /\ csPins \in [Tables -> [Host -> PinValue]]
    /\ csSetting \in Setting
    /\ csTrail \in Seq(PinLine \union SettingLine)
    /\ csGaps \in SUBSET Nat
    /\ csSince \in 0..Len(csTrail)

\* What a peer may still spend, a forgotten bucket being full.
Spendable(p) == IF p \in DOMAIN csBucket THEN Refill(csBucket[p]) ELSE Full

\* From every attempt on, what was let through and what may be spent at once fit
\* into the burst and the refill since.
WindowInv ==
    \A p \in Operator : \A i \in DOMAIN csTried[p] :
        /\ csTried[p][i] <= csTick
        /\ (Len(csTried[p]) - i + 1) * TokenUnit + Spendable(p) <= Full + (csTick - csTried[p][i])

\* The store's lock has one holder.  It has written its value, or knows that there
\* was none to remove; and whoever asked with a password set has a name.
Settled(t, h) == <<t, h>> \in csUntold \/ Tells(LinesAbout(t, h), csPins[t][h], Free)
TaskInv ==
    /\ \A o, q \in Holder : o = q
    /\ \A o \in Operator : csTask[o].step = "written" =>
        IF csTask[o].hit THEN csPins[csTask[o].table][csTask[o].host] = csTask[o].value
        ELSE Settled(csTask[o].table, csTask[o].host)
    /\ ~csOpenMode => \A o \in Operator : csTask[o].step # "none" => csTask[o].actor # "open_mode"

CsInv == CsTypeOK /\ WindowInv /\ TaskInv /\ ConsoleSound

LEMMA UnitsAre ==
    /\ TokenUnit \in Nat \ {0} /\ MaxBuckets \in Nat /\ Full \in Nat /\ TokenUnit <= Full
    /\ \A n \in Nat : n * TokenUnit \in Nat /\ (n + 1) * TokenUnit = n * TokenUnit + TokenUnit
<1>1. TokenUnit \in Nat \ {0} /\ LoginBurst \in Nat \ {0} /\ MaxBuckets \in Nat
  BY ConsoleAssumption
<1>2. \A n \in Nat : n * TokenUnit \in Nat /\ (n + 1) * TokenUnit = n * TokenUnit + TokenUnit
  BY <1>1
<1>3. LoginBurst - 1 \in Nat /\ LoginBurst = (LoginBurst - 1) + 1
  BY <1>1
<1>4. Full = (LoginBurst - 1) * TokenUnit + TokenUnit
  BY <1>2, <1>3 DEF Full
<1> QED BY <1>1, <1>2, <1>3, <1>4

\* What the sweep keeps, and that it forgets nothing but full buckets unless it
\* forgets them all.
LEMMA SweptAre ==
    ASSUME CsTypeOK
    PROVE  /\ DOMAIN Swept \subseteq DOMAIN csBucket /\ IsFiniteSet(DOMAIN Swept)
           /\ Cardinality(DOMAIN Swept) \in Nat /\ Cardinality(DOMAIN Swept) <= MaxBuckets
           /\ \A p \in DOMAIN Swept : Swept[p] = csBucket[p]
           /\ \A p \in Operator : LevelOf(p) \in 0..Full /\ Spendable(p) \in 0..Full
           /\ IF Flooded THEN \A p \in Operator : LevelOf(p) = Full
              ELSE \A p \in Operator : LevelOf(p) = Spendable(p)
<1> DEFINE All == DOMAIN csBucket
<1>1. IsFiniteSet(All) /\ Busy \subseteq All
  BY DEF CsTypeOK, Busy
<1>2. IsFiniteSet(Busy) /\ Cardinality(Busy) \in Nat /\ Cardinality(All) \in Nat /\ Cardinality(Busy) <= Cardinality(All)
  BY <1>1, FS_Subset, FS_CardinalityType
<1>3. \A p \in All : Refill(csBucket[p]) \in 0..Full
  BY UnitsAre DEF CsTypeOK, Refill
<1>4. \A p \in Operator : Spendable(p) \in 0..Full
  BY <1>3, UnitsAre DEF Spendable
<1>5. CASE Cardinality(All) <= MaxBuckets
  <2>1. Swept = csBucket /\ ~Flooded
    BY <1>2, <1>5, UnitsAre DEF Swept, Flooded
  <2> QED BY <1>1, <1>2, <1>4, <1>5, <2>1 DEF LevelOf, Spendable
<1>6. CASE Cardinality(All) > MaxBuckets /\ Flooded
  <2>1. Swept = <<>> /\ DOMAIN Swept = {}
    BY <1>2, <1>6, UnitsAre DEF Swept
  <2>2. IsFiniteSet({}) /\ Cardinality({}) = 0
    BY FS_EmptySet
  <2>3. \A p \in Operator : LevelOf(p) = Full
    BY <2>1 DEF LevelOf
  <2> QED BY <1>4, <1>6, <2>1, <2>2, <2>3, UnitsAre
<1>7. CASE Cardinality(All) > MaxBuckets /\ ~Flooded
  <2>1. Swept = [p \in Busy |-> csBucket[p]]
    <3>1. ~(Cardinality(All) <= MaxBuckets)
      BY <1>2, <1>7, UnitsAre
    <3> QED BY <1>7, <3>1 DEF Swept
  <2>2. DOMAIN Swept = Busy /\ (\A p \in Busy : Swept[p] = csBucket[p])
    BY <2>1
  <2>3. Cardinality(Busy) <= MaxBuckets
    BY <1>2, <1>7, UnitsAre DEF Flooded
  <2>4. ASSUME NEW p \in Operator PROVE LevelOf(p) = Spendable(p)
    <3>1. CASE p \in Busy
      BY <1>1, <2>2, <3>1 DEF LevelOf, Spendable
    <3>2. CASE p \in All \ Busy
      <4>1. LevelOf(p) = Full
        BY <2>2, <3>2 DEF LevelOf
      <4>2. Spendable(p) = Refill(csBucket[p])
        BY <3>2 DEF Spendable
      <4>3. Refill(csBucket[p]) = Full
        BY <1>3, <3>2, UnitsAre DEF Busy
      <4> QED BY <4>1, <4>2, <4>3
    <3>3. CASE p \notin All
      BY <1>1, <2>2, <3>3 DEF LevelOf, Spendable
    <3> QED BY <3>1, <3>2, <3>3
  <2> QED BY <1>1, <1>2, <1>4, <1>7, <2>2, <2>3, <2>4
<1> QED BY <1>2, <1>5, <1>6, <1>7, UnitsAre

LEMMA CsInitInv == CsInit => CsInv
<1> SUFFICES ASSUME CsInit PROVE CsInv
  OBVIOUS
<1>1. csBucket = <<>> /\ DOMAIN csBucket = {} /\ csTrail = <<>> /\ DOMAIN csTrail = {} /\ Len(csTrail) = 0
  BY DEF CsInit
<1>2. IsFiniteSet({}) /\ Cardinality({}) = 0
  BY FS_EmptySet
<1>3. \A p \in Operator : csTried[p] = <<>> /\ DOMAIN csTried[p] = {}
  BY DEF CsInit, NoneTried
<1>4. \A o \in Operator : csTask[o].step = "none"
  BY DEF CsInit, NoTask
<1>5. CsTypeOK
  <2>1. csTrail \in Seq(PinLine \union SettingLine) /\ csSince \in 0..Len(csTrail)
    BY <1>1 DEF CsInit
  <2>2. csTried \in [Operator -> Seq(Nat)]
    BY DEF CsInit, NoneTried
  <2>3. csTask \in [Operator -> CsTask] /\ csPins \in [Tables -> [Host -> PinValue]]
    BY DEF CsInit, CsTask, PinValue
  <2>4. csCookie \in [Operator -> [user : BOOLEAN, token : BOOLEAN]]
    BY DEF CsInit, Absentee
  <2> QED BY <1>1, <1>2, <2>1, <2>2, <2>3, <2>4, ConsoleAssumption DEF CsInit, CsTypeOK
<1>6. WindowInv /\ TaskInv
  BY <1>3, <1>4 DEF WindowInv, TaskInv, Holder
<1>7. \A t, h : LinesAbout(t, h) = {}
  BY <1>1 DEF LinesAbout
<1>8. SettingLines(Len(csTrail)) = {}
  BY <1>1 DEF SettingLines, CsInit
<1>9. TrailTellsState
  <2>1. \A t \in Tables, h \in Host : csPins[t][h] = Free
    BY DEF CsInit
  <2>2. \A t \in Tables, h \in Host : Tells(LinesAbout(t, h), csPins[t][h], Free)
    BY <1>7, <2>1 DEF Tells
  <2>3. Tells(SettingLines(Len(csTrail)), csSetting, EnvSetting)
    BY <1>8 DEF Tells, CsInit
  <2> QED BY <1>1, <1>8, <2>2, <2>3 DEF TrailTellsState
<1>10. LoginsBounded
  BY <1>1, <1>2, <1>3, UnitsAre DEF LoginsBounded
<1> QED BY <1>5, <1>6, <1>9, <1>10 DEF CsInv, ConsoleSound

-----------------------------------------------------------------------------
(* The limiter. *)

\* The three things the trail tells.
PinsTold == \A t \in Tables, h \in Host : UnderWay(t, h) \/ Settled(t, h)
TellsOrGap(n, value) == Missing(n) \/ Tells(SettingLines(n), value, EnvSetting)
SettingsChain ==
    /\ \A i \in SettingLines(Len(csTrail)) : TellsOrGap(i - 1, csTrail[i].old) /\ csTrail[i].old # csTrail[i].value
    /\ TellsOrGap(Len(csTrail), csSetting)
Named == ~csOpenMode => \A i \in DOMAIN csTrail : csTrail[i].actor # "open_mode"

LEMMA TrailParts == TrailTellsState <=> PinsTold /\ SettingsChain /\ Named
  BY DEF TrailTellsState, PinsTold, SettingsChain, TellsOrGap, Named, Settled

LEMMA TrailPartsNext == TrailTellsState' <=> PinsTold' /\ SettingsChain' /\ Named'
  BY DEF TrailTellsState, PinsTold, SettingsChain, TellsOrGap, Named, Settled

LEMMA ChainStands ==
    ASSUME SettingsChain, Named, UNCHANGED <<csTrail, csGaps, csSince, csSetting, csOpenMode>>
    PROVE  SettingsChain' /\ Named'
  BY DEF SettingsChain, TellsOrGap, Missing, Named, Tells, SettingLines

\* A step that leaves the changes and what is told of them alone.
LEMMA ChangesStand ==
    ASSUME CsInv, UNCHANGED <<csOpenMode, csTask, csPins, csSetting, csTrail, csUntold, csGaps, csSince>>
    PROVE  TaskInv' /\ TrailTellsState'
<1>1. PinsTold /\ SettingsChain /\ Named
  BY TrailParts DEF CsInv, ConsoleSound
<1>2. PinsTold'
  <2>1. ASSUME NEW t \in Tables, NEW h \in Host
        PROVE  (UnderWay(t, h) => UnderWay(t, h)') /\ (Settled(t, h) => Settled(t, h)')
    BY DEF Settled, Tells, LinesAbout, UnderWay, Holder
  <2> QED BY <1>1, <2>1 DEF PinsTold
<1>3. TrailTellsState'
  BY <1>1, <1>2, ChainStands, TrailPartsNext
<1>4. TaskInv'
  BY DEF CsInv, TaskInv, Settled, Tells, LinesAbout, Holder
<1> QED BY <1>3, <1>4

\* A step that leaves the limiter alone.
LEMMA LimiterStands ==
    ASSUME CsInv, UNCHANGED <<csBucket, csTick, csTried>>
    PROVE  WindowInv' /\ LoginsBounded'
  BY DEF CsInv, ConsoleSound, WindowInv, LoginsBounded, Spendable, Refill

\* A bucket that is written keeps the others as they are.
LEMMA Kept ==
    ASSUME CsInv, NEW o \in Operator, NEW l \in 0..Full,
           csTick' = csTick, csBucket' = Keep(o, [level |-> l, at |-> csTick])
    PROVE  /\ IsFiniteSet(DOMAIN csBucket') /\ DOMAIN csBucket' \subseteq Operator
           /\ \A p \in DOMAIN csBucket' : csBucket'[p] \in [level : 0..Full, at : 0..csTick']
           /\ Cardinality(DOMAIN csBucket') <= MaxBuckets + 1
           /\ \A p \in Operator : Spendable(p)' = IF p = o THEN l ELSE LevelOf(p)
<1> DEFINE b == [level |-> l, at |-> csTick]
<1>0. CsTypeOK /\ csTick \in Nat
  BY DEF CsInv, CsTypeOK
<1>1. /\ DOMAIN csBucket' = DOMAIN Swept \union {o}
      /\ \A q \in DOMAIN csBucket' : csBucket'[q] = IF q = o THEN b ELSE Swept[q]
  BY DEF Keep
<1>2. /\ DOMAIN Swept \subseteq DOMAIN csBucket /\ IsFiniteSet(DOMAIN Swept)
      /\ Cardinality(DOMAIN Swept) \in Nat /\ Cardinality(DOMAIN Swept) <= MaxBuckets
      /\ \A p \in DOMAIN Swept : Swept[p] = csBucket[p]
  BY <1>0, SweptAre
<1>3. /\ IsFiniteSet(DOMAIN csBucket')
      /\ Cardinality(DOMAIN csBucket') = IF o \in DOMAIN Swept THEN Cardinality(DOMAIN Swept) ELSE Cardinality(DOMAIN Swept) + 1
  BY <1>1, <1>2, FS_AddElement
<1>4. Cardinality(DOMAIN csBucket') <= MaxBuckets + 1
  BY <1>2, <1>3, UnitsAre
<1>5. DOMAIN csBucket' \subseteq Operator /\ b \in [level : 0..Full, at : 0..csTick']
  BY <1>0, <1>1, <1>2 DEF CsTypeOK
<1>6. \A p \in DOMAIN csBucket' : csBucket'[p] \in [level : 0..Full, at : 0..csTick']
  BY <1>0, <1>1, <1>2, <1>5 DEF CsTypeOK
<1>7. ASSUME NEW p \in Operator PROVE Spendable(p)' = IF p = o THEN l ELSE LevelOf(p)
  <2>1. CASE p = o
    <3>1. csBucket'[p] = b /\ p \in DOMAIN csBucket'
      BY <1>1, <2>1
    <3>2. b.level = l /\ b.at = csTick
      OBVIOUS
    <3> QED BY <1>0, <2>1, <3>1, <3>2, UnitsAre DEF Spendable, Refill
  <2>2. CASE p # o /\ p \in DOMAIN Swept
    BY <1>1, <1>2, <2>2 DEF Spendable, Refill, LevelOf
  <2>3. CASE p # o /\ p \notin DOMAIN Swept
    BY <1>1, <2>3 DEF Spendable, LevelOf
  <2> QED BY <2>1, <2>2, <2>3
<1> QED BY <1>3, <1>4, <1>5, <1>6, <1>7

\* The attempts still counted after a sweep fit with what may then be spent.
LEMMA CountedAre ==
    ASSUME CsInv
    PROVE  /\ Counted \in [Operator -> Seq(Nat)]
           /\ \A p \in Operator : \A i \in DOMAIN Counted[p] :
                /\ Counted[p][i] \in Nat /\ Counted[p][i] <= csTick
                /\ (Len(Counted[p]) - i + 1) * TokenUnit + LevelOf(p) <= Full + (csTick - Counted[p][i])
           /\ \A p \in Operator : \A i, j \in DOMAIN Counted[p] :
                i <= j => (j - i + 1) * TokenUnit <= Full + (Counted[p][j] - Counted[p][i])
<1>0. CsTypeOK /\ WindowInv /\ LoginsBounded
  BY DEF CsInv, ConsoleSound
<1>1. CASE Flooded
  <2>1. Counted = [o \in Operator |-> <<>>]
    BY <1>1 DEF Counted, NoneTried
  <2>2. \A p \in Operator : Counted[p] = <<>> /\ DOMAIN Counted[p] = {}
    BY <2>1
  <2> QED BY <2>1, <2>2
<1>2. CASE ~Flooded
  <2>1. Counted = csTried
    BY <1>2 DEF Counted
  <2>2. \A p \in Operator : LevelOf(p) = Spendable(p)
    BY <1>0, <1>2, SweptAre
  <2>3. \A p \in Operator : \A i \in DOMAIN csTried[p] : csTried[p][i] \in Nat
    BY <1>0 DEF CsTypeOK
  <2> QED BY <1>0, <2>1, <2>2, <2>3 DEF CsTypeOK, WindowInv, LoginsBounded
<1> QED BY <1>1, <1>2

LEMMA LoginStep == ASSUME CsInv, NEW o \in Operator, Login(o) PROVE CsInv'
<1>0. CsTypeOK /\ csTick \in Nat
  BY DEF CsInv, CsTypeOK
<1>1. UNCHANGED <<csOpenMode, csTick, csTask, csPins, csSetting, csTrail, csUntold, csGaps, csSince>>
  BY DEF Login, csHistory
<1>2. TaskInv' /\ TrailTellsState'
  BY <1>1, ChangesStand
<1>3. LevelOf(o) \in 0..Full /\ (Flooded => LevelOf(o) = Full)
  BY <1>0, SweptAre
<1>4. CASE LevelOf(o) < TokenUnit
  <2>1. csBucket' = Refused(o) /\ UNCHANGED <<csCookie, csTried>>
    BY <1>4 DEF Login
  <2>2. ~Flooded
    BY <1>3, <1>4, UnitsAre
  <2>3. \A p \in Operator : LevelOf(p) = Spendable(p)
    BY <1>0, <2>2, SweptAre
  <2>4. /\ IsFiniteSet(DOMAIN csBucket') /\ DOMAIN csBucket' \subseteq Operator
        /\ \A p \in DOMAIN csBucket' : csBucket'[p] \in [level : 0..Full, at : 0..csTick']
        /\ Cardinality(DOMAIN csBucket') <= MaxBuckets + 1
        /\ \A p \in Operator : Spendable(p)' = IF p = o THEN LevelOf(o) ELSE LevelOf(p)
    BY <1>1, <1>3, <2>1, Kept DEF Refused
  <2>5. \A p \in Operator : Spendable(p)' = Spendable(p)
    BY <2>3, <2>4
  <2>6. CsTypeOK'
    BY <1>0, <1>1, <2>1, <2>4 DEF CsTypeOK
  <2>7. WindowInv' /\ LoginsBounded'
    BY <1>1, <2>1, <2>4, <2>5 DEF CsInv, ConsoleSound, WindowInv, LoginsBounded
  <2> QED BY <1>2, <2>6, <2>7 DEF CsInv, ConsoleSound
<1>5. CASE /\ LevelOf(o) >= TokenUnit
           /\ csBucket' = [q \in DOMAIN Swept \ {o} |-> Swept[q]]
           /\ csTried' = [Counted EXCEPT ![o] = <<>>]
           /\ csCookie' = [csCookie EXCEPT ![o] = [user |-> TRUE, token |-> TRUE]]
  <2>1. /\ DOMAIN csBucket' = DOMAIN Swept \ {o}
        /\ \A q \in DOMAIN csBucket' : csBucket'[q] = Swept[q]
    BY <1>5
  <2>2. /\ DOMAIN Swept \subseteq DOMAIN csBucket /\ IsFiniteSet(DOMAIN Swept)
        /\ Cardinality(DOMAIN Swept) \in Nat /\ Cardinality(DOMAIN Swept) <= MaxBuckets
        /\ \A p \in DOMAIN Swept : Swept[p] = csBucket[p]
    BY <1>0, SweptAre
  <2>3. /\ IsFiniteSet(DOMAIN csBucket') /\ Cardinality(DOMAIN csBucket') \in Nat
        /\ Cardinality(DOMAIN csBucket') <= Cardinality(DOMAIN Swept)
    <3>1. DOMAIN csBucket' \subseteq DOMAIN Swept
      BY <2>1
    <3> QED BY <2>2, <3>1, FS_Subset, FS_CardinalityType
  <2>4. /\ \A p \in Operator : csTried'[p] = IF p = o THEN <<>> ELSE Counted[p]
        /\ csTried' \in [Operator -> Seq(Nat)]
    BY <1>5, CountedAre
  <2>5. CsTypeOK'
    <3>1. \A p \in DOMAIN csBucket' : csBucket'[p] \in [level : 0..Full, at : 0..csTick']
      BY <1>0, <1>1, <2>1, <2>2 DEF CsTypeOK
    <3>2. csCookie' \in [Operator -> [user : BOOLEAN, token : BOOLEAN]]
      BY <1>0, <1>5 DEF CsTypeOK
    <3>3. DOMAIN csBucket' \subseteq Operator
      BY <1>0, <2>1, <2>2 DEF CsTypeOK
    <3> QED BY <1>0, <1>1, <2>3, <2>4, <3>1, <3>2, <3>3 DEF CsTypeOK
  <2>6. ASSUME NEW p \in Operator, p # o PROVE Spendable(p)' = LevelOf(p)
    BY <1>1, <2>1, <2>2, <2>6 DEF Spendable, Refill, LevelOf
  <2>7. ASSUME NEW p \in Operator, NEW i \in DOMAIN csTried'[p]
        PROVE  /\ p # o /\ i \in DOMAIN Counted[p] /\ csTried'[p] = Counted[p] /\ Spendable(p)' = LevelOf(p)
    BY <2>4, <2>6, <2>7
  <2>8. WindowInv'
    BY <1>1, <2>7, CountedAre DEF WindowInv
  <2>9. LoginsBounded'
    <3>1. Cardinality(DOMAIN csBucket') <= MaxBuckets + 1
      BY <2>2, <2>3, UnitsAre
    <3> QED BY <2>7, <3>1, CountedAre DEF LoginsBounded
  <2> QED BY <1>2, <2>5, <2>8, <2>9 DEF CsInv, ConsoleSound
<1>6. CASE /\ LevelOf(o) >= TokenUnit
           /\ csBucket' = Keep(o, [level |-> LevelOf(o) - TokenUnit, at |-> csTick])
           /\ csTried' = [Counted EXCEPT ![o] = Append(@, csTick)]
           /\ UNCHANGED csCookie
  <2> DEFINE l == LevelOf(o) - TokenUnit
  <2>1. l \in 0..Full
    BY <1>3, <1>6, UnitsAre
  <2>2. /\ IsFiniteSet(DOMAIN csBucket') /\ DOMAIN csBucket' \subseteq Operator
        /\ \A p \in DOMAIN csBucket' : csBucket'[p] \in [level : 0..Full, at : 0..csTick']
        /\ Cardinality(DOMAIN csBucket') <= MaxBuckets + 1
        /\ \A p \in Operator : Spendable(p)' = IF p = o THEN l ELSE LevelOf(p)
    BY <1>1, <1>6, <2>1, Kept
  <2>3. /\ Counted[o] \in Seq(Nat)
        /\ csTried' \in [Operator -> Seq(Nat)]
        /\ csTried'[o] = Append(Counted[o], csTick)
        /\ \A p \in Operator : p # o => csTried'[p] = Counted[p]
    BY <1>0, <1>6, CountedAre
  <2>4. CsTypeOK'
    BY <1>0, <1>1, <1>6, <2>2, <2>3 DEF CsTypeOK
  <2> DEFINE n == Len(Counted[o])
  <2>5. /\ n \in Nat /\ Len(csTried'[o]) = n + 1 /\ DOMAIN csTried'[o] = 1..n + 1 /\ DOMAIN Counted[o] = 1..n
        /\ csTried'[o][n + 1] = csTick /\ \A i \in 1..n : csTried'[o][i] = Counted[o][i]
    BY <1>0, <2>3
  <2>6. ASSUME NEW i \in 1..n
        PROVE  /\ Counted[o][i] \in Nat /\ Counted[o][i] <= csTick
               /\ (n - i + 1) * TokenUnit \in Nat
               /\ ((n + 1) - i + 1) * TokenUnit = (n - i + 1) * TokenUnit + TokenUnit
               /\ ((n + 1) - i + 1) * TokenUnit + l <= Full + (csTick - Counted[o][i])
    <3>1. n - i + 1 \in Nat /\ (n + 1) - i + 1 = (n - i + 1) + 1
      <4>1. PICK k \in Nat : k = n
        BY <2>5
      <4>2. i \in 1..k
        BY <4>1
      <4>3. k - i + 1 \in Nat /\ (k + 1) - i + 1 = (k - i + 1) + 1
        BY <4>2
      <4> QED BY <4>1, <4>3
    <3>2. ((n + 1) - i + 1) * TokenUnit = (n - i + 1) * TokenUnit + TokenUnit /\ (n - i + 1) * TokenUnit \in Nat
      BY <3>1, UnitsAre
    <3>3. /\ Counted[o][i] \in Nat /\ Counted[o][i] <= csTick
          /\ (n - i + 1) * TokenUnit + LevelOf(o) <= Full + (csTick - Counted[o][i])
      BY <2>5, CountedAre
    <3> HIDE DEF n
    <3> QED BY <1>0, <1>3, <3>2, <3>3, UnitsAre
  <2>7. ((n + 1) - (n + 1) + 1) * TokenUnit = TokenUnit /\ TokenUnit + l <= Full
    <3>1. (n + 1) - (n + 1) + 1 = 0 + 1
      BY <2>5
    <3>2. (0 + 1) * TokenUnit = 0 * TokenUnit + TokenUnit /\ 0 * TokenUnit = 0
      BY UnitsAre
    <3> QED BY <1>3, <3>1, <3>2, UnitsAre
  <2> HIDE DEF n, l
  <2>8. WindowInv'
    <3> SUFFICES ASSUME NEW p \in Operator, NEW i \in DOMAIN csTried'[p]
                 PROVE  /\ csTried'[p][i] <= csTick'
                        /\ (Len(csTried'[p]) - i + 1) * TokenUnit + Spendable(p)' <= Full + (csTick' - csTried'[p][i])
      BY DEF WindowInv
    <3>1. CASE p # o
      BY <1>1, <2>2, <2>3, <3>1, CountedAre
    <3>2. CASE p = o /\ i \in 1..n
      BY <1>1, <2>2, <2>5, <2>6, <3>2
    <3>3. CASE p = o /\ i = n + 1
      <4>1. /\ Len(csTried'[p]) = n + 1 /\ csTried'[p][i] = csTick /\ csTick' = csTick /\ Spendable(p)' = l
        BY <1>1, <2>2, <2>5, <3>3
      <4>2. (Len(csTried'[p]) - i + 1) * TokenUnit = TokenUnit
        BY <2>7, <3>3, <4>1
      <4>3. csTick' - csTried'[p][i] = 0 /\ csTried'[p][i] <= csTick'
        BY <1>0, <4>1
      <4>4. (Len(csTried'[p]) - i + 1) * TokenUnit + Spendable(p)' <= Full
        BY <2>7, <4>1, <4>2
      <4>5. Full + 0 = Full
        BY UnitsAre
      <4> QED BY <4>3, <4>4, <4>5
    <3> QED BY <2>5, <3>1, <3>2, <3>3
  <2>9. LoginsBounded'
    <3> SUFFICES ASSUME NEW p \in Operator, NEW i \in DOMAIN csTried'[p], NEW j \in DOMAIN csTried'[p], i <= j
                 PROVE  (j - i + 1) * TokenUnit <= Full + (csTried'[p][j] - csTried'[p][i])
      BY <2>2 DEF LoginsBounded
    <3>1. CASE p # o
      BY <2>3, <3>1, CountedAre
    <3>2. CASE p = o /\ j \in 1..n
      <4>1. i \in 1..n
        BY <2>5, <3>2
      <4> QED BY <2>5, <3>2, <4>1, CountedAre
    <3>3. CASE p = o /\ j = n + 1 /\ i \in 1..n
      <4>1. /\ csTried'[p][j] = csTick /\ csTried'[p][i] = Counted[o][i]
        BY <2>5, <3>3
      <4>2. l \in Nat
        BY <2>1, UnitsAre
      <4> QED BY <1>0, <2>6, <3>3, <4>1, <4>2, UnitsAre
    <3>4. CASE p = o /\ j = n + 1 /\ i = n + 1
      <4>1. l \in Nat
        BY <2>1, UnitsAre
      <4>2. csTried'[p][j] = csTick /\ csTried'[p][i] = csTick
        BY <2>5, <3>4
      <4> QED BY <1>0, <2>7, <3>4, <4>1, <4>2, UnitsAre
    <3> QED BY <2>5, <3>1, <3>2, <3>3, <3>4
  <2> QED BY <1>2, <2>4, <2>8, <2>9 DEF CsInv, ConsoleSound
<1> QED BY <1>0, <1>3, <1>4, <1>5, <1>6, UnitsAre DEF Login

LEMMA CookieStep ==
    ASSUME CsInv, NEW o \in Operator, Logout(o) \/ FetchToken(o)
    PROVE  CsInv'
<1>1. UNCHANGED <<csOpenMode, csBucket, csTick, csTried, csTask, csPins, csSetting, csTrail, csUntold, csGaps, csSince>>
  BY DEF Logout, FetchToken, csHistory
<1>2. csCookie' \in [Operator -> [user : BOOLEAN, token : BOOLEAN]]
  <2>1. csCookie \in [Operator -> [user : BOOLEAN, token : BOOLEAN]]
    BY DEF CsInv, CsTypeOK
  <2>2. CASE Logout(o)
    BY <2>1, <2>2 DEF Logout, Absentee
  <2>3. CASE FetchToken(o)
    BY <2>1, <2>3 DEF FetchToken
  <2> QED BY <2>2, <2>3
<1>3. CsTypeOK'
  BY <1>1, <1>2 DEF CsInv, CsTypeOK
<1> QED BY <1>1, <1>3, LimiterStands, ChangesStand DEF CsInv, ConsoleSound

LEMMA CsTickStep == ASSUME CsInv, CsTick PROVE CsInv'
<1>0. CsTypeOK /\ csTick \in Nat
  BY DEF CsInv, CsTypeOK
<1>1. /\ csTick' = csTick + 1
      /\ UNCHANGED <<csOpenMode, csCookie, csBucket, csTried, csTask, csPins, csSetting, csTrail, csUntold, csGaps, csSince>>
  BY DEF CsTick, csHistory
<1>2. CsTypeOK'
  <2>1. \A p \in DOMAIN csBucket' : csBucket'[p] \in [level : 0..Full, at : 0..csTick']
    BY <1>0, <1>1 DEF CsTypeOK
  <2> QED BY <1>0, <1>1, <2>1 DEF CsTypeOK
<1>3. \A p \in Operator : Spendable(p)' <= Spendable(p) + 1 /\ Spendable(p)' \in Int /\ Spendable(p) \in Int
  BY <1>0, <1>1, UnitsAre DEF Spendable, Refill, CsTypeOK
<1>4. WindowInv'
  <2> SUFFICES ASSUME NEW p \in Operator, NEW i \in DOMAIN csTried[p]
               PROVE  /\ csTried[p][i] <= csTick + 1
                      /\ (Len(csTried[p]) - i + 1) * TokenUnit + Spendable(p)' <= Full + ((csTick + 1) - csTried[p][i])
    BY <1>1 DEF WindowInv
  <2> DEFINE m == Len(csTried[p]) - i + 1
  <2>1. csTried[p][i] \in Nat /\ m \in Nat
    BY <1>0 DEF CsTypeOK
  <2>2. m * TokenUnit \in Nat
    BY <2>1, UnitsAre
  <2>3. csTried[p][i] <= csTick /\ m * TokenUnit + Spendable(p) <= Full + (csTick - csTried[p][i])
    BY DEF CsInv, WindowInv
  <2> HIDE DEF m
  <2>4. /\ csTried[p][i] <= csTick + 1
        /\ m * TokenUnit + Spendable(p)' <= Full + ((csTick + 1) - csTried[p][i])
    BY <1>0, <1>3, <2>1, <2>2, <2>3, UnitsAre
  <2> QED BY <2>4, Zenon DEF m
<1>5. LoginsBounded'
  BY <1>1 DEF CsInv, ConsoleSound, LoginsBounded
<1> QED BY <1>1, <1>2, <1>4, <1>5, ChangesStand DEF CsInv, ConsoleSound

-----------------------------------------------------------------------------
(* Pins, settings and the trail. *)

LEMMA TrailLength == CsTypeOK => \E n \in Nat : n = Len(csTrail)
<1> SUFFICES ASSUME CsTypeOK PROVE Len(csTrail) \in Nat
  OBVIOUS
<1>1. csTrail \in Seq(PinLine \union SettingLine)
  BY DEF CsTypeOK
<1> QED BY <1>1

\* A line at the end of the trail is the last of those it is one of, and of no others.
LEMMA TrailGrows ==
    ASSUME CsTypeOK, NEW line \in PinLine \union SettingLine, NEW n \in Nat, n = Len(csTrail),
           csTrail' = Append(csTrail, line), csSince' = csSince
    PROVE  /\ csTrail' \in Seq(PinLine \union SettingLine)
           /\ Len(csTrail') = n + 1 /\ DOMAIN csTrail = 1..n /\ DOMAIN csTrail' = 1..n + 1
           /\ \A i \in 1..n : csTrail'[i] = csTrail[i]
           /\ csTrail'[n + 1] = line
           /\ \A k \in 0..n : SettingLines(k)' = SettingLines(k) /\ SettingLines(k) \subseteq 1..n
           /\ SettingLines(n + 1)' =
                SettingLines(n) \union IF line.table = "settings" THEN {n + 1} ELSE {}
           /\ \A t, h : /\ LinesAbout(t, h) \subseteq 1..n
                        /\ LinesAbout(t, h)' = LinesAbout(t, h) \union
                             IF line.table = t /\ line.host = h THEN {n + 1} ELSE {}
<1>1. /\ csTrail \in Seq(PinLine \union SettingLine) /\ n \in Nat /\ csSince \in 0..n
  BY DEF CsTypeOK
<1>2. /\ csTrail' \in Seq(PinLine \union SettingLine) /\ Len(csTrail') = n + 1
      /\ DOMAIN csTrail = 1..n /\ DOMAIN csTrail' = 1..n + 1
      /\ \A i \in 1..n : csTrail'[i] = csTrail[i]
      /\ csTrail'[n + 1] = line
  BY <1>1
<1>3. ASSUME NEW k \in 0..n PROVE SettingLines(k)' = SettingLines(k) /\ SettingLines(k) \subseteq 1..n
  BY <1>1, <1>2 DEF SettingLines
<1>4. SettingLines(n + 1)' = {i \in csSince + 1..n + 1 : csTrail'[i].table = "settings"}
  BY DEF SettingLines
<1>5. SettingLines(n + 1)' = SettingLines(n) \union IF line.table = "settings" THEN {n + 1} ELSE {}
  <2>1. \A i \in csSince + 1..n + 1 : (i \in csSince + 1..n /\ i \in 1..n) \/ i = n + 1
    BY <1>1
  <2>2. n + 1 \in csSince + 1..n + 1 /\ csSince + 1..n \subseteq csSince + 1..n + 1 /\ n + 1 \notin 1..n
        /\ csSince + 1..n \subseteq 1..n
    BY <1>1
  <2> QED BY <1>2, <1>4, <2>1, <2>2 DEF SettingLines
<1>6. ASSUME NEW t, NEW h
      PROVE  /\ LinesAbout(t, h) \subseteq 1..n
             /\ LinesAbout(t, h)' = LinesAbout(t, h) \union IF line.table = t /\ line.host = h THEN {n + 1} ELSE {}
  <2>1. \A i : i \in 1..n + 1 <=> i \in 1..n \/ i = n + 1
    BY <1>1
  <2> QED BY <1>2, <2>1 DEF LinesAbout
<1> QED BY <1>1, <1>2, <1>3, <1>5, <1>6

\* What the old lines say of themselves, the longer trail says too.
LEMMA TellsStill ==
    ASSUME NEW lines, NEW value, NEW default, Tells(lines, value, default),
           \A i \in lines : csTrail'[i] = csTrail[i]
    PROVE  Tells(lines, value, default)'
  BY DEF Tells

LEMMA TellsNew ==
    ASSUME NEW m \in Nat, NEW lines \in SUBSET (1..m), NEW value, NEW default,
           csTrail'[m + 1].value = value
    PROVE  Tells(lines \union {m + 1}, value, default)'
<1> SUFFICES ASSUME NEW i \in lines \union {m + 1}, \A j \in lines \union {m + 1} : j <= i
             PROVE  csTrail'[i].value = value
  BY DEF Tells
<1>1. m + 1 <= i
  OBVIOUS
<1>2. i \notin lines
  BY <1>1
<1> QED BY <1>2

\* A change whose line is lost leaves a gap behind the last line.
LEMMA ChainBreaks ==
    ASSUME CsTypeOK, SettingsChain, Named, UNCHANGED <<csTrail, csSince, csOpenMode>>,
           csGaps' = csGaps \union {Len(csTrail)}
    PROVE  SettingsChain' /\ Named'
<1>1. PICK n \in Nat : n = Len(csTrail)
  BY TrailLength
<1>2. \A k : SettingLines(k)' = SettingLines(k)
  BY DEF SettingLines
<1>3. \A k, value : TellsOrGap(k, value) => TellsOrGap(k, value)'
  BY <1>2 DEF TellsOrGap, Missing, Tells
<1>4. Missing(n)'
  <2>1. \A i \in SettingLines(n) : i <= n
    BY <1>1 DEF SettingLines, CsTypeOK
  <2> QED BY <1>1, <1>2, <2>1 DEF Missing
<1>5. TellsOrGap(Len(csTrail), csSetting)'
  BY <1>1, <1>2, <1>4 DEF TellsOrGap, Missing
<1>6. \A i \in SettingLines(Len(csTrail))' : TellsOrGap(i - 1, csTrail[i].old)' /\ csTrail'[i].old # csTrail'[i].value
  BY <1>2, <1>3 DEF SettingsChain, SettingLines
<1>7. Named'
  BY DEF Named
<1> QED BY <1>5, <1>6, <1>7 DEF SettingsChain

\* A line about a pin is none about settings, and one about settings none about a pin.
LEMMA ChainGrows ==
    ASSUME CsTypeOK, SettingsChain, Named, NEW line \in PinLine \union SettingLine,
           csTrail' = Append(csTrail, line), csGaps' = csGaps, csSince' = csSince, csOpenMode' = csOpenMode,
           csOpenMode \/ line.actor # "open_mode",
           \/ line \in PinLine /\ csSetting' = csSetting
           \/ line \in SettingLine /\ line.old = csSetting /\ line.value = csSetting' /\ line.old # line.value
    PROVE  SettingsChain' /\ Named'
<1>1. PICK n \in Nat : n = Len(csTrail)
  BY TrailLength
<1>2. /\ Len(csTrail') = n + 1 /\ DOMAIN csTrail = 1..n /\ DOMAIN csTrail' = 1..n + 1
      /\ \A i \in 1..n : csTrail'[i] = csTrail[i]
      /\ csTrail'[n + 1] = line
      /\ \A k \in 0..n : SettingLines(k)' = SettingLines(k) /\ SettingLines(k) \subseteq 1..n
      /\ SettingLines(n + 1)' = SettingLines(n) \union IF line.table = "settings" THEN {n + 1} ELSE {}
  BY <1>1, TrailGrows
<1>3. SettingLines(Len(csTrail))' = SettingLines(n + 1)'
  BY <1>2 DEF SettingLines
<1>4. Named'
  <2>1. \A i \in 1..n + 1 : i \in 1..n \/ i = n + 1
    BY <1>1
  <2> QED BY <1>2, <2>1 DEF Named
<1>5. ASSUME NEW k \in 0..n, NEW value, TellsOrGap(k, value) PROVE TellsOrGap(k, value)'
  <2>1. SettingLines(k)' = SettingLines(k) /\ \A i \in SettingLines(k) : csTrail'[i] = csTrail[i]
    BY <1>2
  <2> QED BY <1>5, <2>1 DEF TellsOrGap, Missing, Tells
<1>6. TellsOrGap(n, csSetting)
  BY <1>1 DEF SettingsChain
<1>7. SettingLines(n)' = SettingLines(n) /\ SettingLines(n) \subseteq 1..n
  BY <1>1, <1>2
<1>8. ASSUME NEW i \in SettingLines(n)
      PROVE  TellsOrGap(i - 1, csTrail[i].old)' /\ csTrail'[i].old # csTrail'[i].value
  <2>1. i \in 1..n /\ i - 1 \in 0..n
    BY <1>1, <1>7
  <2>2. TellsOrGap(i - 1, csTrail[i].old) /\ csTrail[i].old # csTrail[i].value /\ csTrail'[i] = csTrail[i]
    BY <1>1, <1>2, <2>1 DEF SettingsChain
  <2>3. \A value : TellsOrGap(i - 1, value) => TellsOrGap(i - 1, value)'
    BY <1>5, <2>1
  <2> QED BY <2>2, <2>3 DEF TellsOrGap, Tells
<1>9. CASE line \in PinLine /\ csSetting' = csSetting
  <2>1. SettingLines(n + 1)' = SettingLines(n)
    BY <1>2, <1>9 DEF PinLine, Tables
  <2>2. TellsOrGap(n + 1, csSetting)'
    <3>1. CASE Missing(n)
      <4>1. PICK g \in csGaps : g <= n /\ \A i \in SettingLines(n) : i <= g
        BY <3>1 DEF Missing
      <4>2. g <= n + 1
        BY <1>1, <4>1 DEF CsTypeOK
      <4> QED BY <2>1, <4>1, <4>2 DEF TellsOrGap, Missing
    <3>2. CASE Tells(SettingLines(n), csSetting, EnvSetting)
      BY <1>2, <1>7, <1>9, <2>1, <3>2 DEF TellsOrGap, Tells
    <3> QED BY <1>6, <3>1, <3>2 DEF TellsOrGap
  <2>3. TellsOrGap(Len(csTrail), csSetting)'
    BY <1>2, <2>2 DEF TellsOrGap, Missing, SettingLines
  <2> QED BY <1>3, <1>4, <1>8, <2>1, <2>3 DEF SettingsChain
<1>10. CASE line \in SettingLine /\ line.old = csSetting /\ line.value = csSetting' /\ line.old # line.value
  <2>1. SettingLines(n + 1)' = SettingLines(n) \union {n + 1}
    BY <1>2, <1>10 DEF SettingLine
  <2>2. Tells(SettingLines(n + 1), csSetting, EnvSetting)'
    <3>1. \A i \in SettingLines(n) : i < n + 1
      BY <1>1, <1>7
    <3>2. ASSUME NEW i \in SettingLines(n + 1)', \A j \in SettingLines(n + 1)' : j <= i
          PROVE  csTrail'[i].value = csSetting'
      <4>1. n + 1 <= i
        BY <2>1, <3>2
      <4>2. i \notin SettingLines(n)
        BY <1>1, <1>7, <3>1, <4>1
      <4>3. i = n + 1
        BY <2>1, <3>2, <4>2
      <4> QED BY <1>2, <1>10, <4>3
    <3>3. SettingLines(n + 1)' # {}
      BY <2>1
    <3> QED BY <3>2, <3>3 DEF Tells
  <2>3. TellsOrGap(Len(csTrail), csSetting)'
    BY <1>2, <1>3, <2>2 DEF TellsOrGap
  <2>4. ASSUME NEW i, i = n + 1
        PROVE  TellsOrGap(i - 1, csTrail[i].old)' /\ csTrail'[i].old # csTrail'[i].value
    <3>1. i - 1 = n /\ csTrail'[i].old = csSetting /\ csTrail'[i].old # csTrail'[i].value
      BY <1>1, <1>2, <1>10, <2>4
    <3>2. \A value : TellsOrGap(n, value) => TellsOrGap(n, value)'
      BY <1>1, <1>5
    <3>3. PICK value : value = csSetting
      OBVIOUS
    <3>4. TellsOrGap(n, value)'
      BY <1>6, <3>2, <3>3
    <3>5. csTrail'[i].old = value /\ i - 1 = n
      BY <3>1, <3>3
    <3>6. TellsOrGap(i - 1, csTrail[i].old)'
      <4>1. CASE Missing(n)'
        BY <3>5, <4>1 DEF TellsOrGap
      <4>2. CASE Tells(SettingLines(n), value, EnvSetting)'
        BY <3>5, <4>2 DEF TellsOrGap
      <4> QED BY <3>4, <4>1, <4>2 DEF TellsOrGap
    <3> QED BY <3>1, <3>6
  <2> QED BY <1>3, <1>4, <1>8, <2>1, <2>3, <2>4 DEF SettingsChain
<1> QED BY <1>9, <1>10

\* The lines about one pin when a line about another is added, or about itself.
LEMMA PinTold ==
    ASSUME CsTypeOK, NEW line \in PinLine \union SettingLine,
           csTrail' = Append(csTrail, line), csSince' = csSince, csPins' = csPins,
           NEW t \in Tables, NEW h \in Host
    PROVE  /\ line.table = t /\ line.host = h /\ line.value = csPins[t][h] => Tells(LinesAbout(t, h), csPins[t][h], Free)'
           /\ ~(line.table = t /\ line.host = h) /\ Tells(LinesAbout(t, h), csPins[t][h], Free)
                => Tells(LinesAbout(t, h), csPins[t][h], Free)'
<1>1. PICK n \in Nat : n = Len(csTrail)
  BY TrailLength
<1>2. /\ DOMAIN csTrail = 1..n /\ \A i \in 1..n : csTrail'[i] = csTrail[i]
      /\ csTrail'[n + 1] = line
      /\ LinesAbout(t, h) \subseteq 1..n
      /\ LinesAbout(t, h)' = LinesAbout(t, h) \union IF line.table = t /\ line.host = h THEN {n + 1} ELSE {}
  BY <1>1, TrailGrows
<1>3. CASE line.table = t /\ line.host = h /\ line.value = csPins[t][h]
  <2>1. LinesAbout(t, h)' = LinesAbout(t, h) \union {n + 1}
    BY <1>2, <1>3
  <2>2. ASSUME NEW i \in LinesAbout(t, h)', \A j \in LinesAbout(t, h)' : j <= i
        PROVE  csTrail'[i].value = csPins[t][h]
    <3>1. n + 1 <= i
      BY <2>1, <2>2
    <3>2. i = n + 1
      BY <1>1, <1>2, <2>1, <2>2, <3>1
    <3> QED BY <1>2, <1>3, <3>2
  <2> QED BY <1>3, <2>1, <2>2 DEF Tells
<1>4. CASE ~(line.table = t /\ line.host = h)
  <2>1. LinesAbout(t, h)' = LinesAbout(t, h)
    BY <1>2, <1>4
  <2> QED BY <1>2, <1>4, <2>1 DEF Tells
<1> QED BY <1>3, <1>4

LEMMA AskPinStep ==
    ASSUME CsInv, NEW o \in Operator, NEW table \in Tables, NEW h \in Host, NEW value \in PinValue,
           AskPin(o, table, h, value)
    PROVE  CsInv'
<1>0. CsTypeOK /\ TaskInv /\ TrailTellsState
  BY DEF CsInv, ConsoleSound
<1>1. /\ UNCHANGED <<csOpenMode, csCookie, csBucket, csTick, csTried, csPins, csSetting, csTrail, csUntold, csGaps, csSince>>
      /\ csTask[o].step = "none"
  BY DEF AskPin, csHistory
<1>2. PICK a \in Actors(o) : csTask' = [csTask EXCEPT ![o] =
        [step |-> "waiting", table |-> table, host |-> h, value |-> value, actor |-> a, hit |-> FALSE]]
  BY DEF AskPin
<1>3. a \in Actor /\ (a = "open_mode" => csOpenMode)
  BY DEF Actors, Actor
<1>4. /\ \A q \in Operator : q # o => csTask'[q] = csTask[q]
      /\ csTask'[o] = [step |-> "waiting", table |-> table, host |-> h, value |-> value, actor |-> a, hit |-> FALSE]
      /\ csTask' \in [Operator -> CsTask]
  BY <1>0, <1>2, <1>3 DEF CsTypeOK, CsTask
<1>5. csTask'[o].step = "waiting" /\ csTask'[o].actor = a
  BY <1>4
<1>6. CsTypeOK'
  BY <1>0, <1>1, <1>4 DEF CsTypeOK
<1>7. Holder' = Holder
  BY <1>1, <1>4, <1>5 DEF Holder
<1>8. \A t, g : (UnderWay(t, g)' <=> UnderWay(t, g)) /\ (Settled(t, g)' <=> Settled(t, g))
  BY <1>1, <1>4, <1>5, <1>7 DEF UnderWay, Holder, Settled, Tells, LinesAbout
<1>9. TaskInv'
  BY <1>0, <1>1, <1>3, <1>4, <1>5, <1>7, <1>8 DEF TaskInv
<1>10. TrailTellsState'
  <2>1. PinsTold'
    BY <1>0, <1>8, TrailParts DEF PinsTold
  <2> QED BY <1>0, <1>1, <2>1, TrailParts, TrailPartsNext, ChainStands
<1> QED BY <1>1, <1>6, <1>9, <1>10, LimiterStands DEF CsInv, ConsoleSound

LEMMA TakeLockStep == ASSUME CsInv, NEW o \in Operator, TakeLock(o) PROVE CsInv'
<1>0. CsTypeOK /\ TaskInv /\ TrailTellsState
  BY DEF CsInv, ConsoleSound
<1>1. /\ UNCHANGED <<csOpenMode, csCookie, csBucket, csTick, csTried, csPins, csSetting, csTrail, csUntold, csGaps, csSince>>
      /\ csTask[o].step = "waiting" /\ Holder = {}
      /\ csTask' = [csTask EXCEPT ![o].step = "writing"]
  BY DEF TakeLock, MayLock, csHistory
<1>2. csTask[o] \in CsTask /\ csTask[o] # NoTask
  BY <1>0, <1>1 DEF CsTypeOK, NoTask
<1>3. /\ csTask' \in [Operator -> CsTask] /\ csTask'[o].step = "writing" /\ csTask'[o].actor = csTask[o].actor
      /\ \A q \in Operator : q # o => csTask'[q] = csTask[q]
  BY <1>0, <1>1, <1>2 DEF CsTypeOK, CsTask
<1>4. CsTypeOK'
  BY <1>0, <1>1, <1>3 DEF CsTypeOK
<1>5. Holder' = {o}
  BY <1>1, <1>3 DEF Holder
<1>6. \A t, g : ~UnderWay(t, g) /\ (Settled(t, g)' <=> Settled(t, g))
  BY <1>1 DEF UnderWay, Settled, Tells, LinesAbout
<1>7. TaskInv'
  BY <1>0, <1>1, <1>3, <1>5, <1>6 DEF TaskInv
<1>8. TrailTellsState'
  <2>1. PinsTold'
    BY <1>0, <1>6, TrailParts DEF PinsTold
  <2> QED BY <1>0, <1>1, <2>1, TrailParts, TrailPartsNext, ChainStands
<1> QED BY <1>1, <1>4, <1>7, <1>8, LimiterStands DEF CsInv, ConsoleSound

LEMMA WriteStep ==
    ASSUME CsInv, NEW o \in Operator, NEW hit \in BOOLEAN, Write(o, hit),
           hit \/ (csTask[o].value = Free /\ ~Held(o))
    PROVE  CsInv'
<1>0. CsTypeOK /\ TaskInv /\ TrailTellsState
  BY DEF CsInv, ConsoleSound
<1> DEFINE t == csTask[o].table
           h == csTask[o].host
           v == csTask[o].value
<1>1. /\ UNCHANGED <<csOpenMode, csCookie, csBucket, csTick, csTried, csSetting, csTrail, csUntold, csGaps, csSince>>
      /\ csTask[o].step = "writing" /\ csPins' = [csPins EXCEPT ![t][h] = v]
      /\ csTask' = [csTask EXCEPT ![o].step = "written", ![o].hit = hit]
  BY DEF Write, csHistory
<1>2. csTask[o] \in CsTask /\ csTask[o] # NoTask
  BY <1>0, <1>1 DEF CsTypeOK, NoTask
<1>3. t \in Tables /\ h \in Host /\ v \in PinValue
  BY <1>2 DEF CsTask
<1>4. /\ csTask' \in [Operator -> CsTask]
      /\ csTask'[o].step = "written" /\ csTask'[o].hit = hit /\ csTask'[o].table = t /\ csTask'[o].host = h
      /\ csTask'[o].value = v /\ csTask'[o].actor = csTask[o].actor
      /\ \A q \in Operator : q # o => csTask'[q] = csTask[q]
  BY <1>0, <1>1, <1>2 DEF CsTypeOK, CsTask
<1>5. /\ csPins' \in [Tables -> [Host -> PinValue]] /\ csPins'[t][h] = v
      /\ \A t2 \in Tables, h2 \in Host : t2 # t \/ h2 # h => csPins'[t2][h2] = csPins[t2][h2]
  BY <1>0, <1>1, <1>3 DEF CsTypeOK
<1>6. CsTypeOK'
  BY <1>0, <1>1, <1>4, <1>5 DEF CsTypeOK
<1>7. o \in Holder /\ (\A q \in Holder : q = o) /\ Holder' = {o}
  BY <1>0, <1>1, <1>4 DEF TaskInv, Holder
<1>8. \A t2, h2 : ~UnderWay(t2, h2)
  BY <1>1, <1>7 DEF UnderWay
<1>9. \A t2 \in Tables, h2 \in Host : Settled(t2, h2)
  BY <1>0, <1>8, TrailParts DEF PinsTold
<1> HIDE DEF t, h, v
<1>10. ASSUME NEW t2 \in Tables, NEW h2 \in Host, csPins'[t2][h2] = csPins[t2][h2]
       PROVE  Settled(t2, h2)'
  BY <1>1, <1>9, <1>10 DEF Settled, Tells, LinesAbout
<1>11. ~hit => csPins'[t][h] = csPins[t][h]
  BY <1>5 DEF Held, t, h, v
<1>12. TaskInv'
  <2>1. IF csTask'[o].hit THEN csPins'[csTask'[o].table][csTask'[o].host] = csTask'[o].value
        ELSE Settled(csTask[o].table, csTask[o].host)'
    <3>1. CASE hit
      BY <1>4, <1>5, <3>1
    <3>2. CASE ~hit
      <4>1. Settled(csTask[o].table, csTask[o].host)'
        <5>1. \A t2 \in Tables, h2 \in Host : t2 = t /\ h2 = h => Settled(t2, h2)'
          BY <1>10, <1>11, <3>2
        <5> QED BY <1>3, <1>4, <5>1 DEF Settled, LinesAbout
      <4> QED BY <1>4, <3>2, <4>1
    <3> QED BY <3>1, <3>2
  <2>2. \A q \in Operator : csTask'[q].step = "written" => q = o
    BY <1>7 DEF Holder
  <2>3. ~csOpenMode' => \A q \in Operator : csTask'[q].step # "none" => csTask'[q].actor # "open_mode"
    BY <1>0, <1>1, <1>4 DEF TaskInv
  <2> QED BY <1>7, <2>1, <2>2, <2>3 DEF TaskInv
<1>13. TrailTellsState'
  <2>1. ASSUME NEW t2 \in Tables, NEW h2 \in Host PROVE UnderWay(t2, h2)' \/ Settled(t2, h2)'
    <3>1. CASE t2 = t /\ h2 = h
      BY <1>4, <1>7, <3>1 DEF UnderWay
    <3>2. CASE t2 # t \/ h2 # h
      BY <1>5, <1>10, <3>2
    <3> QED BY <3>1, <3>2
  <2>2. PinsTold'
    BY <2>1 DEF PinsTold
  <2> QED BY <1>0, <1>1, <2>2, TrailParts, TrailPartsNext, ChainStands
<1> QED BY <1>1, <1>6, <1>12, <1>13, LimiterStands DEF CsInv, ConsoleSound

LEMMA AnswerStep == ASSUME CsInv, NEW o \in Operator, Answer(o) PROVE CsInv'
<1>0. CsTypeOK /\ TaskInv /\ PinsTold /\ SettingsChain /\ Named
  BY TrailParts DEF CsInv, ConsoleSound
<1>1. PICK t \in CsTask : t = csTask[o]
  BY <1>0 DEF CsTypeOK
<1> DEFINE line == [table |-> t.table, host |-> t.host, value |-> t.value, actor |-> t.actor]
<1>2. /\ UNCHANGED <<csOpenMode, csCookie, csBucket, csTick, csTried, csPins, csSetting, csGaps, csSince>>
      /\ t.step = "written" /\ csTask' = [csTask EXCEPT ![o] = NoTask]
      /\ \/ csTrail' = (IF t.hit THEN Append(csTrail, line) ELSE csTrail)
            /\ csUntold' = (IF t.hit THEN csUntold \ {<<t.table, t.host>>} ELSE csUntold)
         \/ t.hit /\ csUntold' = csUntold \union {<<t.table, t.host>>} /\ csTrail' = csTrail
  BY <1>1 DEF Answer
<1>3. t.table \in Tables /\ t.host \in Host /\ line \in PinLine /\ t.hit \in BOOLEAN
  BY <1>2 DEF CsTask, NoTask, PinLine
<1>4. csOpenMode \/ line.actor # "open_mode"
  BY <1>0, <1>1, <1>2 DEF TaskInv
<1>5. /\ csTask' \in [Operator -> CsTask] /\ csTask'[o].step = "none"
      /\ \A q \in Operator : q # o => csTask'[q] = csTask[q]
  BY <1>0, <1>2 DEF CsTypeOK, CsTask, NoTask
<1>6. o \in Holder /\ (\A q \in Holder : q = o) /\ Holder' = {}
  BY <1>0, <1>1, <1>2, <1>5 DEF TaskInv, Holder
<1>7. TaskInv'
  <2>1. \A q \in Operator : csTask'[q].step # "written"
    BY <1>6 DEF Holder
  <2>2. ~csOpenMode' => \A q \in Operator : csTask'[q].step # "none" => csTask'[q].actor # "open_mode"
    BY <1>0, <1>2, <1>5 DEF TaskInv
  <2> QED BY <1>6, <2>1, <2>2 DEF TaskInv
<1>8. \A t2, h2 : UnderWay(t2, h2) => t2 = t.table /\ h2 = t.host
  BY <1>1, <1>6 DEF UnderWay
<1>9. \A t2 \in Tables, h2 \in Host : t2 # t.table \/ h2 # t.host => Settled(t2, h2)
  BY <1>0, <1>8 DEF PinsTold
<1>10. IF t.hit THEN csPins[t.table][t.host] = t.value ELSE Settled(t.table, t.host)
  BY <1>0, <1>1, <1>2 DEF TaskInv
<1> HIDE DEF line
<1>11. CASE t.hit /\ csTrail' = Append(csTrail, line) /\ csUntold' = csUntold \ {<<t.table, t.host>>}
  <2>1. line.table = t.table /\ line.host = t.host /\ line.value = t.value
    BY DEF line
  <2>2. ASSUME NEW t2 \in Tables, NEW h2 \in Host PROVE Settled(t2, h2)'
    <3>1. CASE t2 = t.table /\ h2 = t.host
      <4>1. Tells(LinesAbout(t2, h2), csPins[t2][h2], Free)'
        BY <1>0, <1>2, <1>3, <1>10, <1>11, <2>1, <3>1, PinTold
      <4> QED BY <4>1 DEF Settled
    <3>2. CASE t2 # t.table \/ h2 # t.host
      <4>1. CASE <<t2, h2>> \in csUntold
        BY <1>11, <3>2, <4>1 DEF Settled
      <4>2. CASE <<t2, h2>> \notin csUntold
        <5>1. Tells(LinesAbout(t2, h2), csPins[t2][h2], Free)
          BY <1>9, <3>2, <4>2 DEF Settled
        <5>2. Tells(LinesAbout(t2, h2), csPins[t2][h2], Free)'
          BY <1>0, <1>2, <1>3, <1>11, <2>1, <3>2, <5>1, PinTold
        <5> QED BY <5>2 DEF Settled
      <4> QED BY <4>1, <4>2
    <3> QED BY <3>1, <3>2
  <2>3. PinsTold'
    BY <2>2 DEF PinsTold
  <2>4. SettingsChain' /\ Named'
    BY <1>0, <1>2, <1>3, <1>4, <1>11, ChainGrows
  <2>5. csTrail' \in Seq(PinLine \union SettingLine) /\ csSince' \in 0..Len(csTrail')
    BY <1>0, <1>2, <1>3, <1>11 DEF CsTypeOK
  <2>6. CsTypeOK'
    BY <1>0, <1>2, <1>5, <2>5 DEF CsTypeOK
  <2> QED BY <1>2, <1>7, <2>3, <2>4, <2>6, LimiterStands, TrailPartsNext DEF CsInv, ConsoleSound
<1>12. CASE csTrail' = csTrail /\ ((~t.hit /\ csUntold' = csUntold) \/ csUntold' = csUntold \union {<<t.table, t.host>>})
  <2>1. ASSUME NEW t2 \in Tables, NEW h2 \in Host PROVE Settled(t2, h2)'
    <3>1. CASE <<t2, h2>> \in csUntold'
      BY <3>1 DEF Settled
    <3>2. CASE <<t2, h2>> \notin csUntold'
      <4>1. Settled(t2, h2)
        BY <1>9, <1>10, <1>12, <3>2
      <4> QED BY <1>2, <1>12, <3>2, <4>1 DEF Settled, Tells, LinesAbout
    <3> QED BY <3>1, <3>2
  <2>2. PinsTold'
    BY <2>1 DEF PinsTold
  <2>3. SettingsChain' /\ Named'
    BY <1>0, <1>2, <1>12, ChainStands
  <2>4. CsTypeOK'
    BY <1>0, <1>2, <1>5, <1>12 DEF CsTypeOK
  <2> QED BY <1>2, <1>7, <2>2, <2>3, <2>4, LimiterStands, TrailPartsNext DEF CsInv, ConsoleSound
<1> QED BY <1>2, <1>3, <1>11, <1>12

LEMMA ChangeSettingStep ==
    ASSUME CsInv, NEW o \in Operator, NEW v \in Setting, ChangeSetting(o, v)
    PROVE  CsInv'
<1>0. CsTypeOK /\ TaskInv /\ PinsTold /\ SettingsChain /\ Named
  BY TrailParts DEF CsInv, ConsoleSound
<1>1. /\ UNCHANGED <<csOpenMode, csCookie, csBucket, csTick, csTried, csTask, csPins, csUntold, csSince>>
      /\ csSetting' = v
  BY DEF ChangeSetting
<1>2. PICK a \in Actors(o) :
        \/ /\ csTrail' = IF Diff(v) = {} THEN csTrail
                         ELSE Append(csTrail, [table |-> "settings", old |-> csSetting, value |-> v, actor |-> a])
           /\ csGaps' = csGaps
        \/ Diff(v) # {} /\ csGaps' = csGaps \union {Len(csTrail)} /\ csTrail' = csTrail
  BY DEF ChangeSetting
<1>3. a \in Actor /\ (a = "open_mode" => csOpenMode)
  BY DEF Actors, Actor
<1> DEFINE line == [table |-> "settings", old |-> csSetting, value |-> v, actor |-> a]
<1>4. line \in SettingLine /\ line.old = csSetting /\ line.value = v /\ line.actor = a /\ line.table = "settings"
  BY <1>0, <1>3 DEF SettingLine, CsTypeOK
<1>5. CASE Diff(v) = {}
  <2>1. csTrail' = csTrail /\ csSetting' = csSetting /\ csGaps' = csGaps
    BY <1>1, <1>2, <1>5 DEF Diff
  <2>2. UNCHANGED <<csOpenMode, csTask, csPins, csSetting, csTrail, csUntold, csGaps, csSince>>
    BY <1>1, <2>1
  <2>3. CsTypeOK'
    BY <1>0, <1>1, <2>1 DEF CsTypeOK
  <2> QED BY <1>1, <2>2, <2>3, LimiterStands, ChangesStand DEF CsInv, ConsoleSound
<1>6. CASE Diff(v) # {} /\ csTrail' = Append(csTrail, line) /\ csGaps' = csGaps
  <2>1. csTrail' = Append(csTrail, line) /\ v # csSetting
    BY <1>6 DEF Diff
  <2> HIDE DEF line
  <2>2. SettingsChain' /\ Named'
    BY <1>0, <1>1, <1>3, <1>4, <1>6, <2>1, ChainGrows
  <2>3. csTrail' \in Seq(PinLine \union SettingLine) /\ csSince' \in 0..Len(csTrail')
    BY <1>0, <1>1, <1>4, <2>1 DEF CsTypeOK
  <2>4. CsTypeOK'
    BY <1>0, <1>1, <1>6, <2>3 DEF CsTypeOK
  <2>5. ASSUME NEW t \in Tables, NEW h \in Host, Settled(t, h) PROVE Settled(t, h)'
    <3>1. CASE <<t, h>> \in csUntold
      BY <1>1, <3>1 DEF Settled
    <3>2. CASE Tells(LinesAbout(t, h), csPins[t][h], Free)
      <4>1. line.table # t
        BY <1>4 DEF Tables
      <4>2. Tells(LinesAbout(t, h), csPins[t][h], Free)'
        BY <1>0, <1>1, <1>4, <2>1, <3>2, <4>1, PinTold
      <4> QED BY <4>2 DEF Settled
    <3> QED BY <2>5, <3>1, <3>2 DEF Settled
  <2>6. \A t \in Tables, h \in Host : UnderWay(t, h)' <=> UnderWay(t, h)
    BY <1>1 DEF UnderWay, Holder
  <2>7. PinsTold'
    BY <1>0, <2>5, <2>6 DEF PinsTold
  <2>8. TaskInv'
    <3>1. ASSUME NEW q \in Operator, csTask'[q].step = "written", ~csTask'[q].hit
          PROVE  Settled(csTask[q].table, csTask[q].host)'
      <4>1. csTask[q].table \in Tables /\ csTask[q].host \in Host
        <5>1. csTask[q] \in CsTask \union {NoTask} /\ csTask[q].step = "written"
          BY <1>0, <1>1, <3>1 DEF CsTypeOK
        <5> QED BY <5>1 DEF CsTask, NoTask
      <4>2. Settled(csTask[q].table, csTask[q].host)
        BY <1>0, <1>1, <3>1 DEF TaskInv
      <4>3. \A t \in Tables, h \in Host : t = csTask[q].table /\ h = csTask[q].host => Settled(t, h)'
        BY <2>5, <4>2
      <4> QED BY <1>1, <4>1, <4>3 DEF Settled, LinesAbout
    <3> QED BY <1>0, <1>1, <3>1 DEF TaskInv, Holder
  <2> QED BY <1>1, <2>2, <2>4, <2>7, <2>8, LimiterStands, TrailPartsNext DEF CsInv, ConsoleSound
<1>7. CASE Diff(v) # {} /\ csTrail' = csTrail /\ csGaps' = csGaps \union {Len(csTrail)}
  <2>1. CsTypeOK'
    <3>1. csGaps' \in SUBSET Nat
      BY <1>0, <1>7, TrailLength DEF CsTypeOK
    <3> QED BY <1>0, <1>1, <1>7, <3>1 DEF CsTypeOK
  <2>2. \A t, h : (Settled(t, h)' <=> Settled(t, h)) /\ (UnderWay(t, h)' <=> UnderWay(t, h))
    BY <1>1, <1>7 DEF Settled, Tells, LinesAbout, UnderWay, Holder
  <2>3. TaskInv' /\ PinsTold'
    BY <1>0, <1>1, <2>2 DEF TaskInv, PinsTold, Holder
  <2>4. SettingsChain' /\ Named'
    BY <1>0, <1>1, <1>7, ChainBreaks
  <2> QED BY <1>1, <2>1, <2>3, <2>4, LimiterStands, TrailPartsNext DEF CsInv, ConsoleSound
<1> QED BY <1>2, <1>5, <1>6, <1>7 DEF line

LEMMA RestartConsoleStep == ASSUME CsInv, RestartConsole PROVE CsInv'
<1>0. CsTypeOK /\ TaskInv /\ PinsTold /\ SettingsChain /\ Named
  BY TrailParts DEF CsInv, ConsoleSound
<1>1. /\ csBucket' = <<>> /\ csTried' = NoneTried
      /\ csTask' = [o \in Operator |-> NoTask]
      /\ csSetting' = EnvSetting /\ csGaps' = {} /\ csSince' = Len(csTrail)
      /\ UNCHANGED <<csOpenMode, csCookie, csTick, csPins, csTrail>>
      /\ csUntold \subseteq csUntold'
      /\ \A p \in Operator : csTask[p].step = "written" /\ csTask[p].hit => <<csTask[p].table, csTask[p].host>> \in csUntold'
  BY DEF RestartConsole
<1>2. DOMAIN csBucket' = {} /\ IsFiniteSet({}) /\ Cardinality({}) = 0
  BY <1>1, FS_EmptySet
<1>3. \A p \in Operator : csTried'[p] = <<>> /\ DOMAIN csTried'[p] = {}
  BY <1>1 DEF NoneTried
<1>4. csTried' \in [Operator -> Seq(Nat)]
  BY <1>1 DEF NoneTried
<1>5. csTask' \in [Operator -> CsTask] /\ \A o \in Operator : csTask'[o].step = "none"
  BY <1>1 DEF CsTask, NoTask
<1>6. CsTypeOK'
  <2>1. csSince' \in 0..Len(csTrail')
    BY <1>0, <1>1 DEF CsTypeOK
  <2> QED BY <1>0, <1>1, <1>2, <1>4, <1>5, <2>1, ConsoleAssumption DEF CsTypeOK
<1>7. WindowInv' /\ LoginsBounded' /\ TaskInv'
  <2>1. Cardinality(DOMAIN csBucket') <= MaxBuckets + 1
    BY <1>2, UnitsAre
  <2>2. WindowInv' /\ LoginsBounded'
    BY <1>3, <2>1 DEF WindowInv, LoginsBounded
  <2>3. Holder' = {} /\ \A o \in Operator : csTask'[o].step # "written"
    BY <1>5 DEF Holder
  <2> QED BY <1>5, <2>2, <2>3 DEF TaskInv
<1>8. ASSUME NEW t \in Tables, NEW h \in Host PROVE Settled(t, h)'
  <2>1. CASE UnderWay(t, h)
    <3>1. PICK o \in Operator : csTask[o].step = "written" /\ csTask[o].table = t /\ csTask[o].host = h
      BY <2>1 DEF UnderWay, Holder
    <3>2. CASE csTask[o].hit
      BY <1>1, <3>1, <3>2 DEF Settled
    <3>3. CASE ~csTask[o].hit
      <4>1. Settled(t, h)
        BY <1>0, <3>1, <3>3 DEF TaskInv
      <4> QED BY <1>1, <4>1 DEF Settled, Tells, LinesAbout
    <3> QED BY <3>2, <3>3
  <2>2. CASE Settled(t, h)
    BY <1>1, <2>2 DEF Settled, Tells, LinesAbout
  <2> QED BY <1>0, <2>1, <2>2 DEF PinsTold
<1>9. SettingLines(Len(csTrail))' = {}
  BY <1>0, <1>1 DEF SettingLines, CsTypeOK
<1>10. SettingsChain' /\ Named'
  BY <1>0, <1>1, <1>9 DEF SettingsChain, TellsOrGap, Tells, Named
<1>11. PinsTold'
  BY <1>8 DEF PinsTold
<1> QED BY <1>6, <1>7, <1>10, <1>11, TrailPartsNext DEF CsInv, ConsoleSound

LEMMA CsStep == ASSUME CsInv, [CsNext]_csVars PROVE CsInv'
<1>1. CASE UNCHANGED csVars
  <2>1. UNCHANGED <<csOpenMode, csCookie, csBucket, csTick, csTried, csTask, csPins, csSetting, csTrail, csUntold, csGaps, csSince>>
    BY <1>1 DEF csVars, csHistory
  <2>2. CsTypeOK'
    BY <2>1 DEF CsInv, CsTypeOK
  <2> QED BY <2>1, <2>2, LimiterStands, ChangesStand DEF CsInv, ConsoleSound
<1>2. ASSUME NEW o \in Operator,
             PinPersona(o) \/ UnpinPersona(o) \/ PinDeception(o) \/ UnpinDeception(o)
      PROVE  CsInv'
  <2>1. PICK table \in Tables, h \in Host, value \in PinValue : AskPin(o, table, h, value)
    BY <1>2 DEF PinPersona, UnpinPersona, PinDeception, UnpinDeception, Tables, PinValue
  <2> QED BY <2>1, AskPinStep
<1>3. ASSUME NEW o \in Operator,
             UpsertPersonaPin(o) \/ DeletePersonaPin(o) \/ UpsertDeceptionPin(o) \/ DeleteDeceptionPin(o)
      PROVE  CsInv'
  <2>1. CASE UpsertPersonaPin(o) \/ UpsertDeceptionPin(o)
    BY <2>1, WriteStep DEF UpsertPersonaPin, UpsertDeceptionPin
  <2>2. CASE DeletePersonaPin(o) \/ DeleteDeceptionPin(o)
    <3>1. Write(o, Held(o)) /\ csTask[o].value = Free /\ Held(o) \in BOOLEAN
      BY <2>2 DEF DeletePersonaPin, DeleteDeceptionPin, Deletes, Held
    <3> QED BY <3>1, WriteStep
  <2> QED BY <1>3, <2>1, <2>2
<1>4. CASE CsNext
  BY <1>2, <1>3, <1>4, LoginStep, CookieStep, CsTickStep, TakeLockStep, AnswerStep, ChangeSettingStep,
     RestartConsoleStep DEF CsNext
<1> QED BY <1>1, <1>4

\* What the console tells of its operators, and how often it lets them log in: the last line
\* about a pin or a setting says what is in force unless a line was lost, whatever requests
\* raced for the store's lock and whenever the dashboard died; and no window lets more logins
\* of POST /api/login through than burst and refill.
THEOREM ConsoleKept == CsSpec => []ConsoleSound
<1>1. CsInit => CsInv
  BY CsInitInv
<1>2. CsInv /\ [CsNext]_csVars => CsInv'
  BY CsStep
<1>3. CsInv => ConsoleSound
  BY DEF CsInv
<1> QED BY <1>1, <1>2, <1>3, PTL DEF CsSpec

-----------------------------------------------------------------------------
(* What the dashboard reads from a log that grows under it, for any length *)
(* of it, any page size and window.                                        *)

\* The least-number principle, from the well-foundedness of finite sets.
LEMMA LeastNatural ==
    ASSUME NEW T \in SUBSET Nat, T # {}
    PROVE  \E m \in T : \A n \in T : m <= n
<1> DEFINE U == {0..n : n \in T}
<1>1. IsWellFoundedOn(StrictSubsetOrdering(Nat), FiniteSubsetsOf(Nat))
  BY FS_StrictSubsetOrderingWellFounded
<1>2. U \subseteq FiniteSubsetsOf(Nat) /\ U # {}
  <2>1. ASSUME NEW n \in T PROVE 0..n \in FiniteSubsetsOf(Nat)
    <3>1. IsFiniteSet(0..n)
      BY FS_Interval
    <3> QED BY <3>1 DEF FiniteSubsetsOf
  <2> QED BY <2>1
<1>3. \E x \in U : \A y \in U : <<y, x>> \notin StrictSubsetOrdering(Nat)
  <2> HIDE DEF U
  <2> QED BY <1>1, <1>2, WFMin
<1>4. PICK m \in T : \A n \in T : <<0..n, 0..m>> \notin StrictSubsetOrdering(Nat)
  BY <1>3
<1>5. ASSUME NEW n \in T, n < m PROVE FALSE
  <2>1. 0..n \subseteq 0..m /\ m \in 0..m /\ m \notin 0..n
    BY <1>5
  <2>2. 0..n \in SUBSET Nat /\ 0..m \in SUBSET Nat
    OBVIOUS
  <2> QED BY <1>4, <2>1, <2>2 DEF StrictSubsetOrdering
<1> QED BY <1>5

\* The newest of some lines is there.
LEMMA NewestLine ==
    ASSUME NEW n \in Nat, NEW T \in SUBSET (1..n), T # {}
    PROVE  \E m \in T : \A t \in T : t <= m
<1> DEFINE D == {n - t : t \in T}
<1>1. D \in SUBSET Nat /\ D # {}
  <2>1. \A t \in T : n - t \in Nat
    OBVIOUS
  <2>2. PICK t \in T : TRUE
    OBVIOUS
  <2>3. n - t \in D
    OBVIOUS
  <2> QED BY <2>1, <2>3
<1>2. PICK m \in D : \A d \in D : m <= d
  <2> HIDE DEF D
  <2> QED BY <1>1, LeastNatural
<1>3. PICK x \in T : m = n - x
  BY <1>2
<1>4. \A t \in T : t <= x
  <2> SUFFICES ASSUME NEW t \in T PROVE t <= x
    OBVIOUS
  <2>1. n - t \in D
    OBVIOUS
  <2>2. m <= n - t
    BY <1>2, <2>1
  <2> HIDE DEF D
  <2>3. x \in 1..n /\ t \in 1..n
    OBVIOUS
  <2>4. n - x <= n - t
    BY <1>3, <2>2
  <2> QED BY <2>3, <2>4
<1> QED BY <1>3, <1>4

\* The newest `limit` lines of some: none before one of them is missing, and fewer
\* than the limit are all.
LEMMA NewestAre ==
    ASSUME NEW n \in Nat, NEW fit \in SUBSET (1..n), NEW limit \in Nat, limit > 0, NEW page, page = NewestOf(fit, limit)
    PROVE  /\ \A i \in fit, j \in page : i > j => i \in page
           /\ Cardinality(page) \in Nat
           /\ Cardinality(page) >= limit => page # {}
           /\ ~(Cardinality(page) >= limit) => page = fit
<1>1. IsFiniteSet(fit)
  <2>1. IsFiniteSet(1..n)
    BY FS_Interval
  <2> QED BY <2>1, FS_Subset
<1>2. \A S \in SUBSET fit : IsFiniteSet(S) /\ Cardinality(S) \in Nat
  BY <1>1, FS_Subset, FS_CardinalityType
<1>3. \A i : ReadBefore(i, fit) \in SUBSET fit
  BY DEF ReadBefore
<1>4. ASSUME NEW i \in fit, NEW j \in page, i > j PROVE i \in page
  <2>1. ReadBefore(i, fit) \subseteq ReadBefore(j, fit)
    <3>1. i \in Nat /\ j \in Nat /\ \A t \in fit : t \in Nat
      BY <1>4 DEF NewestOf
    <3>2. \A t \in fit : t > i => t > j
      BY <1>4, <3>1
    <3> QED BY <3>2 DEF ReadBefore
  <2>2. Cardinality(ReadBefore(i, fit)) <= Cardinality(ReadBefore(j, fit))
    BY <1>2, <1>3, <2>1, FS_Subset
  <2> QED BY <1>2, <1>3, <2>2 DEF NewestOf
<1>5. Cardinality(page) \in Nat
  BY <1>2 DEF NewestOf
<1>6. Cardinality(page) >= limit => page # {}
  BY FS_EmptySet
<1>7. ASSUME ~(Cardinality(page) >= limit), page # fit PROVE FALSE
  <2>1. PICK i \in fit \ page : \A t \in fit \ page : t <= i
    <3>1. fit \ page \in SUBSET (1..n) /\ fit \ page # {}
      BY <1>7 DEF NewestOf
    <3> QED BY <3>1, NewestLine
  <2>2. ReadBefore(i, fit) \subseteq page
    <3> SUFFICES ASSUME NEW j \in fit, j > i PROVE j \in page
      BY DEF ReadBefore
    <3> QED BY <2>1
  <2>3. Cardinality(ReadBefore(i, fit)) <= Cardinality(page)
    <3>1. page \in SUBSET fit
      BY DEF NewestOf
    <3> QED BY <1>2, <2>2, <3>1, FS_Subset
  <2>4. ~(Cardinality(ReadBefore(i, fit)) < limit)
    BY <2>1 DEF NewestOf
  <2>5. page \subseteq fit
    BY DEF NewestOf
  <2> QED BY <1>2, <1>3, <1>5, <1>7, <2>3, <2>4, <2>5
<1> QED BY <1>4, <1>5, <1>6, <1>7

Line == [ts : 0..MaxNow, kind : Kinds \union {"read"}, sid : Sid \union {"none"}]

RdTypeOK ==
    /\ rdLog \in Seq(Line) /\ rdNow \in 0..MaxNow
    /\ rdServed \in Seq(SUBSET Nat)
    /\ rdWalk.step \in {"idle", "walking", "ended"} /\ rdWalk.first \in Nat

\* A line is stamped before it is written, and the log only grows.
RdLogInv ==
    /\ \A i \in DOMAIN rdLog : rdLog[i].ts <= rdNow
    /\ rdWalk.first <= Len(rdLog)
    /\ \A p \in DOMAIN rdServed : rdServed[p] \subseteq Alerts

\* Where the walk is, while the alerts are in the order of their times: its cursor
\* is the key of the oldest alert served, and nothing newer was left out.
WalkAt(m) ==
    /\ m \in Alerts /\ rdWalk.cursor = <<rdLog[m].ts, 0>>
    /\ \A p \in DOMAIN rdServed : \A i \in rdServed[p] : m <= i
    /\ \A i \in Alerts : m <= i /\ i <= rdWalk.first => \E p \in DOMAIN rdServed : i \in rdServed[p]

WalkInv ==
    /\ rdWalk.step = "idle" => rdWalk.cursor = NoCursor /\ rdServed = <<>>
    /\ Ordered(Alerts) /\ Distinct(Alerts) /\ rdWalk.step = "walking" => \E m \in Alerts : WalkAt(m)

RdInv == RdTypeOK /\ RdLogInv /\ WalkInv /\ PagesPartition

\* The reads themselves, of a log in any state.
LEMMA ReadsAre == RdTypeOK /\ RdLogInv => RangesExact /\ FiguresExact
<1> SUFFICES ASSUME RdTypeOK, RdLogInv PROVE RangesExact /\ FiguresExact
  OBVIOUS
<1>1. PICK n \in Nat : n = Len(rdLog)
  BY DEF RdTypeOK
<1>2. DOMAIN rdLog = 1..n /\ \A i \in 1..n : rdLog[i].ts \in 0..MaxNow /\ rdLog[i].ts <= rdNow
  <2>1. DOMAIN rdLog = 1..n /\ \A i \in 1..n : rdLog[i] \in Line
    BY <1>1 DEF RdTypeOK
  <2>2. \A t \in Line : t.ts \in 0..MaxNow
    BY DEF Line
  <2> QED BY <2>1, <2>2 DEF RdLogInv
<1>3. rdNow \in 0..MaxNow /\ MaxNow \in Nat /\ Window \in Nat
  BY ReadersAssumption DEF RdTypeOK
<1>4. ASSUME NEW start, NEW end
      PROVE  InRange(start, end) \subseteq {i \in DOMAIN rdLog : rdLog[i].ts \in start..end}
  BY DEF InRange
<1>5. ASSUME Ordered(DOMAIN rdLog), NEW start \in Nat, NEW end \in Nat
      PROVE  InRange(start, end) = {i \in DOMAIN rdLog : rdLog[i].ts \in start..end}
  <2> SUFFICES ASSUME NEW i \in 1..n, rdLog[i].ts \in start..end, NEW j \in 1..n, j > i
               PROVE  rdLog[j].ts >= start
    BY <1>2 DEF InRange, ReadBefore
  <2>1. rdLog[i].ts <= rdLog[j].ts
    BY <1>2, <1>5 DEF Ordered
  <2> QED BY <1>2, <2>1
<1>6. InTail \in SUBSET (1..n) /\ \A kind : OfKind(InTail, kind) \in SUBSET (1..n) /\ OfKind(DOMAIN rdLog, kind) \in SUBSET (1..n)
  BY <1>2 DEF InTail, OfKind
<1>7. ASSUME NEW kinds
      PROVE  /\ Recent(kinds) \subseteq {i \in InTail : rdLog[i].kind \in kinds /\ rdLog[i].ts + Window >= rdNow}
             /\ Ordered({i \in InTail : rdLog[i].kind \in kinds}) =>
                 Recent(kinds) = {i \in InTail : rdLog[i].kind \in kinds /\ rdLog[i].ts + Window >= rdNow}
  <2> DEFINE wanted == {i \in InTail : rdLog[i].kind \in kinds}
             older(i) == {i} \union ReadBefore(i, wanted)
  <2>1. Recent(kinds) = {i \in wanted : \A j \in older(i) : rdLog[j].ts + Window >= rdNow}
    BY DEF Recent
  <2>2. ASSUME Ordered(wanted), NEW i \in wanted, rdLog[i].ts + Window >= rdNow, NEW j \in older(i)
        PROVE  rdLog[j].ts + Window >= rdNow
    <3>1. i \in 1..n /\ j \in 1..n /\ (j = i \/ (j \in wanted /\ j > i))
      BY <1>6 DEF ReadBefore
    <3>2. rdLog[i].ts <= rdLog[j].ts
      BY <1>2, <2>2, <3>1 DEF Ordered
    <3> QED BY <1>2, <1>3, <2>2, <3>1, <3>2
  <2>3. \A i \in wanted : i \in older(i)
    OBVIOUS
  <2> QED BY <2>1, <2>2, <2>3
<1>8. FiguresExact
  <2> DEFINE commands == OfKind(InTail, "command")
             capLines == {i \in InTail : rdLog[i].kind \in CapKinds}
  <2>1. {i \in InTail : rdLog[i].kind \in {"command"}} = commands
    BY DEF OfKind
  <2>2. {i \in InTail : rdLog[i].kind \in {"command"} /\ rdLog[i].ts + Window >= rdNow} = InWindow("command") \intersect InTail
    BY <1>2, <1>6 DEF OfKind, InWindow
  <2>3. CommandRate <= Cardinality(InWindow("command"))
    <3>1. Recent({"command"}) \subseteq InWindow("command")
      BY <1>7, <2>2
    <3>2. IsFiniteSet(InWindow("command"))
      <4>1. InWindow("command") \in SUBSET (1..n)
        BY <1>6 DEF InWindow
      <4>2. IsFiniteSet(1..n)
        BY FS_Interval
      <4> QED BY <4>1, <4>2, FS_Subset
    <3> QED BY <3>1, <3>2, FS_Subset DEF CommandRate
  <2>4. ASSUME Ordered(commands) PROVE CommandRate = Cardinality(InWindow("command") \intersect InTail)
    <3>1. Recent({"command"}) = {i \in InTail : rdLog[i].kind \in {"command"} /\ rdLog[i].ts + Window >= rdNow}
      BY <1>7, <2>1, <2>4
    <3> QED BY <2>2, <3>1 DEF CommandRate
  <2>5. ASSUME Ordered(capLines) PROVE CapLines = {i \in capLines : rdLog[i].ts + Window >= rdNow}
    <3>1. CapLines = {i \in InTail : rdLog[i].kind \in CapKinds /\ rdLog[i].ts + Window >= rdNow}
      BY <1>7, <2>5 DEF CapLines
    <3> QED BY <3>1
  <2>6. ASSUME Ordered(capLines), NEW s \in AtCap
        PROVE  \E i \in InWindow("exhausted") : rdLog[i].sid = s /\ \A j \in i..Len(rdLog) : ~Closes(j, s)
    <3>1. PICK i \in OfKind(CapLines, "exhausted") : rdLog[i].sid = s
      BY <2>6 DEF AtCap, SidsOf
    <3>2. i \in InTail /\ rdLog[i].kind = "exhausted" /\ rdLog[i].ts + Window >= rdNow /\ i \in 1..n
      BY <1>6, <2>5, <2>6, <3>1 DEF OfKind
    <3>3. ASSUME NEW j \in i..n, Closes(j, s) PROVE FALSE
      <4>1. j \in 1..n /\ j \in InTail
        BY <1>1, <1>2, <3>2, <3>3, ReadersAssumption DEF InTail
      <4>2. i \in capLines /\ j \in capLines
        BY <3>2, <3>3, <4>1 DEF Closes, CapKinds
      <4>3. rdLog[i].ts <= rdLog[j].ts
        <5>1. CASE i = j
          BY <1>2, <3>2, <5>1
        <5>2. CASE i < j
          BY <2>6, <4>2, <5>2 DEF Ordered
        <5> QED BY <3>2, <3>3, <4>1, <5>1, <5>2
      <4>4. j \in CapLines
        <5>1. rdLog[j].ts + Window >= rdNow
          BY <1>2, <1>3, <3>2, <4>1, <4>3
        <5> QED BY <2>5, <2>6, <4>2, <5>1
      <4> QED BY <2>6, <3>3, <4>4 DEF AtCap, SidsOf, OfKind, Closes
    <3>4. i \in InWindow("exhausted")
      BY <1>2, <3>2 DEF InWindow, OfKind
    <3> QED BY <1>1, <3>1, <3>3, <3>4
  <2>7. ASSUME Ordered(capLines), NEW i \in InWindow("exhausted") \intersect InTail, rdLog[i].sid \notin AtCap
        PROVE  \E j \in DOMAIN rdLog : Closes(j, rdLog[i].sid)
    <3>1. i \in OfKind(CapLines, "exhausted")
      BY <2>5, <2>7 DEF InWindow, OfKind, CapKinds
    <3>2. PICK j \in OfKind(CapLines, "closed") : rdLog[j].sid = rdLog[i].sid
      BY <2>7, <3>1 DEF AtCap, SidsOf
    <3>3. j \in 1..n /\ rdLog[j].kind = "closed"
      BY <1>6, <2>5, <2>7, <3>2 DEF OfKind
    <3> QED BY <1>2, <3>2, <3>3 DEF Closes
  <2> QED BY <2>3, <2>4, <2>6, <2>7 DEF FiguresExact
<1>9. ASSUME Ordered(DOMAIN rdLog), NEW s \in Sid
      PROVE  FactsOf(s) = {i \in DOMAIN rdLog : rdLog[i].sid = s}
  <2>1. InRange(0, rdNow) = DOMAIN rdLog
    <3>1. \A i \in DOMAIN rdLog : rdLog[i].ts \in 0..rdNow
      BY <1>2, <1>3
    <3>2. 0 \in Nat /\ rdNow \in Nat
      BY <1>3
    <3> QED BY <1>5, <1>9, <3>1, <3>2
  <2> QED BY <2>1 DEF FactsOf
<1>10. \A start, end \in 0..MaxNow : start \in Nat /\ end \in Nat
  BY <1>3
<1>11. \A start, end \in 0..MaxNow : InRange(start, end) \subseteq {i \in DOMAIN rdLog : rdLog[i].ts \in start..end}
  BY <1>4
<1>12. Ordered(DOMAIN rdLog) => \A start, end \in 0..MaxNow :
           InRange(start, end) = {i \in DOMAIN rdLog : rdLog[i].ts \in start..end}
  BY <1>5, <1>10
<1> QED BY <1>8, <1>9, <1>11, <1>12 DEF RangesExact

LEMMA RdInitInv == RdInit => RdInv
<1> SUFFICES ASSUME RdInit PROVE RdInv
  OBVIOUS
<1>1. RdTypeOK
  <2>1. <<>> \in Seq(Line) /\ <<>> \in Seq(SUBSET Nat)
    OBVIOUS
  <2> QED BY <2>1, ReadersAssumption DEF RdInit, RdTypeOK
<1>2. DOMAIN <<>> = {} /\ Len(<<>>) = 0
  OBVIOUS
<1>3. RdLogInv
  BY <1>2 DEF RdInit, RdLogInv
<1>4. WalkInv /\ PagesPartition
  BY <1>2 DEF RdInit, WalkInv, PagesPartition
<1> QED BY <1>1, <1>3, <1>4 DEF RdInv

\* A log that grows by a line keeps the lines it has, and alerts in order were so
\* before.
LEMMA LogGrows ==
    ASSUME RdTypeOK, RdLogInv, NEW line \in Line, line.ts <= rdNow, rdLog' = Append(rdLog, line), UNCHANGED rdNow
    PROVE  /\ rdLog' \in Seq(Line) /\ \A i \in DOMAIN rdLog' : rdLog'[i].ts <= rdNow'
           /\ Len(rdLog') = Len(rdLog) + 1 /\ Len(rdLog) \in Nat
           /\ Alerts \subseteq 1..Len(rdLog) /\ Alerts \subseteq Alerts'
           /\ \A i \in Alerts' : i <= Len(rdLog) => i \in Alerts
           /\ line.kind # "alert" => Alerts' = Alerts
           /\ \A i \in Alerts : rdLog'[i] = rdLog[i]
           /\ (Ordered(Alerts) /\ Distinct(Alerts))' => Ordered(Alerts) /\ Distinct(Alerts)
<1>1. PICK n \in Nat : n = Len(rdLog)
  BY DEF RdTypeOK
<1>2. PICK longer : longer = Append(rdLog, line)
  OBVIOUS
<1> longer \in Seq(Line)
  BY <1>2, AppendProperties DEF RdTypeOK
<1>3. /\ Len(longer) = n + 1 /\ DOMAIN longer = 1..n + 1 /\ DOMAIN rdLog = 1..n
      /\ \A i \in 1..n : longer[i] = rdLog[i]
      /\ longer[n + 1] = line
  BY <1>1, <1>2 DEF RdTypeOK
<1>4. rdLog' = longer
  BY <1>2
<1>5. \A i \in DOMAIN longer : longer[i].ts <= rdNow
  BY <1>1, <1>3 DEF RdLogInv
<1>6. Alerts = {i \in 1..n : rdLog[i].kind = "alert"} /\ Alerts' = {i \in 1..n + 1 : longer[i].kind = "alert"}
  BY <1>3, <1>4 DEF Alerts, OfKind
<1>7. 1..n \subseteq 1..n + 1 /\ \A i \in 1..n + 1 : i <= n \/ i = n + 1
  BY <1>1
<1>8. Alerts \subseteq Alerts' /\ \A i \in Alerts' : i <= n => i \in Alerts
  BY <1>1, <1>3, <1>6, <1>7
<1>9. line.kind # "alert" => Alerts' = Alerts
  BY <1>3, <1>6, <1>7, <1>8
<1>10. \A i \in Alerts : longer[i] = rdLog[i]
  BY <1>3, <1>6
<1>11. (Ordered(Alerts) /\ Distinct(Alerts))' => Ordered(Alerts) /\ Distinct(Alerts)
  BY <1>4, <1>8, <1>10 DEF Ordered, Distinct
<1> QED BY <1>1, <1>3, <1>4, <1>5, <1>6, <1>8, <1>9, <1>10, <1>11

LEMMA AppendKeeps ==
    ASSUME RdInv, NEW kind \in Kinds, NEW s \in Sid, NEW late \in 0..MaxLate, AppendLine(kind, s, late)
    PROVE  RdInv'
<1>1. PICK line : line = [ts |-> rdNow - late, kind |-> kind, sid |-> s]
  OBVIOUS
<1>2. line \in Line /\ line.ts <= rdNow
  <2>1. rdNow \in 0..MaxNow /\ late \in Nat /\ late <= rdNow /\ MaxNow \in Nat
    BY ReadersAssumption DEF AppendLine, RdInv, RdTypeOK
  <2>2. rdNow - late \in 0..MaxNow /\ rdNow - late <= rdNow
    BY <2>1
  <2> QED BY <1>1, <2>2 DEF Line
<1>3. rdLog' = Append(rdLog, line) /\ UNCHANGED <<rdNow, rdWalk, rdServed>>
  BY <1>1 DEF AppendLine
<1>4. PICK n \in Nat : n = Len(rdLog)
  BY DEF RdInv, RdTypeOK
<1>5. /\ rdLog' \in Seq(Line) /\ \A i \in DOMAIN rdLog' : rdLog'[i].ts <= rdNow'
      /\ Len(rdLog') = n + 1
      /\ Alerts \subseteq 1..n /\ Alerts \subseteq Alerts'
      /\ \A i \in Alerts' : i <= n => i \in Alerts
      /\ \A i \in Alerts : rdLog'[i] = rdLog[i]
      /\ (Ordered(Alerts) /\ Distinct(Alerts))' => Ordered(Alerts) /\ Distinct(Alerts)
  BY <1>2, <1>3, <1>4, LogGrows DEF RdInv
<1>6. PICK first \in Nat : first = rdWalk.first /\ first <= n
  BY <1>4 DEF RdInv, RdTypeOK, RdLogInv
<1>7. RdTypeOK'
  BY <1>3, <1>5 DEF RdInv, RdTypeOK
<1>8. RdLogInv'
  <2>1. \A p \in DOMAIN rdServed : rdServed[p] \subseteq Alerts'
    BY <1>5 DEF RdInv, RdLogInv
  <2>2. rdWalk'.first <= Len(rdLog')
    BY <1>3, <1>4, <1>5, <1>6
  <2> QED BY <1>3, <1>5, <2>1, <2>2 DEF RdLogInv
<1>9. \A i \in Alerts' : i <= first => i \in Alerts
  <2> SUFFICES ASSUME NEW i \in Alerts', i <= first PROVE i \in Alerts
    OBVIOUS
  <2>1. i \in Nat
    BY <1>7 DEF RdTypeOK, Alerts, OfKind
  <2>2. i <= n
    BY <1>6, <2>1
  <2> QED BY <1>5, <2>2
<1>10. WalkInv'
  <2>1. ASSUME (Ordered(Alerts) /\ Distinct(Alerts))', rdWalk.step = "walking"
        PROVE  \E m \in Alerts' : WalkAt(m)'
    <3>1. PICK m \in Alerts : WalkAt(m)
      BY <1>5, <2>1 DEF RdInv, WalkInv
    <3>2. WalkAt(m)'
      BY <1>3, <1>5, <1>6, <1>9, <3>1 DEF WalkAt
    <3> QED BY <1>5, <3>2
  <2> QED BY <1>3, <2>1 DEF RdInv, WalkInv, NoCursor
<1>11. PagesPartition'
  <2>1. OfKind(1..first, "alert") \subseteq Alerts
    BY <1>4, <1>6 DEF OfKind, Alerts, RdInv, RdTypeOK
  <2>2. OfKind(1..first, "alert")' \subseteq OfKind(1..first, "alert")
    <3>1. DOMAIN rdLog' = 1..n + 1 /\ DOMAIN rdLog = 1..n
      BY <1>4, <1>5 DEF RdInv, RdTypeOK
    <3>2. OfKind(1..first, "alert")' \subseteq Alerts'
      BY <1>4, <1>6, <3>1 DEF OfKind, Alerts
    <3>3. \A i \in OfKind(1..first, "alert")' : i \in 1..first /\ i <= first
      BY DEF OfKind
    <3> QED BY <1>5, <1>9, <3>2, <3>3 DEF OfKind
  <2> QED BY <1>3, <1>5, <1>6, <2>2 DEF RdInv, PagesPartition
<1> QED BY <1>7, <1>8, <1>10, <1>11 DEF RdInv

\* Without neighbours of the same millisecond the key of an alert is its time.
LEMMA KeysAre ==
    ASSUME RdTypeOK, RdLogInv, Distinct(Alerts), NEW i \in Alerts
    PROVE  KeyAt(i) = <<rdLog[i].ts, 0>>
<1> DEFINE run == {j \in ReadBefore(i, Alerts) : \A m \in Alerts \intersect i..j : rdLog[m].ts = rdLog[i].ts}
<1>1. ASSUME NEW j \in run PROVE FALSE
  <2>1. j \in Alerts /\ j > i /\ \A m \in Alerts \intersect i..j : rdLog[m].ts = rdLog[i].ts
    BY DEF ReadBefore
  <2>2. i \in Nat /\ j \in Nat
    BY <2>1 DEF Alerts, OfKind, RdTypeOK
  <2>3. j \in i..j /\ j # i
    BY <2>1, <2>2
  <2> QED BY <2>1, <2>3 DEF Distinct
<1>2. Cardinality(run) = 0
  <2>1. run = {}
    BY <1>1
  <2> HIDE DEF run
  <2> QED BY <2>1, FS_EmptySet
<1> QED BY <1>2 DEF KeyAt, OffsetAt

\* A page: the alerts in question are those before some line b, where the walk is,
\* and from b on all are served.
LEMMA PageBefore ==
    ASSUME RdInv, GetPage, Ordered(Alerts), Distinct(Alerts)
    PROVE  \E b \in Nat :
             /\ {i \in Alerts : Below(KeyAt(i), rdWalk.cursor)} = {i \in Alerts : i < b}
             /\ \A p \in DOMAIN rdServed : \A i \in rdServed[p] : b <= i
             /\ \A i \in Alerts : b <= i /\ i <= rdWalk'.first => \E p \in DOMAIN rdServed : i \in rdServed[p]
<1>1. PICK n \in Nat : n = Len(rdLog)
  BY DEF RdInv, RdTypeOK
<1>2. Alerts \subseteq 1..n /\ \A i \in Alerts : rdLog[i].ts \in 0..MaxNow
  <2>1. DOMAIN rdLog = 1..n /\ \A i \in 1..n : rdLog[i] \in Line
    BY <1>1 DEF RdInv, RdTypeOK
  <2>2. \A t \in Line : t.ts \in 0..MaxNow
    BY DEF Line
  <2> QED BY <2>1, <2>2 DEF Alerts, OfKind
<1>3. \A i \in Alerts : KeyAt(i) = <<rdLog[i].ts, 0>>
  BY KeysAre DEF RdInv
<1>4. MaxNow \in Nat
  BY ReadersAssumption
<1>5. CASE rdWalk.step = "idle"
  <2>1. rdWalk.cursor = <<MaxNow + 1, 0>> /\ rdServed = <<>>
    BY <1>5 DEF RdInv, WalkInv, NoCursor
  <2>2. \A i \in Alerts : Below(KeyAt(i), rdWalk.cursor) /\ i < n + 1
    <3> SUFFICES ASSUME NEW i \in Alerts PROVE Below(KeyAt(i), rdWalk.cursor) /\ i < n + 1
      OBVIOUS
    <3>1. rdLog[i].ts < MaxNow + 1 /\ i < n + 1
      BY <1>1, <1>2, <1>4
    <3>2. KeyAt(i)[1] = rdLog[i].ts /\ rdWalk.cursor[1] = MaxNow + 1
      BY <1>3, <2>1
    <3> QED BY <3>1, <3>2 DEF Below
  <2>3. rdWalk'.first = n
    BY <1>1, <1>5 DEF GetPage
  <2>4. ASSUME NEW i \in Alerts, n + 1 <= i PROVE FALSE
    <3>1. i \in 1..n
      BY <1>2
    <3> QED BY <1>1, <2>4, <3>1
  <2>5. {i \in Alerts : Below(KeyAt(i), rdWalk.cursor)} = {i \in Alerts : i < n + 1}
    BY <2>2
  <2>6. n + 1 \in Nat /\ DOMAIN rdServed = {}
    BY <1>1, <2>1
  <2> QED BY <2>4, <2>5, <2>6
<1>6. CASE rdWalk.step = "walking"
  <2>1. PICK m \in Alerts : WalkAt(m)
    BY <1>6 DEF RdInv, WalkInv
  <2>2. ASSUME NEW i \in Alerts PROVE Below(KeyAt(i), rdWalk.cursor) <=> i < m
    <3>1. i \in 1..n /\ m \in 1..n /\ rdLog[i].ts \in 0..MaxNow /\ rdLog[m].ts \in 0..MaxNow
      BY <1>2, <2>1
    <3>2. /\ i < m => rdLog[i].ts <= rdLog[m].ts
          /\ m < i => rdLog[m].ts <= rdLog[i].ts
          /\ i # m => rdLog[i].ts # rdLog[m].ts
      BY DEF Ordered, Distinct
    <3>3. rdLog[i].ts < rdLog[m].ts <=> i < m
      BY <1>4, <3>1, <3>2
    <3>4. KeyAt(i)[1] = rdLog[i].ts /\ KeyAt(i)[2] = 0
      BY <1>3
    <3>5. rdWalk.cursor[1] = rdLog[m].ts /\ rdWalk.cursor[2] = 0
      BY <2>1 DEF WalkAt
    <3> QED BY <3>3, <3>4, <3>5 DEF Below
  <2>3. rdWalk'.first = rdWalk.first
    BY <1>6 DEF GetPage
  <2>4. m \in Nat
    BY <1>2
  <2> QED BY <2>1, <2>2, <2>3, <2>4 DEF WalkAt
<1> QED BY <1>5, <1>6 DEF GetPage

LEMMA ReadLineIs == ASSUME RdTypeOK PROVE ReadLine \in Line /\ ReadLine.ts = rdNow /\ ReadLine.kind = "read"
  BY DEF ReadLine, Line, RdTypeOK

LEMMA PageKeeps == ASSUME RdInv, GetPage PROVE RdInv'
<1>1. PICK n \in Nat : n = Len(rdLog)
  BY DEF RdInv, RdTypeOK
<1>2. PICK page : page = Page(rdWalk.cursor)
  OBVIOUS
<1>3. PICK tail : tail = CHOOSE i \in page : \A j \in page : i <= j
  OBVIOUS
<1>4. PICK full \in BOOLEAN : full <=> Cardinality(page) >= PageSize
  OBVIOUS
<1>5. /\ rdServed' = Append(rdServed, page)
      /\ rdWalk' = [step |-> IF full THEN "walking" ELSE "ended",
                    cursor |-> IF full THEN KeyAt(tail) ELSE NoCursor,
                    first |-> IF rdWalk.step = "idle" THEN Len(rdLog) ELSE rdWalk.first]
      /\ rdLog' = Append(rdLog, ReadLine) /\ UNCHANGED rdNow
  BY <1>2, <1>3, <1>4 DEF GetPage
<1>6. PICK first \in Nat : first = rdWalk'.first /\ first <= n
  BY <1>1, <1>5 DEF RdInv, RdTypeOK, RdLogInv
<1>7. rdWalk'.step = IF full THEN "walking" ELSE "ended"
  BY <1>5
<1>8. /\ rdLog' \in Seq(Line) /\ \A i \in DOMAIN rdLog' : rdLog'[i].ts <= rdNow'
      /\ Len(rdLog') = n + 1
      /\ Alerts \subseteq 1..n /\ Alerts' = Alerts
      /\ \A i \in Alerts : rdLog'[i] = rdLog[i]
      /\ (Ordered(Alerts) /\ Distinct(Alerts))' => Ordered(Alerts) /\ Distinct(Alerts)
  <2>1. ReadLine \in Line /\ ReadLine.ts <= rdNow /\ ReadLine.kind # "alert"
    BY ReadLineIs DEF RdInv, RdTypeOK
  <2> QED BY <1>1, <1>5, <2>1, LogGrows DEF RdInv
<1>9. PICK fit \in SUBSET (1..n) : /\ fit = {i \in Alerts : Below(KeyAt(i), rdWalk.cursor)}
                                   /\ page = NewestOf(fit, PageSize)
  BY <1>2, <1>8 DEF Page
<1>10. /\ \A i \in fit, j \in page : i > j => i \in page
       /\ full => page # {}
       /\ ~full => page = fit
  <2>1. PageSize \in Nat /\ PageSize > 0
    BY ReadersAssumption
  <2>2. /\ \A i \in fit, j \in page : i > j => i \in page
        /\ Cardinality(page) >= PageSize => page # {}
        /\ ~(Cardinality(page) >= PageSize) => page = fit
    BY <1>9, <2>1, NewestAre
  <2> QED BY <1>4, <2>2
<1>11. PICK k \in Nat : k = Len(rdServed)
  BY DEF RdInv, RdTypeOK
<1>12. page \in SUBSET Nat /\ page \subseteq Alerts /\ page \subseteq fit
  BY <1>9 DEF NewestOf
<1>13. /\ rdServed' \in Seq(SUBSET Nat)
       /\ DOMAIN rdServed' = 1..k + 1 /\ DOMAIN rdServed = 1..k
       /\ \A p \in 1..k : rdServed'[p] = rdServed[p]
       /\ rdServed'[k + 1] = page
  BY <1>5, <1>11, <1>12 DEF RdInv, RdTypeOK
<1>14. RdTypeOK'
  BY <1>5, <1>6, <1>7, <1>8, <1>13 DEF RdInv, RdTypeOK
<1>15. RdLogInv'
  <2>1. \A p \in 1..k + 1 : rdServed'[p] \subseteq Alerts
    <3> SUFFICES ASSUME NEW p \in 1..k + 1 PROVE rdServed'[p] \subseteq Alerts
      OBVIOUS
    <3>1. p \in 1..k \/ p = k + 1
      BY <1>11
    <3> QED BY <1>12, <1>13, <3>1 DEF RdInv, RdLogInv
  <2>2. rdWalk'.first <= Len(rdLog')
    BY <1>1, <1>6, <1>8
  <2> QED BY <1>8, <1>13, <2>1, <2>2 DEF RdLogInv
<1>16. ASSUME Ordered(Alerts), Distinct(Alerts)
       PROVE  /\ \A p, q \in 1..k + 1 : p < q => \A i \in rdServed'[p], j \in rdServed'[q] : j < i
              /\ full => \E m \in Alerts : WalkAt(m)'
              /\ ~full => \A i \in Alerts : i <= first => \E p \in 1..k + 1 : i \in rdServed'[p]
  <2>1. PICK b \in Nat : /\ fit = {i \in Alerts : i < b}
                         /\ \A p \in 1..k : \A i \in rdServed[p] : b <= i
                         /\ \A i \in Alerts : b <= i /\ i <= first => \E p \in 1..k : i \in rdServed[p]
    BY <1>6, <1>9, <1>13, <1>16, PageBefore
  <2>2. \A p \in 1..k : rdServed[p] \subseteq Alerts
    BY <1>13 DEF RdInv, RdLogInv
  <2>3. ASSUME NEW p \in 1..k + 1, NEW q \in 1..k + 1, p < q, NEW i \in rdServed'[p], NEW j \in rdServed'[q]
        PROVE  j < i
    <3>1. p \in 1..k /\ i \in rdServed[p]
      BY <1>11, <1>13, <2>3
    <3>2. CASE q \in 1..k
      <4>1. j \in rdServed[q]
        BY <1>13, <3>2
      <4> QED BY <1>13, <1>16, <2>3, <3>1, <3>2, <4>1 DEF RdInv, PagesPartition
    <3>3. CASE q = k + 1
      <4>1. j \in fit
        BY <1>12, <1>13, <3>3
      <4>2. j < b /\ b <= i
        BY <2>1, <3>1, <4>1
      <4>3. i \in Nat /\ j \in Nat
        <5>1. i \in 1..n
          BY <1>8, <2>2, <3>1
        <5>2. j \in 1..n
          BY <1>9, <4>1
        <5> QED BY <5>1, <5>2
      <4> QED BY <4>2, <4>3
    <3> QED BY <1>11, <3>2, <3>3
  <2>4. ASSUME NEW i \in Alerts, i <= first, i \in fit => i \in page
        PROVE  \E p \in 1..k + 1 : i \in rdServed'[p]
    <3>1. CASE i \in fit
      BY <1>11, <1>13, <2>4, <3>1
    <3>2. CASE i \notin fit
      <4>1. b <= i
        BY <1>8, <2>1, <3>2
      <4>2. PICK p \in 1..k : i \in rdServed[p]
        BY <2>1, <2>4, <4>1
      <4> QED BY <1>11, <1>13, <4>2
    <3> QED BY <3>1, <3>2
  <2>5. ASSUME full PROVE \E m \in Alerts : WalkAt(m)'
    <3>1. \E i \in page : \A j \in page : i <= j
      BY <1>10, <1>12, <2>5, LeastNatural
    <3>2. tail \in page /\ \A j \in page : tail <= j
      BY <1>3, <3>1
    <3>3. tail \in Alerts /\ tail \in fit /\ tail \in Nat /\ tail < b
      BY <1>8, <1>12, <2>1, <3>2
    <3>4. rdWalk'.cursor = <<rdLog'[tail].ts, 0>>
      BY <1>5, <1>8, <1>16, <2>5, <3>3, KeysAre DEF RdInv
    <3>5. ASSUME NEW p \in 1..k + 1, NEW i \in rdServed'[p] PROVE tail <= i
      <4>1. CASE p \in 1..k
        <5>1. i \in rdServed[p] /\ b <= i /\ i \in Nat
          BY <1>8, <1>13, <2>1, <2>2, <4>1
        <5> QED BY <3>3, <5>1
      <4>2. CASE p = k + 1
        BY <1>13, <3>2, <4>2
      <4> QED BY <1>11, <4>1, <4>2
    <3>6. ASSUME NEW i \in Alerts, tail <= i, i <= first PROVE \E p \in 1..k + 1 : i \in rdServed'[p]
      <4>1. i \in fit => i \in page
        <5>1. i = tail \/ i > tail
          BY <1>8, <3>3, <3>6
        <5> QED BY <1>10, <3>2, <5>1
      <4> QED BY <2>4, <3>6, <4>1
    <3>7. WalkAt(tail)'
      BY <1>6, <1>8, <1>13, <3>3, <3>4, <3>5, <3>6 DEF WalkAt
    <3> QED BY <3>3, <3>7
  <2>6. ASSUME ~full, NEW i \in Alerts, i <= first PROVE \E p \in 1..k + 1 : i \in rdServed'[p]
    BY <1>10, <2>4, <2>6
  <2> QED BY <2>3, <2>5, <2>6
<1>17. WalkInv'
  <2>1. rdWalk'.step # "idle" /\ (rdWalk'.step = "walking" => full)
    BY <1>7
  <2> QED BY <1>8, <1>16, <2>1 DEF WalkInv
<1>18. PagesPartition'
  <2>1. rdWalk'.step = "ended" => ~full
    BY <1>7
  <2>2. OfKind(1..first, "alert")' \subseteq {i \in Alerts : i <= first}
    <3>1. DOMAIN rdLog' = 1..n + 1
      BY <1>8
    <3>2. \A i \in 1..first : i \in 1..n + 1 /\ i <= first
      BY <1>1, <1>6
    <3>3. OfKind(1..first, "alert")' \subseteq Alerts'
      BY <3>1, <3>2 DEF OfKind, Alerts
    <3> QED BY <1>8, <3>2, <3>3 DEF OfKind
  <2> QED BY <1>6, <1>8, <1>13, <1>16, <2>1, <2>2 DEF PagesPartition
<1> QED BY <1>14, <1>15, <1>17, <1>18 DEF RdInv

LEMMA PassKeeps == ASSUME RdInv, Pass PROVE RdInv'
<1>1. UNCHANGED <<rdLog, rdWalk, rdServed>> /\ rdNow' = rdNow + 1 /\ rdNow' \in 0..MaxNow
  BY ReadersAssumption DEF Pass, RdInv, RdTypeOK
<1>2. RdTypeOK'
  BY <1>1 DEF RdInv, RdTypeOK
<1>3. RdLogInv'
  <2>1. \A i \in DOMAIN rdLog : rdLog[i].ts <= rdNow + 1
    <3> SUFFICES ASSUME NEW i \in DOMAIN rdLog PROVE rdLog[i].ts <= rdNow + 1
      OBVIOUS
    <3>1. rdLog[i] \in Line
      BY DEF RdInv, RdTypeOK
    <3>2. rdLog[i].ts \in 0..MaxNow /\ rdLog[i].ts <= rdNow /\ rdNow \in 0..MaxNow
      BY <3>1 DEF RdInv, RdTypeOK, RdLogInv, Line
    <3> QED BY <3>2, ReadersAssumption
  <2> QED BY <1>1, <2>1 DEF RdInv, RdLogInv, Alerts, OfKind
<1>4. WalkInv' /\ PagesPartition'
  BY <1>1 DEF RdInv, WalkInv, WalkAt, PagesPartition, Ordered, Distinct, Alerts, OfKind, NoCursor
<1> QED BY <1>2, <1>3, <1>4 DEF RdInv

LEMMA RdStep == RdInv /\ [RdNext]_rdVars => RdInv'
<1> SUFFICES ASSUME RdInv, [RdNext]_rdVars PROVE RdInv'
  OBVIOUS
<1>1. CASE \E kind \in Kinds, s \in Sid, late \in 0..MaxLate : AppendLine(kind, s, late)
  BY <1>1, AppendKeeps
<1>2. CASE GetPage
  BY <1>2, PageKeeps
<1>3. CASE Pass
  BY <1>3, PassKeeps
<1>4. CASE UNCHANGED rdVars
  BY <1>4 DEF rdVars, RdInv, RdTypeOK, RdLogInv, WalkInv, WalkAt, PagesPartition, Ordered, Distinct,
              Alerts, OfKind, NoCursor
<1> QED BY <1>1, <1>2, <1>3, <1>4 DEF RdNext

\* What the dashboard reads from a log that grows under it (dashboard/alerts.py,
\* list_alerts; dashboard/audit_reader.py, iter_events_in_range; dashboard/health.py,
\* _wasting_stats and _command_rate_per_minute): for every page size, window, lateness,
\* length of the log and of the tail that the health panel reads, the pages of a walk
\* serve each alert once and newest first, a range read returns exactly its range, and
\* the health figures count what the tail has of their window and nothing older, while
\* the times are in order.
THEOREM ReadersKept == RdSpec => []ReadersAgree
<1>1. RdInit => RdInv
  BY RdInitInv
<1>2. RdInv /\ [RdNext]_rdVars => RdInv'
  BY RdStep
<1>3. RdInv => ReadersAgree
  BY ReadsAre DEF RdInv, ReadersAgree
<1> QED BY <1>1, <1>2, <1>3, PTL DEF RdSpec

-----------------------------------------------------------------------------
(* The import of the sessions a forwarder logged, for any log, any cap and *)
(* any number of sessions.                                                 *)

ImportTypeOK ==
    /\ imStep \in {"off", "reading", "flushing", "draining", "done", "died"}
    /\ imLog \in Seq([sid : Logged, kind : {"connect", "command", "closed", "damaged"}])
    /\ DOMAIN imAcc \subseteq Logged /\ IsFiniteSet(DOMAIN imAcc)
    /\ \A s \in DOMAIN imAcc : imAcc[s] \in [turns : Seq(Nat), ended : BOOLEAN]
    /\ imRows \in Seq([sid : Logged, turns : Seq(Nat), count : Nat, ended : BOOLEAN])
    /\ imAt = Nobody \/ imAt \in [sid : Logged, turns : Seq(Nat)]
    /\ imCount \in Nat

\* The rows that are written to their end.
RowsDone == IF imAt = Nobody THEN Len(imRows) ELSE Len(imRows) - 1

\* The accumulator in hand is what its row has and what is still to write.
HandInv ==
    /\ imAt # Nobody =>
        /\ imStep \in {"flushing", "draining", "died"}
        /\ imAt.sid \in DOMAIN imAcc /\ imRows # <<>>
        /\ imRows[Len(imRows)].sid = imAt.sid
        /\ imRows[Len(imRows)].turns \o imAt.turns = imAcc[imAt.sid].turns
        /\ imStep = "flushing" => imAcc[imAt.sid].ended
    /\ imStep = "off" => imAcc = <<>> /\ imRows = <<>> /\ imLog = <<>>
    /\ imStep = "done" => DOMAIN imAcc = {}
    /\ imCount = RowsDone

\* Nothing is lost: a command is in a row of its session or in its accumulator.
HeldInv ==
    \A s \in Logged :
        TurnsOf(s) \union (IF s \in DOMAIN imAcc THEN Range(imAcc[s].turns) ELSE {}) = LinesOf(s, "command")

\* Everything is in the order of the log, within rows and accumulators and among them.
OrderInv ==
    /\ \A s \in DOMAIN imAcc : Ascending(imAcc[s].turns)
    /\ \A r \in DOMAIN imRows : Ascending(imRows[r].turns) /\ imRows[r].count = Len(imRows[r].turns)
    /\ \A r, q \in DOMAIN imRows : r < q /\ imRows[r].sid = imRows[q].sid =>
        \A i \in Range(imRows[r].turns), j \in Range(imRows[q].turns) : i < j
    /\ \A r \in 1..RowsDone : imRows[r].sid \in DOMAIN imAcc =>
        \A i \in Range(imRows[r].turns), j \in Range(imAcc[imRows[r].sid].turns) : i < j

\* Why a session is written twice.
TwiceInv ==
    /\ \A r, q \in DOMAIN imRows : r < q /\ imRows[r].sid = imRows[q].sid => WentOn(imRows[r].sid)
    /\ \A r \in 1..RowsDone : imRows[r].sid \in DOMAIN imAcc => WentOn(imRows[r].sid)
    /\ \A s \in DOMAIN imAcc : imAcc[s].ended => LinesOf(s, "closed") # {}
    /\ imStep \in {"reading", "flushing"} => \A r \in 1..RowsDone : LinesOf(imRows[r].sid, "closed") # {}

\* The cap is kept while a closed session could be flushed.
CapInv == imStep = "reading" => Cardinality(DOMAIN imAcc) < BatchSize \/ \A s \in DOMAIN imAcc : ~imAcc[s].ended

ImportInv == ImportTypeOK /\ HandInv /\ HeldInv /\ OrderInv /\ TwiceInv /\ CapInv

\* Turns, as sequences of line numbers.
LEMMA TurnAdded ==
    ASSUME NEW t \in Seq(Nat), NEW x \in Nat
    PROVE  /\ Append(t, x) \in Seq(Nat) /\ Len(Append(t, x)) = Len(t) + 1
           /\ Range(Append(t, x)) = Range(t) \union {x}
           /\ Ascending(t) /\ (\A i \in Range(t) : i < x) => Ascending(Append(t, x))
<1>1. PICK n \in Nat : n = Len(t)
  OBVIOUS
<1>2. PICK a : a = Append(t, x)
  OBVIOUS
<1>3. /\ a \in Seq(Nat) /\ Len(a) = n + 1 /\ DOMAIN a = 1..n + 1 /\ DOMAIN t = 1..n
      /\ \A i \in 1..n : a[i] = t[i]
      /\ a[n + 1] = x
  BY <1>1, <1>2
<1>4. \A i \in 1..n + 1 : i \in 1..n \/ i = n + 1
  BY <1>1
<1>5. n + 1 \in 1..n + 1 /\ \A i \in 1..n : i \in 1..n + 1
  BY <1>1
<1>6. Range(a) = Range(t) \union {x}
  <2>1. Range(a) \subseteq Range(t) \union {x}
    BY <1>3, <1>4 DEF Range
  <2>2. Range(t) \subseteq Range(a) /\ x \in Range(a)
    BY <1>3, <1>5 DEF Range
  <2> QED BY <2>1, <2>2
<1>7. ASSUME Ascending(t), \A i \in Range(t) : i < x PROVE Ascending(a)
  <2> SUFFICES ASSUME NEW i \in 1..n + 1, NEW j \in 1..n + 1, i < j PROVE a[i] < a[j]
    BY <1>3 DEF Ascending
  <2>1. i \in 1..n
    BY <1>1
  <2>2. CASE j \in 1..n
    BY <1>3, <1>7, <2>1, <2>2 DEF Ascending
  <2>3. CASE j = n + 1
    <3>1. t[i] \in Range(t)
      BY <1>3, <2>1 DEF Range
    <3> QED BY <1>3, <1>7, <2>1, <2>3, <3>1
  <2> QED BY <1>4, <2>2, <2>3
<1> QED BY <1>1, <1>2, <1>3, <1>6, <1>7

\* The first part of some turns.
LEMMA TurnsBegin ==
    ASSUME NEW a \in Seq(Nat), NEW t \in Seq(Nat)
    PROVE  /\ Range(a) \subseteq Range(a \o t) /\ Range(t) \subseteq Range(a \o t)
           /\ Ascending(a \o t) => Ascending(a)
<1>1. PICK n \in Nat : n = Len(a)
  OBVIOUS
<1>2. PICK m \in Nat : m = Len(t)
  OBVIOUS
<1>3. PICK b : b = a \o t
  OBVIOUS
<1>4. /\ DOMAIN b = 1..n + m /\ DOMAIN a = 1..n /\ DOMAIN t = 1..m
      /\ \A i \in 1..n + m : b[i] = IF i <= n THEN a[i] ELSE t[i - n]
  <2>1. /\ b \in Seq(Nat) /\ Len(b) = n + m
        /\ \A i \in 1..n + m : b[i] = IF i <= n THEN a[i] ELSE t[i - n]
    BY <1>1, <1>2, <1>3, ConcatProperties
  <2>2. DOMAIN b = 1..n + m
    BY <2>1, LenProperties
  <2>3. DOMAIN a = 1..n /\ DOMAIN t = 1..m
    BY <1>1, <1>2, LenProperties
  <2> QED BY <2>1, <2>2, <2>3
<1>5. \A i \in 1..n : i \in 1..n + m /\ b[i] = a[i]
  BY <1>1, <1>2, <1>4
<1>6. Range(a) \subseteq Range(b)
  BY <1>4, <1>5 DEF Range
<1>7. \A i \in 1..m : i + n \in 1..n + m /\ b[i + n] = t[i]
  <2> SUFFICES ASSUME NEW i \in 1..m PROVE i + n \in 1..n + m /\ b[i + n] = t[i]
    OBVIOUS
  <2>1. i + n \in 1..n + m /\ ~(i + n <= n) /\ i + n - n = i
    BY <1>1, <1>2
  <2> QED BY <1>4, <2>1
<1>8. Range(t) \subseteq Range(b)
  <2> SUFFICES ASSUME NEW i \in 1..m PROVE t[i] \in Range(b)
    BY <1>4 DEF Range
  <2>1. i + n \in DOMAIN b /\ b[i + n] = t[i]
    BY <1>4, <1>7
  <2> QED BY <2>1 DEF Range
<1>9. Ascending(b) => Ascending(a)
  BY <1>4, <1>5 DEF Ascending
<1> QED BY <1>3, <1>6, <1>8, <1>9

\* One turn is moved from what is to write to what is written.
LEMMA TurnMoved ==
    ASSUME NEW a \in Seq(Nat), NEW t \in Seq(Nat), t # <<>>
    PROVE  /\ Head(t) \in Nat /\ Tail(t) \in Seq(Nat) /\ Append(a, Head(t)) \o Tail(t) = a \o t
<1>1. Head(t) \in Nat /\ Tail(t) \in Seq(Nat)
  BY HeadTailProperties
<1>2. PICK n \in Nat : n = Len(a)
  OBVIOUS
<1>3. PICK m \in Nat : m = Len(t)
  OBVIOUS
<1>4. PICK b \in Seq(Nat) : b = Append(a, Head(t))
  <2>1. Append(a, Head(t)) \in Seq(Nat)
    BY <1>1, AppendProperties
  <2> QED BY <2>1
<1>5. /\ Len(b) = n + 1 /\ b[n + 1] = Head(t)
      /\ \A i \in 1..n : b[i] = a[i]
  BY <1>1, <1>2, <1>4, AppendProperties
<1>6. PICK u \in Seq(Nat) : u = Tail(t)
  BY <1>1
<1>7. /\ m >= 1 /\ Head(t) = t[1] /\ Len(u) = m - 1
      /\ \A i \in 1..m - 1 : u[i] = t[i + 1]
  <2>1. m # 0
    BY <1>3, EmptySeq
  <2> QED BY <1>3, <1>6, <2>1, HeadTailProperties
<1>8. PICK x \in Seq(Nat) : x = b \o u
  BY ConcatProperties
<1>9. PICK y \in Seq(Nat) : y = a \o t
  BY ConcatProperties
<1>10. /\ Len(x) = n + m
       /\ \A i \in 1..n + m : x[i] = IF i <= n + 1 THEN b[i] ELSE u[i - (n + 1)]
  <2>1. PICK p \in Nat : p = n + 1
    OBVIOUS
  <2>2. PICK q \in Nat : q = m - 1
    BY <1>7
  <2>3. Len(b) = p /\ Len(u) = q
    BY <1>5, <1>7, <2>1, <2>2
  <2>4. /\ Len(x) = p + q
        /\ \A i \in 1..p + q : x[i] = IF i <= p THEN b[i] ELSE u[i - p]
    BY <1>8, <2>3, ConcatProperties
  <2>5. p + q = n + m
    BY <2>1, <2>2
  <2> QED BY <2>1, <2>4, <2>5
<1>11. /\ Len(y) = n + m
       /\ \A i \in 1..n + m : y[i] = IF i <= n THEN a[i] ELSE t[i - n]
  BY <1>2, <1>3, <1>9, ConcatProperties
<1>12. \A i \in 1..n + m : x[i] = y[i]
  <2> SUFFICES ASSUME NEW i \in 1..n + m PROVE x[i] = y[i]
    OBVIOUS
  <2>1. x[i] = (IF i <= n + 1 THEN b[i] ELSE u[i - (n + 1)]) /\ y[i] = (IF i <= n THEN a[i] ELSE t[i - n])
    BY <1>10, <1>11
  <2>2. CASE i <= n
    <3>1. i \in 1..n /\ i <= n + 1
      BY <2>2
    <3> QED BY <1>5, <2>1, <2>2, <3>1
  <2>3. CASE i = n + 1
    <3>1. i <= n + 1 /\ ~(i <= n) /\ i - n = 1
      BY <2>3
    <3> QED BY <1>5, <1>7, <2>1, <2>3, <3>1
  <2>4. CASE i > n + 1
    <3>1. PICK k : k = i - (n + 1)
      OBVIOUS
    <3>2. k \in 1..m - 1 /\ k + 1 = i - n /\ ~(i <= n + 1) /\ ~(i <= n)
      BY <2>4, <3>1
    <3>3. u[k] = t[i - n]
      BY <1>7, <3>2
    <3>4. x[i] = u[k] /\ y[i] = t[i - n]
      BY <2>1, <3>1, <3>2
    <3> QED BY <3>3, <3>4
  <2>5. i <= n \/ i = n + 1 \/ i > n + 1
    OBVIOUS
  <2> QED BY <2>2, <2>3, <2>4, <2>5
<1>13. x = y
  BY <1>10, <1>11, <1>12, SeqEqual
<1> QED BY <1>1, <1>4, <1>6, <1>8, <1>9, <1>13

\* What the log of one more line says of the sessions.
LEMMA LogLonger ==
    ASSUME ImportTypeOK, NEW t \in Logged, NEW k \in {"connect", "command", "closed", "damaged"}, NEW n \in Nat,
           n = Len(imLog), imLog' = Append(imLog, [sid |-> t, kind |-> k])
    PROVE  /\ imLog' \in Seq([sid : Logged, kind : {"connect", "command", "closed", "damaged"}]) /\ Len(imLog') = n + 1
           /\ \A i : i \in LinesOf(t, k)' <=> i \in LinesOf(t, k) \/ i = n + 1
           /\ \A s, kind : s # t \/ kind # k => LinesOf(s, kind)' = LinesOf(s, kind)
           /\ \A s, kind : LinesOf(s, kind) \subseteq 1..n
           /\ \A s : WentOn(s) => WentOn(s)'
           /\ k # "damaged" /\ LinesOf(t, "closed") # {} => WentOn(t)'
<1> DEFINE E == [sid : Logged, kind : {"connect", "command", "closed", "damaged"}]
<1>1. PICK e : e = [sid |-> t, kind |-> k]
  OBVIOUS
<1>2. e \in E /\ e.sid = t /\ e.kind = k
  BY <1>1
<1>3. PICK longer : longer = Append(imLog, e)
  OBVIOUS
<1>4. /\ longer \in Seq(E) /\ Len(longer) = n + 1 /\ DOMAIN longer = 1..n + 1 /\ DOMAIN imLog = 1..n
      /\ \A i \in 1..n : longer[i] = imLog[i]
      /\ longer[n + 1] = e
  <2>1. imLog \in Seq(E)
    BY DEF ImportTypeOK
  <2> HIDE DEF E
  <2> QED BY <1>2, <1>3, <2>1
<1>5. imLog' = longer
  BY <1>1, <1>3
<1>6. /\ \A i \in 1..n + 1 : i \in 1..n \/ i = n + 1
      /\ n + 1 \in 1..n + 1 /\ \A i \in 1..n : i \in 1..n + 1 /\ i < n + 1
  OBVIOUS
<1>7. ASSUME NEW s, NEW kind
      PROVE  LinesOf(s, kind)' = LinesOf(s, kind) \union (IF s = t /\ kind = k THEN {n + 1} ELSE {})
  <2>1. LinesOf(s, kind) = {i \in 1..n : imLog[i] = [sid |-> s, kind |-> kind]}
    BY <1>4 DEF LinesOf
  <2>2. LinesOf(s, kind)' = {i \in 1..n + 1 : longer[i] = [sid |-> s, kind |-> kind]}
    BY <1>4, <1>5 DEF LinesOf
  <2>3. e = [sid |-> s, kind |-> kind] <=> s = t /\ kind = k
    BY <1>1
  <2>4. ASSUME NEW i \in LinesOf(s, kind)'
        PROVE  i \in LinesOf(s, kind) \union (IF s = t /\ kind = k THEN {n + 1} ELSE {})
    BY <1>4, <1>6, <2>1, <2>2, <2>3, <2>4
  <2>5. LinesOf(s, kind) \subseteq LinesOf(s, kind)'
    BY <1>4, <1>6, <2>1, <2>2
  <2>6. s = t /\ kind = k => n + 1 \in LinesOf(s, kind)'
    BY <1>4, <1>6, <2>2, <2>3
  <2> QED BY <2>4, <2>5, <2>6
<1>8. ASSUME NEW s, NEW kind PROVE LinesOf(s, kind) \subseteq 1..n
  BY <1>4 DEF LinesOf
<1>9. ASSUME NEW s, WentOn(s) PROVE WentOn(s)'
  <2>1. PICK i \in LinesOf(s, "closed"), j \in 1..n : i < j /\ imLog[j].sid = s /\ imLog[j].kind # "damaged"
    BY <1>4, <1>9 DEF WentOn
  <2>2. i \in LinesOf(s, "closed")' /\ j \in 1..n + 1 /\ longer[j] = imLog[j]
    BY <1>4, <1>6, <1>7
  <2> QED BY <1>4, <1>5, <2>1, <2>2 DEF WentOn
<1>10. ASSUME k # "damaged", NEW i \in LinesOf(t, "closed") PROVE WentOn(t)'
  <2>1. i \in LinesOf(t, "closed")' /\ i < n + 1
    BY <1>6, <1>7, <1>8
  <2> QED BY <1>2, <1>4, <1>5, <1>6, <1>10, <2>1 DEF WentOn
<1>11. k # "damaged" /\ LinesOf(t, "closed") # {} => WentOn(t)'
  BY <1>10
<1>12. (\A i : i \in LinesOf(t, k)' <=> i \in LinesOf(t, k) \/ i = n + 1) /\ \A s, kind : s # t \/ kind # k => LinesOf(s, kind)' = LinesOf(s, kind)
  BY <1>7
<1> QED BY <1>4, <1>5, <1>8, <1>9, <1>11, <1>12

LEMMA ImportInit == UpInit => ImportInv
<1> SUFFICES ASSUME UpInit PROVE ImportInv
  OBVIOUS
<1>1. DOMAIN <<>> = {} /\ Len(<<>>) = 0 /\ IsFiniteSet({})
  BY FS_EmptySet
<1>2. imStep = "off" /\ imLog = <<>> /\ imAcc = <<>> /\ imAt = Nobody /\ imRows = <<>> /\ imCount = 0
  BY DEF UpInit
<1>3. ImportTypeOK
  BY <1>1, <1>2 DEF ImportTypeOK
<1>4. HandInv /\ RowsDone = 0
  BY <1>1, <1>2 DEF HandInv, RowsDone
<1>5. HeldInv
  BY <1>1, <1>2 DEF HeldInv, LinesOf, RowsOf, TurnsOf
<1>6. OrderInv
  BY <1>1, <1>2, <1>4 DEF OrderInv
<1>7. TwiceInv
  BY <1>1, <1>2, <1>4 DEF TwiceInv
<1> QED BY <1>2, <1>3, <1>4, <1>5, <1>6, <1>7 DEF ImportInv, CapInv

\* Where log, accumulators and rows stay, only the step changes.
LEMMA StepChanges ==
    ASSUME ImportInv, UNCHANGED <<imLog, imAcc, imAt, imRows, imCount>>,
           imStep' \in {"off", "reading", "flushing", "draining", "done", "died"},
           imStep' = "off" => imStep = "off",
           imStep' = "reading" => imStep \in {"off", "reading"} \/ (imStep = "flushing" /\ Ready = {}),
           imStep' = "flushing" => imStep = "flushing",
           imStep' = "done" => imStep = "done" \/ DOMAIN imAcc = {},
           imAt # Nobody => imStep' \in {imStep, "died"}
    PROVE  ImportInv'
<1>1. DOMAIN <<>> = {} /\ Len(<<>>) = 0
  OBVIOUS
<1>2. ImportTypeOK'
  BY DEF ImportInv, ImportTypeOK
<1>3. RowsDone' = RowsDone
  BY DEF RowsDone
<1>4. HandInv'
  BY <1>3 DEF ImportInv, HandInv
<1>5. HeldInv'
  BY DEF ImportInv, HeldInv, RowsOf, LinesOf, TurnsOf
<1>6. OrderInv'
  BY <1>3 DEF ImportInv, OrderInv, Ascending
<1>7. \A s : WentOn(s)' = WentOn(s)
  BY DEF WentOn, LinesOf
<1>8. imStep' \in {"reading", "flushing"} => imStep \in {"reading", "flushing"} \/ RowsDone = 0
  <2>1. imStep = "off" => RowsDone = 0
    <3>1. imStep = "off" => imRows = <<>> /\ imAt = Nobody
      BY DEF ImportInv, HandInv
    <3> QED BY <1>1, <3>1 DEF RowsDone
  <2> QED BY <2>1
<1>9. TwiceInv'
  <2>1. RowsDone = 0 => 1..RowsDone = {}
    OBVIOUS
  <2>2. \A s, kind : LinesOf(s, kind)' = LinesOf(s, kind)
    BY DEF LinesOf
  <2>3. imStep' \in {"reading", "flushing"} => \A r \in 1..RowsDone : LinesOf(imRows[r].sid, "closed") # {}
    BY <1>8, <2>1 DEF ImportInv, TwiceInv
  <2> QED BY <1>3, <1>7, <2>2, <2>3 DEF ImportInv, TwiceInv
<1>10. CapInv'
  <2> SUFFICES ASSUME imStep' = "reading"
               PROVE  Cardinality(DOMAIN imAcc) < BatchSize \/ \A s \in DOMAIN imAcc : ~imAcc[s].ended
    BY DEF CapInv
  <2>1. CASE imStep = "off"
    BY <1>1, <2>1 DEF ImportInv, HandInv
  <2>2. CASE imStep = "reading"
    BY <2>2 DEF ImportInv, CapInv
  <2>3. CASE imStep = "flushing" /\ Ready = {}
    BY <2>3 DEF Ready
  <2> QED BY <2>1, <2>2, <2>3
<1> QED BY <1>2, <1>4, <1>5, <1>6, <1>9, <1>10 DEF ImportInv

LEMMA AppliedIs ==
    ASSUME NEW acc \in [turns : Seq(Nat), ended : BOOLEAN], NEW x \in Nat,
           NEW k \in {"connect", "command", "closed", "damaged"}
    PROVE  /\ Applied(acc, k, x) \in [turns : Seq(Nat), ended : BOOLEAN]
           /\ Range(Applied(acc, k, x).turns) = Range(acc.turns) \union (IF k = "command" THEN {x} ELSE {})
           /\ Ascending(acc.turns) /\ (\A i \in Range(acc.turns) : i < x) => Ascending(Applied(acc, k, x).turns)
           /\ Applied(acc, k, x).ended => acc.ended \/ k = "closed"
<1>1. PICK t \in Seq(Nat) : t = acc.turns
  OBVIOUS
<1>2. CASE k = "command"
  <2>1. PICK u : u = Append(t, x)
    OBVIOUS
  <2>2. /\ u \in Seq(Nat) /\ Range(u) = Range(t) \union {x}
        /\ Ascending(t) /\ (\A i \in Range(t) : i < x) => Ascending(u)
    BY <2>1, TurnAdded
  <2>3. Applied(acc, k, x) = [turns |-> u, ended |-> acc.ended]
    BY <1>1, <1>2, <2>1 DEF Applied
  <2> QED BY <1>1, <1>2, <2>2, <2>3
<1>3. CASE k = "closed"
  <2>1. Applied(acc, k, x) = [turns |-> t, ended |-> TRUE]
    BY <1>1, <1>3 DEF Applied
  <2>2. Range(Applied(acc, k, x).turns) = Range(t) /\ Applied(acc, k, x).turns = t
    BY <2>1
  <2>3. Range(acc.turns) \union (IF k = "command" THEN {x} ELSE {}) = Range(t)
    BY <1>1, <1>3
  <2>4. Applied(acc, k, x) \in [turns : Seq(Nat), ended : BOOLEAN]
    BY <2>1
  <2> QED BY <1>1, <1>3, <2>2, <2>3, <2>4
<1>4. CASE k \notin {"command", "closed"}
  <2>1. Applied(acc, k, x) = acc
    BY <1>4 DEF Applied
  <2> QED BY <1>4, <2>1
<1> QED BY <1>2, <1>3, <1>4

LEMMA ReadEventKeeps ==
    ASSUME ImportInv, NEW t \in Logged, NEW k \in {"connect", "command", "closed", "damaged"}, ReadEvent(t, k)
    PROVE  ImportInv'
<1>1. imStep = "reading" /\ imLog' = Append(imLog, [sid |-> t, kind |-> k]) /\ UNCHANGED <<imAt, imRows, imCount>>
  BY DEF ReadEvent
<1>2. imAt = Nobody
  BY <1>1 DEF ImportInv, HandInv
<1>3. PICK n \in Nat : n = Len(imLog)
  BY DEF ImportInv, ImportTypeOK
<1>4. PICK R \in Nat : R = Len(imRows)
  BY DEF ImportInv, ImportTypeOK
<1>5. RowsDone = R /\ RowsDone' = R /\ DOMAIN imRows = 1..R
  BY <1>1, <1>2, <1>4 DEF RowsDone, ImportInv, ImportTypeOK
<1>6. /\ imLog' \in Seq([sid : Logged, kind : {"connect", "command", "closed", "damaged"}]) /\ Len(imLog') = n + 1
      /\ LinesOf(t, k)' = LinesOf(t, k) \union {n + 1}
      /\ \A s, kind : s # t \/ kind # k => LinesOf(s, kind)' = LinesOf(s, kind)
      /\ \A s, kind : LinesOf(s, kind) \subseteq 1..n
      /\ \A s : WentOn(s) => WentOn(s)'
      /\ k # "damaged" /\ LinesOf(t, "closed") # {} => WentOn(t)'
  <2>1. ImportTypeOK
    BY DEF ImportInv
  <2>2. imLog' = Append(imLog, [sid |-> t, kind |-> k])
    BY <1>1
  <2>3. \A i : i \in LinesOf(t, k)' <=> i \in LinesOf(t, k) \/ i = n + 1
    BY <1>3, <2>1, <2>2, LogLonger
  <2>4. LinesOf(t, k)' = LinesOf(t, k) \union {n + 1}
    BY <2>3
  <2> QED BY <1>3, <2>1, <2>2, <2>4, LogLonger
<1>7. PICK D : D = DOMAIN imAcc
  OBVIOUS
<1>8. D \subseteq Logged /\ IsFiniteSet(D) /\ \A s \in D : imAcc[s] \in [turns : Seq(Nat), ended : BOOLEAN]
  BY <1>7 DEF ImportInv, ImportTypeOK
<1>9. \A s \in Logged : TurnsOf(s) \subseteq LinesOf(s, "command")
  BY DEF ImportInv, HeldInv
<1>10. \A s \in D : Range(imAcc[s].turns) \subseteq LinesOf(s, "command")
  <2> SUFFICES ASSUME NEW s \in D PROVE Range(imAcc[s].turns) \subseteq LinesOf(s, "command")
    OBVIOUS
  <2>1. s \in Logged /\ s \in DOMAIN imAcc
    BY <1>7, <1>8
  <2>2. TurnsOf(s) \union Range(imAcc[s].turns) = LinesOf(s, "command")
    BY <2>1 DEF ImportInv, HeldInv
  <2> QED BY <2>2
<1>11. \A s : RowsOf(s)' = RowsOf(s) /\ TurnsOf(s)' = TurnsOf(s)
  BY <1>1 DEF RowsOf, TurnsOf
<1>12. imStep' \in {"reading", "flushing"} /\ (imStep' = "reading" => ~(Cardinality(DOMAIN imAcc') >= BatchSize))
  BY DEF ReadEvent
<1>13. PICK old : old = AccOf(t)
  OBVIOUS
<1>14. /\ old \in [turns : Seq(Nat), ended : BOOLEAN]
       /\ t \in D => old = imAcc[t]
       /\ t \notin D => Range(old.turns) = {} /\ ~old.ended /\ Ascending(old.turns)
  <2>1. <<>> \in Seq(Nat) /\ Range(<<>>) = {} /\ Ascending(<<>>)
    BY DEF Range, Ascending
  <2> QED BY <1>7, <1>8, <1>13, <2>1 DEF AccOf, NewAcc
<1>15. PICK new : new = Applied(old, k, n + 1)
  OBVIOUS
<1>16. /\ new \in [turns : Seq(Nat), ended : BOOLEAN]
       /\ Range(new.turns) = Range(old.turns) \union (IF k = "command" THEN {n + 1} ELSE {})
       /\ Ascending(old.turns) /\ (\A i \in Range(old.turns) : i < n + 1) => Ascending(new.turns)
       /\ new.ended => old.ended \/ k = "closed"
  <2>1. n + 1 \in Nat
    OBVIOUS
  <2> QED BY <1>14, <1>15, <2>1, AppliedIs
<1>17. CASE k = "damaged"
  <2>1. imAcc' = imAcc
    BY <1>17 DEF ReadEvent
  <2>2. \A s : LinesOf(s, "command")' = LinesOf(s, "command") /\ LinesOf(s, "closed") \subseteq LinesOf(s, "closed")'
    BY <1>6, <1>17
  <2>3. ImportTypeOK'
    BY <1>1, <1>6, <1>12, <2>1 DEF ImportInv, ImportTypeOK
  <2>4. HandInv'
    BY <1>1, <1>2, <1>5, <1>12 DEF ImportInv, HandInv
  <2>5. HeldInv'
    BY <1>1, <1>11, <2>1, <2>2 DEF ImportInv, HeldInv
  <2>6. OrderInv'
    BY <1>1, <1>5, <2>1 DEF ImportInv, OrderInv, Ascending
  <2>7. TwiceInv'
    BY <1>1, <1>5, <1>6, <2>1, <2>2 DEF ImportInv, TwiceInv
  <2>8. CapInv'
    BY <1>1, <2>1 DEF ImportInv, CapInv
  <2> QED BY <2>3, <2>4, <2>5, <2>6, <2>7, <2>8 DEF ImportInv
<1>18. CASE k # "damaged"
  <2>1. imAcc' = [s \in D \union {t} |-> IF s = t THEN new ELSE imAcc[s]]
    BY <1>1, <1>3, <1>6, <1>7, <1>13, <1>15, <1>18 DEF ReadEvent
  <2>2. DOMAIN imAcc' = D \union {t} /\ imAcc'[t] = new /\ \A s \in D : s # t => imAcc'[s] = imAcc[s]
    BY <2>1
  <2>3. ImportTypeOK'
    <3>1. IsFiniteSet(D \union {t})
      BY <1>8, FS_AddElement
    <3> QED BY <1>1, <1>6, <1>8, <1>12, <1>16, <2>2, <3>1 DEF ImportInv, ImportTypeOK
  <2>4. HandInv'
    BY <1>1, <1>2, <1>5, <1>12 DEF ImportInv, HandInv
  <2>5. HeldInv'
    <3> SUFFICES ASSUME NEW s \in Logged
                 PROVE  TurnsOf(s) \union (IF s \in D \union {t} THEN Range(imAcc'[s].turns) ELSE {}) = LinesOf(s, "command")'
      BY <1>1, <1>11, <2>2 DEF HeldInv
    <3>1. PICK U : U = TurnsOf(s)
      OBVIOUS
    <3>2. U \union (IF s \in D THEN Range(imAcc[s].turns) ELSE {}) = LinesOf(s, "command")
      BY <1>7, <3>1 DEF ImportInv, HeldInv
    <3>3. CASE s # t
      BY <1>6, <2>2, <3>1, <3>2, <3>3
    <3>4. CASE s = t
      <4>1. U \union Range(old.turns) = LinesOf(t, "command")
        BY <1>14, <3>2, <3>4
      <4>2. LinesOf(t, "command")' = LinesOf(t, "command") \union (IF k = "command" THEN {n + 1} ELSE {})
        BY <1>6
      <4>3. U \union Range(new.turns) = LinesOf(t, "command")'
        BY <1>16, <4>1, <4>2
      <4> QED BY <2>2, <3>1, <3>4, <4>3
    <3> QED BY <3>3, <3>4
  <2>6. OrderInv'
    <3>1. \A s \in Logged : \A i \in LinesOf(s, "command") : i \in Nat /\ i < n + 1
      BY <1>6
    <3>2. \A i \in Range(old.turns) : i < n + 1
      BY <1>10, <1>14, <3>1
    <3>3. Ascending(old.turns)
      BY <1>7, <1>14 DEF ImportInv, OrderInv
    <3>4. \A s \in D \union {t} : Ascending(imAcc'[s].turns)
      BY <1>7, <1>16, <2>2, <3>2, <3>3 DEF ImportInv, OrderInv
    <3>5. ASSUME NEW r \in 1..R, imRows[r].sid \in D \union {t}, NEW i \in Range(imRows[r].turns),
                 NEW j \in Range(imAcc'[imRows[r].sid].turns)
          PROVE  i < j
      <4>1. CASE imRows[r].sid # t
        BY <1>5, <1>7, <2>2, <3>5, <4>1 DEF ImportInv, OrderInv
      <4>2. CASE imRows[r].sid = t
        <5>1. r \in RowsOf(t) /\ i \in TurnsOf(t)
          BY <1>5, <3>5, <4>2 DEF RowsOf, TurnsOf
        <5>2. i \in LinesOf(t, "command")
          BY <1>9, <5>1
        <5>3. j \in Range(old.turns) \/ j = n + 1
          BY <1>16, <2>2, <3>5, <4>2
        <5>4. CASE j = n + 1
          BY <3>1, <5>2, <5>4
        <5>5. CASE j \in Range(old.turns)
          <6>1. t \in D /\ j \in Range(imAcc[t].turns)
            BY <1>14, <5>5
          <6> QED BY <1>5, <1>7, <3>5, <4>2, <6>1 DEF ImportInv, OrderInv
        <5> QED BY <5>3, <5>4, <5>5
      <4> QED BY <4>1, <4>2
    <3>6. /\ \A r \in DOMAIN imRows : Ascending(imRows[r].turns) /\ imRows[r].count = Len(imRows[r].turns)
          /\ \A r, q \in DOMAIN imRows : r < q /\ imRows[r].sid = imRows[q].sid =>
                \A i \in Range(imRows[r].turns), j \in Range(imRows[q].turns) : i < j
      BY DEF ImportInv, OrderInv
    <3> QED BY <1>1, <1>5, <2>2, <3>4, <3>5, <3>6 DEF OrderInv, Ascending
  <2>7. TwiceInv'
    <3>1. \A s : LinesOf(s, "closed") \subseteq LinesOf(s, "closed")'
      BY <1>6
    <3>2. \A r, q \in DOMAIN imRows : r < q /\ imRows[r].sid = imRows[q].sid => WentOn(imRows[r].sid)'
      BY <1>1, <1>6 DEF ImportInv, TwiceInv
    <3>3. \A r \in 1..R : imRows[r].sid \in D \union {t} => WentOn(imRows[r].sid)'
      <4> SUFFICES ASSUME NEW r \in 1..R, imRows[r].sid \in D \union {t} PROVE WentOn(imRows[r].sid)'
        OBVIOUS
      <4>1. CASE imRows[r].sid \in D
        BY <1>1, <1>5, <1>6, <1>7, <4>1 DEF ImportInv, TwiceInv
      <4>2. CASE imRows[r].sid = t
        BY <1>1, <1>5, <1>6, <1>18, <4>2 DEF ImportInv, TwiceInv
      <4> QED BY <4>1, <4>2
    <3>4. \A s \in D \union {t} : imAcc'[s].ended => LinesOf(s, "closed")' # {}
      <4> SUFFICES ASSUME NEW s \in D \union {t}, imAcc'[s].ended PROVE LinesOf(s, "closed")' # {}
        OBVIOUS
      <4>1. CASE s # t
        BY <1>7, <2>2, <3>1, <4>1 DEF ImportInv, TwiceInv
      <4>2. CASE s = t /\ old.ended
        <5>1. t \in D /\ imAcc[t].ended
          BY <1>14, <4>2
        <5> QED BY <1>7, <3>1, <4>2, <5>1 DEF ImportInv, TwiceInv
      <4>3. CASE s = t /\ k = "closed"
        BY <1>6, <4>3
      <4> QED BY <1>16, <2>2, <4>1, <4>2, <4>3
    <3>5. \A r \in 1..R : LinesOf(imRows[r].sid, "closed")' # {}
      BY <1>1, <1>5, <3>1 DEF ImportInv, TwiceInv
    <3> QED BY <1>1, <1>5, <2>2, <3>2, <3>3, <3>4, <3>5 DEF TwiceInv
  <2>8. CapInv'
    <3>1. Cardinality(DOMAIN imAcc') \in Nat /\ BatchSize \in Nat
      BY <2>3, FS_CardinalityType, UpgradeAssumption DEF ImportTypeOK
    <3> QED BY <1>12, <3>1 DEF CapInv
  <2> QED BY <2>3, <2>4, <2>5, <2>6, <2>7, <2>8 DEF ImportInv
<1> QED BY <1>17, <1>18

\* What an action that writes leaves alone.
LEMMA LogStays ==
    ASSUME UNCHANGED imLog
    PROVE  \A s : WentOn(s)' = WentOn(s) /\ \A kind : LinesOf(s, kind)' = LinesOf(s, kind)
  BY DEF WentOn, LinesOf

LEMMA WriteRowKeeps == ASSUME ImportInv, NEW t \in Logged, WriteRow(t) PROVE ImportInv'
<1>1. /\ imStep \in {"flushing", "draining"} /\ imAt = Nobody /\ t \in DOMAIN imAcc
      /\ imStep = "flushing" => imAcc[t].ended
      /\ UNCHANGED <<imStep, imLog, imAcc, imCount>>
  BY DEF WriteRow, Ready
<1>2. PICK R \in Nat : R = Len(imRows)
  BY DEF ImportInv, ImportTypeOK
<1>3. PICK new : new = [sid |-> t, turns |-> <<>>, count |-> SeededCount(imAcc[t]), ended |-> FALSE]
  OBVIOUS
<1>4. /\ new \in [sid : Logged, turns : Seq(Nat), count : Nat, ended : BOOLEAN]
      /\ new.sid = t /\ new.turns = <<>> /\ new.count = 0
  <2>1. <<>> \in Seq(Nat)
    OBVIOUS
  <2> QED BY <1>3, <2>1 DEF SeededCount
<1>5. /\ imRows' \in Seq([sid : Logged, turns : Seq(Nat), count : Nat, ended : BOOLEAN])
      /\ Len(imRows') = R + 1 /\ DOMAIN imRows' = 1..R + 1 /\ DOMAIN imRows = 1..R
      /\ \A r \in 1..R : imRows'[r] = imRows[r]
      /\ imRows'[R + 1] = new
  <2>1. imRows' = Append(imRows, new)
    BY <1>3 DEF WriteRow
  <2> QED BY <1>2, <1>4, <2>1 DEF ImportInv, ImportTypeOK
<1>6. PICK acc \in [turns : Seq(Nat), ended : BOOLEAN] : acc = imAcc[t]
  BY <1>1 DEF ImportInv, ImportTypeOK
<1>7. imAt' = [sid |-> t, turns |-> acc.turns] /\ imAt' # Nobody /\ imAt'.sid = t /\ imAt'.turns = acc.turns
  <2>1. imAt' = [sid |-> t, turns |-> acc.turns]
    BY <1>6 DEF WriteRow
  <2>2. t # "nobody"
    BY UpgradeAssumption
  <2>3. imAt'.sid = t /\ imAt'.turns = acc.turns
    BY <2>1
  <2>4. Nobody.sid = "nobody"
    BY DEF Nobody
  <2> QED BY <2>1, <2>2, <2>3, <2>4
<1>8. RowsDone = R /\ RowsDone' = R
  BY <1>1, <1>2, <1>5, <1>7 DEF RowsDone
<1>9. \A r \in 1..R + 1 : r \in 1..R \/ r = R + 1
  BY <1>2
<1>10. R + 1 \in 1..R + 1 /\ \A r \in 1..R : r \in 1..R + 1
  BY <1>2
<1>11. Range(<<>>) = {} /\ Ascending(<<>>) /\ Len(<<>>) = 0
  BY DEF Range, Ascending
<1>12. ImportTypeOK'
  BY <1>1, <1>5, <1>6, <1>7 DEF ImportInv, ImportTypeOK
<1>13. HandInv'
  <2>1. <<>> \o acc.turns = acc.turns
    OBVIOUS
  <2>2. imRows' # <<>>
    BY <1>5, <1>11, <1>2
  <2> QED BY <1>1, <1>4, <1>5, <1>6, <1>7, <1>8, <2>1, <2>2 DEF ImportInv, HandInv
<1>14. \A s : TurnsOf(s)' = TurnsOf(s)
  <2> SUFFICES ASSUME NEW s PROVE TurnsOf(s)' = TurnsOf(s)
    OBVIOUS
  <2>1. \A r \in RowsOf(s) : r \in RowsOf(s)' /\ imRows'[r] = imRows[r]
    BY <1>5, <1>10 DEF RowsOf
  <2>2. \A r \in RowsOf(s)' : r \in RowsOf(s) \/ Range(imRows'[r].turns) = {}
    BY <1>4, <1>5, <1>9, <1>11 DEF RowsOf
  <2>3. TurnsOf(s) \subseteq TurnsOf(s)'
    BY <2>1 DEF TurnsOf
  <2>4. TurnsOf(s)' \subseteq TurnsOf(s)
    BY <2>1, <2>2 DEF TurnsOf
  <2> QED BY <2>3, <2>4
<1>15. HeldInv'
  BY <1>1, <1>14, LogStays DEF ImportInv, HeldInv
<1>16. OrderInv'
  <2>1. \A r \in 1..R + 1 : Ascending(imRows'[r].turns) /\ imRows'[r].count = Len(imRows'[r].turns)
    BY <1>4, <1>5, <1>9, <1>11 DEF ImportInv, OrderInv
  <2>2. ASSUME NEW r \in 1..R + 1, NEW q \in 1..R + 1, r < q, imRows'[r].sid = imRows'[q].sid,
               NEW i \in Range(imRows'[r].turns), NEW j \in Range(imRows'[q].turns)
        PROVE  i < j
    <3>1. q # R + 1
      BY <1>4, <1>5, <1>11, <2>2
    <3>2. q \in 1..R /\ r \in 1..R
      BY <1>2, <1>9, <2>2, <3>1
    <3> QED BY <1>5, <2>2, <3>2 DEF ImportInv, OrderInv
  <2>3. ASSUME NEW r \in 1..R, imRows'[r].sid \in DOMAIN imAcc, NEW i \in Range(imRows'[r].turns),
               NEW j \in Range(imAcc[imRows'[r].sid].turns)
        PROVE  i < j
    BY <1>5, <1>8, <2>3 DEF ImportInv, OrderInv
  <2>4. \A s \in DOMAIN imAcc : Ascending(imAcc[s].turns)
    BY DEF ImportInv, OrderInv
  <2> QED BY <1>1, <1>5, <1>8, <2>1, <2>2, <2>3, <2>4 DEF OrderInv, Ascending
<1>17. TwiceInv'
  <2>1. ASSUME NEW r \in 1..R + 1, NEW q \in 1..R + 1, r < q, imRows'[r].sid = imRows'[q].sid
        PROVE  WentOn(imRows'[r].sid)
    <3>1. CASE q \in 1..R
      <4>1. r \in 1..R
        BY <1>2, <2>1, <3>1
      <4> QED BY <1>5, <2>1, <3>1, <4>1 DEF ImportInv, TwiceInv
    <3>2. CASE q = R + 1
      <4>1. r \in 1..R
        BY <1>2, <2>1, <3>2
      <4>2. imRows[r].sid = t
        BY <1>4, <1>5, <2>1, <3>2, <4>1
      <4> QED BY <1>1, <1>5, <1>8, <4>1, <4>2 DEF ImportInv, TwiceInv
    <3> QED BY <1>9, <3>1, <3>2
  <2>2. \A r \in 1..R : imRows'[r].sid \in DOMAIN imAcc => WentOn(imRows'[r].sid)
    BY <1>5, <1>8 DEF ImportInv, TwiceInv
  <2>3. imStep \in {"reading", "flushing"} => \A r \in 1..R : LinesOf(imRows'[r].sid, "closed") # {}
    BY <1>5, <1>8 DEF ImportInv, TwiceInv
  <2>4. \A s \in DOMAIN imAcc : imAcc[s].ended => LinesOf(s, "closed") # {}
    BY DEF ImportInv, TwiceInv
  <2>5. \A s : WentOn(s)' = WentOn(s)
    BY <1>1, LogStays
  <2>6. \A s : LinesOf(s, "closed")' = LinesOf(s, "closed")
    BY <1>1, LogStays
  <2>7. \A r, q \in 1..R + 1 : r < q /\ imRows'[r].sid = imRows'[q].sid => WentOn(imRows'[r].sid)
    BY <2>1
  <2> QED BY <1>1, <1>5, <1>8, <2>2, <2>3, <2>4, <2>5, <2>6, <2>7 DEF TwiceInv
<1>18. CapInv'
  BY <1>1 DEF CapInv
<1> QED BY <1>12, <1>13, <1>15, <1>16, <1>17, <1>18 DEF ImportInv

\* The row in hand: what it has, what is still to write and the accumulator.
LEMMA InHand ==
    ASSUME ImportInv, imAt # Nobody
    PROVE  \E R \in Nat \ {0}, a \in Seq(Nat), p \in Seq(Nat), t \in Logged :
              /\ R = Len(imRows) /\ DOMAIN imRows = 1..R /\ RowsDone = R - 1
              /\ imRows[R] \in [sid : Logged, turns : Seq(Nat), count : Nat, ended : BOOLEAN]
              /\ imRows[R].sid = t /\ imRows[R].turns = a /\ imRows[R].count = Len(a)
              /\ imAt = [sid |-> t, turns |-> p] /\ t \in DOMAIN imAcc
              /\ imAcc[t].turns = a \o p /\ Ascending(a \o p)
<1>1. PICK R \in Nat : R = Len(imRows)
  <2>1. imRows \in Seq([sid : Logged, turns : Seq(Nat), count : Nat, ended : BOOLEAN])
    BY DEF ImportInv, ImportTypeOK
  <2>2. Len(imRows) \in Nat
    BY <2>1, LenProperties
  <2> QED BY <2>2
<1>2. R # 0
  <2>1. imRows # <<>> /\ imRows \in Seq([sid : Logged, turns : Seq(Nat), count : Nat, ended : BOOLEAN])
    BY DEF ImportInv, HandInv, ImportTypeOK
  <2> QED BY <1>1, <2>1, EmptySeq
<1>3. DOMAIN imRows = 1..R /\ RowsDone = R - 1 /\ R \in 1..R
  BY <1>1, <1>2 DEF RowsDone, ImportInv, ImportTypeOK
<1>4. imRows[R] \in [sid : Logged, turns : Seq(Nat), count : Nat, ended : BOOLEAN]
  <2>1. PICK AnyRow : AnyRow = [sid : Logged, turns : Seq(Nat), count : Nat, ended : BOOLEAN]
    OBVIOUS
  <2>2. imRows \in Seq(AnyRow)
    BY <2>1 DEF ImportInv, ImportTypeOK
  <2>3. imRows[R] \in AnyRow
    BY <1>1, <1>3, <2>2
  <2> QED BY <2>1, <2>3
<1>5. PICK a \in Seq(Nat) : a = imRows[R].turns
  BY <1>4
<1>6. PICK t \in Logged : t = imRows[R].sid
  BY <1>4
<1>7. imAt \in [sid : Logged, turns : Seq(Nat)]
  BY DEF ImportInv, ImportTypeOK
<1>8. PICK p \in Seq(Nat) : p = imAt.turns
  BY <1>7
<1>9. imAt.sid = t /\ t \in DOMAIN imAcc /\ imAcc[t].turns = a \o p
  BY <1>1, <1>5, <1>6, <1>8 DEF ImportInv, HandInv
<1>10. imAt = [sid |-> t, turns |-> p]
  BY <1>7, <1>8, <1>9
<1>11. imRows[R].count = Len(a) /\ Ascending(a \o p)
  BY <1>3, <1>5, <1>9 DEF ImportInv, OrderInv
<1> QED BY <1>1, <1>2, <1>3, <1>4, <1>5, <1>6, <1>9, <1>10, <1>11

LEMMA WriteTurnKeeps == ASSUME ImportInv, WriteTurn PROVE ImportInv'
<1>1. imStep \in {"flushing", "draining"} /\ imAt # Nobody /\ UNCHANGED <<imStep, imLog, imAcc, imCount>>
  BY DEF WriteTurn
<1>2. PICK R \in Nat \ {0}, a \in Seq(Nat), p \in Seq(Nat), t \in Logged :
              /\ R = Len(imRows) /\ DOMAIN imRows = 1..R /\ RowsDone = R - 1
              /\ imRows[R] \in [sid : Logged, turns : Seq(Nat), count : Nat, ended : BOOLEAN]
              /\ imRows[R].sid = t /\ imRows[R].turns = a /\ imRows[R].count = Len(a)
              /\ imAt = [sid |-> t, turns |-> p] /\ t \in DOMAIN imAcc
              /\ imAcc[t].turns = a \o p /\ Ascending(a \o p)
  BY <1>1, InHand
<1>3. p # <<>>
  BY <1>2 DEF WriteTurn
<1>4. Head(p) \in Nat /\ Tail(p) \in Seq(Nat) /\ Append(a, Head(p)) \o Tail(p) = a \o p
  BY <1>3, TurnMoved
<1>5. PICK b : b = Append(a, Head(p))
  OBVIOUS
<1> b \in Seq(Nat)
  BY <1>4, <1>5, TurnAdded
<1>6. PICK u \in Seq(Nat) : u = Tail(p)
  BY <1>4
<1>7. Len(b) = Len(a) + 1 /\ b \o u = a \o p /\ Range(a) \subseteq Range(b)
  <2>1. Len(b) = Len(a) + 1 /\ Range(b) = Range(a) \union {Head(p)}
    BY <1>4, <1>5, TurnAdded
  <2> QED BY <1>4, <1>5, <1>6, <2>1
<1>8. Ascending(b) /\ Range(b) \subseteq Range(imAcc[t].turns)
  <2>1. Range(b) \subseteq Range(b \o u) /\ (Ascending(b \o u) => Ascending(b))
    BY TurnsBegin
  <2> QED BY <1>2, <1>7, <2>1
<1>9. imAt' = [sid |-> t, turns |-> u] /\ imAt' # Nobody
  <2>1. imAt' = [sid |-> t, turns |-> u]
    BY <1>2, <1>6 DEF WriteTurn
  <2>2. t # "nobody" /\ Nobody.sid = "nobody"
    BY UpgradeAssumption DEF Nobody
  <2> QED BY <2>1, <2>2
<1>10. PICK row : row = [imRows[R] EXCEPT !.turns = b, !.count = Len(b)]
  OBVIOUS
<1>11. /\ row \in [sid : Logged, turns : Seq(Nat), count : Nat, ended : BOOLEAN]
       /\ row.sid = t /\ row.turns = b /\ row.count = Len(b)
  <2>1. Len(b) \in Nat
    OBVIOUS
  <2> QED BY <1>2, <1>10, <2>1
<1>12. imRows' = [imRows EXCEPT ![R] = row]
  <2>1. imRows' = [imRows EXCEPT ![R].turns = Append(imRows[R].turns, Head(imAt.turns)), ![R].count = imRows[R].count + 1]
    BY <1>2 DEF WriteTurn
  <2>2. Append(imRows[R].turns, Head(imAt.turns)) = b /\ imRows[R].count + 1 = Len(b)
    BY <1>2, <1>5, <1>7
  <2> QED BY <1>2, <1>10, <2>1, <2>2
<1>13. /\ imRows' \in Seq([sid : Logged, turns : Seq(Nat), count : Nat, ended : BOOLEAN])
       /\ Len(imRows') = R /\ DOMAIN imRows' = 1..R
       /\ \A r \in 1..R : r # R => imRows'[r] = imRows[r]
       /\ imRows'[R] = row
  <2>1. R \in 1..R
    BY <1>2
  <2> QED BY <1>2, <1>11, <1>12, <2>1, ExceptSeq DEF ImportInv, ImportTypeOK
<1>14. RowsDone' = R - 1
  BY <1>9, <1>13 DEF RowsDone
<1>15. \A r \in 1..R : imRows'[r].sid = imRows[r].sid
  BY <1>2, <1>11, <1>13
<1>16. \A r \in 1..R - 1 : r \in 1..R /\ r # R
  BY <1>2
<1>17. ImportTypeOK'
  BY <1>1, <1>9, <1>13 DEF ImportInv, ImportTypeOK
<1>18. HandInv'
  <2>1. imRows' # <<>>
    BY <1>2, <1>13
  <2>2. imAt'.sid = t /\ imAt'.turns = u /\ imAt.sid = t
    BY <1>2, <1>9
  <2> QED BY <1>1, <1>2, <1>7, <1>9, <1>11, <1>13, <1>14, <2>1, <2>2 DEF ImportInv, HandInv
<1>19. HeldInv'
  <2> SUFFICES ASSUME NEW s \in Logged
               PROVE  TurnsOf(s)' \union (IF s \in DOMAIN imAcc THEN Range(imAcc[s].turns) ELSE {}) = LinesOf(s, "command")
    BY <1>1, LogStays DEF HeldInv
  <2>1. RowsOf(s)' = RowsOf(s) /\ RowsOf(s) \subseteq 1..R
    BY <1>2, <1>13, <1>15 DEF RowsOf
  <2>2. TurnsOf(s) \subseteq TurnsOf(s)'
    <3> SUFFICES ASSUME NEW r \in RowsOf(s), NEW i \in Range(imRows[r].turns) PROVE i \in TurnsOf(s)'
      BY DEF TurnsOf
    <3>1. CASE r = R
      <4>1. i \in Range(imRows'[R].turns)
        BY <1>2, <1>7, <1>11, <1>13, <3>1
      <4> QED BY <2>1, <3>1, <4>1 DEF TurnsOf
    <3>2. CASE r # R
      <4>1. i \in Range(imRows'[r].turns)
        BY <1>13, <2>1, <3>2
      <4> QED BY <2>1, <4>1 DEF TurnsOf
    <3> QED BY <3>1, <3>2
  <2>3. TurnsOf(s)' \subseteq TurnsOf(s) \union (IF s = t THEN Range(b) ELSE {})
    <3> SUFFICES ASSUME NEW r \in RowsOf(s), NEW i \in Range(imRows'[r].turns)
                 PROVE  i \in TurnsOf(s) \union (IF s = t THEN Range(b) ELSE {})
      BY <2>1 DEF TurnsOf
    <3>1. CASE r = R
      BY <1>2, <1>11, <1>13, <3>1 DEF RowsOf
    <3>2. CASE r # R
      <4>1. i \in Range(imRows[r].turns)
        BY <1>13, <2>1, <3>2
      <4> QED BY <4>1 DEF TurnsOf
    <3> QED BY <3>1, <3>2
  <2>4. TurnsOf(s) \union (IF s \in DOMAIN imAcc THEN Range(imAcc[s].turns) ELSE {}) = LinesOf(s, "command")
    BY DEF ImportInv, HeldInv
  <2> QED BY <1>2, <1>8, <2>2, <2>3, <2>4
<1>20. OrderInv'
  <2>1. \A r \in 1..R : Ascending(imRows'[r].turns) /\ imRows'[r].count = Len(imRows'[r].turns)
    <3> SUFFICES ASSUME NEW r \in 1..R
                 PROVE  Ascending(imRows'[r].turns) /\ imRows'[r].count = Len(imRows'[r].turns)
      OBVIOUS
    <3>1. CASE r = R
      BY <1>8, <1>11, <1>13, <3>1
    <3>2. CASE r # R
      BY <1>2, <1>13, <3>2 DEF ImportInv, OrderInv
    <3> QED BY <3>1, <3>2
  <2>2. ASSUME NEW r \in 1..R, NEW q \in 1..R, r < q, imRows'[r].sid = imRows'[q].sid,
               NEW i \in Range(imRows'[r].turns), NEW j \in Range(imRows'[q].turns)
        PROVE  i < j
    <3>1. r \in 1..R - 1 /\ r # R /\ i \in Range(imRows[r].turns)
      <4>1. r \in 1..R - 1 /\ r # R
        BY <1>2, <2>2
      <4> QED BY <1>13, <2>2, <4>1
    <3>2. CASE q = R
      <4>1. imRows[r].sid = t /\ j \in Range(imAcc[t].turns)
        BY <1>8, <1>11, <1>13, <1>15, <2>2, <3>2
      <4> QED BY <1>2, <3>1, <4>1 DEF ImportInv, OrderInv
    <3>3. CASE q # R
      <4>1. imRows[r].sid = imRows[q].sid /\ j \in Range(imRows[q].turns)
        BY <1>13, <1>15, <2>2, <3>3
      <4> QED BY <1>2, <2>2, <3>1, <4>1 DEF ImportInv, OrderInv
    <3> QED BY <3>2, <3>3
  <2>3. ASSUME NEW r \in 1..R - 1, imRows'[r].sid \in DOMAIN imAcc, NEW i \in Range(imRows'[r].turns),
               NEW j \in Range(imAcc[imRows'[r].sid].turns)
        PROVE  i < j
    BY <1>2, <1>13, <1>16, <2>3 DEF ImportInv, OrderInv
  <2>4. \A s \in DOMAIN imAcc : Ascending(imAcc[s].turns)
    BY DEF ImportInv, OrderInv
  <2> QED BY <1>1, <1>13, <1>14, <2>1, <2>2, <2>3, <2>4 DEF OrderInv, Ascending
<1>21. TwiceInv'
  <2>1. \A r, q \in 1..R : r < q /\ imRows'[r].sid = imRows'[q].sid => WentOn(imRows'[r].sid)
    BY <1>2, <1>15 DEF ImportInv, TwiceInv
  <2>2. \A r \in 1..R - 1 : imRows'[r].sid \in DOMAIN imAcc => WentOn(imRows'[r].sid)
    BY <1>2, <1>15, <1>16 DEF ImportInv, TwiceInv
  <2>3. imStep \in {"reading", "flushing"} => \A r \in 1..R - 1 : LinesOf(imRows'[r].sid, "closed") # {}
    BY <1>2, <1>15, <1>16 DEF ImportInv, TwiceInv
  <2>4. \A s \in DOMAIN imAcc : imAcc[s].ended => LinesOf(s, "closed") # {}
    BY DEF ImportInv, TwiceInv
  <2> QED BY <1>1, <1>13, <1>14, <2>1, <2>2, <2>3, <2>4, LogStays DEF TwiceInv
<1>22. CapInv'
  BY <1>1 DEF CapInv
<1> QED BY <1>17, <1>18, <1>19, <1>20, <1>21, <1>22 DEF ImportInv

LEMMA WriteEndKeeps == ASSUME ImportInv, WriteEnd PROVE ImportInv'
<1>1. imStep \in {"flushing", "draining"} /\ imAt # Nobody /\ imAt' = Nobody /\ UNCHANGED <<imStep, imLog>>
  BY DEF WriteEnd
<1>2. PICK R \in Nat \ {0}, a \in Seq(Nat), p \in Seq(Nat), t \in Logged :
              /\ R = Len(imRows) /\ DOMAIN imRows = 1..R /\ RowsDone = R - 1
              /\ imRows[R] \in [sid : Logged, turns : Seq(Nat), count : Nat, ended : BOOLEAN]
              /\ imRows[R].sid = t /\ imRows[R].turns = a /\ imRows[R].count = Len(a)
              /\ imAt = [sid |-> t, turns |-> p] /\ t \in DOMAIN imAcc
              /\ imAcc[t].turns = a \o p /\ Ascending(a \o p)
  BY <1>1, InHand
<1>3. imAcc[t].turns = a
  <2>1. p = <<>>
    BY <1>2 DEF WriteEnd
  <2>2. a \o <<>> = a
    OBVIOUS
  <2> QED BY <1>2, <2>1, <2>2
<1>4. PICK D : D = DOMAIN imAcc
  OBVIOUS
<1>5. /\ D \subseteq Logged /\ IsFiniteSet(D) /\ t \in D
      /\ \A s \in D : imAcc[s] \in [turns : Seq(Nat), ended : BOOLEAN]
  BY <1>2, <1>4 DEF ImportInv, ImportTypeOK
<1>6. DOMAIN imAcc' = D \ {t} /\ \A s \in D \ {t} : imAcc'[s] = imAcc[s]
  <2>1. imAcc' = [s \in D \ {t} |-> imAcc[s]]
    BY <1>2, <1>4 DEF WriteEnd, Restrict
  <2> QED BY <2>1
<1>7. PICK row : row = [imRows[R] EXCEPT !.ended = imAcc[t].ended]
  OBVIOUS
<1>8. /\ row \in [sid : Logged, turns : Seq(Nat), count : Nat, ended : BOOLEAN]
      /\ row.sid = t /\ row.turns = a /\ row.count = Len(a)
  <2>1. imAcc[t].ended \in BOOLEAN
    BY <1>5
  <2> QED BY <1>2, <1>7, <2>1
<1>9. /\ imRows' \in Seq([sid : Logged, turns : Seq(Nat), count : Nat, ended : BOOLEAN])
      /\ Len(imRows') = R /\ DOMAIN imRows' = 1..R
      /\ \A r \in 1..R : r # R => imRows'[r] = imRows[r]
      /\ imRows'[R] = row
  <2>1. imRows' = [imRows EXCEPT ![R] = row]
    BY <1>2, <1>7 DEF WriteEnd
  <2>2. R \in 1..R
    BY <1>2
  <2> QED BY <1>2, <1>8, <2>1, <2>2, ExceptSeq DEF ImportInv, ImportTypeOK
<1>10. \A r \in 1..R : imRows'[r].sid = imRows[r].sid /\ imRows'[r].turns = imRows[r].turns
                       /\ imRows'[r].count = imRows[r].count
  BY <1>2, <1>8, <1>9
<1>11. RowsDone' = R
  BY <1>1, <1>9 DEF RowsDone
<1>12. \A r \in 1..R : r # R => r \in 1..R - 1
  BY <1>2
<1>13. imCount = R - 1 /\ imCount' = R
  <2>1. imCount = R - 1 /\ imCount' = imCount + 1
    BY <1>2 DEF WriteEnd, ImportInv, HandInv
  <2> QED BY <2>1, <1>2
<1>14. ImportTypeOK'
  <2>1. IsFiniteSet(D \ {t})
    BY <1>5, FS_Subset
  <2>2. imCount' \in Nat
    BY <1>2, <1>13
  <2> QED BY <1>1, <1>5, <1>6, <1>9, <2>1, <2>2 DEF ImportInv, ImportTypeOK
<1>15. HandInv'
  BY <1>1, <1>11, <1>13 DEF HandInv
<1>16. HeldInv'
  <2> SUFFICES ASSUME NEW s \in Logged
               PROVE  TurnsOf(s)' \union (IF s \in D \ {t} THEN Range(imAcc[s].turns) ELSE {}) = LinesOf(s, "command")
    BY <1>1, <1>6, LogStays DEF HeldInv
  <2>1. TurnsOf(s)' = TurnsOf(s)
    <3>1. RowsOf(s)' = RowsOf(s) /\ RowsOf(s) \subseteq 1..R
      BY <1>2, <1>9, <1>10 DEF RowsOf
    <3> QED BY <1>10, <3>1 DEF TurnsOf
  <2>2. TurnsOf(s) \union (IF s \in D THEN Range(imAcc[s].turns) ELSE {}) = LinesOf(s, "command")
    BY <1>4 DEF ImportInv, HeldInv
  <2>3. s = t => Range(imAcc[s].turns) \subseteq TurnsOf(s)
    <3>1. R \in 1..R
      BY <1>2
    <3>2. R \in RowsOf(t)
      BY <1>2, <3>1 DEF RowsOf
    <3> QED BY <1>2, <1>3, <3>2 DEF TurnsOf
  <2> QED BY <1>5, <2>1, <2>2, <2>3
<1>17. OrderInv'
  <2>1. \A r \in 1..R : Ascending(imRows'[r].turns) /\ imRows'[r].count = Len(imRows'[r].turns)
    BY <1>2, <1>10 DEF ImportInv, OrderInv
  <2>2. ASSUME NEW r \in 1..R, NEW q \in 1..R, r < q, imRows'[r].sid = imRows'[q].sid,
               NEW i \in Range(imRows'[r].turns), NEW j \in Range(imRows'[q].turns)
        PROVE  i < j
    <3>1. imRows[r].sid = imRows[q].sid /\ i \in Range(imRows[r].turns) /\ j \in Range(imRows[q].turns)
      BY <1>10, <2>2
    <3>2. r \in DOMAIN imRows /\ q \in DOMAIN imRows
      BY <1>2
    <3> QED BY <2>2, <3>1, <3>2 DEF ImportInv, OrderInv
  <2>3. ASSUME NEW r \in 1..R, imRows'[r].sid \in D \ {t}, NEW i \in Range(imRows'[r].turns),
               NEW j \in Range(imAcc'[imRows'[r].sid].turns)
        PROVE  i < j
    <3>1. r # R
      BY <1>8, <1>9, <2>3
    <3>2. r \in 1..R - 1
      BY <1>12, <3>1
    <3>3. imRows[r].sid \in D \ {t} /\ i \in Range(imRows[r].turns) /\ j \in Range(imAcc[imRows[r].sid].turns)
      BY <1>6, <1>10, <2>3
    <3> QED BY <1>2, <1>4, <3>2, <3>3 DEF ImportInv, OrderInv
  <2>4. \A s \in D \ {t} : Ascending(imAcc'[s].turns)
    BY <1>4, <1>6 DEF ImportInv, OrderInv
  <2> QED BY <1>6, <1>9, <1>11, <2>1, <2>2, <2>3, <2>4 DEF OrderInv, Ascending
<1>18. TwiceInv'
  <2>1. ASSUME NEW r \in 1..R, NEW q \in 1..R, r < q, imRows'[r].sid = imRows'[q].sid
        PROVE  WentOn(imRows'[r].sid)
    <3>1. imRows[r].sid = imRows[q].sid /\ imRows'[r].sid = imRows[r].sid
      BY <1>10, <2>1
    <3>2. r \in DOMAIN imRows /\ q \in DOMAIN imRows
      BY <1>2
    <3>3. WentOn(imRows[r].sid)
      BY <2>1, <3>1, <3>2 DEF ImportInv, TwiceInv
    <3> QED BY <3>1, <3>3
  <2>2. ASSUME NEW r \in 1..R, imRows'[r].sid \in D \ {t} PROVE WentOn(imRows'[r].sid)
    <3>1. r # R
      BY <1>8, <1>9, <2>2
    <3>2. r \in 1..R - 1 /\ imRows[r].sid \in D
      BY <1>10, <1>12, <2>2, <3>1
    <3> QED BY <1>2, <1>4, <1>10, <3>2 DEF ImportInv, TwiceInv
  <2>3. ASSUME imStep = "flushing", NEW r \in 1..R PROVE LinesOf(imRows'[r].sid, "closed") # {}
    <3>1. CASE r = R
      <4>1. imAt.sid = t
        BY <1>2
      <4>2. imAcc[t].ended
        BY <1>1, <2>3, <4>1 DEF ImportInv, HandInv
      <4> QED BY <1>2, <1>8, <1>9, <3>1, <4>2 DEF ImportInv, TwiceInv
    <3>2. CASE r # R
      BY <1>2, <1>10, <1>12, <2>3, <3>2 DEF ImportInv, TwiceInv
    <3> QED BY <3>1, <3>2
  <2>4. \A s \in D \ {t} : imAcc'[s].ended => LinesOf(s, "closed") # {}
    BY <1>4, <1>6 DEF ImportInv, TwiceInv
  <2>5. \A s : WentOn(s)' = WentOn(s)
    BY <1>1, LogStays
  <2>6. \A s : LinesOf(s, "closed")' = LinesOf(s, "closed")
    BY <1>1, LogStays
  <2> QED BY <1>1, <1>6, <1>9, <1>11, <2>1, <2>2, <2>3, <2>4, <2>5, <2>6 DEF TwiceInv
<1>19. CapInv'
  BY <1>1 DEF CapInv
<1> QED BY <1>14, <1>15, <1>16, <1>17, <1>18, <1>19 DEF ImportInv

LEMMA ImportStep == ImportInv /\ [UpNext]_upVars => ImportInv'
<1> SUFFICES ASSUME ImportInv, [UpNext]_upVars PROVE ImportInv'
  OBVIOUS
<1>1. ASSUME UNCHANGED imVars PROVE ImportInv'
  BY <1>1, StepChanges DEF imVars, ImportInv, ImportTypeOK
<1>2. CASE \E o \in Opener : OpenStore(o) \/ AlterTable(o) \/ CreateTables(o) \/ Stamp(o) \/ CloseStore(o)
  BY <1>1, <1>2 DEF OpenStore, AlterTable, CreateTables, Stamp, CloseStore
<1>3. CASE \E o \in Opener : DieAt(o)
  <2>1. CASE UNCHANGED imVars
    BY <1>1, <2>1
  <2>2. CASE imStep' = "died" /\ UNCHANGED <<imLog, imAcc, imAt, imRows, imCount>>
    BY <2>2, StepChanges
  <2> QED BY <1>3, <2>1, <2>2 DEF DieAt
<1>4. CASE StartImport \/ EndOfLog \/ Flushed
  <2>1. imAt = Nobody /\ UNCHANGED <<imLog, imAcc, imAt, imRows, imCount>>
    BY <1>4 DEF StartImport, EndOfLog, Flushed, ImportInv, HandInv
  <2>2. \/ imStep = "off" /\ imStep' = "reading"
        \/ imStep = "reading" /\ imStep' = "draining"
        \/ imStep = "flushing" /\ Ready = {} /\ imStep' = "reading"
        \/ imStep = "draining" /\ Ready = {} /\ imStep' = "done"
    BY <1>4 DEF StartImport, EndOfLog, Flushed
  <2>3. imStep = "draining" /\ Ready = {} => DOMAIN imAcc = {}
    BY DEF Ready
  <2> QED BY <2>1, <2>2, <2>3, StepChanges
<1>5. CASE WriteTurn \/ WriteEnd
  BY <1>5, WriteTurnKeeps, WriteEndKeeps
<1>6. CASE \E s \in Logged : WriteRow(s)
  BY <1>6, WriteRowKeeps
<1>7. CASE \E s \in Logged : \E k \in {"connect", "command", "closed", "damaged"} : ReadEvent(s, k)
  BY <1>7, ReadEventKeeps
<1>8. CASE UNCHANGED upVars
  BY <1>1, <1>8 DEF upVars
<1> QED BY <1>2, <1>3, <1>4, <1>5, <1>6, <1>7, <1>8 DEF UpNext

LEMMA ImportIsSound == ImportInv => ImportSound
<1> SUFFICES ASSUME ImportInv PROVE ImportSound
  OBVIOUS
<1>1. ASSUME imStep = "done", NEW s \in Logged
      PROVE  /\ TurnsOf(s) = LinesOf(s, "command")
             /\ \A r \in RowsOf(s) : Ascending(imRows[r].turns) /\ imRows[r].count = Len(imRows[r].turns)
             /\ \A r, q \in RowsOf(s) : r < q =>
                 WentOn(s) /\ \A i \in Range(imRows[r].turns), j \in Range(imRows[q].turns) : i < j
             /\ imCount = Len(imRows)
  <2>1. s \notin DOMAIN imAcc /\ imAt = Nobody
    BY <1>1 DEF ImportInv, HandInv
  <2>2. TurnsOf(s) = LinesOf(s, "command")
    BY <2>1 DEF ImportInv, HeldInv
  <2>3. imCount = Len(imRows)
    BY <2>1 DEF ImportInv, HandInv, RowsDone
  <2>4. \A r \in RowsOf(s) : Ascending(imRows[r].turns) /\ imRows[r].count = Len(imRows[r].turns)
    BY DEF ImportInv, OrderInv, RowsOf
  <2>5. \A r, q \in RowsOf(s) : r < q => \A i \in Range(imRows[r].turns), j \in Range(imRows[q].turns) : i < j
    BY DEF ImportInv, OrderInv, RowsOf
  <2>6. \A r, q \in RowsOf(s) : r < q => WentOn(s)
    BY DEF ImportInv, TwiceInv, RowsOf
  <2> QED BY <2>2, <2>3, <2>4, <2>5, <2>6
<1> QED BY <1>1 DEF ImportInv, CapInv, ImportSound

\* What an upgrade leaves in the store (sessions/schema.py, run_migrations, and
\* sessions/migrate.py, import_jsonl_into_store): the schema is whole, and an import
\* that comes to its end has every command of the log once and in order in the rows
\* of its session, whatever the log, the cap of sessions kept at once and the deaths.
THEOREM UpgradeKept == UpSpec => []UpgradeSound
<1>1. UpSpec => []ImportInv
  BY ImportInit, ImportStep, PTL DEF UpSpec
<1>2. UpSpec => []SchemaSound
  BY SchemaKept
<1>3. ImportInv /\ SchemaSound => UpgradeSound
  BY ImportIsSound DEF UpgradeSound
<1> QED BY <1>1, <1>2, <1>3, PTL

-----------------------------------------------------------------------------
(* What a browser is fed, for any sessions, browsers, length of a queue    *)
(* and number of events and turns.                                         *)

Subscriber ==
    [at : {"off", "wait", "send"}, gone : BOOLEAN, queue : Seq(Event), from : Nat, event : Event \union {<<>>}]

\* What an event is about is in the rows.
InRows(e) == e[1] \in {"started", "updated", "command", "ended"} => rows[e[2]] >= e[3]

\* The queue of a handler is the end of the log, and what it sends lies before it and after its beginning.
FedFrom(v, l) ==
    /\ Len(v.queue) <= QueueSize
    /\ v.at = "off" => v.queue = <<>>
    /\ v.at # "off" =>
        /\ v.from + Len(v.queue) <= Len(l)
        /\ \A i \in 1..Len(v.queue) : v.queue[i] = l[Len(l) - Len(v.queue) + i]
    /\ v.at = "send" => \E k \in v.from + 1..Len(l) - Len(v.queue) : l[k] = v.event

\* How far the writer is with the rows of its session.
WriterInv ==
    /\ writer \in [at : {"idle", "upsert", "turns", "announce", "commands", "end", "intent"},
                   s : Watched, had : -1..MaxShown, upto : 0..MaxShown, n : 0..MaxShown]
    /\ writer.at \in {"turns", "announce", "commands", "end"} => rows[writer.s] >= 0
    /\ writer.at \in {"announce", "commands"} => rows[writer.s] >= writer.upto
    /\ writer.at = "commands" => writer.n < writer.upto

TellsInv ==
    /\ rows \in [Watched -> -1..MaxShown]
    /\ log \in Seq(Event) /\ Len(log) <= MaxLog
    /\ narrator \in [at : {"asleep", "chat"}, s : Watched]
    /\ \A i \in 1..Len(log) : InRows(log[i])

FedInv == sub \in [Client -> Subscriber] /\ \A c \in Client : FedFrom(sub[c], log)

FeedInv == TellsInv /\ WriterInv /\ FedInv

\* An event put into a queue is its last, before it come the latest ones the queue had.
LEMMA PutEvent ==
    ASSUME NEW q \in Seq(Event), Len(q) <= QueueSize, NEW e \in Event
    PROVE  /\ Put(q, e) \in Seq(Event)
           /\ Len(Put(q, e)) \in 1..QueueSize /\ Len(Put(q, e)) <= Len(q) + 1
           /\ Put(q, e)[Len(Put(q, e))] = e
           /\ \A i \in 1..Len(Put(q, e)) - 1 : Put(q, e)[i] = q[Len(q) - (Len(Put(q, e)) - 1) + i]
<1>1. PICK n \in Nat : n = Len(q)
  OBVIOUS
<1>2. QueueSize \in Nat \ {0}
  BY EventsAssumption
<1>3. CASE n < QueueSize
  <2>1. Put(q, e) = Append(q, e)
    BY <1>1, <1>3 DEF Put
  <2>2. PICK p \in Seq(Event) : p = Append(q, e)
    BY AppendProperties
  <2>3. Len(p) = n + 1 /\ p[n + 1] = e /\ \A i \in 1..n : p[i] = q[i]
    BY <1>1, <2>2, AppendProperties
  <2> QED BY <1>1, <1>2, <1>3, <2>1, <2>2, <2>3
<1>4. CASE ~(n < QueueSize)
  <2>1. Put(q, e) = Append(Tail(q), e) /\ n = QueueSize
    BY <1>1, <1>2, <1>4 DEF Put
  <2>2. q # <<>>
    BY <1>1, <1>2, <2>1, EmptySeq
  <2>3. PICK t \in Seq(Event) : t = Tail(q)
    BY <2>2, HeadTailProperties
  <2>4. Len(t) = n - 1 /\ \A i \in 1..n - 1 : t[i] = q[i + 1]
    BY <1>1, <2>2, <2>3, HeadTailProperties
  <2>5. PICK p \in Seq(Event) : p = Append(t, e)
    BY AppendProperties
  <2>6. Len(p) = Len(t) + 1 /\ p[Len(t) + 1] = e /\ \A i \in 1..Len(t) : p[i] = t[i]
    BY <2>5, AppendProperties
  <2>7. Len(p) = n /\ p[n] = e /\ \A i \in 1..n - 1 : p[i] = q[i + 1]
    <3>1. Len(t) + 1 = n
      BY <1>1, <2>4
    <3> QED BY <2>4, <2>6, <3>1
  <2>8. \A i \in 1..n - 1 : p[i] = q[n - (n - 1) + i]
    BY <1>1, <2>7
  <2> QED BY <1>1, <1>2, <2>1, <2>3, <2>5, <2>7, <2>8
<1> QED BY <1>3, <1>4

\* What a handler has of the log it has of a longer one, with the event of it in its queue.
LEMMA FedByPublish ==
    ASSUME NEW v \in Subscriber, NEW l \in Seq(Event), NEW e \in Event, FedFrom(v, l), v.at # "off"
    PROVE  /\ [v EXCEPT !.queue = Put(@, e)] \in Subscriber
           /\ FedFrom([v EXCEPT !.queue = Put(@, e)], Append(l, e))
<1>1. PICK q \in Seq(Event) : q = v.queue
  BY DEF Subscriber
<1>2. PICK n \in Nat : n = Len(l)
  OBVIOUS
<1>3. PICK k \in Nat : k = Len(q)
  OBVIOUS
<1>4. k <= QueueSize
  BY <1>1, <1>3 DEF FedFrom
<1>5. PICK p \in Seq(Event) : p = Put(q, e)
  BY <1>3, <1>4, PutEvent
<1>6. PICK m \in Nat : m = Len(p)
  OBVIOUS
<1>7. /\ m \in 1..QueueSize /\ m <= k + 1 /\ p[m] = e
      /\ \A i \in 1..m - 1 : p[i] = q[k - (m - 1) + i]
  <2>1. Len(q) <= QueueSize
    BY <1>3, <1>4
  <2>2. /\ Len(p) \in 1..QueueSize /\ Len(p) <= Len(q) + 1 /\ p[Len(p)] = e
        /\ \A i \in 1..Len(p) - 1 : p[i] = q[Len(q) - (Len(p) - 1) + i]
    BY <1>5, <2>1, PutEvent
  <2> QED BY <1>3, <1>6, <2>2
<1>8. PICK l2 \in Seq(Event) : l2 = Append(l, e)
  BY AppendProperties
<1>9. Len(l2) = n + 1 /\ l2[n + 1] = e /\ \A i \in 1..n : l2[i] = l[i]
  BY <1>2, <1>8, AppendProperties
<1>10. PICK f \in Nat : f = v.from
  BY DEF Subscriber
<1>11. f + k <= n /\ \A i \in 1..k : q[i] = l[n - k + i]
  BY <1>1, <1>2, <1>3, <1>10 DEF FedFrom
<1>12. PICK w : w = [v EXCEPT !.queue = p]
  OBVIOUS
<1>13. w \in Subscriber /\ w.at = v.at /\ w.queue = p /\ w.from = f /\ w.event = v.event
  BY <1>10, <1>12 DEF Subscriber
<1>14. \A i \in 1..m : p[i] = l2[n + 1 - m + i]
  <2> SUFFICES ASSUME NEW i \in 1..m PROVE p[i] = l2[n + 1 - m + i]
    OBVIOUS
  <2>1. CASE i = m
    <3>1. n + 1 - m + i = n + 1
      BY <2>1
    <3> QED BY <1>7, <1>9, <2>1, <3>1
  <2>2. CASE i # m
    <3>1. PICK j : j = k - (m - 1) + i
      OBVIOUS
    <3>2. i \in 1..m - 1 /\ m \in Nat /\ m <= k + 1 /\ f + k <= n
      BY <1>7, <1>11, <2>2
    <3>3. j \in 1..k /\ n - k + j = n + 1 - m + i
      BY <3>1, <3>2
    <3>4. n - k + j \in 1..n
      BY <3>2, <3>3
    <3>5. p[i] = q[j] /\ q[j] = l[n - k + j] /\ l2[n - k + j] = l[n - k + j]
      BY <1>7, <1>9, <1>11, <3>1, <3>2, <3>3, <3>4
    <3> QED BY <3>3, <3>5
  <2> QED BY <2>1, <2>2
<1>15. w.from + Len(w.queue) <= Len(l2)
  BY <1>6, <1>7, <1>9, <1>11, <1>13
<1>16. ASSUME w.at = "send" PROVE \E i \in w.from + 1..Len(l2) - Len(w.queue) : l2[i] = w.event
  <2>1. PICK i \in f + 1..n - k : l[i] = v.event
    BY <1>1, <1>2, <1>3, <1>10, <1>13, <1>16 DEF FedFrom
  <2>2. i \in 1..n /\ i \in f + 1..n + 1 - m
    BY <1>7, <1>11, <2>1
  <2>3. l2[i] = w.event
    BY <1>9, <1>13, <2>1, <2>2
  <2>4. w.from + 1..Len(l2) - Len(w.queue) = f + 1..n + 1 - m
    BY <1>6, <1>9, <1>13
  <2> QED BY <2>2, <2>3, <2>4
<1>17. FedFrom(w, l2)
  BY <1>6, <1>7, <1>9, <1>13, <1>14, <1>15, <1>16 DEF FedFrom
<1> QED BY <1>1, <1>5, <1>8, <1>12, <1>13, <1>17

\* publish leaves the log and every handler as they should be.
LEMMA PublishKeeps ==
    ASSUME TellsInv, FedInv, NEW e \in Event, Publish(e), InRows(e)
    PROVE  /\ log' \in Seq(Event) /\ Len(log') <= MaxLog
           /\ \A i \in 1..Len(log') : InRows(log'[i])
           /\ FedInv'
<1>1. PICK l \in Seq(Event) : l = Append(log, e)
  BY AppendProperties DEF TellsInv
<1>2. Len(log) \in Nat /\ Len(log) < MaxLog /\ log' = l
  BY <1>1 DEF Publish, TellsInv
<1>3. Len(l) = Len(log) + 1 /\ l[Len(log) + 1] = e /\ \A i \in 1..Len(log) : l[i] = log[i]
  BY <1>1, AppendProperties DEF TellsInv
<1>4. \A i \in 1..Len(l) : InRows(l[i])
  <2> SUFFICES ASSUME NEW i \in 1..Len(log) + 1 PROVE InRows(l[i])
    BY <1>3
  <2>1. CASE i = Len(log) + 1
    BY <1>3, <2>1
  <2>2. CASE i # Len(log) + 1
    <3>1. i \in 1..Len(log)
      BY <1>2, <2>2
    <3>2. InRows(log[i])
      BY <3>1 DEF TellsInv
    <3> QED BY <1>3, <3>1, <3>2
  <2> QED BY <2>1, <2>2
<1>5. ASSUME NEW c \in Client PROVE sub'[c] \in Subscriber /\ FedFrom(sub'[c], l)
  <2>1. PICK v \in Subscriber : v = sub[c]
    BY DEF FedInv
  <2>2. FedFrom(v, log) /\ log \in Seq(Event)
    BY <2>1 DEF FedInv, TellsInv
  <2>3. CASE v.at = "off"
    <3>1. sub'[c] = v
      BY <2>1, <2>3 DEF Publish
    <3>2. FedFrom(v, l)
      BY <2>2, <2>3 DEF FedFrom
    <3> QED BY <3>1, <3>2
  <2>4. CASE v.at # "off"
    <3>1. sub'[c] = [v EXCEPT !.queue = Put(@, e)]
      BY <2>1, <2>4 DEF Publish
    <3> QED BY <1>1, <2>2, <2>4, <3>1, FedByPublish
  <2> QED BY <2>3, <2>4
<1>6. sub' \in [Client -> Subscriber]
  <2>1. sub' = [c \in Client |-> sub'[c]]
    BY DEF Publish
  <2> QED BY <1>5, <2>1
<1> QED BY <1>2, <1>3, <1>4, <1>5, <1>6, EventsAssumption DEF FedInv

\* A handler that does something else than wait for an event leaves the others alone.
LEMMA HandlerKeeps ==
    ASSUME TellsInv, FedInv, NEW c \in Client, NEW v \in Subscriber, FedFrom(v, log),
           sub' = [sub EXCEPT ![c] = v], log' = log
    PROVE  FedInv'
<1>1. sub' \in [Client -> Subscriber]
  BY DEF FedInv
<1>2. ASSUME NEW d \in Client PROVE FedFrom(sub'[d], log')
  <2>1. CASE d = c
    <3>1. sub'[d] = v
      BY <2>1 DEF FedInv
    <3> QED BY <3>1
  <2>2. CASE d # c
    <3>1. sub'[d] = sub[d]
      BY <2>2 DEF FedInv
    <3> QED BY <3>1 DEF FedInv
  <2> QED BY <2>1, <2>2
<1> QED BY <1>1, <1>2 DEF FedInv

LEMMA OffIsFed ==
    Off \in Subscriber /\ \A l \in Seq(Event) : FedFrom(Off, l)
<1>1. Off \in Subscriber
  BY DEF Off, Subscriber
<1>2. ASSUME NEW l \in Seq(Event) PROVE FedFrom(Off, l)
  <2>1. Off.at = "off" /\ Off.queue = <<>> /\ Len(<<>>) = 0
    BY DEF Off
  <2> QED BY <2>1, EventsAssumption DEF FedFrom
<1> QED BY <1>1, <1>2

LEMMA ConnectKeeps == ASSUME TellsInv, FedInv, NEW c \in Client, Connect(c) PROVE FedInv'
<1>1. PICK n \in Nat : n = Len(log)
  BY DEF TellsInv
<1>2. PICK v : v = [Off EXCEPT !.at = "wait", !.from = n]
  OBVIOUS
<1>3. v \in Subscriber
  BY <1>2, OffIsFed DEF Subscriber
<1>4. sub' = [sub EXCEPT ![c] = v] /\ log' = log
  BY <1>1, <1>2 DEF Connect
<1>5. FedFrom(v, log)
  <2>1. v.at = "wait" /\ v.queue = <<>> /\ Len(<<>>) = 0 /\ v.from = n
    BY <1>2 DEF Off
  <2> QED BY <1>1, <2>1, EventsAssumption DEF FedFrom
<1> QED BY <1>3, <1>4, <1>5, HandlerKeeps

LEMMA GetKeeps == ASSUME TellsInv, FedInv, NEW c \in Client, Get(c) PROVE FedInv'
<1>1. PICK v \in Subscriber : v = sub[c]
  BY DEF FedInv
<1>2. FedFrom(v, log) /\ v.at = "wait" /\ v.queue # <<>>
  BY <1>1 DEF FedInv, Get
<1>3. PICK q \in Seq(Event) : q = v.queue
  BY DEF Subscriber
<1>4. PICK t \in Seq(Event) : t = Tail(q)
  BY <1>2, <1>3, HeadTailProperties
<1>5. PICK k \in Nat : k = Len(q)
  OBVIOUS
<1>6. PICK n \in Nat : n = Len(log)
  BY DEF TellsInv
<1>7. PICK f \in Nat : f = v.from
  BY DEF Subscriber
<1>8. k >= 1 /\ Head(q) = q[1] /\ q[1] \in Event /\ Len(t) = k - 1 /\ \A i \in 1..k - 1 : t[i] = q[i + 1]
  <2>1. k # 0
    BY <1>2, <1>3, <1>5, EmptySeq
  <2>2. 1 \in 1..Len(q)
    BY <1>5, <2>1
  <2>3. q[1] \in Event
    BY <2>2, ElementOfSeq
  <2>4. Len(t) = k - 1 /\ \A i \in 1..k - 1 : t[i] = q[i + 1]
    BY <1>2, <1>3, <1>4, <1>5, HeadTailProperties
  <2> QED BY <2>1, <2>3, <2>4
<1>9. PICK w : w = [sub[c] EXCEPT !.at = "send", !.event = Head(sub[c].queue), !.queue = Tail(@)]
  OBVIOUS
<1>10. w \in Subscriber /\ w.at = "send" /\ w.event = q[1] /\ w.queue = t /\ w.from = f
  BY <1>1, <1>3, <1>4, <1>7, <1>8, <1>9 DEF Subscriber
<1>11. sub' = [sub EXCEPT ![c] = w] /\ log' = log
  BY <1>9 DEF Get
<1>12. k <= QueueSize /\ f + k <= n /\ \A i \in 1..k : q[i] = log[n - k + i]
  BY <1>2, <1>3, <1>5, <1>6, <1>7 DEF FedFrom
<1>13. \A i \in 1..k - 1 : t[i] = log[n - (k - 1) + i]
  <2> SUFFICES ASSUME NEW i \in 1..k - 1 PROVE t[i] = log[n - (k - 1) + i]
    OBVIOUS
  <2>1. i + 1 \in 1..k /\ n - k + (i + 1) = n - (k - 1) + i
    OBVIOUS
  <2> QED BY <1>8, <1>12, <2>1
<1>14. \E i \in f + 1..n - (k - 1) : log[i] = q[1]
  <2>1. 1 \in 1..k /\ n - k + 1 \in f + 1..n - (k - 1)
    BY <1>8, <1>12
  <2> QED BY <1>12, <2>1
<1>15. FedFrom(w, log)
  <2>1. Len(w.queue) = k - 1 /\ Len(w.queue) <= QueueSize
    BY <1>8, <1>10, <1>12, EventsAssumption
  <2>2. w.from + Len(w.queue) <= Len(log)
    BY <1>6, <1>10, <1>12, <2>1
  <2>3. \A i \in 1..Len(w.queue) : w.queue[i] = log[Len(log) - Len(w.queue) + i]
    BY <1>6, <1>10, <1>13, <2>1
  <2>4. \E i \in w.from + 1..Len(log) - Len(w.queue) : log[i] = w.event
    BY <1>6, <1>10, <1>14, <2>1
  <2> QED BY <1>10, <2>1, <2>2, <2>3, <2>4 DEF FedFrom
<1> QED BY <1>10, <1>11, <1>15, HandlerKeeps

\* What is sent, or found to be gone, has nothing to do with the queue.
LEMMA OtherHandlerKeeps ==
    ASSUME TellsInv, FedInv, NEW c \in Client, Send(c) \/ Ping(c) \/ GoAway(c)
    PROVE  FedInv'
<1>1. PICK v \in Subscriber : v = sub[c]
  BY DEF FedInv
<1>2. FedFrom(v, log) /\ log' = log
  BY <1>1 DEF FedInv, Send, Ping, GoAway
<1>3. PICK w : w = [v EXCEPT !.at = "wait", !.event = <<>>]
  OBVIOUS
<1>4. PICK x : x = [v EXCEPT !.gone = TRUE]
  OBVIOUS
<1>5. w \in Subscriber /\ w.at = "wait" /\ w.queue = v.queue /\ w.from = v.from
  BY <1>3 DEF Subscriber
<1>6. x \in Subscriber /\ x.at = v.at /\ x.queue = v.queue /\ x.from = v.from /\ x.event = v.event
  BY <1>4 DEF Subscriber
<1>7. v.at = "send" => FedFrom(w, log)
  BY <1>2, <1>5 DEF FedFrom
<1>8. FedFrom(x, log)
  BY <1>2, <1>6 DEF FedFrom
<1>9. FedFrom(Off, log) /\ Off \in Subscriber
  BY OffIsFed DEF TellsInv
<1>10. \/ sub' = [sub EXCEPT ![c] = Off]
       \/ v.at = "send" /\ sub' = [sub EXCEPT ![c] = w]
       \/ sub' = [sub EXCEPT ![c] = v]
       \/ sub' = [sub EXCEPT ![c] = x]
  <2>1. CASE Send(c)
    BY <1>1, <1>3, <2>1 DEF Send, FedInv
  <2>2. CASE Ping(c)
    BY <1>1, <2>2 DEF Ping, FedInv
  <2>3. CASE GoAway(c)
    BY <1>1, <1>4, <2>3 DEF GoAway, FedInv
  <2> QED BY <2>1, <2>2, <2>3
<1> QED BY <1>2, <1>5, <1>6, <1>7, <1>8, <1>9, <1>10, HandlerKeeps

LEMMA FeedInit == EvInit => FeedInv
<1> SUFFICES ASSUME EvInit PROVE FeedInv
  OBVIOUS
<1>1. <<>> \in Seq(Event) /\ Len(<<>>) = 0
  OBVIOUS
<1>2. (CHOOSE s \in Watched : TRUE) \in Watched
  BY EventsAssumption
<1>3. TellsInv
  BY <1>1, <1>2, EventsAssumption DEF EvInit, TellsInv, Silent
<1>4. WriterInv
  BY <1>2, EventsAssumption DEF EvInit, WriterInv, Quiet
<1>5. FedInv
  <2>1. \A c \in Client : sub[c] = Off
    BY DEF EvInit
  <2>2. sub \in [Client -> Subscriber]
    BY OffIsFed DEF EvInit
  <2> QED BY <1>3, <2>1, <2>2, OffIsFed DEF FedInv, TellsInv
<1> QED BY <1>3, <1>4, <1>5 DEF FeedInv

\* Rows only grow, and what is told of them stays true.
LEMMA RowsGrow ==
    ASSUME TellsInv, FedInv, rows' \in [Watched -> -1..MaxShown], \A s \in Watched : rows'[s] >= rows[s],
           log' = log, sub' = sub, narrator' \in [at : {"asleep", "chat"}, s : Watched]
    PROVE  TellsInv' /\ FedInv'
<1>1. ASSUME NEW i \in 1..Len(log) PROVE InRows(log[i])'
  <2>1. log[i] \in Event
    BY ElementOfSeq DEF TellsInv
  <2>2. PICK e \in Event : e = log[i]
    BY <2>1
  <2>3. e[2] \in Watched /\ e[3] \in Int
    BY EventsAssumption DEF Event
  <2>4. InRows(e)
    BY <2>2 DEF TellsInv
  <2>5. rows[e[2]] \in Int /\ rows'[e[2]] \in Int /\ rows'[e[2]] >= rows[e[2]]
    BY <2>3, EventsAssumption DEF TellsInv
  <2> QED BY <2>2, <2>3, <2>4, <2>5 DEF InRows
<1> QED BY <1>1 DEF TellsInv, FedInv

\* An event of the writer or the narrator, told once the rows have it.
LEMMA TellingKeeps ==
    ASSUME FeedInv, NEW e \in Event, Publish(e), InRows(e), rows' = rows,
           narrator' \in [at : {"asleep", "chat"}, s : Watched], WriterInv'
    PROVE  FeedInv'
<1>1. /\ log' \in Seq(Event) /\ Len(log') <= MaxLog
      /\ \A i \in 1..Len(log') : InRows(log'[i])
      /\ FedInv'
  BY PublishKeeps DEF FeedInv
<1>2. PICK l : l = log'
  OBVIOUS
<1>3. \A i \in 1..Len(l) : InRows(l[i])'
  BY <1>1, <1>2 DEF InRows
<1> QED BY <1>1, <1>2, <1>3 DEF FeedInv, TellsInv

LEMMA WriterStarts ==
    ASSUME FeedInv, NEW s \in Watched, NEW more \in {0, 1}, BeginUpdate(s, more)
    PROVE  FeedInv'
<1>1. rows[s] \in Int /\ -1 <= rows[s] /\ rows[s] <= MaxShown /\ MaxShown \in Nat
  BY EventsAssumption DEF FeedInv, TellsInv
<1>2. PICK stored \in 0..MaxShown : stored = IF rows[s] = -1 THEN 0 ELSE rows[s]
  BY <1>1
<1>3. stored + more \in 0..MaxShown
  BY <1>1, <1>2 DEF BeginUpdate
<1>4. writer' = [at |-> "upsert", s |-> s, had |-> rows[s], upto |-> stored + more, n |-> stored]
  BY <1>2 DEF BeginUpdate
<1>5. WriterInv'
  BY <1>1, <1>2, <1>3, <1>4 DEF WriterInv
<1>6. UNCHANGED <<rows, log, narrator, sub>>
  BY DEF BeginUpdate
<1> QED BY <1>5, <1>6 DEF FeedInv, TellsInv, FedInv, InRows

LEMMA QuietIsSound == Quiet \in [at : {"idle"}, s : Watched, had : -1..MaxShown, upto : 0..MaxShown, n : 0..MaxShown]
<1>1. (CHOOSE s \in Watched : TRUE) \in Watched
  BY EventsAssumption
<1> QED BY <1>1, EventsAssumption DEF Quiet

LEMMA WriterKeeps ==
    ASSUME FeedInv, UpsertRow \/ RecordTurns \/ Announce \/ AnnounceCommand
    PROVE  FeedInv'
<1>1. /\ writer.s \in Watched /\ writer.upto \in 0..MaxShown /\ writer.n \in 0..MaxShown /\ writer.had \in -1..MaxShown
      /\ MaxShown \in Nat
  BY EventsAssumption DEF FeedInv, WriterInv
<1>2. rows[writer.s] \in Int /\ -1 <= rows[writer.s] /\ rows[writer.s] <= MaxShown
  BY <1>1 DEF FeedInv, TellsInv
<1>3. CASE UpsertRow
  <2>1. rows' = [rows EXCEPT ![writer.s] = IF rows[writer.s] = -1 THEN 0 ELSE rows[writer.s]]
    BY <1>3 DEF UpsertRow
  <2>2. /\ rows' \in [Watched -> -1..MaxShown] /\ \A s \in Watched : rows'[s] >= rows[s]
        /\ rows'[writer.s] >= 0
    BY <1>1, <1>2, <2>1 DEF FeedInv, TellsInv
  <2>3. writer' = [writer EXCEPT !.at = "turns"] /\ UNCHANGED <<log, narrator, sub>>
    BY <1>3 DEF UpsertRow, Writing
  <2>4. WriterInv'
    BY <2>2, <2>3 DEF FeedInv, WriterInv
  <2> QED BY <2>2, <2>3, <2>4, RowsGrow DEF FeedInv, TellsInv
<1>4. CASE RecordTurns
  <2>1. UNCHANGED <<log, narrator, sub>> /\ writer.at = "turns" /\ rows[writer.s] >= 0
    BY <1>4 DEF RecordTurns, FeedInv, WriterInv
  <2>2. CASE rows[writer.s] < writer.upto
    <3>1. rows' = [rows EXCEPT ![writer.s] = rows[writer.s] + 1] /\ writer' = writer
      BY <1>4, <2>2 DEF RecordTurns
    <3>2. rows[writer.s] + 1 \in 0..MaxShown
      BY <1>1, <1>2, <2>1, <2>2
    <3>3. /\ rows' \in [Watched -> -1..MaxShown] /\ \A s \in Watched : rows'[s] >= rows[s]
          /\ rows'[writer.s] >= 0
      BY <1>1, <1>2, <3>1, <3>2 DEF FeedInv, TellsInv
    <3>4. WriterInv'
      BY <2>1, <3>1, <3>3 DEF FeedInv, WriterInv
    <3> QED BY <2>1, <3>3, <3>4, RowsGrow DEF FeedInv, TellsInv
  <2>3. CASE ~(rows[writer.s] < writer.upto)
    <3>1. rows' = rows /\ writer' = [writer EXCEPT !.at = "announce"]
      BY <1>4, <2>3 DEF RecordTurns, Writing
    <3>2. WriterInv'
      BY <1>1, <1>2, <2>1, <2>3, <3>1 DEF FeedInv, WriterInv
    <3> QED BY <2>1, <3>1, <3>2 DEF FeedInv, TellsInv, FedInv, InRows
  <2> QED BY <2>2, <2>3
<1>5. CASE Announce
  <2>1. writer.at = "announce" /\ rows[writer.s] >= writer.upto /\ UNCHANGED <<rows, narrator>>
    BY <1>5 DEF Announce, FeedInv, WriterInv
  <2>2. PICK e : e = <<IF writer.had = -1 THEN "started" ELSE "updated", writer.s, writer.upto>>
    OBVIOUS
  <2>3. e \in Event /\ InRows(e) /\ Publish(e)
    BY <1>1, <1>5, <2>1, <2>2 DEF Event, InRows, Announce
  <2>4. \/ writer.n < writer.upto /\ writer' = [writer EXCEPT !.at = "commands"]
        \/ writer' = Quiet
    BY <1>5 DEF Announce, Writing
  <2>5. WriterInv'
    <3>1. CASE writer.n < writer.upto /\ writer' = [writer EXCEPT !.at = "commands"]
      BY <1>1, <1>2, <2>1, <3>1 DEF FeedInv, WriterInv
    <3>2. CASE writer' = Quiet
      BY <3>2, QuietIsSound DEF WriterInv
    <3> QED BY <2>4, <3>1, <3>2
  <2> QED BY <2>1, <2>3, <2>5, TellingKeeps DEF FeedInv, TellsInv
<1>6. CASE AnnounceCommand
  <2>1. /\ writer.at = "commands" /\ rows[writer.s] >= writer.upto /\ writer.n < writer.upto
        /\ UNCHANGED <<rows, narrator>>
    BY <1>6 DEF AnnounceCommand, FeedInv, WriterInv
  <2>2. PICK e : e = <<"command", writer.s, writer.n + 1>>
    OBVIOUS
  <2>3. writer.n + 1 \in 0..MaxShown /\ rows[writer.s] >= writer.n + 1
    BY <1>1, <1>2, <2>1
  <2>4. e \in Event /\ InRows(e) /\ Publish(e)
    BY <1>1, <1>6, <2>2, <2>3 DEF Event, InRows, AnnounceCommand
  <2>5. WriterInv'
    <3>1. CASE writer.n + 1 < writer.upto /\ writer' = [writer EXCEPT !.n = writer.n + 1]
      BY <1>1, <1>2, <2>1, <2>3, <3>1 DEF FeedInv, WriterInv
    <3>2. CASE writer' = Quiet
      BY <3>2, QuietIsSound DEF WriterInv
    <3> QED BY <1>6, <3>1, <3>2 DEF AnnounceCommand
  <2> QED BY <2>1, <2>4, <2>5, TellingKeeps DEF FeedInv, TellsInv
<1> QED BY <1>3, <1>4, <1>5, <1>6

LEMMA WriterTells ==
    ASSUME FeedInv,
           \/ \E s \in Watched : BeginOther(s, "end") \/ BeginOther(s, "intent")
           \/ StoreOther \/ StoreFails
    PROVE  FeedInv'
<1>1. CASE \E s \in Watched : BeginOther(s, "end") \/ BeginOther(s, "intent")
  <2>1. PICK s \in Watched, at \in {"end", "intent"} : BeginOther(s, at)
    BY <1>1
  <2>2. rows[s] \in -1..MaxShown
    BY DEF FeedInv, TellsInv
  <2>3. writer' = [Quiet EXCEPT !.at = at, !.s = s] /\ UNCHANGED <<rows, log, narrator, sub>> /\ (at = "end" => rows[s] >= 0)
    <3>1. writer' = [Quiet EXCEPT !.at = at, !.s = s] /\ UNCHANGED <<rows, log, narrator, sub>>
      BY <2>1 DEF BeginOther
    <3>2. at = "end" => rows[s] # -1
      BY <2>1 DEF BeginOther
    <3> QED BY <2>2, <3>1, <3>2, EventsAssumption
  <2>4. WriterInv'
    BY <2>1, <2>3, QuietIsSound DEF WriterInv
  <2> QED BY <2>3, <2>4 DEF FeedInv, TellsInv, FedInv, InRows
<1>2. CASE StoreOther
  <2>1. writer.at \in {"end", "intent"} /\ writer.s \in Watched /\ UNCHANGED <<rows, narrator>> /\ writer' = Quiet
    BY <1>2 DEF StoreOther, Writing, FeedInv, WriterInv
  <2>2. PICK e : e = <<IF writer.at = "end" THEN "ended" ELSE "intent", writer.s, 0>>
    OBVIOUS
  <2>3. writer.at = "end" => rows[writer.s] >= 0
    BY DEF FeedInv, WriterInv
  <2>4. e \in Event /\ InRows(e) /\ Publish(e)
    BY <1>2, <2>1, <2>2, <2>3, EventsAssumption DEF Event, InRows, StoreOther
  <2>5. WriterInv'
    BY <2>1, QuietIsSound DEF WriterInv
  <2> QED BY <2>1, <2>4, <2>5, TellingKeeps DEF FeedInv, TellsInv
<1>3. CASE StoreFails
  <2>1. writer' = Quiet /\ UNCHANGED <<rows, log, narrator, sub>>
    BY <1>3 DEF StoreFails, Writing
  <2>2. WriterInv'
    BY <2>1, QuietIsSound DEF WriterInv
  <2> QED BY <2>1, <2>2 DEF FeedInv, TellsInv, FedInv, InRows
<1> QED BY <1>1, <1>2, <1>3

LEMMA NarratorKeeps ==
    ASSUME FeedInv, (\E s \in Watched : NarrateSession(s)) \/ Narrate \/ NarrateNothing
    PROVE  FeedInv'
<1>1. Silent \in [at : {"asleep", "chat"}, s : Watched]
  <2>1. (CHOOSE s \in Watched : TRUE) \in Watched
    BY EventsAssumption
  <2> QED BY <2>1 DEF Silent
<1>2. CASE (\E s \in Watched : NarrateSession(s)) \/ NarrateNothing
  <2>1. narrator' \in [at : {"asleep", "chat"}, s : Watched] /\ UNCHANGED <<rows, log, writer, sub>>
    BY <1>1, <1>2 DEF NarrateSession, NarrateNothing
  <2> QED BY <2>1 DEF FeedInv, TellsInv, WriterInv, FedInv, InRows
<1>3. CASE Narrate
  <2>1. PICK e : e = <<"narrated", narrator.s, 0>>
    OBVIOUS
  <2>2. narrator.s \in Watched
    BY DEF FeedInv, TellsInv
  <2>3. e \in Event /\ InRows(e) /\ Publish(e)
    BY <1>3, <2>1, <2>2, EventsAssumption DEF Event, InRows, Narrate
  <2>4. narrator' \in [at : {"asleep", "chat"}, s : Watched] /\ UNCHANGED <<rows, writer>>
    BY <1>1, <1>3 DEF Narrate
  <2>5. WriterInv'
    BY <2>4 DEF FeedInv, WriterInv
  <2> QED BY <2>3, <2>4, <2>5, TellingKeeps
<1> QED BY <1>2, <1>3

LEMMA RestartKeeps == ASSUME FeedInv, Restart PROVE FeedInv'
<1>1. rows' = rows /\ log' = <<>> /\ writer' = Quiet /\ narrator' = Silent /\ sub' = [c \in Client |-> Off]
  BY DEF Restart
<1>2. <<>> \in Seq(Event) /\ Len(<<>>) = 0
  OBVIOUS
<1>3. Silent \in [at : {"asleep", "chat"}, s : Watched]
  <2>1. (CHOOSE s \in Watched : TRUE) \in Watched
    BY EventsAssumption
  <2> QED BY <2>1 DEF Silent
<1>4. TellsInv'
  BY <1>1, <1>2, <1>3, EventsAssumption DEF FeedInv, TellsInv
<1>5. WriterInv'
  BY <1>1, QuietIsSound DEF WriterInv
<1>6. FedInv'
  <2>1. \A c \in Client : sub'[c] = Off
    BY <1>1
  <2>2. sub' \in [Client -> Subscriber]
    BY <1>1, OffIsFed
  <2> QED BY <1>1, <1>2, <2>1, <2>2, OffIsFed DEF FedInv
<1> QED BY <1>4, <1>5, <1>6 DEF FeedInv

LEMMA FeedStep == FeedInv /\ [EvNext]_evVars => FeedInv'
<1> SUFFICES ASSUME FeedInv, [EvNext]_evVars PROVE FeedInv'
  OBVIOUS
<1>1. CASE \E s \in Watched : \E more \in {0, 1} : BeginUpdate(s, more)
  BY <1>1, WriterStarts
<1>2. CASE UpsertRow \/ RecordTurns \/ Announce \/ AnnounceCommand
  BY <1>2, WriterKeeps
<1>3. CASE (\E s \in Watched : BeginOther(s, "end") \/ BeginOther(s, "intent")) \/ StoreOther \/ StoreFails
  BY <1>3, WriterTells
<1>4. CASE (\E s \in Watched : NarrateSession(s)) \/ Narrate \/ NarrateNothing
  BY <1>4, NarratorKeeps
<1>5. CASE Restart
  BY <1>5, RestartKeeps
<1>6. CASE \E c \in Client : Connect(c) \/ Get(c) \/ Send(c) \/ Ping(c) \/ GoAway(c)
  <2>1. PICK c \in Client : Connect(c) \/ Get(c) \/ Send(c) \/ Ping(c) \/ GoAway(c)
    BY <1>6
  <2>2. UNCHANGED <<rows, log, writer, narrator>>
    BY <2>1 DEF Connect, Get, Send, Ping, GoAway
  <2>3. FedInv'
    BY <2>1, ConnectKeeps, GetKeeps, OtherHandlerKeeps DEF FeedInv
  <2> QED BY <2>2, <2>3 DEF FeedInv, TellsInv, WriterInv, InRows
<1>7. CASE UNCHANGED evVars
  BY <1>7 DEF evVars, FeedInv, TellsInv, WriterInv, FedInv, InRows
<1> QED BY <1>1, <1>2, <1>3, <1>4, <1>5, <1>6, <1>7 DEF EvNext

\* The end of a sequence is a suffix of it.
LEMMA EndIsSuffix ==
    ASSUME NEW q \in Seq(Event), NEW l \in Seq(Event), Len(q) <= Len(l),
           \A i \in 1..Len(q) : q[i] = l[Len(l) - Len(q) + i]
    PROVE  IsSuffix(q, l)
<1>1. PICK k \in Nat : k = Len(q)
  OBVIOUS
<1>2. PICK n \in Nat : n = Len(l)
  OBVIOUS
<1>3. PICK b : b = Reverse(q)
  OBVIOUS
<1>4. PICK d : d = Reverse(l)
  OBVIOUS
<1>5. b \in Seq(Event) /\ Len(b) = k /\ \A i \in 1..k : b[i] = q[(k - i) + 1]
  <2>1. b = [i \in 1..k |-> q[(k - i) + 1]]
    BY <1>1, <1>3 DEF Reverse
  <2>2. \A i \in 1..k : q[(k - i) + 1] \in Event
    <3> SUFFICES ASSUME NEW i \in 1..k PROVE q[(k - i) + 1] \in Event
      OBVIOUS
    <3>1. (k - i) + 1 \in 1..Len(q)
      BY <1>1
    <3> QED BY <3>1, ElementOfSeq
  <2> QED BY <2>1, <2>2
<1>6. d \in Seq(Event) /\ Len(d) = n /\ \A i \in 1..n : d[i] = l[(n - i) + 1]
  <2>1. d = [i \in 1..n |-> l[(n - i) + 1]]
    BY <1>2, <1>4 DEF Reverse
  <2>2. \A i \in 1..n : l[(n - i) + 1] \in Event
    <3> SUFFICES ASSUME NEW i \in 1..n PROVE l[(n - i) + 1] \in Event
      OBVIOUS
    <3>1. (n - i) + 1 \in 1..Len(l)
      BY <1>2
    <3> QED BY <3>1, ElementOfSeq
  <2> QED BY <2>1, <2>2
<1>7. k <= n
  BY <1>1, <1>2
<1>8. \A i \in 1..k : b[i] = d[i]
  <2> SUFFICES ASSUME NEW i \in 1..k PROVE b[i] = d[i]
    OBVIOUS
  <2>1. PICK j : j = (k - i) + 1
    OBVIOUS
  <2>2. j \in 1..k /\ n - k + j = (n - i) + 1 /\ i \in 1..n
    BY <1>7, <2>1
  <2>3. q[j] = l[n - k + j]
    BY <1>1, <1>2, <2>2
  <2> QED BY <1>5, <1>6, <2>1, <2>2, <2>3
<1>9. SubSeq(b, 1, k) = SubSeq(d, 1, k)
  <2>1. PICK x \in Seq(Event) : x = SubSeq(b, 1, k)
    BY <1>5, <1>7, SubSeqProperties
  <2>2. PICK y \in Seq(Event) : y = SubSeq(d, 1, k)
    <3>1. \A i \in 1..k : d[i] \in Event
      <4> SUFFICES ASSUME NEW i \in 1..k PROVE d[i] \in Event
        OBVIOUS
      <4>1. i \in 1..Len(d)
        BY <1>6, <1>7
      <4> QED BY <1>6, <4>1, ElementOfSeq
    <3>2. SubSeq(d, 1, k) \in Seq(Event)
      BY <3>1, SubSeqProperties
    <3> QED BY <3>2
  <2>3. Len(x) = k /\ \A i \in 1..k : x[i] = b[i]
    BY <1>5, <2>1
  <2>4. Len(y) = k /\ \A i \in 1..k : y[i] = d[i]
    BY <1>6, <1>7, <2>2
  <2> QED BY <1>8, <2>1, <2>2, <2>3, <2>4, SeqEqual
<1> QED BY <1>3, <1>4, <1>5, <1>6, <1>7, <1>9 DEF IsSuffix, IsPrefix

\* The end of the log, and what is between the beginning of a handler and its queue.
LEMMA EndsTheLog ==
    ASSUME NEW l \in Seq(Event), NEW q \in Seq(Event), NEW f \in Nat,
           f + Len(q) <= Len(l), \A i \in 1..Len(q) : q[i] = l[Len(l) - Len(q) + i]
    PROVE  /\ IsSuffix(q, SubSeq(l, f + 1, Len(l)))
           /\ \A i \in f + 1..Len(l) - Len(q) :
                  Contains(SubSeq(SubSeq(l, f + 1, Len(l)), 1, Len(SubSeq(l, f + 1, Len(l))) - Len(q)), l[i])
<1>1. PICK n \in Nat : n = Len(l)
  OBVIOUS
<1>2. PICK k \in Nat : k = Len(q)
  OBVIOUS
<1>3. PICK since : since = SubSeq(l, f + 1, n)
  OBVIOUS
<1>4. PICK older : older = SubSeq(since, 1, Len(since) - k)
  OBVIOUS
<1>5. f + k <= n /\ \A i \in 1..k : q[i] = l[n - k + i]
  BY <1>1, <1>2
<1>6. PICK d \in Nat : d = n - f
  <2>1. n - f \in Nat
    BY <1>5
  <2> QED BY <2>1
<1>7. \A i \in f + 1..n : l[i] \in Event
  <2> SUFFICES ASSUME NEW i \in f + 1..n PROVE l[i] \in Event
    OBVIOUS
  <2>1. i \in 1..Len(l)
    BY <1>1
  <2> QED BY <2>1, ElementOfSeq
<1>8. since \in Seq(Event) /\ Len(since) = d /\ \A i \in 1..d : since[i] = l[f + i]
  <2>1. /\ since \in Seq(Event)
        /\ Len(since) = IF f + 1 <= n THEN n - (f + 1) + 1 ELSE 0
        /\ \A i \in 1..n - (f + 1) + 1 : since[i] = l[(f + 1) + i - 1]
    BY <1>7, <1>3, SubSeqProperties
  <2>2. n - (f + 1) + 1 = d /\ \A i \in 1..d : (f + 1) + i - 1 = f + i
    BY <1>6
  <2>3. Len(since) = d
    BY <1>6, <2>1, <2>2
  <2> QED BY <2>1, <2>2, <2>3
<1>9. k <= d /\ k \in 0..d
  BY <1>6, <1>5
<1>10. \A i \in 1..k : q[i] = since[d - k + i]
  <2> SUFFICES ASSUME NEW i \in 1..k PROVE q[i] = since[d - k + i]
    OBVIOUS
  <2>1. PICK j : j = d - k + i
    OBVIOUS
  <2>2. j \in 1..d /\ f + j = n - k + i
    BY <1>6, <1>9, <2>1
  <2>3. since[j] = l[n - k + i]
    BY <1>8, <2>2
  <2> QED BY <1>5, <2>1, <2>3
<1>11. IsSuffix(q, since)
  BY <1>8, <1>9, <1>10, <1>2, EndIsSuffix
<1>12. PICK m \in Nat : m = d - k
  <2>1. d - k \in Nat
    BY <1>9
  <2> QED BY <2>1
<1>13. Len(older) = m /\ \A j \in 1..m : older[j] = since[j]
  <2>1. older = SubSeq(since, 1, m)
    BY <1>8, <1>12, <1>4
  <2>2. \A j \in 1..m : since[j] \in Event
    <3> SUFFICES ASSUME NEW j \in 1..m PROVE since[j] \in Event
      OBVIOUS
    <3>1. j \in 1..Len(since)
      BY <1>8, <1>12
    <3> QED BY <1>8, <3>1, ElementOfSeq
  <2>3. PICK x : x = SubSeq(since, 1, m)
    OBVIOUS
  <2>4. m <= d
    BY <1>9, <1>12
  <2>5. Len(x) = m /\ \A j \in 1..m : x[j] = since[j]
    BY <1>8, <2>3, <2>4
  <2> QED BY <2>1, <2>3, <2>5
<1>14. ASSUME NEW i \in f + 1..n - k PROVE Contains(older, l[i])
  <2>1. i - f \in 1..m /\ i - f \in 1..d /\ f + (i - f) = i
    BY <1>6, <1>12
  <2>2. older[i - f] = l[i]
    BY <1>8, <1>13, <2>1
  <2> QED BY <1>13, <2>1, <2>2 DEF Contains
<1> QED BY <1>11, <1>14, <1>1, <1>2, <1>3, <1>4

LEMMA FeedIsInOrder == FeedInv => FeedInOrder
<1> SUFFICES ASSUME FeedInv PROVE FeedInOrder
  OBVIOUS
<1>1. EvTypeOK
  BY DEF FeedInv, TellsInv, WriterInv, FedInv, FedFrom, Subscriber, EvTypeOK
<1>2. ASSUME NEW c \in Client, sub[c].at # "off"
      PROVE  \E q \in Seq(Event), n \in Nat, k \in Nat, f \in Nat :
                /\ q = sub[c].queue /\ n = Len(log) /\ k = Len(q) /\ f = sub[c].from
                /\ f + k <= n /\ \A i \in 1..k : q[i] = log[n - k + i]
                /\ sub[c].at = "send" => \E i \in f + 1..n - k : log[i] = sub[c].event
  <2>1. sub[c] \in Subscriber /\ FedFrom(sub[c], log)
    BY DEF FeedInv, FedInv
  <2>2. sub[c].queue \in Seq(Event) /\ sub[c].from \in Nat /\ Len(log) \in Nat /\ Len(sub[c].queue) \in Nat
    BY <2>1 DEF Subscriber, FeedInv, TellsInv
  <2> QED BY <1>2, <2>1, <2>2 DEF FedFrom
<1>3. RowsFirst
  <2> SUFFICES ASSUME NEW c \in Client, NEW e \in Shown(c) PROVE InRows(e)
    BY DEF RowsFirst, InRows
  <2>1. sub[c].at # "off"
    <3>1. sub[c].at = "off" => sub[c].queue = <<>> /\ DOMAIN sub[c].queue = {}
      <4>1. sub[c].at = "off" => sub[c].queue = <<>>
        BY DEF FeedInv, FedInv, FedFrom
      <4>2. DOMAIN <<>> = {}
        OBVIOUS
      <4> QED BY <4>1, <4>2
    <3> QED BY <3>1 DEF Shown
  <2>2. PICK q \in Seq(Event), n \in Nat, k \in Nat, f \in Nat :
                /\ q = sub[c].queue /\ n = Len(log) /\ k = Len(q) /\ f = sub[c].from
                /\ f + k <= n /\ \A i \in 1..k : q[i] = log[n - k + i]
                /\ sub[c].at = "send" => \E i \in f + 1..n - k : log[i] = sub[c].event
    BY <1>2, <2>1
  <2>3. ASSUME NEW i \in 1..n PROVE InRows(log[i])
    BY <2>2 DEF FeedInv, TellsInv
  <2>4. CASE \E i \in DOMAIN q : q[i] = e
    <3>1. PICK i \in 1..k : q[i] = e
      BY <2>2, <2>4
    <3>2. n - k + i \in 1..n
      BY <2>2
    <3> QED BY <2>2, <2>3, <3>1, <3>2
  <2>5. CASE sub[c].at = "send" /\ e = sub[c].event
    <3>1. PICK i \in f + 1..n - k : log[i] = e
      BY <2>2, <2>5
    <3>2. i \in 1..n
      BY <2>2
    <3> QED BY <2>3, <3>1, <3>2
  <2> QED BY <2>2, <2>4, <2>5 DEF Shown
<1>4. QueueIsSuffix
  <2> SUFFICES ASSUME NEW c \in Client, sub[c].at # "off",
                      NEW since, since = SubSeq(log, sub[c].from + 1, Len(log)),
                      NEW older, older = SubSeq(since, 1, Len(since) - Len(sub[c].queue))
               PROVE  /\ IsSuffix(sub[c].queue, since)
                      /\ sub[c].at = "send" => Contains(older, sub[c].event)
    BY DEF QueueIsSuffix
  <2>1. PICK l \in Seq(Event) : l = log
    BY DEF FeedInv, TellsInv
  <2>2. PICK q \in Seq(Event) : q = sub[c].queue
    BY DEF FeedInv, FedInv, Subscriber
  <2>3. PICK f \in Nat : f = sub[c].from
    BY DEF FeedInv, FedInv, Subscriber
  <2>4. /\ f + Len(q) <= Len(l) /\ \A i \in 1..Len(q) : q[i] = l[Len(l) - Len(q) + i]
        /\ sub[c].at = "send" => \E i \in f + 1..Len(l) - Len(q) : l[i] = sub[c].event
    BY <2>1, <2>2, <2>3 DEF FeedInv, FedInv, FedFrom
  <2>5. /\ IsSuffix(q, SubSeq(l, f + 1, Len(l)))
        /\ \A i \in f + 1..Len(l) - Len(q) :
               Contains(SubSeq(SubSeq(l, f + 1, Len(l)), 1, Len(SubSeq(l, f + 1, Len(l))) - Len(q)), l[i])
    BY <2>4, EndsTheLog
  <2>6. since = SubSeq(l, f + 1, Len(l)) /\ older = SubSeq(since, 1, Len(since) - Len(q))
    BY <2>1, <2>2, <2>3
  <2> QED BY <2>2, <2>4, <2>5, <2>6
<1> QED BY <1>1, <1>3, <1>4 DEF FeedInOrder

\* What a browser is fed (dashboard/state.py, _EventBus.publish, and the web socket of
\* dashboard/routes.py): no event is in a queue or on the wire before its row is stored,
\* and a queue is the end of what was published, the event being sent before all of it,
\* for any sessions, browsers, length of a queue, failures of the store and restarts.
THEOREM FeedKept == EvSpec => []FeedInOrder
<1>1. EvSpec => []FeedInv
  BY FeedInit, FeedStep, PTL DEF EvSpec
<1> QED BY <1>1, FeedIsInOrder, PTL

=============================================================================
