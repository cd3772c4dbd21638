------------------------- MODULE CredentialRotation -------------------------
(***************************************************************************)
(* The credential database of the lure and the rotation of its key:        *)
(* src/anglerfish/credentials/ with the command that rotates, the lure     *)
(* that writes, and the operator who follows docs/RUNBOOK.md.              *)
(*                                                                         *)
(* A row is the triple it counts and the key it is encrypted under; how    *)
(* often the triple was tried is left out.  A file has its main part and   *)
(* what its sidecar holds.  The rotation may be killed between any two of  *)
(* its steps.  The lure does not start while one runs: a rotation that     *)
(* finds it connected refuses, and the operator stops the services first.  *)
(***************************************************************************)
EXTENDS Integers, FiniteSets

CONSTANTS
    Cred,       \* the triples one source tries
    RowCap,     \* max_unique_per_source_ip
    MaxKey,     \* bound: keys generated
    Absent      \* no such file

ASSUME RotationAssumption ==
    /\ RowCap \in Nat /\ MaxKey \in Nat
    /\ \A rows \in SUBSET (Cred \X (0..MaxKey)) : Absent # rows

VARIABLES
    dbFile,     \* [Path -> rows of the main file, or Absent]
    wal,         \* rows only the sidecar of the database holds
    rot,         \* the rotation under way: its next step and its two keys
    keys,        \* the last key generated
    dbKey,       \* the key the operator was told the database is under
    envKey,      \* the key in the services' environment
    lure,        \* the key of the running lure, -1 if it is stopped
    captured,    \* triples record_attempt stored
    early,       \* those recorded under another key than the database's
    skipped,     \* those a rotation counted as skipped
    fresh,       \* a database was created where the rotated one was missing
    overwritten  \* triples of a fresh database the recovery put away

rotVars == <<dbFile, wal, rot, keys, dbKey, envKey, lure, captured, early,
             skipped, fresh, overwritten>>
operVars == <<envKey, captured, early, overwritten, fresh>>

Path == {"db", "new", "bak"}
Row == Cred \X (0..MaxKey)
Key(row) == row[2]
Creds(rows) == {row[1] : row \in rows}
Exists(p) == dbFile[p] # Absent
Rows(p) == IF Exists(p) THEN dbFile[p] ELSE {}

RotTypeOK ==
    /\ dbFile \in [Path -> (SUBSET Row) \union {Absent}] /\ wal \subseteq Row
    /\ rot \in [at : {"none", "fold", "read", "copy", "refold", "aside", "place"},
                old : 0..MaxKey, new : 0..MaxKey]
    /\ {keys, dbKey, envKey} \subseteq 0..MaxKey /\ lure \in -1..MaxKey
    /\ captured \union early \union skipped \union overwritten \subseteq Cred
    /\ fresh \in BOOLEAN

AtRest == [at |-> "none", old |-> 0, new |-> 0]

RotInit ==
    /\ dbFile = [p \in Path |-> Absent] /\ wal = {}
    /\ rot = AtRest
    /\ keys = 0 /\ dbKey = 0 /\ envKey = 0 /\ lure = -1
    /\ captured = {} /\ early = {} /\ skipped = {} /\ overwritten = {}
    /\ fresh = FALSE

-----------------------------------------------------------------------------
(* The store, which only the lure opens. *)

\* What the database holds, and what a key reads of it: rows under another key
\* are left out of an answer.
Stored == Rows("db") \union wal
Query(key) == {row \in Stored : Key(row) = key}

\* open: the file is created if it is missing.
LureStart ==
    /\ lure = -1 /\ rot.at = "none"
    /\ lure' = envKey
    /\ dbFile' = [dbFile EXCEPT !["db"] = Rows("db")]
    /\ fresh' = (fresh \/ (~Exists("db") /\ Exists("bak")))
    /\ UNCHANGED <<wal, rot, keys, dbKey, envKey, captured, early, skipped,
                   overwritten>>

\* aclose: the last connection takes the sidecar with it.
LureStop ==
    /\ lure # -1
    /\ lure' = -1
    /\ dbFile' = [dbFile EXCEPT !["db"] = Stored] /\ wal' = {}
    /\ UNCHANGED <<rot, keys, dbKey, skipped, operVars>>

\* The lure is killed.
LureKill ==
    /\ lure # -1
    /\ lure' = -1
    /\ UNCHANGED <<dbFile, wal, rot, keys, dbKey, skipped, operVars>>

\* record_attempt of an attempt that validate_password passes on: a known triple
\* is counted, a new one gets a row unless its source has its share of them.
RecordAttempt(c) ==
    LET row == <<c, lure>> IN
    /\ lure # -1
    /\ row \in Stored \/ RowCap = 0 \/ Cardinality(Stored) < RowCap
    /\ wal' = IF row \in Stored THEN wal ELSE wal \union {row}
    /\ captured' = captured \union {c}
    /\ early' = IF lure = dbKey THEN early ELSE early \union {c}
    /\ UNCHANGED <<dbFile, rot, keys, dbKey, envKey, lure, skipped, fresh,
                   overwritten>>

-----------------------------------------------------------------------------
(* rotate_key, from the command line. *)

Step(at) == rot' = [rot EXCEPT !.at = at]

\* The database is there, and no earlier rotation left a file.
MayRotate == Exists("db") /\ ~Exists("new") /\ ~Exists("bak")

\* The command takes the old key from the environment, the new one from the
\* operator, who has just generated it.
Rotate ==
    /\ rot.at = "none" /\ keys < MaxKey /\ MayRotate
    /\ keys' = keys + 1
    /\ rot' = [at |-> "fold", old |-> envKey, new |-> keys + 1]
    /\ UNCHANGED <<dbFile, wal, dbKey, lure, skipped, operVars>>

\* Faulty variant of FoldSource: the sidecars are dropped, but not folded first.
DropSource ==
    /\ rot.at = "fold" /\ lure = -1
    /\ wal' = {}
    /\ Step("read")
    /\ UNCHANGED <<dbFile, keys, dbKey, lure, skipped, operVars>>

\* _fold_wal_and_drop_sidecars of the source: refused while the lure is
\* connected, for the journal mode cannot be changed under it.
FoldSource ==
    /\ rot.at = "fold"
    /\ IF lure = -1
       THEN /\ dbFile' = [dbFile EXCEPT !["db"] = Stored] /\ wal' = {}
            /\ Step("read")
       ELSE rot' = AtRest /\ UNCHANGED <<dbFile, wal>>
    /\ UNCHANGED <<keys, dbKey, lure, skipped, operVars>>

\* The work file is created with its schema.
CreateWork ==
    /\ rot.at = "read"
    /\ dbFile' = [dbFile EXCEPT !["new"] = {}]
    /\ Step("copy")
    /\ UNCHANGED <<wal, keys, dbKey, lure, skipped, operVars>>

\* Every row the old key reads is inserted under the new one, the others are
\* counted, and one commit makes the copy.
CopyRows ==
    LET readable == Query(rot.old) IN
    /\ rot.at = "copy"
    /\ dbFile' = [dbFile EXCEPT !["new"] = {<<row[1], rot.new>> : row \in readable}]
    /\ skipped' = skipped \union Creds(Stored \ readable)
    /\ Step("refold")
    /\ UNCHANGED <<wal, keys, dbKey, lure, operVars>>

\* The database fails: the work file is removed.
CopyFails ==
    /\ rot.at \in {"copy", "refold"}
    /\ dbFile' = [dbFile EXCEPT !["new"] = Absent]
    /\ rot' = AtRest
    /\ UNCHANGED <<wal, keys, dbKey, lure, skipped, operVars>>

\* The copy's own sidecar is folded: its one connection is closed already.
FoldWork ==
    /\ rot.at = "refold"
    /\ Step("aside")
    /\ UNCHANGED <<dbFile, wal, keys, dbKey, lure, skipped, operVars>>

\* The first move: a move takes the main file alone.
MoveAside ==
    /\ rot.at = "aside"
    /\ dbFile' = [dbFile EXCEPT !["bak"] = dbFile["db"], !["db"] = Absent]
    /\ Step("place")
    /\ UNCHANGED <<wal, keys, dbKey, lure, skipped, operVars>>

\* The second move, after which the command tells the operator of the new key.
\* A sidecar found at the path would be replayed over the file.
MovePlace ==
    /\ rot.at = "place"
    /\ dbFile' = [dbFile EXCEPT !["db"] = IF wal = {} THEN dbFile["new"] ELSE wal,
                            !["new"] = Absent]
    /\ dbKey' = rot.new
    /\ rot' = AtRest
    /\ UNCHANGED <<wal, keys, lure, skipped, operVars>>

\* The process dies, or a move fails.
RotationDies ==
    /\ rot.at # "none"
    /\ rot' = AtRest
    /\ UNCHANGED <<dbFile, wal, keys, dbKey, lure, skipped, operVars>>

-----------------------------------------------------------------------------
(* The operator, as the runbook says. *)

\* The environment gets the new key.
UpdateEnv ==
    /\ rot.at = "none" /\ envKey # dbKey
    /\ envKey' = dbKey
    /\ UNCHANGED <<dbFile, wal, rot, keys, dbKey, lure, captured, early, skipped,
                   fresh, overwritten>>

\* The backup is kept until a record has been read under the new key.
RemoveBackup ==
    /\ rot.at = "none" /\ ~fresh
    /\ Exists("bak") /\ Exists("db") /\ envKey = dbKey /\ Query(envKey) # {}
    /\ dbFile' = [dbFile EXCEPT !["bak"] = Absent]
    /\ UNCHANGED <<wal, rot, keys, dbKey, lure, skipped, operVars>>

\* A work file is removed, as the refusal asks.
RemoveWork ==
    /\ rot.at = "none" /\ Exists("new")
    /\ dbFile' = [dbFile EXCEPT !["new"] = Absent]
    /\ UNCHANGED <<wal, rot, keys, dbKey, lure, skipped, operVars>>

\* Recovery from a death between the moves: the backup goes back to its place,
\* over whatever a lure has created there since.  No sidecar is at the path.
Recover ==
    /\ rot.at = "none" /\ lure = -1 /\ wal = {} /\ Exists("bak")
    /\ ~Exists("db") \/ fresh
    /\ overwritten' = overwritten \union Creds(Rows("db"))
    /\ dbFile' = [dbFile EXCEPT !["db"] = dbFile["bak"], !["bak"] = Absent]
    /\ fresh' = FALSE
    /\ UNCHANGED <<wal, rot, keys, dbKey, envKey, lure, captured, early, skipped>>

RotNext ==
    \/ LureStart \/ LureStop \/ LureKill
    \/ \E c \in Cred : RecordAttempt(c)
    \/ Rotate \/ FoldSource \/ CreateWork \/ CopyRows \/ CopyFails \/ FoldWork
    \/ MoveAside \/ MovePlace \/ RotationDies
    \/ UpdateEnv \/ RemoveBackup \/ RemoveWork \/ Recover

RotSpec == RotInit /\ [][RotNext]_rotVars

-----------------------------------------------------------------------------
(* Properties. *)

\* The promise of the runbook (docs/RUNBOOK.md:78) and of rotate_key: whatever
\* step a rotation dies at and however it is recovered from, every triple stored
\* is in the database or in its backup.  Exempt are the rows a rotation reports
\* as skipped and what a lure stored in a database it created where the rotated
\* one was missing, which the recovery overwrites.
NothingLost ==
    captured \ (skipped \union overwritten)
        \subseteq Creds(Stored \union Rows("bak"))

\* Once the environment has the key the command asked for, the store reads every
\* triple it ever stored: a swap puts a whole copy under one key in place, and a
\* refused or dead one leaves the database under the old key.  Exempt are also
\* the rows of a lure that ran with a stale environment.
AllReadable ==
    rot.at = "none" /\ Exists("db") /\ ~fresh /\ envKey = dbKey =>
        captured \ (skipped \union overwritten \union early)
            \subseteq Creds(Query(envKey))

\* What a rotation, its crash and its recovery leave of the database.
RotationKeeps ==
    /\ RotTypeOK
    /\ NothingLost
    /\ AllReadable
=============================================================================
