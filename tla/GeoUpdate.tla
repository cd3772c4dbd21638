----------------------------- MODULE GeoUpdate ------------------------------
(***************************************************************************)
(* `anglerfish geo update`: each GeoLite2 edition is fetched, checked      *)
(* against its published checksum, staged next to the database and renamed *)
(* over it.  systemd's timer starts it, and the operator may by hand: a    *)
(* run is a process, which may die, and its disk may fill up.              *)
(*                                                                         *)
(* A build is the number the mirror gives it; a file is the builds its two *)
(* halves come from, so that a torn or a mixed one can be told.  Files are *)
(* inodes: the staged name and the database's name lead to them.           *)
(***************************************************************************)
EXTENDS Integers, SequencesExt

CONSTANTS
    Run,            \* processes
    MaxBuild        \* bound: builds the mirror publishes

ASSUME GeoAssumption == MaxBuild \in Nat

Edition == <<"City", "ASN">>

VARIABLES
    guBuild,        \* edition: the build the mirror has
    guRun,          \* process: [step, at, want, have, file]
    guFiles,        \* the inodes, in the order of their creation
    guStaged,       \* edition: the inode named <database>.mmdb.new, 0 for none
    guDatabase,     \* edition: the inode named <database>.mmdb, 0 for none
    guNewest,       \* history variable, edition: the newest build ever renamed into place
    guOverlapped    \* history variable: two runs were under way at once

guDisk == <<guFiles, guStaged, guDatabase, guNewest>>
guVars == <<guBuild, guRun, guDisk, guOverlapped>>

NoInode == 0
Torn == 0           \* neither half was written, or the archive is not what the mirror built
NotRun == [step |-> "none", at |-> 1, want |-> Torn, have |-> Torn, file |-> NoInode]
Stopped == {"none", "succeeded", "failed", "dead"}

GuInit ==
    /\ guBuild = [e \in Range(Edition) |-> 1]
    /\ guRun = [r \in Run |-> NotRun]
    /\ guFiles = <<>>
    /\ guStaged = [e \in Range(Edition) |-> NoInode] /\ guDatabase = guStaged
    /\ guNewest = [e \in Range(Edition) |-> Torn]
    /\ guOverlapped = FALSE

At(r, step) == guRun[r].step = step
Of(r) == Edition[guRun[r].at]
Go(r, step) == guRun' = [guRun EXCEPT ![r].step = step]

StartUpdate(r) ==
    /\ At(r, "none")
    /\ Go(r, "manifest")
    /\ guOverlapped' = (guOverlapped \/ \E q \in Run : guRun[q].step \notin Stopped)
    /\ UNCHANGED <<guBuild, guDisk>>

\* The mirror may go on to another build at any time, between a manifest and its archive too.
Publish(e) ==
    /\ guBuild[e] < MaxBuild
    /\ guBuild' = [guBuild EXCEPT ![e] = @ + 1]
    /\ UNCHANGED <<guRun, guDisk, guOverlapped>>

\* _fetch_one: the sha256 of the build there is.
Manifest(r) ==
    /\ At(r, "manifest")
    /\ guRun' = [guRun EXCEPT ![r].step = "archive", ![r].want = guBuild[Of(r)]]
    /\ UNCHANGED <<guBuild, guDisk, guOverlapped>>

\* The stream of the archive, which may end early or be altered on its way.
Download(r) ==
    /\ At(r, "archive")
    /\ \E got \in {guBuild[Of(r)], Torn} :
        guRun' = [guRun EXCEPT ![r].step = "check", ![r].have = got]
    /\ UNCHANGED <<guBuild, guDisk, guOverlapped>>

ChecksumMatches(want, have) == have = want

\* Faulty variant of OpenStaged: the database itself is opened and written over.
OpenInPlace(r) ==
    LET e == Of(r)
        i == Len(guFiles) + 1
    IN
    /\ At(r, "check") /\ ChecksumMatches(guRun[r].want, guRun[r].have)
    /\ guRun' = [guRun EXCEPT ![r].step = "first", ![r].file = i]
    /\ guStaged' = [guStaged EXCEPT ![e] = i] /\ guDatabase' = [guDatabase EXCEPT ![e] = i]
    /\ guFiles' = Append(guFiles, <<Torn, Torn>>)
    /\ UNCHANGED <<guBuild, guNewest, guOverlapped>>

\* copyfile opens the staged file for writing: one that a dead run left, or another run has open, is truncated.
OpenStaged(r) ==
    LET e == Of(r)
        i == IF guStaged[e] # NoInode THEN guStaged[e] ELSE Len(guFiles) + 1
    IN
    /\ At(r, "check") /\ ChecksumMatches(guRun[r].want, guRun[r].have)
    /\ guRun' = [guRun EXCEPT ![r].step = "first", ![r].file = i]
    /\ guStaged' = [guStaged EXCEPT ![e] = i]
    /\ guFiles' = [j \in 1..(IF i > Len(guFiles) THEN i ELSE Len(guFiles)) |->
                      IF j = i THEN <<Torn, Torn>> ELSE guFiles[j]]
    /\ UNCHANGED <<guBuild, guDatabase, guNewest, guOverlapped>>

\* A half of the file, wherever its names lead by now.
CopyHalf(r, step, half, next) ==
    /\ At(r, step)
    /\ Go(r, next)
    /\ guFiles' = [guFiles EXCEPT ![guRun[r].file][half] = guRun[r].have]
    /\ UNCHANGED <<guBuild, guStaged, guDatabase, guNewest, guOverlapped>>

Copy(r) == CopyHalf(r, "first", 1, "second") \/ CopyHalf(r, "second", 2, "replace")

\* Whatever has the staged name is the database from now on; then the next edition, or the line of the success.
ReplaceDatabase(r) ==
    LET e == Of(r) IN
    /\ At(r, "replace") /\ guStaged[e] # NoInode
    /\ guDatabase' = [guDatabase EXCEPT ![e] = guStaged[e]]
    /\ guStaged' = [guStaged EXCEPT ![e] = NoInode]
    /\ guNewest' = [guNewest EXCEPT ![e] = IF guRun[r].have > @ THEN guRun[r].have ELSE @]
    /\ guRun' = [guRun EXCEPT ![r] = IF @.at < Len(Edition)
                                     THEN [NotRun EXCEPT !.step = "manifest", !.at = guRun[r].at + 1]
                                     ELSE [@ EXCEPT !.step = "succeeded"]]
    /\ UNCHANGED <<guBuild, guFiles, guOverlapped>>

\* FetchError, of any leg: the mirror refuses, the sums differ, the archive is none or too large, the disk is full, the
\* staged name is gone.  geo.update_failed is audited and the editions that are left are not tried.
FailUpdate(r) ==
    /\ guRun[r].step \in {"manifest", "archive", "check", "first", "second", "replace"}
    /\ Go(r, "failed")
    /\ UNCHANGED <<guBuild, guDisk, guOverlapped>>

DieUpdating(r) ==
    /\ guRun[r].step \notin Stopped
    /\ Go(r, "dead")
    /\ UNCHANGED <<guBuild, guDisk, guOverlapped>>

GuNext ==
    \/ \E r \in Run :
        \/ StartUpdate(r) \/ Manifest(r) \/ Download(r) \/ OpenStaged(r) \/ Copy(r) \/ ReplaceDatabase(r)
        \/ FailUpdate(r) \/ DieUpdating(r)
    \/ \E e \in Range(Edition) : Publish(e)

GuSpec == GuInit /\ [][GuNext]_guVars

-----------------------------------------------------------------------------
(* Properties. *)

\* Through failures, deaths, what they leave and builds that change under a download, a database that is in place is one
\* build from end to end, and the newest that was ever installed: true of runs that do not overlap.
DatabasesWhole ==
    guOverlapped \/ \A e \in Range(Edition) :
        guDatabase[e] # NoInode => guFiles[guDatabase[e]] = <<guNewest[e], guNewest[e]>>

\* geo.update_succeeded means that every edition was installed.
SuccessInstalled ==
    \A r \in Run : At(r, "succeeded") => \A e \in Range(Edition) : guDatabase[e] # NoInode

GeoSound == DatabasesWhole /\ SuccessInstalled
=============================================================================
