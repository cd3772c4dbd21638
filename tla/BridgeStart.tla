---------------------------- MODULE BridgeStart -----------------------------
(***************************************************************************)
(* How the bridge comes up, and back up after systemd restarts it: the     *)
(* integrity check of each pinned model, the persona registry, the         *)
(* sessions database that it seeds or waits for, the loops that keep the   *)
(* models warm while it serves; and beside it the unit that pulls missing  *)
(* models, an Ollama that comes and goes, and a dashboard that creates the *)
(* database too.                                                           *)
(***************************************************************************)
EXTENDS Naturals, Sequences

CONSTANTS
    Pinned,         \* the roles whose model has an expected digest
    MaxPulls,       \* max_attempts of the puller
    MaxHappenings   \* bound: what happens outside

ASSUME StartAssumption == Pinned \subseteq {"fast", "deep"} /\ MaxPulls \in Nat \ {0} /\ MaxHappenings \in Nat

Model == {"fast", "deep", "embed"}
Verified == <<"fast", "deep">>
Pulled == <<"fast", "deep", "embed">>

\* The manifest of a model's tag: names the pinned blob, or another, or cannot be read in one way or another.
Manifest == {"good", "other", "missing", "malformed", "denied", "stalled"}

VARIABLES
    bsConf,         \* settings: whether the bridge reads the sessions database, whether Ollama is a trusted remote
    bsManifest,     \* model -> its manifest
    bsDatabase,     \* the sessions database exists
    bsOllama,       \* Ollama answers
    bsPc,           \* the bridge: down, verifying, stuck, loading, seeding, opening, serving
    bsAt,           \* index of the role it verifies
    bsLines,        \* audit lines of this start, as [event, model]
    bsRead,         \* history variable: what each pinned manifest was when this start read it
    bsLoop,         \* WarmPool._tasks: off, calling, sleeping, dead
    bsWarm,         \* WarmPool._status: cold, warm, failed
    bsPull,         \* the puller: step, the model it is at, attempts made, what was present
    bsHappened      \* happenings so far

bsStart == <<bsPc, bsAt, bsLines, bsRead>>
bsPool == <<bsLoop, bsWarm>>
bsWorld == <<bsConf, bsManifest, bsDatabase, bsOllama>>
bsVars == <<bsWorld, bsStart, bsPool, bsPull, bsHappened>>

LoopsOff == [m \in Model |-> "off"]
Cold == [m \in Model |-> "cold"]
Unread == [m \in Model |-> "unread"]

BsInit ==
    /\ bsConf \in [reads : {"none", "only", "seeded"}, remote : BOOLEAN]
    /\ bsManifest \in {[m \in Model |-> s] : s \in {"good", "missing"}}
    /\ bsDatabase = FALSE /\ bsOllama \in BOOLEAN
    /\ bsPc = "down" /\ bsAt = 1 /\ bsLines = <<>> /\ bsRead = Unread
    /\ bsLoop = LoopsOff /\ bsWarm = Cold
    /\ bsPull = [step |-> "ready", at |-> 1, tries |-> 0, present |-> {}]
    /\ bsHappened = 0

Present(m) == bsManifest[m] # "missing"

-----------------------------------------------------------------------------
(* The start. *)

\* Faulty variant of Restarts: only when it never ran before.
RestartsNever == bsPc = "down" /\ bsRead = Unread /\ bsLines = <<>>

\* Type=exec, Restart=on-failure: again after every exit.
Restarts == bsPc = "down"

Start ==
    /\ Restarts
    /\ bsPc' = "verifying" /\ bsAt' = 1 /\ bsLines' = <<>> /\ bsRead' = Unread
    /\ UNCHANGED <<bsWorld, bsPool, bsPull, bsHappened>>

RoleAt == Verified[bsAt]
Line(event) == bsLines' = Append(bsLines, [event |-> event, model |-> RoleAt])

\* verify_all_roles goes on to the next role.
Onward ==
    IF bsAt = Len(Verified) THEN bsPc' = "loading" /\ bsAt' = 1 ELSE bsPc' = "verifying" /\ bsAt' = bsAt + 1

Unpinned ==
    /\ Line("skipped") /\ Onward
    /\ UNCHANGED bsRead

\* A mismatch, and a manifest that is missing or malformed, end the process.
Refuses(state) == state \in {"other", "missing", "malformed"}

\* ModelIntegrity.verify: a read that is denied ends it without a line; one that stalls is given up by wait_for, but
\* its thread keeps the process from exiting.
Checked(state) ==
    /\ bsRead' = [bsRead EXCEPT ![RoleAt] = state]
    /\ CASE Refuses(state) -> Line("failed") /\ bsPc' = "down" /\ UNCHANGED bsAt
         [] state = "denied" -> bsPc' = "down" /\ UNCHANGED <<bsAt, bsLines>>
         [] state = "stalled" -> bsPc' = "stuck" /\ UNCHANGED <<bsAt, bsLines>>
         [] OTHER -> Line("verified") /\ Onward

Verify ==
    /\ bsPc = "verifying"
    /\ IF RoleAt \in Pinned THEN Checked(bsManifest[RoleAt]) ELSE Unpinned
    /\ UNCHANGED <<bsWorld, bsPool, bsPull, bsHappened>>

Unstick ==
    /\ bsPc = "stuck" /\ bsManifest[RoleAt] # "stalled"
    /\ bsPc' = "down"
    /\ UNCHANGED <<bsWorld, bsAt, bsLines, bsRead, bsPool, bsPull, bsHappened>>

Reach(step) ==
    /\ bsPc' = step
    /\ UNCHANGED <<bsAt, bsLines, bsRead, bsConf, bsManifest, bsOllama, bsPull, bsHappened>>

\* PersonaRegistry.load: the packaged personas are sound, a bad override is skipped.
LoadPersonas ==
    /\ bsPc = "loading"
    /\ Reach(IF bsConf.reads = "seeded" THEN "seeding" ELSE "opening")
    /\ UNCHANGED <<bsDatabase, bsPool>>

SeedDatabase ==
    /\ bsPc = "seeding"
    /\ bsDatabase' = TRUE
    /\ Reach("opening")
    /\ UNCHANGED bsPool

\* SessionStoreReader.open wants the file to exist; then the application starts, and with it the warm pool.
NeedsReader == bsConf.reads # "none"

OpenReader ==
    /\ bsPc = "opening"
    /\ IF NeedsReader /\ ~bsDatabase
       THEN Reach("down") /\ UNCHANGED bsPool
       ELSE Reach("serving") /\ bsLoop' = [m \in Model |-> "calling"] /\ bsWarm' = Cold
    /\ UNCHANGED bsDatabase

-----------------------------------------------------------------------------
(* WarmPool. *)

\* _loop: whatever a call came to, the next one follows.
AfterCall == "sleeping"

\* warm_once: success and failure are both recorded.
WarmOnce(m) ==
    /\ bsLoop[m] = "calling"
    /\ LET done == bsOllama /\ Present(m)
       IN /\ bsWarm' = [bsWarm EXCEPT ![m] = IF done THEN "warm" ELSE "failed"]
          /\ bsLoop' = [bsLoop EXCEPT ![m] = AfterCall]
    /\ UNCHANGED <<bsWorld, bsStart, bsPull, bsHappened>>

Refresh(m) ==
    /\ bsLoop[m] = "sleeping"
    /\ bsLoop' = [bsLoop EXCEPT ![m] = "calling"]
    /\ UNCHANGED <<bsWorld, bsStart, bsWarm, bsPull, bsHappened>>

-----------------------------------------------------------------------------
(* ModelPuller, once: by its unit, which goes before the bridge at a boot, or by hand at any time. *)

Puller(rest) == bsPull' = [bsPull EXCEPT !.step = rest.step, !.at = rest.at, !.tries = rest.tries]
NextModel == Puller([step |-> IF bsPull.at = Len(Pulled) THEN "done" ELSE "pulling",
                     at |-> IF bsPull.at = Len(Pulled) THEN 1 ELSE bsPull.at + 1, tries |-> 0])
Rest == UNCHANGED <<bsConf, bsDatabase, bsOllama, bsStart, bsPool, bsHappened>>

\* A trusted remote is the operator's, an Ollama that does not answer is taken for not installed.
EnsureModels ==
    /\ bsPull.step = "ready"
    /\ bsPull' = IF bsConf.remote \/ ~bsOllama THEN [bsPull EXCEPT !.step = "done"]
                 ELSE [bsPull EXCEPT !.step = "pulling", !.present = {m \in Model : Present(m)}]
    /\ UNCHANGED bsManifest /\ Rest

AlreadyPresent ==
    /\ bsPull.step = "pulling" /\ Pulled[bsPull.at] \in bsPull.present
    /\ NextModel
    /\ UNCHANGED bsManifest /\ Rest

\* _pull_once came to an end: the tag's blob is the pinned one or what the tag has been moved to.
PullSucceeds ==
    /\ bsPull.step = "pulling" /\ Pulled[bsPull.at] \notin bsPull.present /\ bsOllama
    /\ \E s \in {"good", "other"} : bsManifest' = [bsManifest EXCEPT ![Pulled[bsPull.at]] = s]
    /\ NextModel
    /\ Rest

\* A stream that just ends counts as a success.
PullEndsEarly ==
    /\ bsPull.step = "pulling" /\ Pulled[bsPull.at] \notin bsPull.present /\ bsOllama
    /\ NextModel
    /\ UNCHANGED bsManifest /\ Rest

\* _pull_with_retry: one model that fails for good does not keep the others from their turn.
PullFails ==
    /\ bsPull.step = "pulling" /\ Pulled[bsPull.at] \notin bsPull.present
    /\ IF bsPull.tries + 1 < MaxPulls
       THEN Puller([step |-> "pulling", at |-> bsPull.at, tries |-> bsPull.tries + 1])
       ELSE NextModel
    /\ UNCHANGED bsManifest /\ Rest

-----------------------------------------------------------------------------
(* Outside. *)

Happen == bsHappened < MaxHappenings /\ bsHappened' = bsHappened + 1

ManifestChanges ==
    /\ Happen
    /\ \E m \in Model, s \in Manifest : s # bsManifest[m] /\ bsManifest' = [bsManifest EXCEPT ![m] = s]
    /\ UNCHANGED <<bsConf, bsDatabase, bsOllama, bsStart, bsPool, bsPull>>

OllamaTurns ==
    /\ Happen
    /\ bsOllama' = ~bsOllama
    /\ UNCHANGED <<bsConf, bsManifest, bsDatabase, bsStart, bsPool, bsPull>>

\* The process stops: the lifespan cancels the loops.
StopBridge ==
    /\ Happen /\ bsPc # "down"
    /\ bsPc' = "down" /\ bsLoop' = LoopsOff /\ bsWarm' = Cold
    /\ UNCHANGED <<bsWorld, bsAt, bsLines, bsRead, bsPull>>

DashboardCreates ==
    /\ ~bsDatabase
    /\ bsDatabase' = TRUE
    /\ UNCHANGED <<bsConf, bsManifest, bsOllama, bsStart, bsPool, bsPull, bsHappened>>

\* systemd starts it again and it goes on.
ComeUp == Start \/ Verify \/ Unstick \/ LoadPersonas \/ SeedDatabase \/ OpenReader

BsNext ==
    \/ ComeUp
    \/ \E m \in Model : WarmOnce(m) \/ Refresh(m)
    \/ EnsureModels \/ AlreadyPresent \/ PullSucceeds \/ PullEndsEarly \/ PullFails
    \/ ManifestChanges \/ OllamaTurns \/ StopBridge \/ DashboardCreates

BsFairness ==
    /\ WF_bsVars(ComeUp)
    /\ WF_bsVars(DashboardCreates)
    /\ \A m \in Model : WF_bsVars(WarmOnce(m) \/ Refresh(m))

BsSpec == BsInit /\ [][BsNext]_bsVars /\ BsFairness

-----------------------------------------------------------------------------
(* Properties. *)

BsTypeOK ==
    /\ bsManifest \in [Model -> Manifest] /\ bsDatabase \in BOOLEAN /\ bsOllama \in BOOLEAN
    /\ bsPc \in {"down", "verifying", "stuck", "loading", "seeding", "opening", "serving"}
    /\ bsLoop \in [Model -> {"off", "calling", "sleeping", "dead"}] /\ bsWarm \in [Model -> {"cold", "warm", "failed"}]
    /\ bsPull.step \in {"ready", "pulling", "done"} /\ bsPull.tries < MaxPulls /\ bsHappened <= MaxHappenings

LinesOf(m, event) == {i \in DOMAIN bsLines : bsLines[i] = [event |-> event, model |-> m]}

\* Whatever earlier starts saw and whatever pulls and people do to the manifests, the start that serves has read the
\* pinned digest of every pinned role, and its audit lines say so of each role once.
ServesVerified ==
    bsPc = "serving" =>
        \A i \in DOMAIN Verified :
            LET m == Verified[i] IN
            /\ m \in Pinned => bsRead[m] = "good"
            /\ \E j \in DOMAIN bsLines :
                   bsLines[j].model = m /\ bsLines[j].event = IF m \in Pinned THEN "verified" ELSE "skipped"
            /\ Len(bsLines) = Len(Verified)

\* One model that is missing, or an Ollama that is away, leaves no loop behind: a model that can be warm from some time
\* on while the bridge serves is warm from some time on.
WarmsInTheEnd ==
    \A m \in Model :
        <>[](bsPc = "serving" /\ bsOllama /\ Present(m)) => <>[](bsWarm[m] = "warm")

\* Once the pinned manifests stay good the bridge comes up for good, with a database of its own or the dashboard's.
ComesUp ==
    <>[](\A m \in Pinned : bsManifest[m] = "good") => <>[](bsPc = "serving")

\* What the bridge has checked when it serves, and what it gets to in the end and stays at.
BridgeSound == []ServesVerified /\ WarmsInTheEnd /\ ComesUp
=============================================================================
