----------------------------- MODULE FirstBoot ------------------------------
(***************************************************************************)
(* The appliance from its first boot on: the wizard that writes its files  *)
(* one after the other and may be killed between any two of them, the      *)
(* operator who runs it again or edits the environment file, the units     *)
(* that start at boot, and the settings each service has loaded.           *)
(***************************************************************************)
EXTENDS Settings, Sequences, SequencesExt

CONSTANTS
    Service,        \* the services modelled
    MaxRuns,        \* bound: runs of the wizard
    Asked,          \* bound: for each run, the answers it may be given
    MaxMoves        \* bound: boots, edits of the environment file and services stopped, together

ASSUME BootAssumption ==
    /\ {"bridge", "lure"} \subseteq Service /\ Service \subseteq {"bridge", "dashboard", "lure"}
    /\ MaxRuns \in Nat \ {0} /\ Asked \in [1..MaxRuns -> SUBSET Answers] /\ MaxMoves \in Nat

\* run_wizard: the order of its writes.
Artefacts == <<"env", "nft", "bait", "service", "hostname", "hosts", "keys", "answers">>
WizardFile == Range(Artefacts)
Blank == [secrets |-> 0]

VARIABLES
    fbFile,         \* file -> the run that wrote it, 0 when there is none
    fbTemp,         \* files whose ".tmp" sibling exists
    fbEnv,          \* the settings in the environment file
    fbWizard,       \* the wizard: step, run, the key it was given, the rendered env, the next artefact
    fbRuns,         \* wizard runs so far
    fbMoves,        \* boots, edits and stops so far
    fbUnit,         \* anglerfish-firstboot.service in this boot: waiting, running, over
    fbFirewall,     \* the run whose ruleset is loaded, 0 when none is
    fbRunning,      \* service -> the settings it loaded, Blank when it is down
    fbAddress       \* the address of the bait interface: none, static or leased

fbFiles == <<fbFile, fbTemp, fbEnv>>
fbHost == <<fbUnit, fbFirewall, fbRunning, fbAddress>>
fbVars == <<fbFile, fbTemp, fbEnv, fbWizard, fbRuns, fbMoves, fbHost>>

AllDown == [s \in Service |-> Blank]
Resting == [step |-> "none", run |-> 0, key |-> "none", env |-> Blank, at |-> 1]

FbInit ==
    /\ fbFile = [f \in WizardFile |-> 0] /\ fbTemp = {} /\ fbEnv = Blank
    /\ fbWizard = Resting
    /\ fbRuns = 0 /\ fbMoves = 0
    /\ fbUnit = "waiting" /\ fbFirewall = 0 /\ fbRunning = AllDown /\ fbAddress = "none"

-----------------------------------------------------------------------------
(* The wizard. *)

Present(f) == fbFile[f] # 0
Working == fbWizard.step \in {"opening", "replacing"}

\* The service's wizard, or one an operator starts once that one is over.
MayStart == ~Working /\ fbRuns < MaxRuns /\ fbUnit \in {"waiting", "over"}

\* Prompts and checks, fresh secrets, then everything but the key is rendered before the first write.
Accepts(a) == a.terms /\ PromptsPass(a) /\ Renders(a)

StartWizard(a) ==
    /\ MayStart /\ a \in Asked[fbRuns + 1]
    /\ fbRuns' = fbRuns + 1
    /\ IF Accepts(a)
       THEN /\ fbWizard' = [step |-> "opening", run |-> fbRuns + 1, key |-> a.key,
                            env |-> EnvOf(a, fbRuns + 1), at |-> 1]
            /\ fbUnit' = IF fbUnit = "over" THEN "over" ELSE "running"
       ELSE /\ fbWizard' = [Resting EXCEPT !.step = "refused", !.run = fbRuns + 1]
            /\ fbUnit' = "over"
    /\ UNCHANGED <<fbFiles, fbMoves, fbFirewall, fbRunning, fbAddress>>

Artefact == Artefacts[fbWizard.at]
Skips(f) == f = "keys" /\ fbWizard.key = "none"

\* render_authorized_keys is called when its turn comes.
Renderable(f) == f = "keys" => KeyParses(fbWizard.key)

\* atomic_write_private: a stale temporary file is removed, so that O_EXCL succeeds.
Cleared(f) == fbTemp \ {f}

\* The unit is over when its wizard is, unless it has services to start.
GiveUp(step) ==
    /\ fbWizard' = [fbWizard EXCEPT !.step = step, !.env = Blank, !.at = 1]
    /\ fbUnit' = "over"
    /\ UNCHANGED <<fbFiles, fbRuns, fbMoves, fbFirewall, fbRunning, fbAddress>>

OpenTemp ==
    /\ fbWizard.step = "opening" /\ fbWizard.at <= Len(Artefacts)
    /\ ~Skips(Artefact)
    /\ IF Renderable(Artefact) /\ Artefact \notin Cleared(Artefact)
       THEN /\ fbTemp' = Cleared(Artefact) \union {Artefact}
            /\ fbWizard' = [fbWizard EXCEPT !.step = "replacing"]
            /\ UNCHANGED <<fbFile, fbEnv, fbRuns, fbMoves, fbHost>>
       ELSE GiveUp("refused")

SkipKeys ==
    /\ fbWizard.step = "opening" /\ fbWizard.at <= Len(Artefacts)
    /\ Skips(Artefact)
    /\ fbWizard' = [fbWizard EXCEPT !.at = @ + 1]
    /\ UNCHANGED <<fbFiles, fbRuns, fbMoves, fbHost>>

ReplaceFile ==
    /\ fbWizard.step = "replacing"
    /\ fbTemp' = fbTemp \ {Artefact}
    /\ fbFile' = [fbFile EXCEPT ![Artefact] = fbWizard.run]
    /\ fbEnv' = IF Artefact = "env" THEN fbWizard.env ELSE fbEnv
    /\ fbWizard' = [fbWizard EXCEPT !.step = "opening", !.env = Blank, !.at = @ + 1]
    /\ UNCHANGED <<fbRuns, fbMoves, fbHost>>

\* The wizard ends.  The unit's ExecStartPost then loads the firewall and starts the services.
FinishRun ==
    /\ fbWizard.step = "opening" /\ fbWizard.at > Len(Artefacts)
    /\ fbWizard' = [fbWizard EXCEPT !.step = "done", !.at = 1]
    /\ fbUnit' = "over"
    /\ fbFirewall' = IF fbUnit = "running" THEN fbFile["nft"] ELSE fbFirewall
    /\ UNCHANGED <<fbFiles, fbRuns, fbMoves, fbRunning, fbAddress>>

\* Killed, or an OSError of any of its calls: what is on disk stays.
Break ==
    /\ Working
    /\ GiveUp("broken")

-----------------------------------------------------------------------------
(* The host. *)

\* A boot loads the firewall if there is a ruleset, and runs the wizard if there is no environment file.
Boot ==
    /\ fbMoves < MaxMoves
    /\ fbMoves' = fbMoves + 1
    /\ fbWizard' = IF Working THEN [fbWizard EXCEPT !.step = "broken", !.env = Blank, !.at = 1] ELSE fbWizard
    /\ fbUnit' = IF Present("env") THEN "over" ELSE "waiting"
    /\ fbFirewall' = fbFile["nft"]
    /\ fbRunning' = AllDown
    /\ fbAddress' = "none"
    /\ UNCHANGED <<fbFiles, fbRuns>>

\* The bait interface gets an address or loses it.
Lease ==
    /\ fbAddress' \in IF fbAddress = "none" THEN {"static", "leased"} ELSE {"none"}
    /\ UNCHANGED <<fbFiles, fbWizard, fbRuns, fbMoves, fbUnit, fbFirewall, fbRunning>>

\* _effective_lure_config: without an address of its own, the lure takes the one of the bait interface.
EffectiveHost(e) ==
    IF e.listen # "unset" THEN e.listen ELSE IF fbAddress # "none" THEN fbAddress ELSE "unspecified"

\* validate_bait_nic: a test bind.
ValidBait(host) == host # "unspecified" /\ host = fbAddress

\* Each service starts alone, or again three seconds after it failed: ordered after the first-boot unit, with an
\* environment file, and pulling in a firewall unit that is skipped, not failed, while there is no ruleset.
StartService(s) ==
    /\ fbUnit = "over" /\ fbRunning[s] = Blank
    /\ Present("env") /\ Loads(fbEnv)
    /\ s = "lure" => fbEnv.enabled /\ ValidBait(EffectiveHost(fbEnv)) /\ fbRunning["bridge"] # Blank
    /\ fbRunning' = [fbRunning EXCEPT ![s] = fbEnv]
    /\ fbFirewall' = IF fbFirewall = 0 THEN fbFile["nft"] ELSE fbFirewall
    /\ UNCHANGED <<fbFiles, fbWizard, fbRuns, fbMoves, fbUnit, fbAddress>>

\* An operator stops one, to start it with what the file says now.  The lure requires the bridge.
StopService(s) ==
    /\ fbRunning[s] # Blank /\ fbMoves < MaxMoves
    /\ fbMoves' = fbMoves + 1
    /\ fbRunning' = [t \in Service |-> IF t = s \/ (s = "bridge" /\ t = "lure") THEN Blank ELSE fbRunning[t]]
    /\ UNCHANGED <<fbFiles, fbWizard, fbRuns, fbUnit, fbFirewall, fbAddress>>

\* The operator edits a line of the environment file.
Edit ==
    /\ Present("env") /\ fbMoves < MaxMoves
    /\ fbEnv' \in HandEdits(fbEnv)
    /\ fbMoves' = fbMoves + 1
    /\ UNCHANGED <<fbFile, fbTemp, fbWizard, fbRuns, fbHost>>

FbNext ==
    \/ \E a \in Answers : StartWizard(a)
    \/ OpenTemp \/ SkipKeys \/ ReplaceFile \/ FinishRun \/ Break
    \/ Boot \/ Lease \/ Edit
    \/ \E s \in Service : StartService(s) \/ StopService(s)

FbSpec == FbInit /\ [][FbNext]_fbVars

-----------------------------------------------------------------------------
(* Properties. *)

FbTypeOK ==
    /\ fbFile \in [WizardFile -> 0..MaxRuns] /\ fbTemp \subseteq WizardFile
    /\ fbWizard.step \in {"none", "opening", "replacing", "done", "refused", "broken"}
    /\ fbUnit \in {"waiting", "running", "over"} /\ fbFirewall \in 0..MaxRuns /\ fbAddress \in {"none", "static", "leased"}
    /\ fbRuns \in 0..MaxRuns /\ fbMoves \in 0..MaxMoves

\* Whatever earlier runs left behind, half-written files included, a run that finishes has replaced every file it
\* writes, and one whose answers are refused has replaced none; only a bad SSH key is found when files are written.
RunIsWhole ==
    /\ fbWizard.step = "done" =>
           \A f \in WizardFile : Skips(f) \/ (fbFile[f] = fbWizard.run /\ f \notin fbTemp)
    /\ fbWizard.step = "refused" /\ fbWizard.key # "bad" => \A f \in WizardFile : fbFile[f] # fbWizard.run

\* An endpoint that the settings loader would refuse is caught while the operator is still at the wizard.
EndpointCaught ==
    Present("env") /\ ~fbEnv.edited => EndpointLoads(fbEnv)

\* No process runs blind: whatever was edited since and before, the scan of the one that runs reaches the end of the
\* longest command and of the longest answer it lets through.
ScansReach ==
    \A s \in Service : fbRunning[s] # Blank =>
        fbRunning[s].scan >= fbRunning[s].response /\ fbRunning[s].scan >= fbRunning[s].input

\* systemd/anglerfish-firstboot.service: on a later boot "the firewall loads early and normally because the ruleset now
\* exists", and the services' units "fail closed on the firewall".
NeverUpWithoutRuleset ==
    (\E s \in Service : fbRunning[s] # Blank) => fbFirewall # 0

\* What the wizard leaves on disk, and what a service makes of it.
WizardSound ==
    /\ FbTypeOK
    /\ RunIsWhole
    /\ EndpointCaught
    /\ ScansReach
=============================================================================
