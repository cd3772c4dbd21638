---------------------------- MODULE MCSafetyParts ---------------------------
(***************************************************************************)
(* The parts whose properties are invariants, on small instances: the rate *)
(* buckets, the runtime overrides, a key rotation, a lure shell, the       *)
(* readers of the audit log, the operator console, the defenses of a       *)
(* command, the lure as a service, the upgrade of a store, the baits, the  *)
(* databases of addresses and the first boot.  They share nothing, so that *)
(* one run looks at them one after the other: `part` picks the one that    *)
(* moves in a behaviour, the others stay as they start.                    *)
(***************************************************************************)
EXTENDS RateBucket, RuntimeOverrides, CredentialRotation, LureShell, AuditReaders, OperatorConsole, CommandDefense,
    LureLife, StoreUpgrade, DecoyTokens, GeoUpdate, MCFirstBoot

\* An address whose pin says off, and one whose pin says garble; sessions of the one only, and of both.
MCPinOf == [i \in Address |-> IF i = "a" THEN "off" ELSE "garble"]
MCCame == {<<"a", "a", "a">>, <<"b", "a", "b">>}

VARIABLE part

partsVars == <<part, vars, ovrVars, rotVars, shVars, rdVars, csVars, dfVars, llVars, upVars, dtVars, guVars, fbVars>>

Still(p) == part # p

\* The console has two parts: its changes do not read the clock of its logins.
Console == {"changes", "logins"}

\* One initial state is enough for a part that does not move.
PartsInit ==
    /\ part \in {"buckets", "overrides", "rotation", "shell", "readers", "defense", "life", "upgrade", "decoys", "geo",
                "boot"} \union Console
    /\ Init /\ OvrInit /\ RotInit /\ ShellInit /\ RdInit /\ CsInit /\ DfInit /\ LlInit /\ UpInit /\ DtInit /\ GuInit /\ FbInit
    /\ Still("shell") => shMode = "shell" /\ shStream /\ shCwd = CHOOSE d \in Dir : TRUE
    /\ part \notin Console => ~csOpenMode
    /\ Still("defense") => dfStream /\ dfScripts
    /\ Still("upgrade") => suVersion = 0
    /\ Still("decoys") => dtIp = CHOOSE came \in Came : TRUE

PartsNext ==
    /\ \/ part = "buckets" /\ Next
       \/ part = "overrides" /\ OvrNext
       \/ part = "rotation" /\ RotNext
       \/ part = "shell" /\ ShellNext
       \/ part = "readers" /\ RdNext
       \/ part = "changes" /\ UNCHANGED csTick /\ CsNext
       \/ part = "logins" /\ UNCHANGED <<csTask, csSetting, csTrail>> /\ CsNext
       \/ part = "defense" /\ DfNext
       \/ part = "life" /\ LlNext
       \/ part = "upgrade" /\ UpNext
       \/ part = "decoys" /\ DtNext
       \/ part = "geo" /\ GuNext
       \/ part = "boot" /\ FbNext
    /\ Still("buckets") => UNCHANGED vars
    /\ Still("overrides") => UNCHANGED ovrVars
    /\ Still("rotation") => UNCHANGED rotVars
    /\ Still("shell") => UNCHANGED shVars
    /\ Still("readers") => UNCHANGED rdVars
    /\ part \notin Console => UNCHANGED csVars
    /\ Still("defense") => UNCHANGED dfVars
    /\ Still("life") => UNCHANGED llVars
    /\ Still("upgrade") => UNCHANGED upVars
    /\ Still("decoys") => UNCHANGED dtVars
    /\ Still("geo") => UNCHANGED guVars
    /\ Still("boot") => UNCHANGED fbVars
    /\ UNCHANGED part

PartsSpec == PartsInit /\ [][PartsNext]_partsVars
=============================================================================
