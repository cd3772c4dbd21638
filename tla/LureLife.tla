------------------------------ MODULE LureLife -------------------------------
(***************************************************************************)
(* The lure as a service: its host keys, its start, the logins it takes,   *)
(* the work it leaves to background tasks, and the way it stops: on a      *)
(* signal, which waits for some of that work, or killed at any moment.     *)
(*                                                                         *)
(* LureConnections has the sessions' details and LureShell the commands;   *)
(* here a connection is what a start or a stop of the service can hurt.    *)
(***************************************************************************)
EXTENDS Naturals, Sequences

CONSTANTS
    Conn,           \* connections; each is made at most once
    MaxLives        \* bound: starts of the service

ASSUME LifeAssumption == MaxLives \in Nat

VARIABLES
    llPc,           \* run_lure: down, rsa, ed25519, loading, opening, binding, serving, closing, draining,
                    \* client, store, ending
    llLives,        \* starts so far
    llKeys,         \* host key file -> the life that generated it, 0 when there is none
    llShown,        \* history variable: the keys the first listener showed
    llConn,         \* connection: none, kex, auth, stored, in, shell, lost, or gone with the process
    llTold,         \* connection -> audit lines about it, in order
    llRows,         \* connections whose password is in the credential store
    llRefused,      \* history variable: those whose record failed
    llHeld,         \* connections whose session the bridge holds
    llTasks,        \* LureServer._background: [kind, conn]
    llWaited,       \* what stop() waits for
    llDue,          \* history variable: connections lost while the service served
    llExcused       \* history variable: connections whose close request failed or outlived the drain

llServer == <<llPc, llLives, llKeys, llShown>>
llLogins == <<llRows, llRefused>>
llDrain == <<llWaited, llDue, llExcused>>
llVars == <<llServer, llConn, llTold, llLogins, llHeld, llTasks, llDrain>>

HostKey == {"rsa", "ed25519"}
NoKeys == [k \in HostKey |-> 0]

LlInit ==
    /\ llPc = "down" /\ llLives = 0 /\ llKeys = NoKeys /\ llShown = NoKeys
    /\ llConn = [c \in Conn |-> "none"] /\ llTold = [c \in Conn |-> <<>>]
    /\ llRows = {} /\ llRefused = {} /\ llHeld = {}
    /\ llTasks = {} /\ llWaited = {} /\ llDue = {} /\ llExcused = {}

Tell(c, event) == llTold' = [llTold EXCEPT ![c] = Append(@, event)]
Become(c, step) == llConn' = [llConn EXCEPT ![c] = step]
Spawn(kind, c) == llTasks' = llTasks \union {[kind |-> kind, conn |-> c]}
LlAlive(c) == llConn[c] \in {"kex", "auth", "stored", "in", "shell"}

\* The process is there, and with it the event loop.
Runs == llPc \in {"serving", "closing", "draining", "client", "store", "ending"}
ClientOpen == llPc \in {"serving", "closing", "draining", "client"}
StoreOpen == llPc \in {"serving", "closing", "draining", "client", "store"}

-----------------------------------------------------------------------------
(* run_lure up to the listener. *)

Reaches(step) == llPc' = step /\ UNCHANGED <<llLives, llShown, llConn, llTold, llLogins, llHeld, llTasks, llDrain>>

LlStart ==
    /\ llPc = "down" /\ llLives < MaxLives
    /\ llPc' = "rsa" /\ llLives' = llLives + 1
    /\ llWaited' = {} /\ llDue' = {} /\ llExcused' = {}
    /\ UNCHANGED <<llKeys, llShown, llConn, llTold, llLogins, llHeld, llTasks>>

\* ensure_host_keys: what is there is kept; a temporary file and a rename, so that a key file is whole.
EnsureKey ==
    /\ llPc \in HostKey
    /\ llKeys' = IF llKeys[llPc] = 0 THEN [llKeys EXCEPT ![llPc] = llLives] ELSE llKeys
    /\ Reaches(IF llPc = "rsa" THEN "ed25519" ELSE "loading")

\* load_host_keys: the permissions are right, or the lure refuses to start.
LoadKeys ==
    /\ llPc = "loading"
    /\ Reaches("opening") \/ Reaches("down")
    /\ UNCHANGED llKeys

\* CredentialStore.open; nothing needs to be closed when it fails.
OpenCredentials ==
    /\ llPc = "opening"
    /\ Reaches("binding") \/ Reaches("down")
    /\ UNCHANGED llKeys

\* LureServer.start: the listener is there and shows its keys, or the closers run, stop() among them.
Bind ==
    /\ llPc = "binding"
    /\ \/ llPc' = "serving" /\ llShown' = IF llShown = NoKeys THEN llKeys ELSE llShown
       \/ llPc' = "draining" /\ UNCHANGED llShown
    /\ UNCHANGED <<llLives, llKeys, llConn, llTold, llLogins, llHeld, llTasks, llDrain>>

-----------------------------------------------------------------------------
(* Logins. *)

Accept(c) ==
    /\ llPc = "serving" /\ llConn[c] = "none"
    /\ Become(c, "kex")
    /\ UNCHANGED <<llServer, llTold, llLogins, llHeld, llTasks, llDrain>>

Printed(c) == \E i \in DOMAIN llTold[c] : llTold[c][i] = "fingerprint"

\* begin_auth, once for each user name the client tries: the fingerprint is told at the first.
BeginAuth(c) ==
    /\ Runs /\ llConn[c] \in {"kex", "auth"}
    /\ Become(c, "auth")
    /\ IF Printed(c) THEN UNCHANGED <<llTold, llTasks>> ELSE Tell(c, "fingerprint") /\ Spawn("fingerprint", c)
    /\ UNCHANGED <<llServer, llLogins, llHeld, llDrain>>

\* validate_public_key: told, and refused.  One key per connection is enough here.
OfferKey(c) ==
    /\ Runs /\ llConn[c] = "auth" /\ Len(llTold[c]) = 1
    /\ Tell(c, "key")
    /\ UNCHANGED <<llServer, llConn, llLogins, llHeld, llTasks, llDrain>>

\* Faulty variant of StoreAttempt: the attempt is told before the store is asked.
TellFirst(c) ==
    /\ Runs /\ llConn[c] = "auth"
    /\ Become(c, "stored") /\ Tell(c, "login")
    /\ UNCHANGED <<llServer, llLogins, llHeld, llTasks, llDrain>>

\* validate_password up to the end of its await: the attempt is stored, or the store has failed or is closed.
StoreAttempt(c) ==
    /\ Runs /\ llConn[c] = "auth"
    /\ Become(c, "stored")
    /\ \/ StoreOpen /\ llRows' = llRows \union {c} /\ UNCHANGED llRefused
       \/ llRefused' = llRefused \union {c} /\ UNCHANGED llRows
    /\ UNCHANGED <<llServer, llTold, llHeld, llTasks, llDrain>>

\* The rest of it: the attempt is told, and the password accepted.
TellAttempt(c) ==
    /\ Runs /\ llConn[c] = "stored"
    /\ Become(c, "in") /\ Tell(c, "login")
    /\ UNCHANGED <<llServer, llLogins, llHeld, llTasks, llDrain>>

\* The handler asks the bridge for a session; without one it goes on with the placeholder.
OpenSession(c) ==
    /\ Runs /\ llConn[c] = "in"
    /\ Become(c, "shell")
    /\ \/ ClientOpen /\ llHeld' = llHeld \union {c}
       \/ UNCHANGED llHeld
    /\ UNCHANGED <<llServer, llTold, llLogins, llTasks, llDrain>>

\* connection_lost; a validation under way is cancelled with the connection.
Lose(c) ==
    /\ Runs /\ LlAlive(c)
    /\ Become(c, "lost") /\ Tell(c, "closed")
    /\ IF c \in llHeld THEN Spawn("close", c) ELSE UNCHANGED llTasks
    /\ llDue' = IF llPc = "serving" THEN llDue \union {c} ELSE llDue
    /\ UNCHANGED <<llServer, llLogins, llHeld, llWaited, llExcused>>

\* record_fingerprint composes what nobody reads; close_session is one request, whose failure is let go.
RunTask(t) ==
    /\ Runs /\ t \in llTasks
    /\ llTasks' = llTasks \ {t}
    /\ \/ t.kind = "close" /\ ClientOpen /\ llHeld' = llHeld \ {t.conn} /\ UNCHANGED llExcused
       \/ t.kind = "close" /\ ClientOpen /\ llExcused' = llExcused \union {t.conn} /\ UNCHANGED llHeld
       \/ (t.kind = "close" => ~ClientOpen) /\ UNCHANGED <<llHeld, llExcused>>
    /\ UNCHANGED <<llServer, llConn, llTold, llLogins, llWaited, llDue>>

-----------------------------------------------------------------------------
(* The end. *)

Sigterm ==
    /\ llPc = "serving"
    /\ Reaches("closing") /\ UNCHANGED llKeys

\* stop: the listener closes; depending on the Python, wait_closed comes back at once or when no connection is left
\* or the timeout is over.  Then the tasks there are at that moment are waited for.
CloseListener ==
    /\ llPc = "closing"
    /\ llPc' = "draining" /\ llWaited' = llTasks
    /\ UNCHANGED <<llLives, llKeys, llShown, llConn, llTold, llLogins, llHeld, llTasks, llDue, llExcused>>

\* asyncio.wait, unless its timeout is over.
Waited == llTasks \intersect llWaited = {}

Drained ==
    /\ llPc = "draining"
    /\ llPc' = "client"
    /\ \/ Waited /\ UNCHANGED llExcused
       \/ llExcused' = llExcused \union {t.conn : t \in llTasks \intersect llWaited} /\ llWaited # {}
    /\ UNCHANGED <<llLives, llKeys, llShown, llConn, llTold, llLogins, llHeld, llTasks, llWaited, llDue>>

\* The other closers of run_lure, each whatever became of the one before.
CloseClients ==
    /\ llPc \in {"client", "store"}
    /\ Reaches(IF llPc = "client" THEN "store" ELSE "ending")
    /\ UNCHANGED llKeys

\* The process is over, and what it had in memory: connections end without a line, tasks without their work.
Over(due) ==
    /\ llPc' = "down" /\ llDue' = due
    /\ llConn' = [c \in Conn |-> IF LlAlive(c) THEN "gone" ELSE llConn[c]]
    /\ llTasks' = {}
    /\ UNCHANGED <<llLives, llKeys, llShown, llTold, llLogins, llHeld, llWaited, llExcused>>

Return == llPc = "ending" /\ Over(llDue)

\* SIGKILL, by TimeoutStopSec while it drains or by chance: nothing more is due.
LlKill == llPc # "down" /\ Over({})

LlNext ==
    \/ LlStart \/ EnsureKey \/ LoadKeys \/ OpenCredentials \/ Bind
    \/ \E c \in Conn :
        \/ Accept(c) \/ BeginAuth(c) \/ OfferKey(c) \/ StoreAttempt(c) \/ TellAttempt(c)
        \/ OpenSession(c) \/ Lose(c)
    \/ \E t \in llTasks : RunTask(t)
    \/ Sigterm \/ CloseListener \/ Drained \/ CloseClients \/ Return \/ LlKill

LlSpec == LlInit /\ [][LlNext]_llVars

-----------------------------------------------------------------------------
(* Properties. *)

\* The box keeps its identity: whatever life it dies in, between the two keys too, no later listener shows other
\* keys than the first.
KeysStay == llShown # NoKeys => llKeys = llShown

\* Every password that is told is in the credential store by then, unless the store failed, so that a lure that dies
\* leaves no line without its row; and it follows the connection's fingerprint, of which there is one, however many
\* user names were tried.
LoginsTold ==
    \A c \in Conn :
        LET lines == llTold[c]
        IN  /\ \A i, j \in DOMAIN lines : lines[i] = "fingerprint" /\ lines[j] = "fingerprint" => i = j
            /\ \A j \in DOMAIN lines : lines[j] \in {"key", "login"} =>
                   \E i \in 1..(j - 1) : lines[i] = "fingerprint"
            /\ (\E j \in DOMAIN lines : lines[j] = "login") => c \in llRows \union llRefused

\* A stop by signal leaves the bridge no session of a connection that was lost before the signal: its request was
\* made before the client was closed, unless it failed or took longer than the drain.
StopsClean == llPc \in {"store", "ending", "down"} => llHeld \intersect llDue \subseteq llExcused

\* What a start, a stop and a death of the service leave behind.
LifeSound == KeysStay /\ LoginsTold /\ StopsClean
=============================================================================
