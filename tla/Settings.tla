------------------------------ MODULE Settings ------------------------------
(***************************************************************************)
(* The configuration: what the wizard asks and refuses, the environment    *)
(* file it renders, what an operator may edit there, and what the          *)
(* settings loader of every process accepts.                               *)
(*                                                                         *)
(* The loader's plain bounds (a field's range or pattern, a key it does    *)
(* not know) are one bit per section: "outside" is the set of sections     *)
(* where one is broken.  The values that validators compare have fields.   *)
(***************************************************************************)
EXTENDS Integers, FiniteSets

CONSTANTS
    Size,           \* values the caps on commands, answers and scans are edited to
    Spoiled         \* bound: sections in which an edit breaks a bound

Section == {"root", "ollama", "dashboard", "bridge", "rate_limit", "threat", "defense", "geo", "fingerprint",
            "credentials", "sessions", "audit", "persona", "honeytokens", "counter_deception", "narrator", "lure"}

ASSUME SettingsAssumption == IsFiniteSet(Size) /\ Size \subseteq Nat /\ Spoiled \subseteq Section

-----------------------------------------------------------------------------
(* Model endpoints: loopback under three spellings, one address, one name. *)

Endpoint == {"localhost", "127.0.0.1", "127.9.9.9", "10.0.0.9", "gpu.lan"}
IsLiteral(host) == host \notin {"localhost", "gpu.lan"}
IsLoopback(host) == host \in {"localhost", "127.0.0.1", "127.9.9.9"}

-----------------------------------------------------------------------------
(* The operator's answers. *)

Plain == [terms |-> TRUE, endpoint |-> "localhost", trusted |-> "none", bait |-> "eth0", service |-> "eth1",
          address |-> "dhcp", hook |-> "none", decoys |-> "off", name |-> "label", license |-> "none",
          key |-> "none", control |-> FALSE, hostname |-> "plain"]

\* A session at the prompts leaves one or two of the defaults.
Answers ==
    {Plain}
    \union {[Plain EXCEPT !.terms = FALSE], [Plain EXCEPT !.service = "eth0"], [Plain EXCEPT !.bait = "eth 0"],
            [Plain EXCEPT !.name = "loose"], [Plain EXCEPT !.control = TRUE], [Plain EXCEPT !.hostname = "odd name"]}
    \union {[Plain EXCEPT !.endpoint = p[1], !.trusted = p[2]] : p \in Endpoint \X {"none", "10.0.0.9", "127.9.9.9"}}
    \union {[Plain EXCEPT !.address = x] : x \in {"static", "no gateway"}}
    \union {[Plain EXCEPT !.hook = u] : u \in {"https", "http", "https inside"}}
    \union {[Plain EXCEPT !.decoys = d] : d \in {"no url", "http", "https"}}
    \union {[Plain EXCEPT !.license = l] : l \in {"alnum", "dashed"}}
    \union {[Plain EXCEPT !.key = k] : k \in {"good", "bad"}}

\* Faulty variant of EndpointPasses: an address passes whether or not it is the trusted one.
EndpointPassesUnmatched(a) == a.endpoint \in {"localhost", "127.0.0.1"} \/ IsLiteral(a.endpoint)

\* prompt_for_answers: an endpoint it does not know as local is an address, and the trusted one.
EndpointPasses(a) ==
    \/ a.endpoint \in {"localhost", "127.0.0.1"}
    \/ IsLiteral(a.endpoint) /\ a.trusted = a.endpoint

\* _prompt_network, NetworkConfig
NetworkPasses(a) == a.address # "no gateway"

\* _prompt_for_honeytokens
DecoysPass(a) == a.decoys \in {"off", "https"}

\* WizardAnswers: its own validators.
AnswersHold(a) == a.bait # a.service

PromptsPass(a) == EndpointPasses(a) /\ NetworkPasses(a) /\ DecoysPass(a) /\ AnswersHold(a)

\* render_env refuses control characters, _validate_iface and render_hostname_files theirs.
EnvRenders(a) == ~a.control
InterfacesRender(a) == a.bait # "eth 0"
HostnameRenders(a) == a.hostname = "plain"

Renders(a) == EnvRenders(a) /\ InterfacesRender(a) /\ HostnameRenders(a)

\* parse_ssh_pubkey
KeyParses(key) == key = "good"

-----------------------------------------------------------------------------
(* The environment file. *)

\* _bait_listen_host: a static address is known, a lease is not.
BaitListenHost(a) == IF a.address = "static" THEN "static" ELSE "unset"

\* render_env, with the secrets of this run; the rest has the loader's defaults.
EnvOf(a, run) ==
    [secrets |-> run, edited |-> FALSE, endpoint |-> a.endpoint,
     trusted |-> IF a.endpoint \in {"localhost", "127.0.0.1"} THEN "none" ELSE a.trusted,
     hook |-> a.hook, name |-> a.name, license |-> a.license, listen |-> BaitListenHost(a),
     decoys |-> a.decoys # "off", url |-> a.decoys # "off", enabled |-> TRUE,
     response |-> 2, chunk |-> 1, input |-> 1, scan |-> 2, hash |-> FALSE, manifests |-> FALSE,
     mild |-> 1, severe |-> 2, floor |-> 1, ceiling |-> 2, outside |-> {}]

\* What a line changed by hand makes of it.
HandEdits(e) ==
    LET edits ==
        {[e EXCEPT !.scan = n] : n \in Size} \union {[e EXCEPT !.response = n] : n \in Size}
        \union {[e EXCEPT !.chunk = n] : n \in Size} \union {[e EXCEPT !.input = n] : n \in Size}
        \union {[e EXCEPT !.severe = 1], [e EXCEPT !.ceiling = 0], [e EXCEPT !.decoys = TRUE],
                [e EXCEPT !.hash = TRUE], [e EXCEPT !.hash = TRUE, !.manifests = TRUE],
                [e EXCEPT !.enabled = FALSE], [e EXCEPT !.listen = "static"]}
        \union {[e EXCEPT !.outside = {s}] : s \in Spoiled}
    IN {[x EXCEPT !.edited = TRUE] : x \in edits}

-----------------------------------------------------------------------------
(* The loader: one operator per section, and the cross-field validators. *)

InBounds(section, e) == section \notin e.outside

EndpointLoads(e) ==
    IsLoopback(e.endpoint) \/ (e.trusted # "none" /\ IsLiteral(e.endpoint) /\ e.trusted = e.endpoint)

OllamaLoads(e) == InBounds("ollama", e) /\ EndpointLoads(e)
DashboardLoads(e) == InBounds("dashboard", e)
BridgeLoads(e) == InBounds("bridge", e) /\ e.name = "label"
RateLimitLoads(e) == InBounds("rate_limit", e)
ThreatLoads(e) == InBounds("threat", e) /\ e.hook \in {"none", "https"}
DefenseLoads(e) == InBounds("defense", e) /\ (e.hash => e.manifests)
GeoLoads(e) == InBounds("geo", e) /\ e.license # "dashed"
FingerprintLoads(e) == InBounds("fingerprint", e)
CredentialsLoads(e) == InBounds("credentials", e)
SessionStoreLoads(e) == InBounds("sessions", e)
AuditLoads(e) == InBounds("audit", e)
PersonaLoads(e) == InBounds("persona", e)
HoneytokensLoads(e) == InBounds("honeytokens", e) /\ (e.decoys => e.url)
CounterDeceptionLoads(e) == InBounds("counter_deception", e) /\ e.mild < e.severe
NarratorLoads(e) == InBounds("narrator", e)
LureLoads(e) == InBounds("lure", e) /\ e.floor <= e.ceiling

\* _validate_defense_scan_cap_covers_io_caps
ScanCovers(e) == e.scan >= e.response /\ e.scan >= e.input /\ e.chunk <= e.response

Loads(e) ==
    /\ InBounds("root", e)
    /\ OllamaLoads(e) /\ DashboardLoads(e) /\ BridgeLoads(e) /\ RateLimitLoads(e) /\ ThreatLoads(e)
    /\ DefenseLoads(e) /\ GeoLoads(e) /\ FingerprintLoads(e) /\ CredentialsLoads(e) /\ SessionStoreLoads(e)
    /\ AuditLoads(e) /\ PersonaLoads(e) /\ HoneytokensLoads(e) /\ CounterDeceptionLoads(e) /\ NarratorLoads(e)
    /\ LureLoads(e) /\ ScanCovers(e)
=============================================================================
