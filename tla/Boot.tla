-------------------------------- MODULE Boot --------------------------------
(***************************************************************************)
(* A process of the gateway from its environment to its exit (index,       *)
(* config.preflight, workers/supervisor).  Workers of a network start when *)
(* its RPC first answers a probe; until then probes back off and go on.    *)
(***************************************************************************)
EXTENDS Integers

CONSTANTS
    Network, Mainnet, \* the registry, and its mainnets
    MaxRetry          \* PROBE_RETRY_MAX_MS, in units of PROBE_RETRY_MS

VARIABLES
    env,       \* the environment, as far as the boot looks at it
    phase,     \* how far index.ts has come
    answering, \* networks whose RPC answers
    timer,     \* per network: units until run(), or that none is armed
    retry,     \* retryMs
    running    \* networks whose workers have started

vars == <<env, phase, answering, timer, retry, running>>

BNumbers == MaxRetry \in Nat \ {0} /\ Mainnet \subseteq Network

Env == [required : BOOLEAN, mnemonic : {"invalid", "public", "private"},
        enableMainnets : BOOLEAN, sweep : {"off", "dry", "live"}, treasury : BOOLEAN,
        signer : {"local", "remote"}, credential : SUBSET Network]

Phase == {"preflight", "seed", "operator", "up", "draining", "exited"}
Off == -1

TypeOK ==
    /\ env \in Env
    /\ phase \in Phase
    /\ answering \subseteq Network
    /\ timer \in [Network -> Off..MaxRetry]
    /\ retry \in [Network -> 1..MaxRetry]
    /\ running \subseteq Network

Init ==
    /\ env \in Env
    /\ phase = "preflight"
    /\ answering = {}
    /\ timer = [n \in Network |-> Off]
    /\ retry = [n \in Network |-> 1]
    /\ running = {}

NETWORK_IDS == IF env.enableMainnets THEN Network ELSE Network \ Mainnet
mainnets == NETWORK_IDS \cap Mainnet

\* Why preflight and preflightSweeping refuse to start.
Refused ==
    \/ ~env.required
    \/ env.mnemonic = "invalid"
    \/ env.mnemonic = "public" /\ mainnets # {}
    \/ env.sweep # "off" /\ ~env.treasury
    \/ env.sweep = "live" /\ env.signer = "local" /\ mainnets # {}

preflight ==
    /\ phase = "preflight"
    /\ phase' = IF Refused THEN "exited" ELSE "seed"
    /\ UNCHANGED <<env, answering, timer, retry, running>>

\* The seed matches or cannot be checked; or it is another's, and the process exits.
assertSeedIdentity ==
    /\ phase = "seed"
    /\ phase' \in {"operator", "exited"}
    /\ UNCHANGED <<env, answering, timer, retry, running>>

\* Done or deferred, the operator's bootstrap is followed by a first probe of each network.
superviseNetworks ==
    /\ phase = "operator"
    /\ phase' = "up"
    /\ timer' = [n \in Network |-> IF n \in NETWORK_IDS \cap env.credential THEN 0 ELSE Off]
    /\ UNCHANGED <<env, answering, retry, running>>

-----------------------------------------------------------------------------
Alive == phase \in {"up", "draining"}
Probing(n) == Alive /\ timer[n] = 0

\* probe answers: start().
ProbeAnswers(n) ==
    /\ Probing(n)
    /\ n \in answering
    /\ running' = running \cup {n}
    /\ timer' = [timer EXCEPT ![n] = Off]
    /\ UNCHANGED <<env, phase, answering, retry>>

\* Mutant: at its longest the delay is the last.
armedBelowCap(n) == IF retry[n] < MaxRetry THEN retry[n] ELSE Off

armed(n) == retry[n]
doubled(n) == IF 2 * retry[n] < MaxRetry THEN 2 * retry[n] ELSE MaxRetry

\* probe throws: run() again after retryMs.
ProbeFails(n) ==
    /\ Probing(n)
    /\ n \notin answering
    /\ timer' = [timer EXCEPT ![n] = armed(n)]
    /\ retry' = [retry EXCEPT ![n] = doubled(n)]
    /\ UNCHANGED <<env, phase, answering, running>>

\* No probe is due, and a unit of time passes.
Tick ==
    /\ Alive
    /\ \E n \in Network : timer[n] > 0
    /\ \A n \in Network : timer[n] # 0
    /\ timer' = [n \in Network |-> IF timer[n] > 0 THEN timer[n] - 1 ELSE timer[n]]
    /\ UNCHANGED <<env, phase, answering, retry, running>>

\* A provider goes down, or comes back.
Flap(n) ==
    /\ answering' = IF n \in answering THEN answering \ {n} ELSE answering \cup {n}
    /\ UNCHANGED <<env, phase, timer, retry, running>>

-----------------------------------------------------------------------------
\* SIGTERM or SIGINT: the first starts the drain, a second one ends it.  Before index.ts
\* has its handler a signal kills the process (or the OTLP exporter's handler takes it,
\* and nothing else happens).
Signal ==
    /\ phase # "exited"
    /\ phase' = IF phase = "up" THEN "draining" ELSE "exited"
    /\ UNCHANGED <<env, answering, timer, retry, running>>

\* The pool has ended, or its five seconds are over.
Drained ==
    /\ phase = "draining"
    /\ phase' = "exited"
    /\ UNCHANGED <<env, answering, timer, retry, running>>

BootStep == preflight \/ assertSeedIdentity \/ superviseNetworks \/ Drained
SuperviseStep(n) == ProbeAnswers(n) \/ ProbeFails(n)

Next ==
    \/ BootStep \/ Tick \/ Signal
    \/ \E n \in Network : SuperviseStep(n) \/ Flap(n)

\* Timers fire, calls return or time out; a provider need not come back.
Fairness == WF_vars(BootStep) /\ WF_vars(Tick) /\ \A n \in Network : WF_vars(SuperviseStep(n))

Spec == Init /\ [][Next]_vars /\ Fairness

-----------------------------------------------------------------------------
\* However long the RPC of a network was away, and whatever the other networks do, its
\* workers start once it answers for good, without a restart, while the process lives.
NetworksComeUp ==
    \A n \in Network :
       (<>[](n \in answering) /\ []<>(phase = "up" /\ n \in NETWORK_IDS \cap env.credential))
           => <>(n \in running)

=============================================================================
