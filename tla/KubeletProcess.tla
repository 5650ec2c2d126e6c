---- MODULE KubeletProcess ----
(* The process from its configuration to its exit: main of cmd/virtual_kubelet, *)
(* the signal handler, the servers and controllers it starts, the probes that   *)
(* ask the health server, and the WebSocket client as far as its start, its     *)
(* connection and its Stop go. WSClient has the client in full.                 *)
EXTENDS Naturals, FiniteSets

CONSTANTS
    Probes,         \* requests to /readyz that may be under way at once
    MaxEnabled      \* bound: length of --enabled-providers

ASSUME ProcessBounds == MaxEnabled \in Nat /\ IsFiniteSet(Probes)

VARIABLES
    cfg,            \* the configuration, read once
    main,           \* where the main goroutine is
    exitCode,       \* "none", or the exit code of the process
    cancelled,      \* ctx of main; the provider's ends with it
    signalCh, listening,        \* signal queued; its goroutine still waits for one
    controllers, health, api,   \* what main has started
    link, stopping,             \* the client's connection; its Stop was called
    probe,          \* probe -> how far it is
    asked,          \* history: a signal came
    seen            \* history: probe -> what link was like meanwhile

serverVars == <<controllers, health, api>>
signalVars == <<signalCh, listening>>
linkVars == <<link, stopping>>
probeVars == <<probe, seen>>
vars == <<cfg, main, exitCode, cancelled, signalVars, serverVars, linkVars, probeVars, asked>>

\* sound stands for the fields Validate looks at one by one, providers for the list
\* of enabled ones: implemented, planned, unknown.
Configs == [sound : BOOLEAN,
            providers : UNION {[1 .. n -> {"runpod", "vastai", "azure"}] : n \in 0 .. MaxEnabled}]

Validates(c) ==
    /\ c.sound
    /\ DOMAIN c.providers # {}
    /\ \A i \in DOMAIN c.providers : c.providers[i] # "azure"

\* RegisterProvider refuses a name it has. Planned providers are only warned about.
RegistersTwice(c) == Cardinality({i \in DOMAIN c.providers : c.providers[i] = "runpod"}) > 1

Init ==
    /\ cfg \in Configs /\ main = "validate" /\ exitCode = "none" /\ cancelled = FALSE
    /\ signalCh = 0 /\ listening = TRUE
    /\ controllers = "off" /\ health = "off" /\ api = "off"
    /\ link = "off" /\ stopping = FALSE
    /\ probe = [p \in Probes |-> "none"] /\ seen = [p \in Probes |-> {}]
    /\ asked = FALSE

Runs == exitCode = "none"

\* os.Exit and the return of main end every goroutine.
Exits(code) ==
    /\ exitCode' = code /\ main' = "over"
    /\ UNCHANGED <<cfg, cancelled, signalVars, serverVars, linkVars, probeVars, asked>>

Goes(place) == main' = place /\ UNCHANGED <<cfg, exitCode, signalVars, probeVars, asked>>

----------------------------------------------------------------------------
(* main                                                                       *)

ConfigInvalid == Runs /\ main = "validate" /\ ~Validates(cfg) /\ Exits("1")

\* Or there is no usable kubeconfig.
KubernetesUnknown == Runs /\ main = "validate" /\ Validates(cfg) /\ Exits("1")

\* The client's Start only spawns its goroutines.
NewProvider ==
    /\ Runs /\ main = "validate" /\ Validates(cfg)
    /\ ~RegistersTwice(cfg)
    /\ Goes("created")
    /\ link' = "down"
    /\ UNCHANGED <<cancelled, serverVars, stopping>>

ProviderFails ==
    Runs /\ main = "validate" /\ Validates(cfg) /\ RegistersTwice(cfg) /\ Exits("1")

createControllersFails == Runs /\ main = "created" /\ Exits("1")

\* Controllers, health server and API server run on goroutines of their own.
StartsServers ==
    /\ Runs /\ main = "created"
    /\ Goes("starting")
    /\ controllers' = "syncing" /\ health' = "serving" /\ api' = "serving"
    /\ UNCHANGED <<cancelled, linkVars>>

Started ==
    /\ Runs /\ main = "starting" /\ controllers = "ready"
    /\ Goes("running")
    /\ UNCHANGED <<cancelled, serverVars, linkVars>>

\* Mutant: the start waits for the controllers alone.
StartFailsUnasked ==
    Runs /\ main = "starting" /\ controllers = "failed" /\ Exits("1")

\* The controllers ended first, or there is a shutdown before they are ready.
StartFails ==
    Runs /\ main = "starting" /\ (controllers = "failed" \/ cancelled) /\ Exits("1")

\* The deferred calls run last to first: the health server is stopped before the client.
ShutsDown ==
    /\ Runs /\ main = "running" /\ cancelled
    /\ Goes("closing")
    /\ UNCHANGED <<cancelled, serverVars, linkVars>>

\* Shutdown waits for probes under way for at most 5 s.
StopsHealth ==
    /\ Runs /\ main = "closing"
    /\ Goes("cleanup")
    /\ health' = IF health = "serving" THEN "closed" ELSE health
    /\ UNCHANGED <<cancelled, controllers, api, linkVars>>

Cleanup ==
    /\ Runs /\ main = "cleanup"
    /\ Goes("join")
    /\ cancelled' = TRUE /\ stopping' = TRUE
    /\ UNCHANGED <<serverVars, link>>

\* Mutant: Stop does not wait for the client's goroutines.
ReturnsAtOnce == Runs /\ main = "join" /\ Exits("0")

\* Stop has waited for the client's goroutines.
Returns == Runs /\ main = "join" /\ link = "stopped" /\ Exits("0")

----------------------------------------------------------------------------
(* Signals, servers and controllers                                           *)

\* A signal more than the channel holds is dropped.
SignalArrives ==
    /\ Runs /\ signalCh' = 1 /\ asked' = TRUE
    /\ UNCHANGED <<cfg, main, exitCode, cancelled, listening, serverVars, linkVars, probeVars>>

\* Only the first signal is received.
SignalReceived ==
    /\ Runs /\ listening /\ signalCh = 1
    /\ signalCh' = 0 /\ listening' = FALSE /\ cancelled' = TRUE
    /\ UNCHANGED <<cfg, main, exitCode, serverVars, linkVars, probeVars, asked>>

\* The process shuts down when it cannot serve the kubelet API.
APIServerFails ==
    /\ Runs /\ api = "serving"
    /\ api' = "failed" /\ cancelled' = TRUE
    /\ UNCHANGED <<cfg, main, exitCode, signalVars, controllers, health, linkVars, probeVars,
                   asked>>

\* The address is taken, say; the error is only logged.
HealthServerFails ==
    /\ Runs /\ health = "serving"
    /\ health' = "failed"
    /\ UNCHANGED <<cfg, main, exitCode, cancelled, signalVars, controllers, api, linkVars,
                   probeVars, asked>>

\* virtual-kubelet's pod controller: the caches are synced, or its Run ends. Once it is
\* ready, its end is only logged.
ControllersMove ==
    /\ Runs /\ controllers \in {"syncing", "ready"}
    /\ controllers' \in {"ready", "failed"} \ {controllers}
    /\ UNCHANGED <<cfg, main, exitCode, cancelled, signalVars, health, api, linkVars,
                   probeVars, asked>>

----------------------------------------------------------------------------
(* The client's connection, as the probes see it                              *)

LinkGoes(s) ==
    /\ Runs /\ link' = s
    /\ seen' = [p \in Probes |-> IF probe[p] = "none" THEN {} ELSE seen[p] \cup {s}]
    /\ UNCHANGED <<cfg, main, exitCode, cancelled, signalVars, serverVars, stopping, probe, asked>>

Dials == link = "down" /\ ~stopping /\ LinkGoes("dialing")

\* A dial takes at most 30 s, Stop or no Stop, and may succeed after it.
DialEnds == link = "dialing" /\ (LinkGoes("up") \/ LinkGoes("down"))

ConnectionLost == link = "up" /\ LinkGoes("down")

ClientStops == stopping /\ link \in {"down", "up"} /\ LinkGoes("stopped")

----------------------------------------------------------------------------
(* Probes                                                                     *)

\* handleReadiness: Ping looks whether the client is connected, and pings the providers
\* if it is.
ProbeAsks(p) ==
    /\ Runs /\ health = "serving" /\ probe[p] = "none"
    /\ probe' = [probe EXCEPT ![p] = IF link = "up" THEN "pinging" ELSE "unready"]
    /\ seen' = [seen EXCEPT ![p] = {link}]
    /\ UNCHANGED <<cfg, main, exitCode, cancelled, signalVars, serverVars, linkVars, asked>>

\* Mutant: a provider that does not answer makes the kubelet unready.
ProbeAnsweredByProviders(p) ==
    /\ Runs /\ probe[p] = "pinging"
    /\ probe' = [probe EXCEPT ![p] = "ready"] \/ probe' = [probe EXCEPT ![p] = "unready"]
    /\ UNCHANGED <<cfg, main, exitCode, cancelled, signalVars, serverVars, linkVars, seen, asked>>

\* Whatever the providers said, and however long it took them.
ProbeAnswered(p) ==
    /\ Runs /\ probe[p] = "pinging"
    /\ probe' = [probe EXCEPT ![p] = "ready"]
    /\ UNCHANGED <<cfg, main, exitCode, cancelled, signalVars, serverVars, linkVars, seen, asked>>

ProbeOver(p) ==
    /\ Runs /\ probe[p] \in {"ready", "unready"}
    /\ probe' = [probe EXCEPT ![p] = "none"] /\ seen' = [seen EXCEPT ![p] = {}]
    /\ UNCHANGED <<cfg, main, exitCode, cancelled, signalVars, serverVars, linkVars, asked>>

----------------------------------------------------------------------------
Main ==
    \/ ConfigInvalid \/ KubernetesUnknown \/ NewProvider \/ ProviderFails
    \/ createControllersFails \/ StartsServers \/ Started \/ StartFails
    \/ ShutsDown \/ StopsHealth \/ Cleanup \/ Returns

Next ==
    \/ Main
    \/ SignalArrives \/ SignalReceived \/ APIServerFails \/ HealthServerFails \/ ControllersMove
    \/ Dials \/ DialEnds \/ ConnectionLost \/ ClientStops
    \/ \E p \in Probes : ProbeAsks(p) \/ ProbeAnswered(p) \/ ProbeOver(p)

Spec == Init /\ [][Next]_vars

\* Goroutines go on, a dial has a timeout. Controllers, probes and the platform owe
\* nothing.
FairSpec ==
    /\ Spec /\ WF_vars(Main) /\ WF_vars(SignalReceived) /\ WF_vars(DialEnds) /\ WF_vars(ClientStops)

----------------------------------------------------------------------------
\* Values stay within their sorts.
TypeOK ==
    /\ cfg \in Configs /\ exitCode \in {"none", "0", "1"} /\ cancelled \in BOOLEAN
    /\ main \in {"validate", "created", "starting", "running", "closing", "cleanup",
                 "join", "over"}
    /\ signalCh \in {0, 1} /\ listening \in BOOLEAN
    /\ controllers \in {"off", "syncing", "ready", "failed"}
    /\ health \in {"off", "serving", "failed", "closed"}
    /\ api \in {"off", "serving", "failed"}
    /\ link \in {"off", "down", "dialing", "up", "stopped"} /\ stopping \in BOOLEAN
    /\ probe \in [Probes -> {"none", "pinging", "ready", "unready"}]
    /\ seen \in [Probes -> SUBSET {"off", "down", "dialing", "up", "stopped"}]
    /\ asked \in BOOLEAN

\* What ends a process that has come to run: a signal, or the failure of its API server.
ToldToEnd == asked \/ api = "failed"

\* The process reports success only after it was told to end, with the client's goroutines
\* over and no probe accepted any more. That covers a failure of the kubelet API server:
\* it is logged, and once the process runs it ends with code 0 like a signal does; the end
\* of a controller never ends it (main.go:148-187, 193-209).
CleanExit == exitCode = "0" => ToldToEnd /\ cancelled /\ link = "stopped" /\ health # "serving"

\* Ready means that the connection was up during the probe, and unready that it was not,
\* for another reason than the process's own shutdown; the providers have no say, and a
\* probe overtaken by the connection's end still tells what it saw (kubelet.go:347-362;
\* health.go:123-143; main.go:182-187).
ProbeTellsConnection ==
    \A p \in Probes :
        /\ probe[p] = "ready" => "up" \in seen[p]
        /\ probe[p] = "unready" => {"down", "dialing"} \intersect seen[p] # {}

\* A signal ends the process, and so does the failure of its API server, however far its
\* start has come and whatever the connection is doing (main.go:98-105, 189-209, 427-436;
\* client.go:145-161).
ShutdownEnds == ToldToEnd ~> exitCode # "none"

\* What makes CleanExit and ProbeTellsConnection inductive: how far main is tells what
\* is started and what is stopped.
MainTells ==
    /\ main = "validate" => link = "off"
    /\ main \notin {"validate", "over"} => link # "off"
    /\ stopping => main \in {"join", "over"} /\ health # "serving"
    /\ main \in {"closing", "cleanup", "join"} => cancelled
    /\ main \in {"validate", "created"} => health = "off" /\ api = "off"
    /\ main \in {"cleanup", "join"} => health # "serving"
    /\ cancelled => ToldToEnd
    /\ signalCh = 1 => asked
    /\ link = "stopped" => stopping
    /\ (exitCode = "none") <=> (main # "over")
    /\ health = "serving" => link # "off"

ProbesTell ==
    \A p \in Probes :
        /\ probe[p] # "none" => link \in seen[p] /\ link # "off"
        /\ probe[p] \in {"pinging", "ready"} => "up" \in seen[p]
        /\ probe[p] = "unready" => {"down", "dialing"} \intersect seen[p] # {}

\* The inductive invariant.
ProcessInv == TypeOK /\ MainTells /\ ProbesTell /\ CleanExit /\ ProbeTellsConnection
====
