---- MODULE KubeletProcessProofs ----
(* Proofs about KubeletProcess, for any number of probes and any list of enabled *)
(* providers: how far main is tells what runs, so that a clean exit is one, and  *)
(* an answered probe has seen what it tells.                                     *)
EXTENDS KubeletProcess, TLAPS

\* Nothing has been started.
LEMMA InitProcess == Init => ProcessInv
<1> SUFFICES ASSUME Init PROVE ProcessInv
  OBVIOUS
<1>1. TypeOK
  BY Zenon DEF Init, TypeOK
<1>2. MainTells /\ ProbesTell /\ CleanExit /\ ProbeTellsConnection
  BY DEF Init, MainTells, ProbesTell, CleanExit, ToldToEnd, ProbeTellsConnection
<1> QED
  BY <1>1, <1>2 DEF ProcessInv

\* An exit leaves all but main and the exit code alone.
LEMMA ExitStep ==
  ASSUME ProcessInv, Runs, NEW code \in {"0", "1"}, Exits(code),
         code = "0" => ToldToEnd /\ cancelled /\ link = "stopped" /\ health # "serving"
  PROVE  ProcessInv'
<1> USE DEF ProcessInv, Runs, Exits, serverVars, signalVars, linkVars, probeVars
<1>1. TypeOK'
  BY DEF TypeOK
<1>2. MainTells' /\ CleanExit'
  BY DEF MainTells, CleanExit, ToldToEnd
<1>3. ProbesTell' /\ ProbeTellsConnection'
  BY DEF ProbesTell, ProbeTellsConnection
<1> QED
  BY <1>1, <1>2, <1>3

\* Every step of main keeps the invariant.
LEMMA MainStep == ProcessInv /\ Main => ProcessInv'
<1> SUFFICES ASSUME ProcessInv, Main PROVE ProcessInv'
  OBVIOUS
<1>1. CASE ConfigInvalid \/ KubernetesUnknown \/ ProviderFails \/ createControllersFails
           \/ StartFails
  BY <1>1, ExitStep DEF ConfigInvalid, KubernetesUnknown, ProviderFails,
                        createControllersFails, StartFails
<1>2. CASE Returns
  BY <1>2, ExitStep DEF Returns, ProcessInv, MainTells, ToldToEnd
<1>3. CASE NewProvider \/ StartsServers \/ Started \/ ShutsDown \/ StopsHealth \/ Cleanup
  <2> USE <1>3 DEF ProcessInv, NewProvider, StartsServers, Started, ShutsDown, StopsHealth,
                   Cleanup, Goes, Runs, serverVars, signalVars, linkVars, probeVars
  <2>1. TypeOK'
    <3>1. (main \in {"created", "starting", "running", "closing", "cleanup", "join"})'
          /\ (controllers \in {"off", "syncing", "ready", "failed"})'
          /\ (health \in {"off", "serving", "failed", "closed"})'
          /\ (api \in {"off", "serving", "failed"})'
          /\ (link \in {"off", "down", "dialing", "up", "stopped"})'
      BY DEF TypeOK
    <3>2. cancelled' \in BOOLEAN /\ stopping' \in BOOLEAN
      BY Zenon DEF TypeOK
    <3>3. UNCHANGED <<cfg, exitCode, signalCh, listening, probe, seen, asked>>
      OBVIOUS
    <3> QED
      BY <3>1, <3>2, <3>3 DEF TypeOK
  <2>2. MainTells' /\ CleanExit'
    BY DEF TypeOK, MainTells, CleanExit, ToldToEnd
  <2>3. ProbesTell' /\ ProbeTellsConnection'
    <3>1. UNCHANGED <<probe, seen>> /\ (UNCHANGED link \/ link = "off")
      BY DEF MainTells
    <3> QED
      BY <3>1 DEF ProbesTell, ProbeTellsConnection
  <2> QED
    BY <2>1, <2>2, <2>3
<1> QED
  BY <1>1, <1>2, <1>3 DEF Main

\* The invariant is inductive.
LEMMA ProcessStep == ProcessInv /\ [Next]_vars => ProcessInv'
<1> SUFFICES ASSUME ProcessInv, [Next]_vars PROVE ProcessInv'
  OBVIOUS
<1> USE DEF ProcessInv, Runs, serverVars, signalVars, linkVars, probeVars
<1>1. CASE SignalArrives \/ SignalReceived \/ APIServerFails \/ HealthServerFails
           \/ ControllersMove
  <2> USE <1>1 DEF SignalArrives, SignalReceived, APIServerFails, HealthServerFails,
                   ControllersMove
  <2>1. TypeOK'
    <3>1. UNCHANGED <<cfg, main, exitCode, link, stopping, probe, seen>>
      OBVIOUS
    <3>2. (signalCh \in {0, 1})' /\ (controllers \in {"off", "syncing", "ready", "failed"})'
          /\ (health \in {"off", "serving", "failed", "closed"})'
          /\ (api \in {"off", "serving", "failed"})'
      BY DEF TypeOK
    <3>3. cancelled' \in BOOLEAN /\ listening' \in BOOLEAN /\ asked' \in BOOLEAN
      BY Zenon DEF TypeOK
    <3> QED
      BY <3>1, <3>2, <3>3 DEF TypeOK
  <2>2. MainTells' /\ CleanExit'
    BY DEF TypeOK, MainTells, CleanExit, ToldToEnd
  <2>3. ProbesTell' /\ ProbeTellsConnection'
    BY DEF ProbesTell, ProbeTellsConnection
  <2> QED
    BY <2>1, <2>2, <2>3
<1>2. CASE Dials \/ DialEnds \/ ConnectionLost \/ ClientStops
  <2>1. PICK s \in {"down", "dialing", "up", "stopped"} :
          LinkGoes(s) /\ link # "off" /\ (s = "stopped" => stopping) /\ link # "stopped"
    BY <1>2 DEF Dials, DialEnds, ConnectionLost, ClientStops
  <2> USE <2>1 DEF LinkGoes
  <2>2. TypeOK'
    BY DEF TypeOK
  <2>3. MainTells' /\ CleanExit'
    BY DEF TypeOK, MainTells, CleanExit, ToldToEnd
  <2>4. ProbesTell' /\ ProbeTellsConnection'
    BY DEF TypeOK, ProbesTell, ProbeTellsConnection
  <2> QED
    BY <2>2, <2>3, <2>4
<1>3. ASSUME NEW p \in Probes, ProbeAsks(p) \/ ProbeAnswered(p) \/ ProbeOver(p)
      PROVE  ProcessInv'
  <2> USE <1>3 DEF ProbeAsks, ProbeAnswered, ProbeOver
  <2>1. TypeOK'
    BY DEF TypeOK
  <2>2. MainTells' /\ CleanExit'
    BY DEF MainTells, CleanExit, ToldToEnd
  <2>3. ProbesTell' /\ ProbeTellsConnection'
    BY DEF TypeOK, MainTells, ProbesTell, ProbeTellsConnection
  <2> QED
    BY <2>1, <2>2, <2>3
<1>4. CASE UNCHANGED vars
  BY <1>4 DEF vars, TypeOK, MainTells, ProbesTell, CleanExit, ToldToEnd, ProbeTellsConnection
<1> QED
  BY <1>1, <1>2, <1>3, <1>4, MainStep DEF Next

----------------------------------------------------------------------------
\* How far main is tells what has been started and what has been stopped
\* (main.go:78-210).
THEOREM ProcessInvariant == Spec => []ProcessInv
  BY InitProcess, ProcessStep, PTL DEF Spec

\* Exit code 0 is given only after a signal, or after a failure of the API server, and once
\* the client and the health server are stopped (main.go:148-187, 193-209).
THEOREM ExitsCleanly == Spec => []CleanExit
<1>1. ProcessInv => CleanExit
  BY DEF ProcessInv
<1> QED
  BY ProcessInvariant, <1>1, PTL

\* Readiness follows the connection and nothing else (kubelet.go:347-362;
\* health.go:123-143).
THEOREM ReadinessIsConnection == Spec => []ProbeTellsConnection
<1>1. ProcessInv => ProbeTellsConnection
  BY DEF ProcessInv
<1> QED
  BY ProcessInvariant, <1>1, PTL
====
