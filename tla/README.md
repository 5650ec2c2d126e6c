# A TLA+ model of the RunPod kubelet

The program is a virtual kubelet: Kubernetes schedules GPU pods onto a virtual
node, the kubelet tells a platform about them over one WebSocket, and the
platform answers with commands (deploy, terminate, status, reject, ping) that the
kubelet executes against RunPod. It holds no business logic and persists nothing.
What can go wrong is concurrency and loss: goroutines share a connection, two
queues and two maps, and connections, messages, calls and the process itself fail
at any point.

Files: the modules below, their proofs `*Proofs`, instances `MC*`, one `.cfg` per
run, and `PROJECT.json` with the map from definitions to source lines, the hazards,
the runs, the mutants and the theorems.

| Module | What it models | Proofs |
|---|---|---|
| `WSClient` | the goroutines of the WebSocket client and their interleavings | `WSClientProofs` |
| `LossyFifo` | what the client promises to those who send, as an abstract queue | `LossyFifoProofs` |
| `LinkTiming` | the clock of the same client: heartbeats, deadlines, delays | `LinkTimingProofs` |
| `PodProvider` | pod worker, command goroutine, the two maps, Kubernetes, RunPod, restart | `PodProviderProofs` |
| `PodContract` | what the pod side promises about the pods it holds, as one atomic cache | `PodContractProofs` |
| `PodAccounts` | `PodProvider` with an account of every pod and instance | `PodAccountsProofs` |
| `CommandPath` | one command through handler, manager, RunPod client and RunPod's API | `CommandPathProofs` |
| `KubeletProcess` | `main` from configuration to exit, signals, servers, probes | `KubeletProcessProofs` |

## Inventory

| Component | State | Operations | Interacts with |
|---|---|---|---|
| WebSocket client, `pkg/websocket/client.go` | `conn`, `connected`, `refusedReason`, `outboundCh` (200), `commandCh` (100), the context and `closeCh` | `Start`, `Stop`, `Send*`, `connectionManager`, `messageLoop`, `messageReader`, `heartbeatRoutine` | platform (socket), provider (`onConnect`, `Commands()`) |
| Pod provider, `pkg/virtual_kubelet/kubelet.go` | maps `pods` and `podStatus` under `podsMutex`, `notifyFunc` | `CreatePod`, `UpdatePod`, `DeletePod`, `GetPod`, `GetPodStatus`, `processCommands`, `handleReject`, `registerWithBackend`, `Cleanup` | virtual-kubelet library (calls and notifications), client, command handler |
| Command handler, `pkg/command/handler.go` | the reject callback | `Handle` and one handler per command | provider manager, pod provider |
| Provider manager and RunPod client, `pkg/providers` | registered providers | `Deploy`, `GetStatus`, `Terminate`, `PingAll` | RunPod's REST API |
| Protocol, `pkg/websocket/protocol.go` | none | encoding, decoding | all |
| Configuration, `pkg/config/config.go` | none after loading | load, `Validate`, `KeyMode` | all |
| Health server, `pkg/virtual_kubelet/health.go` | none | liveness, readiness, status | client, manager |
| `cmd/virtual_kubelet/main.go` | none | wiring, one pod worker, cleanup at exit | library |

What is hard, and what each component must keep:

* **Client.** The loop, a reader for each connection, the heartbeat, one
  `onConnect` goroutine per connection, senders and `Stop` interleave. A push into
  `outboundCh` is not atomic with the check of `connected`, an envelope leaves the
  queue before it is written, the queue outlives the connection, a refusal is
  recorded by one goroutine and collected by another, and `Stop` meets a dial in
  flight. It must keep the order of envelopes, lose few, leak no connection, notice
  a dead link, back off, and stop.
* **Pod provider.** The library's worker and `processCommands` share the maps;
  calls of both are split by sends and notifications outside the lock. A command's
  result may come for a pod that was deleted or replaced; events and responses may
  be lost; a restart empties the maps. The maps must agree, answers must be true,
  a rejection must last and be shown, and the cache must follow Kubernetes.
* **Handler, manager, RunPod client.** Stateless, but a call may have its effect
  and fail, or have it after the client gave up; instances move while they are
  asked about, and each command may carry a key of its own. A deploy must create
  one instance and name it, a terminate must be final, a status true, and no
  command may touch another account.
* **Process.** Start, signals, servers, controllers and probes run side by side,
  and `os.Exit` skips what was deferred. A shutdown must end, and readiness must
  tell the connection.
* **Protocol, configuration.** Conversions and checks without concurrency.

`PROJECT.json` lists each hazard at its line with the properties that cover it, or
why none does.

## What is modelled

### WSClient

An action is the code between two points where another goroutine can interfere: a
section under `connMutex`, a channel operation, a call on the socket.

| Code | Model |
|---|---|
| `connectionManager`, `connect`, `messageLoop`, `writeEnvelope` (one goroutine) | `mgr` and the actions of `ManagerStep` |
| `reconnectDelay`, `c.conn`, `c.connected`, `c.refusedReason` | `delay`, `conn`, `connected`, `refusedReason` (the number of the connection whose text it is) |
| `messageReader`, one goroutine per `messageLoop` | `reader[r]`, `ReaderStep`, `ReaderTimesOut`. It picks up `c.conn` when it first runs, which may be later than its loop |
| `outboundCh`, the envelope the loop holds | `outboundCh`, `writing` |
| `sendEnvelope` in its two steps, with its callers | `caller`, `SendChecksConnected`, `SendPushes`; `Apps` send events and responses, `Heart` is the heartbeat, caller `k` is the `onConnect` goroutine of connection `k` (registration, then ready) |
| `Stop`, `c.wg` | `stop`, `StopStep`, `AllGoroutinesDone` |
| network and platform | `link`, `inbox`, `Network`: a link dies, or the platform closes with code 1008, with or without a text, at any time; a write to a link that is gone may succeed or fail; a dial may fail |

`accepted`, `calls` and `wire` are histories. Two cancellations in `Stop` (context
and channel) are one step: whoever waits for the channel waits for the context
too. Left out: what envelopes carry, parsing errors of incoming frames (logged and
skipped), the URL helpers, the clock.

`LossyFifo` is what the client promises its callers, in five variables: envelopes
are taken in order, each is delivered on the current connection or lost with the
end of that connection. `ImplementsLossyFifo` maps `taken` to the envelopes that
left the queue and were not still being written, `delivered` to `wire`, `up` to
the loop being in service and `epoch` to the connection number.

### LinkTiming

The same client with time, and with its goroutines reduced to what their timers
see. Time is an integer; `TimePasses` is enabled only while no timer is due, so a
timer fires at its instant, before or after whatever else happens in it.

| Code | Model |
|---|---|
| dial, wait and service of `connectionManager` | `phase`, with its begin `from` and its end `by` |
| `reconnectDelay`, its doubling, cap and reset; the long wait after a refusal | `delay`, `WaitEnds`, `DialSucceeds`, `LoopReturns` |
| the heartbeat ticker, never reset | `tick`, `TickerFires` |
| `outboundCh` for heartbeats | `queued`, `writeBy` |
| `writeEnvelope` with its write deadline, and the ping behind a heartbeat with another | `inHand`, `writeEnds`, `LoopTakesEnvelope`, `WriteEnds`, `WriteFails`, `pongs` |
| `messageReader`, `SetReadDeadline` in the pong handler and before every read | `reader`, `deadline`, `ReaderTimesOut`, `ReaderSeesEnd`, `PongArrives`, `FrameArrives` |
| the `select` of `messageLoop` | `LoopSeesReaderDone`, `LoopTakesEnvelope`: while a write is under way neither can happen, and between writes either |
| network and platform | `alive`, `platform`, `LinkDies`, `PlatformChanges` |

A dead connection ends in three steps that may lie apart: its reader returns at the
read deadline, a write under way then lasts until its own deadline (twice that for a
heartbeat and its ping), and the `select` may prefer an envelope in the queue to the
reader's end, again and again. `late` counts those, `MaxLate` bounds them in the run,
and the bound of `DeadLinkEndsInTime` contains their number: the code itself
promises no fixed time while the queue is not empty. Writes by the library itself (the
reply to a ping or a close, with a deadline of 1 s) are left out.

What the code does not bound is a named constant: `WriteDelay` for the time until a
heartbeat in the queue is written on a live link, `RoundTrip` for a pong, `MaxGap` for
the time over which ticks may find the queue full. `HealthyLinkSurvives` holds when
the three together fit into the read timeout; the default configuration (30 s and 60 s)
leaves no room for one refused heartbeat, so nothing is said of it then.
`PongTimeout` is configured, defaulted and never read.

### PodProvider

| Code | Model |
|---|---|
| `p.pods` | `pods[k]`, the uid of the cached pod, 0 for no entry |
| `p.podStatus` | `podStatus[k]` with `podID`, `providerPodID` and whether `RejectCode` is not empty; `NoInfo` for no entry |
| `handleReject` | `RejectBooks`, `CommandNotifies`: the code of the command is stored as it came, and only one that is not empty makes `GetPodStatus` say Failed, so a reject without a code is answered with success and takes an earlier rejection back; Failed is notified either way |
| the pod controller's worker (`podController.Run(ctx, 1)`) in `CreatePod`, `UpdatePod`, `DeletePod` | `work`; lock section, send and notification of a handler are separate actions |
| `processCommands` with handler, manager, RunPod client | `exec` with the stages execute, book, notify, respond |
| `updatePodStatus` and what the library does with it | `Notified`, `reported`, `StatusSync`: the library keeps the latest notification of a key, drops keys Kubernetes does not have, and leaves a Failed pod alone |
| Kubernetes | `api` (uid per key), `shown` (phase) |
| RunPod | `launched`, `running`: a call is done, fails, or is done and its answer lost |
| platform | `heard`, `told`: commands may name any pod announced and any instance known, in any order, repeatedly |
| end of the process and start | `Restart`: maps and goroutines are gone, Kubernetes and RunPod remain |

`SendEvent` and `SendResponse` succeed or lose the message here; how they do is
`WSClient`'s subject, whose queue loses, but neither repeats nor reorders
(`LossyFifo`). In the library a pod without running containers leaves
Kubernetes before `DeletePod` is called, and no pod here ever has a running
container, because `StatusResult` (`statusResult` in the model) is set nowhere; so
deletion comes with `api[k] = 0`. `UpdatePod` is called only when specs differ, so it may or may not
happen when a pod was replaced under its name; where the two specs are equal the
cache keeps the older pod, which is why `LivePodsStay` asks for the call. The library
is modelled from how this code registers with it, and is marked external.

`PodContract` is the abstract cache: one pod per key with its verdict, which the
platform may give and take back, and its instance, changed in one step each. Only the pod Kubernetes wants now is taken, a
pod that is still wanted is let go by the death of the process alone, only held
pods are announced, and an instance enters one record, after all those booked
before. `ImplementsContract` maps `held` to `pods`, `rejected` and `booked` to the
two fields of `podStatus`, `known` to `heard`, `wanted` to `api`; the steps of the
worker and of the command goroutine that hold nothing of that are stutters.

`PodAccounts` extends it with three histories. Only the steps add to `lost` at which
the id of an instance is lost with a message or the process, only a creation event
that is lost adds to `unheard`, and only `UpdatePod`, which sends no event, to
`swapped`. The invariants say that an instance or a pod is unknown to the platform
for no other reason, whatever is deleted, replaced, rejected, repeated or restarted in
between. They say how things may be lost, not that they are not: a deploy repeated
after a lost response makes a second instance, and a pod that came in by `UpdatePod` is
never announced (`PodsAnnounced` says both halves; the run `pod_unannounced` shows
the disagreement with the document).

### CommandPath

`PodProvider` has a command done at a stroke; here one command is followed through
every function between the socket and RunPod's REST API, several commands after
each other.

| Code | Model |
|---|---|
| the command in hand and how far it is | `cmd`, `at` (handle, sent, replied, respond), `answer` |
| `HandleCommand`, `Handle`, the handlers, `errorResponse` | the actions of `Handle`, `Answers`, `Plain`, `ProviderFails` |
| `GetProvider`, `getAPIKey`, the checks before a call | `ProviderNotFound`, `KeyMissing`, `PodIDInvalid`, `getAPIKey` |
| `makeRESTRequestWithKey` with its timeouts | `SendsRequest`, `TimesOut`, `late`: a request given up may still be served |
| reading the reply, 404 as already gone or not found | `ReplyUnreadable`, `RequestFails`, `Deployed`, `Terminated`, `InstanceNotFound`, `StatusReported` |
| `PhaseForStatus` after `mapRunPodStatus`, `isSuccessfulCompletion` | operators of the same names |
| RunPod (external) | `account`, `desired`, `runtime`, `ServesRequest`, `RefusesRequest`, `InstanceMoves` |

RunPod is assumed to answer 404 for an instance another account owns, as its keys
are scoped to accounts; the code treats such an answer as "already terminated".
`madeBy`, `requests`, `past`, `ended` and `keyed` are histories; `keyed` holds for each
command its own key or the one the kubelet had when it took the command, so that what a
request does late, or after a restart with another key, can be held against it. A
command without a key works in whatever account the kubelet has then.

### KubeletProcess

| Code | Model |
|---|---|
| `main` up to its exit, deferred calls in their order | `main`, `exitCode`, the actions of `Main` |
| configuration, `Validate`, `initializeProviders` | `cfg`, `Validates`, `RegistersTwice` |
| signal channel of one, the goroutine that reads it once | `signalCh`, `listening` |
| pod and node controllers, API server, health server | `controllers`, `api`, `health` |
| the WebSocket client | `link`, `stopping`: dial, connection and `Stop` only |
| `/readyz`: `handleReadiness`, `Ping`, `HealthCheck`, `PingAll` | `probe`, `ProbeAsks`, `ProbeAnswered`; a probe lasts as long as the providers take |

`seen` is what the connection was like during a probe, `asked` whether a signal has
come. A failure of the kubelet API server is no such thing: the code logs it, cancels
the context and, once the process runs, ends with code 0. `ToldToEnd` names the two
causes, and `CleanExit` says of code 0 that there was one of them and that everything
was stopped.

## Runs and bounds

| Run | Question | Bounds |
|---|---|---|
| `ws_outbound` | order, loss, leaks, refinement, each `onConnect` goroutine's registration before its `kubelet_ready`; with a sender, `Stop` at any time, dial and write failures | 2 connections, queue 2, one send; enough for an envelope to be queued on one connection and written on the next, and for two refused pushes. 3.6 million states |
| `ws_lifecycle` | termination of `Stop`, dead links with a queue that is not empty, cause of the long wait; every way the far end leaves | 2 connections, queue 2, two heartbeats: one written while the other waits, and both in the queue when the reader ends |
| `ws_commands` | a command queue nobody empties; no command is taken twice | 2 connections, 3 commands for a queue of 1: one queued, one in a reader's hands, one still on the wire, and two readers on the second connection |
| `pod_cache` | truth of answers, who may take a rejection back, the accounts of `PodAccounts`, the inductive invariant (with the agreement of the maps among its parts), the refinement of `PodContract` | 2 keys, 3 pods, 2 commands, 1 restart: two pods under one name, a reject and a deploy or two rejects for one record, a deploy and its terminate, a deploy repeated |
| `pod_settles` | the cache comes to hold the very pod Kubernetes has, or none | 1 key, 3 pods, 3 commands, 1 restart |
| `link_timing` | heartbeats against the read deadline, dead links, time to reconnect, the waits | units of the heartbeat interval: read timeout 5, of which gap, write and pong take 4; write timeout 1, at most 2 envelopes taken after the reader's end; delays 1, 2, 3, 3, so that the cap cuts a doubling; 15 units, long enough for a connection that dies and takes 11 units to be given up, and for an outage with three failed dials and the connection after it. The bound on a dead link is reached with no late envelope and with two. 3.7 million states |
| `command_path` | what answers mean, one instance per deploy, accounts, an answer to every command | 2 accounts and no key, 2 instances, 2 commands of any content, 2 moves of instances, 1 restart with another key: a deploy and its terminate or status, two deploys, a late request beside the next command and after the restart. 970 thousand states |
| `process` | shutdown ends, clean exits, readiness | every configuration with up to 2 providers (twice the same among them), 2 probes at once; nothing else is bounded |

The runs allow the end of behaviours (`CHECK_DEADLOCK FALSE`): the client stops
for good after `Stop`, the process ends, and with the bounds used up nothing has to
happen. Outside `LinkTiming` delays are numbers only in their ratio.

Four runs look for a disagreement between the code and what its comments or documents
say, and find it:

* `ws_refusal`: a platform refusal that was read does not lead to the long wait,
  when a write fails first and the loop collects the reason before the reader has
  stored it (`client.go:410-412`, `266`).
* `pod_rejected`: the Pending notification of `CreatePod` overtakes the Failed one
  of a fast rejection, and the pod stays Pending in Kubernetes
  (`docs/ARCHITECTURE.md:613`). Another page of that document, line 163, says a
  rejected pod is to stay Pending; `README.md:145-146` agrees with line 613.
* `ws_registration`: two registrations are written on one connection, its own and the
  one that was queued for the connection before it and outlived it (`protocol.go:10`
  says once after connect; the queue is `client.go:376`). `RegistersInOrder`, which holds,
  speaks of each `onConnect` goroutine and not of each connection for that reason.
* `pod_unannounced` (two pods, no command): a pod that was created in the place of a
  deleted one of its name before the worker looked comes in by `UpdatePod`, and no
  `pod_created` is ever sent for it (`docs/ARCHITECTURE.md:140`, `kubelet.go:191-200`).

Met while modelling, and without a run of their own:

* `PodInstanceInfo.StatusResult` is assigned nowhere (`kubelet.go:66`, `289`): the result
  of a status command goes to the platform only, and no pod is ever shown Running,
  though `README.md:140` shows one going there.
* A start that fails or is cancelled leaves through `os.Exit(1)` (`main.go:163-166`,
  `200-203`), which skips the deferred calls, among them the cleanup that
  `main.go:148` calls "Ensure cleanup on exit"; and a failure of the API server ends a
  running process with code 0 (`main.go:193-196`).
* A registration that meets a full queue is not tried again (`kubelet.go:589` against
  `docs/ARCHITECTURE.md:568`); a creation event that could not be sent is not sent later
  (`kubelet.go:179-180`), which `PodsAnnounced` accounts for.
* `UpdatePod` keeps the record of the pod it replaces, and commands carry no uid, so a
  command may act on the successor of its pod. A reject without a code is accepted
  (`handler.go:199-227`) and counts as none (`kubelet.go:282`).
* A terminate with the key of another account meets a 404 and is answered as terminated.
* `ProviderError.Retry` never reaches the platform; `--enabled-providers=runpod,runpod`
  passes `Validate` and ends the process with code 1; `KeyMode` is "local" as soon as any
  provider has a key.

Every property of a passing run has a mutant of the code's model, a plausible bug,
that breaks it (`PROJECT.json`, "mutants"; in the modules each is marked `Mutant:`).

## Fairness

`WSClient`: a goroutine that can run runs (weak fairness of the manager, of each
reader, of each sender in `sendEnvelope`, of the heartbeat's end and of `Stop`).
A dial is bounded by its handshake timeout of 30 s, a delay by its timer, a read on
a dead or closed connection by its deadline. Go's `select` picks at random among
its ready cases, so a way out of the loop that is ready again and again is taken:
strong fairness of `LoopSeesStop` and `LoopSeesReaderDone`. Nothing is assumed of
the network, the platform, whoever sends, or `processCommands`.

`PodProvider`: both goroutines go on, an HTTP call ends within its timeout, and
the library's work queues are first-in first-out per key, hence strong fairness of
`CreateStores` and `DeleteReads`. Sends may fail for ever. Nothing is assumed of
users, of the platform or of the survival of the process.

`CommandPath`: the command goroutine goes on and every request has a timeout
(`client.go:548-557` of the RunPod client); RunPod need not answer, and a late
request need not be served.

`KubeletProcess`: `main`, the signal goroutine and the client's goroutines go on,
and a dial ends within its timeout. Controllers need not become ready or fail,
probes and providers need not answer, nobody need send a signal: `ShutdownEnds`
starts from the signal or the API server's failure.

`LinkTiming` has no fairness: its properties are bounds in time, checked as
invariants.

## What is proved

All proofs are checked by TLAPS for every value of the constants that satisfies the
named assumptions (positive capacities and delays, finite bounds as naturals,
disjoint callers, `NoPod` not a pod, `NoKey` not an account, a finite set of probes).

* `LossyFifoProofs`: the contract keeps order and loses at most one envelope per
  ended connection (`ContractKept`), from an invariant relating the history to the
  counts.
* `WSClientProofs`: `ClientInv` is inductive (`ClientInvariant`). Its parts are
  proved in three layers, each using the ones before: the connection, the manager
  and `Stop` (`ConnInv`); the queue, whose ids are the last ones given out in a
  row, with the envelope being written just before them (`OutInv`); the readers and
  the command queue (`InInv`). `ConnectedIsServed` alone is not inductive: it needs
  to know that the loop serves the latest connection, and `QueueIds` is needed for
  the refinement, where a written envelope must be the contract's next one. From it
  follow the types (`TypeCorrect`), `ConnectionsKept`, `NothingOpenAfterStop` and
  the refinement (`Implements`); `OrderAndLoss` then takes order and loss bound
  from the contract instead of proving them again. `LongWaitJustified` follows a
  refusal from the close frame to the wait (`RefusalInv`: which reader saw it, which
  connection it belongs to); `BackoffOnlyGrows` needs `ReconnectInterval <=
  MaxReconnectDelay`, which `Validate` does not check, and states it.
  `CommandsNeverRepeat` needs that a command on its way is in one place only, one
  inbox, one reader's hands or the queue (`OnePlace`), also while a reader of an
  earlier connection reads from a later one. `RegistersOnce` rests on `SignOnInv`:
  what the goroutine of a connection has sent can be told from what it sends next,
  for the envelopes written, being written and queued alike; that ids are written in
  order it takes from the contract.
* `PodProviderProofs`: `PodInv` is inductive (`PodInvariant`), with one lemma per
  conjunct; four lemmas say who writes what a pod is in Kubernetes, the maps, the
  worker's state and the command's (`KubeSteps`, `CacheSteps`, `WorkSteps`,
  `ExecSteps`), so that each conjunct is followed through the actions that can
  disturb it. `AnswersAreTrue` needs that between booking and
  answer the record either is still the one booked or its pod is gone from
  Kubernetes or replaced (`BookedRecordStays`), which needs that uids grow
  (`CacheOrder`) and that a pod being deleted does not come back (`WorkerOwnsPod`).
  `MapsAlwaysAgree`, `AnswersAlwaysTrue` and `RejectionsStick` follow; the last names
  the one step that may take a rejection back, a reject without a code.
* `PodContractProofs`: the abstract cache keeps instances apart (a booked instance
  is younger than any in a record) and never holds a pod older than one it announced
  under that key, for which uids must grow and belong to one key (`UidsGrow`,
  `UidsApart`). `PodProviderProofs` shows that `PodProvider` implements it
  (`Implements`), one lemma per kind of step. It needs two parts of `PodInv` that no
  run's property alone would ask for: the pod about to be announced is the cached
  one (`AnnouncesHeld`), and the instance about to be booked is younger than every
  booked one (`BookingOrder`: one goroutine creates and books). The theorems of the
  contract, instantiated with the mapping, are then theorems of the code
  (`NoOlderPod`, `InstancesApart`, `LivePodsAreHeld`).
* `PodAccountsProofs`: every step of `PodAccounts` is one of `PodProvider`, so
  `PodInv` carries over, and with it the two accounts are inductive as they stand:
  `InstancesNeverForgotten` needs what is in hand (`InHand`). `PodsNeverForgotten` has
  two halves: that every other pod was announced or lost its event needs that the pod
  being announced is the cached one, and that a pod of `UpdatePod` never is announced
  needs `SwapsUnannounced`: it stays cached until Kubernetes has lost it, so `CreatePod`
  never meets it.
* `LinkTimingProofs`: `TimingInv` is inductive. `HealthyLinkSurvives` rests on
  `PaceInv`: the next sign of life, be it a pong under way, one for a queued
  heartbeat or one for the next accepted, comes before the deadline. `DeadLinksEndInTime`
  rests on `EndInv`, which follows a dead link from the deadline over the write under way
  then to each envelope taken late. `BackInTime`
  rests on `DialInv`, which bounds when the dial or wait under way began. No
  relation between the two delays is assumed. `WaitsAlwaysDouble` first shows, by the
  least element of a set of naturals, that the powers of two are what their
  recursion says and that doubling a capped wait is capping the doubled one.
* `CommandPathProofs`: `CommandInv` is inductive. What its parts need is that a
  request exists once, in hand, late or used up (`CreatedOnce`, `InHand`), that what
  RunPod answered was so at that moment and is kept in `past` (`ReplyTrue`), and that
  ids are given out in turn, so that no late create brings an instance back
  (`EndedForGood`). `DeploysOnce`, `TerminatedForGood`, `StatusWasTrue` and
  `RefusalsAreClean` follow, and the action property `AccountsNeverMix`, for which every
  request under way, late ones included, must carry the key its command had when it was
  taken (`KeysGoAlong`).
* `KubeletProcessProofs`: `ProcessInv` is inductive; `MainTells` says from how far
  `main` is what has been started and stopped, `ProbesTell` what a probe has seen.

Only model-checked: everything under fairness (`StopTerminates`, `DeadLinkNoticed`,
`CommandsAreRead`, `DeletedPodsLeave`, `LivePodsStay`,
`CommandsAreAnswered`, `ShutdownEnds`), for liveness and `ENABLED` are beyond this
prover. Every invariant and every action property of the passing runs is proved.
The types and `ConnectedIsServed` of `WSClient` are conjuncts of `ClientInv`, the types
and `MapsAgree` of `PodProvider` conjuncts of `PodInv`: they are checked as such by the
runs of these invariants, and proved.

## Not modelled

* Helm chart and manifests: data. The strategy `Recreate` is why one process at a
  time is assumed.
* Encoding, timestamps and optional fields of the protocol, the loading of the
  configuration from flags, file and environment, node status and labels, `/healthz`,
  `/health` and `/status`, the fields `convertDeployParams` copies: sequential
  conversions that no decision modelled here reads.
* `podsMutex` around the write of a cached pod's status (`kubelet.go:616`): a data
  race on fields no decision reads.
* The failure of a controller once it was ready (`main.go:422`) is in
  `KubeletProcess`, but nothing is claimed of it: it is only logged.

## Plan

Done, in the order of importance: the client with its contract, the pod side with its, the
clock of the client, the path of a command, the accounts of pods and instances, the
process. What could follow:

1. `PodProvider` over `LossyFifo` in both directions instead of a loss per message,
   to speak of the order in which the platform hears of a pod.
2. The identity of a record and its pod (`kubelet.go:57` against `196`), once commands
   carry a uid or `UpdatePod` renews the record.
