---- MODULE PodAccounts ----
(* PodProvider with histories that no code keeps: the instances whose id the     *)
(* platform was to be given and was not, the pods it was to be told of and was   *)
(* not, and the pods it is never told of. Each is written by the one kind of     *)
(* step that may do so, so they say how the kubelet may lose an instance or keep *)
(* a pod to itself, and that it does so in no other way, whatever the worker and *)
(* the commands do meanwhile.                                                    *)
EXTENDS PodProvider

VARIABLES
    lost,           \* instances whose id was lost: with RunPod's answer, with the
                    \* response to the deploy, or with the process
    unheard,        \* pods <<key, uid>> whose event was sent in vain
    swapped         \* pods <<key, uid>> that UpdatePod put in an older one's place

podVars == <<unheard, swapped>>
accVars == <<vars, lost, podVars>>

AccountsInit == Init /\ lost = {} /\ unheard = {} /\ swapped = {}

\* The instance a deploy that succeeded has in hand.
InHand == IF exec.kind = "deploy" /\ exec.ok THEN {exec.inst} ELSE {}

\* The three ways an instance's id is lost on its way to the platform.
AnswerLost == DeployAnswerLost /\ lost' = lost \cup {launched'} /\ UNCHANGED podVars

ResponseSent ==
    /\ Responds
    /\ lost' = IF told' = told THEN lost \cup InHand ELSE lost
    /\ UNCHANGED podVars

ProcessEnds ==
    /\ Restart
    /\ lost' = lost \cup InHand
    /\ unheard' = {} /\ swapped' = {}

\* The two ways a cached pod stays unknown to the platform: its one event is lost, or
\* it came into the cache by UpdatePod, which sends none.
EventSent ==
    /\ CreateSends
    /\ unheard' = IF heard' = heard THEN unheard \cup {<<work.pod, work.uid>>} ELSE unheard
    /\ UNCHANGED <<lost, swapped>>

Swaps(k) ==
    /\ UpdatePod(k)
    /\ swapped' = swapped \cup {<<k, api[k]>>}
    /\ UNCHANGED <<lost, unheard>>

\* Everything else leaves the accounts alone.
WorkerKeeps ==
    \/ \E k \in Pods : Kubernetes(k) \/ CreateStores(k) \/ DeleteReads(k)
    \/ CreateNotifies \/ DeleteSends \/ DeleteRemoves

CommandKeeps ==
    \/ TakeCommand \/ CommandFails \/ DeployCreates \/ DeployBooks \/ RejectBooks
    \/ CommandNotifies \/ TerminateDeletes \/ TerminateAnswerLost \/ StatusAnswers
    \/ OtherAnswers

AccountsNext ==
    \/ AnswerLost \/ ResponseSent \/ ProcessEnds
    \/ EventSent \/ \E k \in Pods : Swaps(k)
    \/ (WorkerKeeps \/ CommandKeeps) /\ UNCHANGED <<lost, podVars>>

AccountsSpec == AccountsInit /\ [][AccountsNext]_accVars

----------------------------------------------------------------------------
\* Every instance that runs is known to the platform by id, is about to be named in
\* a response, or was lost with a message or the process: a deploy whose pod is
\* deleted, replaced or rejected meanwhile, a repeated deploy that overwrites the
\* id in the record, and a DeletePod that read the record before the booking lose
\* none (kubelet.go:212-238, 499-539; runpod/client.go:127-150).
InstancesAccounted == running \subseteq told \cup lost \cup InHand

\* What the platform knows or is about to hear of the cached pod of a key.
Announced(k) ==
    \/ <<k, pods[k]>> \in heard
    \/ work.at = "announce" /\ work.pod = k /\ work.uid = pods[k]

\* Of the cached pods, those that CreatePod stored in this life of the process were
\* announced, are being announced, or lost their one event: no restart, earlier pod of
\* the same name or deletion in between keeps one back. Those that UpdatePod stored are
\* just the ones never announced, by no event sent before or since; see
\* ScheduledPodsAnnounced (kubelet.go:143-181, 191-200).
PodsAnnounced ==
    \A k \in Pods :
        pods[k] # 0 =>
            IF <<k, pods[k]>> \in swapped THEN ~Announced(k)
            ELSE Announced(k) \/ <<k, pods[k]>> \in unheard

\* What PodsAnnounced rests on. A pod that UpdatePod stored stays in the cache until
\* Kubernetes has lost it, so CreatePod never comes to announce it.
SwapsUnannounced ==
    \A p \in swapped :
        /\ p \in Pods \X (1 .. born) /\ p \notin heard
        /\ work.at = "announce" => p # <<work.pod, work.uid>>
        /\ pods[p[1]] = p[2] \/ api[p[1]] # p[2]

PodsAccounted ==
    \A k \in Pods :
        pods[k] # 0 => Announced(k) \/ <<k, pods[k]>> \in swapped \cup unheard

\* Disagreement with docs/ARCHITECTURE.md:140 ("Send `pod_created` event when K8s
\* schedules pod"): a pod that Kubernetes gave the kubelet, and that is in its cache,
\* was announced to the platform, is being announced, or its event was lost.
ScheduledPodsAnnounced ==
    \A k \in Pods :
        pods[k] # 0 => Announced(k) \/ <<k, pods[k]>> \in unheard
====
