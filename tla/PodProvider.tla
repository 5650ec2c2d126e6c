---- MODULE PodProvider ----
(* The pod side of the kubelet, pkg/virtual_kubelet/kubelet.go, with the command *)
(* handler and the provider calls it makes. Two goroutines share the maps pods   *)
(* and podStatus: the pod controller's worker, which calls CreatePod, UpdatePod  *)
(* and DeletePod, and processCommands, which executes the platform's commands.   *)
(* An action is the code between two points where the other goroutine or a crash *)
(* can interfere: a section under podsMutex, a call of the provider's API, a     *)
(* send to the platform, a notification. Kubernetes, the virtual-kubelet library *)
(* and the platform are modelled from how this code uses them.                   *)
EXTENDS Integers

CONSTANTS
    Pods,           \* pod keys, "namespace/name"
    NoPod,
    MaxUids,        \* bound: pods created in Kubernetes
    MaxCommands,    \* bound: commands taken by processCommands
    MaxRestarts     \* bound: restarts of the kubelet

ASSUME PodsAssumption == NoPod \notin Pods

ASSUME BoundsAssumption ==
    MaxUids \in Nat /\ MaxCommands \in Nat /\ MaxRestarts \in Nat

VARIABLES
    api,            \* pod key -> uid of the pod in Kubernetes, 0 for none
    born,           \* uids given out
    shown,          \* pod key -> phase of the pod in Kubernetes
    reported,       \* pod key -> phase the library last got from notifyFunc
    pods,           \* p.pods: pod key -> uid of the cached pod, 0 for no entry
    podStatus,      \* p.podStatus: pod key -> what is kept of PodInstanceInfo
    work,           \* the pod controller's worker inside CreatePod or DeletePod
    exec,           \* processCommands with the command it is at
    issued,         \* commands taken
    launched,       \* instances the provider has created
    running,        \* those that exist; starting and running are not told apart
    heard,          \* pods the platform knows from a pod_created event
    told,           \* instances the platform knows by id
    restarts

kubeVars == <<api, born, shown>>
cacheVars == <<pods, podStatus>>
instVars == <<launched, running>>
platVars == <<heard, told>>
vars == <<kubeVars, reported, cacheVars, work, exec, issued, instVars, platVars, restarts>>

NoInfo == [podID |-> 0, providerPodID |-> 0, rejected |-> FALSE, statusResult |-> "none"]
Free == [at |-> "idle", pod |-> NoPod, uid |-> 0, inst |-> 0]
NoCommand == [at |-> "idle", kind |-> "none", pod |-> NoPod, uid |-> 0, inst |-> 0,
              coded |-> FALSE, gone |-> FALSE, ok |-> FALSE]

Init ==
    /\ api = [k \in Pods |-> 0] /\ born = 0 /\ shown = [k \in Pods |-> "none"]
    /\ reported = [k \in Pods |-> "none"]
    /\ pods = [k \in Pods |-> 0] /\ podStatus = [k \in Pods |-> NoInfo]
    /\ work = Free /\ exec = NoCommand /\ issued = 0
    /\ launched = 0 /\ running = {}
    /\ heard = {} /\ told = {}
    /\ restarts = 0

----------------------------------------------------------------------------
(* Kubernetes and the virtual-kubelet library                                 *)

UserCreates(k) ==
    /\ api[k] = 0 /\ born < MaxUids
    /\ born' = born + 1
    /\ api' = [api EXCEPT ![k] = born + 1]
    /\ shown' = [shown EXCEPT ![k] = "Pending"]
    /\ UNCHANGED <<reported, cacheVars, work, exec, issued, instVars, platVars, restarts>>

\* A pod without running containers leaves the API before DeletePod is called.
UserDeletes(k) ==
    /\ api[k] # 0
    /\ api' = [api EXCEPT ![k] = 0]
    /\ shown' = [shown EXCEPT ![k] = "none"]
    /\ reported' = [reported EXCEPT ![k] = "none"]
    /\ UNCHANGED <<born, cacheVars, work, exec, issued, instVars, platVars, restarts>>

\* The library writes the latest phase it was given. Failed is final.
StatusSync(k) ==
    /\ api[k] # 0
    /\ reported[k] \notin {"none", shown[k]}
    /\ shown[k] # "Failed"
    /\ shown' = [shown EXCEPT ![k] = reported[k]]
    /\ UNCHANGED <<api, born, reported, cacheVars, work, exec, issued, instVars, platVars,
                   restarts>>

\* The pod the kubelet holds under a key.
GetPod(k) == pods[k]

\* What the kubelet itself says of a pod.
GetPodStatus(k) ==
    IF GetPod(k) = 0 THEN "none"
    ELSE IF podStatus[k].rejected THEN "Failed"
    ELSE IF podStatus[k].statusResult # "none" THEN podStatus[k].statusResult
    ELSE "Pending"

\* updatePodStatus. The library looks the pod up by key and ignores a key that
\* Kubernetes does not have.
Notified(k, phase) ==
    IF api[k] # 0 THEN [reported EXCEPT ![k] = phase] ELSE reported

----------------------------------------------------------------------------
(* The pod controller's only worker: it compares Kubernetes with GetPod and    *)
(* calls the handler that brings the provider in line.                         *)

\* Mutant: a key the platform has heard of is not announced again.
CreateStoresQuietly(k) ==
    /\ work = Free
    /\ api[k] # 0 /\ shown[k] # "Failed" /\ GetPod(k) = 0
    /\ pods' = [pods EXCEPT ![k] = api[k]]
    /\ podStatus' = [podStatus EXCEPT ![k] = [NoInfo EXCEPT !.podID = api[k]]]
    /\ work' = [at |-> IF \E u \in 1 .. born : <<k, u>> \in heard THEN "pending" ELSE "announce",
                pod |-> k, uid |-> api[k], inst |-> 0]
    /\ UNCHANGED <<kubeVars, reported, exec, issued, instVars, platVars, restarts>>

CreateStores(k) ==
    /\ work = Free
    /\ api[k] # 0 /\ shown[k] # "Failed" /\ GetPod(k) = 0
    /\ pods' = [pods EXCEPT ![k] = api[k]]
    /\ podStatus' = [podStatus EXCEPT ![k] = [NoInfo EXCEPT !.podID = api[k]]]
    /\ work' = [at |-> "announce", pod |-> k, uid |-> api[k], inst |-> 0]
    /\ UNCHANGED <<kubeVars, reported, exec, issued, instVars, platVars, restarts>>

\* Mutant: a pod that could not be announced is taken out of the cache again.
CreateSendsOrForgets ==
    /\ work.at = "announce"
    /\ \/ /\ heard' = heard \cup {<<work.pod, work.uid>>}
          /\ work' = [work EXCEPT !.at = "pending"]
          /\ UNCHANGED cacheVars
       \/ /\ pods' = [pods EXCEPT ![work.pod] = 0]
          /\ podStatus' = [podStatus EXCEPT ![work.pod] = NoInfo]
          /\ work' = Free
          /\ UNCHANGED heard
    /\ UNCHANGED <<kubeVars, reported, exec, issued, instVars, told, restarts>>

\* Mutant: the event names the pod that Kubernetes has by now.
CreateSendsLatest ==
    /\ work.at = "announce"
    /\ \/ heard' = heard \cup {<<work.pod, api[work.pod]>>}
       \/ UNCHANGED heard
    /\ work' = [work EXCEPT !.at = "pending"]
    /\ UNCHANGED <<kubeVars, reported, cacheVars, exec, issued, instVars, told, restarts>>

\* SendEvent may fail, or the event be lost on its way: the pod is kept all the
\* same and nothing sends the event again.
CreateSends ==
    /\ work.at = "announce"
    /\ \/ heard' = heard \cup {<<work.pod, work.uid>>}
       \/ UNCHANGED heard
    /\ work' = [work EXCEPT !.at = "pending"]
    /\ UNCHANGED <<kubeVars, reported, cacheVars, exec, issued, instVars, told, restarts>>

CreateNotifies ==
    /\ work.at = "pending"
    /\ reported' = Notified(work.pod, "Pending")
    /\ work' = Free
    /\ UNCHANGED <<kubeVars, cacheVars, exec, issued, instVars, platVars, restarts>>

\* Kubernetes has another pod of this name by now and its spec differs. Only the
\* cached pod is replaced.
UpdatePod(k) ==
    /\ work = Free
    /\ api[k] # 0 /\ shown[k] # "Failed" /\ GetPod(k) \notin {0, api[k]}
    /\ pods' = [pods EXCEPT ![k] = api[k]]
    /\ UNCHANGED <<kubeVars, reported, podStatus, work, exec, issued, instVars, platVars,
                   restarts>>

\* The provider's pod id is read now, under the read lock, for the event.
DeleteReads(k) ==
    /\ work = Free
    /\ api[k] = 0 /\ GetPod(k) # 0
    /\ work' = [at |-> "farewell", pod |-> k, uid |-> pods[k],
                inst |-> podStatus[k].providerPodID]
    /\ UNCHANGED <<kubeVars, reported, cacheVars, exec, issued, instVars, platVars, restarts>>

\* Mutant: DeletePod gives up when the event cannot be sent.
DeleteSendsOrFails ==
    /\ work.at = "farewell"
    /\ \/ /\ told' = told \cup ({work.inst} \ {0})
          /\ work' = [work EXCEPT !.at = "remove"]
       \/ /\ UNCHANGED told
          /\ work' = Free
    /\ UNCHANGED <<kubeVars, reported, cacheVars, exec, issued, instVars, heard, restarts>>

DeleteSends ==
    /\ work.at = "farewell"
    /\ \/ told' = told \cup ({work.inst} \ {0})
       \/ UNCHANGED told
    /\ work' = [work EXCEPT !.at = "remove"]
    /\ UNCHANGED <<kubeVars, reported, cacheVars, exec, issued, instVars, heard, restarts>>

DeleteRemoves ==
    /\ work.at = "remove"
    /\ pods' = [pods EXCEPT ![work.pod] = 0]
    /\ podStatus' = [podStatus EXCEPT ![work.pod] = NoInfo]
    /\ work' = Free
    /\ UNCHANGED <<kubeVars, reported, exec, issued, instVars, platVars, restarts>>

----------------------------------------------------------------------------
(* processCommands: one command at a time                                      *)

\* The platform may name a pod it has heard of and an instance it knows, in any
\* order, any number of times. "other" is ping and whatever the handler does not
\* know.
TakeCommand ==
    /\ exec = NoCommand
    /\ issued < MaxCommands
    /\ issued' = issued + 1
    /\ \/ \E kind \in {"deploy", "reject"}, k \in Pods :
            /\ \E u \in 1 .. born : <<k, u>> \in heard
            /\ exec' = [NoCommand EXCEPT !.at = "execute", !.kind = kind, !.pod = k]
       \/ \E kind \in {"terminate", "status"}, i \in told :
            exec' = [NoCommand EXCEPT !.at = "execute", !.kind = kind, !.inst = i]
       \/ exec' = [NoCommand EXCEPT !.at = "execute", !.kind = "other"]
    /\ UNCHANGED <<kubeVars, reported, cacheVars, work, instVars, platVars, restarts>>

\* Bad parameters, an unknown provider, no API key, an error of the provider's
\* API before it did anything.
CommandFails ==
    /\ exec.at = "execute"
    /\ exec' = [exec EXCEPT !.at = "respond"]
    /\ UNCHANGED <<kubeVars, reported, cacheVars, work, issued, instVars, platVars, restarts>>

\* Mutant: the answer is sent before the books are kept.
DeployAnswers ==
    /\ exec.at = "execute" /\ exec.kind = "deploy"
    /\ launched' = launched + 1
    /\ running' = running \cup {launched + 1}
    /\ exec' = [exec EXCEPT !.at = "respond", !.inst = launched + 1, !.ok = TRUE,
                            !.uid = podStatus[exec.pod].podID]
    /\ UNCHANGED <<kubeVars, reported, cacheVars, work, issued, platVars, restarts>>

\* The provider creates an instance and says so.
DeployCreates ==
    /\ exec.at = "execute" /\ exec.kind = "deploy"
    /\ launched' = launched + 1
    /\ running' = running \cup {launched + 1}
    /\ exec' = [exec EXCEPT !.at = "book", !.inst = launched + 1, !.ok = TRUE]
    /\ UNCHANGED <<kubeVars, reported, cacheVars, work, issued, platVars, restarts>>

\* The provider creates an instance, but its answer is lost, comes after the HTTP
\* timeout or cannot be read: the command fails although the instance runs.
DeployAnswerLost ==
    /\ exec.at = "execute" /\ exec.kind = "deploy"
    /\ launched' = launched + 1
    /\ running' = running \cup {launched + 1}
    /\ exec' = [exec EXCEPT !.at = "respond"]
    /\ UNCHANGED <<kubeVars, reported, cacheVars, work, issued, platVars, restarts>>

\* Mutant: an instance for a pod without a record opens one.
DeployBooksAnyway ==
    LET k == exec.pod IN
    /\ exec.at = "book"
    /\ podStatus' = [podStatus EXCEPT ![k].providerPodID = exec.inst]
    /\ exec' = [exec EXCEPT !.at = IF pods[k] = 0 THEN "respond" ELSE "notify",
                            !.uid = podStatus[k].podID]
    /\ UNCHANGED <<kubeVars, reported, pods, work, issued, instVars, platVars, restarts>>

\* Mutant: the result of a deploy for a pod that is gone is dropped.
DeployBooksOrDrops ==
    LET k == exec.pod IN
    /\ exec.at = "book"
    /\ podStatus' = IF podStatus[k] = NoInfo THEN podStatus
                    ELSE [podStatus EXCEPT ![k].providerPodID = exec.inst]
    /\ exec' = IF pods[k] = 0 THEN NoCommand
               ELSE [exec EXCEPT !.at = "notify", !.uid = podStatus[k].podID]
    /\ UNCHANGED <<kubeVars, reported, pods, work, issued, instVars, platVars, restarts>>

\* Mutant: the record is written afresh.
DeployBooksAfresh ==
    LET k == exec.pod IN
    /\ exec.at = "book"
    /\ podStatus' = IF podStatus[k] = NoInfo THEN podStatus
                    ELSE [podStatus EXCEPT ![k] = [podID |-> podStatus[k].podID,
                            providerPodID |-> exec.inst, rejected |-> FALSE,
                            statusResult |-> "none"]]
    /\ exec' = [exec EXCEPT !.at = IF pods[k] = 0 THEN "respond" ELSE "notify",
                            !.uid = podStatus[k].podID]
    /\ UNCHANGED <<kubeVars, reported, pods, work, issued, instVars, platVars, restarts>>

\* handleDeploymentSuccess under the lock. A pod deleted meanwhile has no record
\* and gets none.
DeployBooks ==
    LET k == exec.pod IN
    /\ exec.at = "book"
    /\ podStatus' = IF podStatus[k] = NoInfo THEN podStatus
                    ELSE [podStatus EXCEPT ![k].providerPodID = exec.inst]
    /\ exec' = [exec EXCEPT !.at = IF pods[k] = 0 THEN "respond" ELSE "notify",
                            !.uid = podStatus[k].podID]
    /\ UNCHANGED <<kubeVars, reported, pods, work, issued, instVars, platVars, restarts>>

\* handleReject under the lock. The record gets the code the command brings; nothing
\* asks for one, and an empty code is none to GetPodStatus. A pod that is not cached
\* makes it an error.
RejectBooks ==
    LET k == exec.pod IN
    /\ exec.at = "execute" /\ exec.kind = "reject"
    /\ \E coded \in BOOLEAN :
         /\ podStatus' = IF podStatus[k] = NoInfo THEN podStatus
                         ELSE [podStatus EXCEPT ![k].rejected = coded]
         /\ exec' = [exec EXCEPT !.at = IF pods[k] = 0 THEN "respond" ELSE "notify",
                                 !.ok = pods[k] # 0, !.coded = coded,
                                 !.uid = podStatus[k].podID]
    /\ UNCHANGED <<kubeVars, reported, pods, work, issued, instVars, platVars, restarts>>

\* After the unlock, with the pod found under the lock.
CommandNotifies ==
    /\ exec.at = "notify"
    /\ reported' = Notified(exec.pod, IF exec.kind = "reject" THEN "Failed" ELSE "Pending")
    /\ exec' = [exec EXCEPT !.at = "respond"]
    /\ UNCHANGED <<kubeVars, cacheVars, work, issued, instVars, platVars, restarts>>

\* The provider deletes the instance; one that does not exist counts as deleted.
TerminateDeletes ==
    /\ exec.at = "execute" /\ exec.kind = "terminate"
    /\ running' = running \ {exec.inst}
    /\ exec' = [exec EXCEPT !.at = "respond", !.ok = TRUE]
    /\ UNCHANGED <<kubeVars, reported, cacheVars, work, issued, launched, platVars, restarts>>

\* It deletes the instance, and its answer is lost: the command fails.
TerminateAnswerLost ==
    /\ exec.at = "execute" /\ exec.kind = "terminate"
    /\ running' = running \ {exec.inst}
    /\ exec' = [exec EXCEPT !.at = "respond"]
    /\ UNCHANGED <<kubeVars, reported, cacheVars, work, issued, launched, platVars, restarts>>

\* What the provider knows of an instance: a 404 makes it failed and terminated.
InstanceGone(i) == i \notin running

\* The result goes into the response only: the code sets StatusResult nowhere.
StatusAnswers ==
    /\ exec.at = "execute" /\ exec.kind = "status"
    /\ exec' = [exec EXCEPT !.at = "respond", !.ok = TRUE, !.gone = InstanceGone(exec.inst)]
    /\ UNCHANGED <<kubeVars, reported, cacheVars, work, issued, instVars, platVars, restarts>>

OtherAnswers ==
    /\ exec.at = "execute" /\ exec.kind = "other"
    /\ exec' = [exec EXCEPT !.at = "respond", !.ok = TRUE]
    /\ UNCHANGED <<kubeVars, reported, cacheVars, work, issued, instVars, platVars, restarts>>

\* SendResponse may fail and the response be lost; it is not sent again.
Responds ==
    /\ exec.at = "respond"
    /\ \/ told' = IF exec.ok /\ exec.kind = "deploy" THEN told \cup {exec.inst} ELSE told
       \/ UNCHANGED told
    /\ exec' = NoCommand
    /\ UNCHANGED <<kubeVars, reported, cacheVars, work, issued, instVars, heard, restarts>>

----------------------------------------------------------------------------
\* The process ends, by a crash or by Cleanup, which waits for neither goroutine,
\* and starts again with empty maps. Nothing of them is persisted.
Restart ==
    /\ restarts < MaxRestarts
    /\ restarts' = restarts + 1
    /\ pods' = [k \in Pods |-> 0]
    /\ podStatus' = [k \in Pods |-> NoInfo]
    /\ reported' = [k \in Pods |-> "none"]
    /\ work' = Free
    /\ exec' = NoCommand
    /\ UNCHANGED <<kubeVars, issued, instVars, platVars>>

----------------------------------------------------------------------------
Kubernetes(k) == UserCreates(k) \/ UserDeletes(k) \/ StatusSync(k)

WorkerTakes(k) == CreateStores(k) \/ UpdatePod(k) \/ DeleteReads(k)

WorkerGoesOn == CreateSends \/ CreateNotifies \/ DeleteSends \/ DeleteRemoves

Execute ==
    \/ CommandFails \/ DeployCreates \/ DeployAnswerLost \/ DeployBooks \/ RejectBooks
    \/ CommandNotifies \/ TerminateDeletes \/ TerminateAnswerLost \/ StatusAnswers
    \/ OtherAnswers \/ Responds

Next ==
    \/ \E k \in Pods : Kubernetes(k) \/ WorkerTakes(k)
    \/ WorkerGoesOn
    \/ TakeCommand \/ Execute
    \/ Restart

Spec == Init /\ [][Next]_vars

\* Each goroutine goes on; a call of the provider's API ends within its HTTP
\* timeout. The library's work queues serve every key in turn. UpdatePod, which
\* depends on what the user wrote, is not required; nor is anything of the user,
\* the platform or the process' survival.
Fairness ==
    /\ \A k \in Pods :
         SF_vars(CreateStores(k)) /\ SF_vars(DeleteReads(k)) /\ WF_vars(StatusSync(k))
    /\ WF_vars(WorkerGoesOn)
    /\ WF_vars(Execute)

FairSpec == Spec /\ Fairness

----------------------------------------------------------------------------
Uids == 0 .. born
Phases == {"none", "Pending", "Running", "Succeeded", "Failed"}
InfoRecord == [podID : Nat, providerPodID : Nat, rejected : BOOLEAN, statusResult : Phases]
WorkRecord == [at : {"idle", "announce", "pending", "farewell", "remove"},
               pod : Pods \cup {NoPod}, uid : Nat, inst : Nat]
ExecRecord == [at : {"idle", "execute", "book", "notify", "respond"},
               kind : {"none", "deploy", "reject", "terminate", "status", "other"},
               pod : Pods \cup {NoPod}, uid : Nat, inst : Nat, coded : BOOLEAN,
               gone : BOOLEAN, ok : BOOLEAN]

TypeKube ==
    /\ born \in Nat /\ api \in [Pods -> Nat] /\ \A k \in Pods : api[k] <= born
    /\ shown \in [Pods -> Phases] /\ reported \in [Pods -> Phases]

TypeCache == pods \in [Pods -> Nat] /\ podStatus \in [Pods -> InfoRecord]

TypeFlow ==
    /\ work \in WorkRecord /\ exec \in ExecRecord
    /\ work.at # "idle" => work.pod \in Pods
    /\ exec.kind \in {"deploy", "reject"} => exec.pod \in Pods
    /\ exec.at \in {"book", "notify"} => exec.kind \in {"deploy", "reject"}

TypeRest ==
    /\ issued \in Nat /\ restarts \in Nat
    /\ launched \in Nat /\ running \subseteq 1 .. launched
    /\ told \subseteq Nat /\ heard \subseteq Pods \X Nat

\* Values stay within their sorts, and no uid is known that was not given out.
TypeOK == TypeKube /\ TypeCache /\ TypeFlow /\ TypeRest

\* The two maps have the same keys, whatever deploy result, rejection, deletion
\* or restart came when: nothing leaves a record without a pod, or a pod without
\* its record (kubelet.go:150-159, 196, 235-238, 524-538, 552-559).
MapsAgree == \A k \in Pods : pods[k] = 0 <=> podStatus[k] = NoInfo

\* What a successful answer says is so when it is sent. A deployed instance is in
\* the record of the pod it was booked for, and so is what a reject command said, a
\* rejection or, without a code, none, unless that record has left the cache; an
\* instance answered as terminated or as not found is gone (kubelet.go:499-513,
\* 549-567; runpod/client.go:188-198, 520-529).
AnswersAreTrue ==
    exec.at = "respond" /\ exec.ok =>
        /\ exec.kind = "deploy" /\ exec.uid # 0 /\ podStatus[exec.pod].podID = exec.uid
             => podStatus[exec.pod].providerPodID = exec.inst
        /\ exec.kind = "reject" /\ podStatus[exec.pod].podID = exec.uid
             => (podStatus[exec.pod].rejected <=> exec.coded)
        /\ exec.kind = "terminate" => exec.inst \notin running
        /\ exec.kind = "status" /\ exec.gone => exec.inst \notin running

\* While its record lives, a rejection is taken back in one way only: by another reject
\* command for the same pod that has no code. No deploy result that comes late, no
\* update, no command for another pod clears it (kubelet.go:282, 524-534, 555).
RejectionSticks ==
    [][\A k \in Pods :
         podStatus[k].rejected /\ podStatus'[k].podID = podStatus[k].podID
            => \/ podStatus'[k].rejected
               \/ exec.kind = "reject" /\ exec.pod = k /\ ~exec'.coded]_vars

\* A pod that is gone from Kubernetes for good leaves the cache for good, also if
\* the platform cannot be told and a command for it arrives late
\* (kubelet.go:230-238, 524-537).
DeletedPodsLeave ==
    \A k \in Pods :
        <>[](api[k] = 0) => <>[](pods[k] = 0 /\ podStatus[k] = NoInfo)

\* A pod that stays in Kubernetes comes to be the cached one for good, also if the
\* platform cannot be told, and after the last restart. Where the cache holds an older
\* pod of its name, that takes a call of UpdatePod, which the library makes if the two
\* differ in what they specify (kubelet.go:144-200).
LivePodsStay ==
    \A k \in Pods :
        SF_vars(UpdatePod(k)) /\ <>[](api[k] # 0 /\ shown[k] # "Failed")
            => <>[](pods[k] = api[k])

\* Disagreement with docs/ARCHITECTURE.md:613: a pod the provider holds as Failed is
\* set to Failed in Kubernetes.
RejectedPodEndsFailed ==
    \A k \in Pods :
        GetPodStatus(k) = "Failed" ~> (shown[k] = "Failed" \/ GetPodStatus(k) # "Failed")

\* What a pod being deleted or a command in hand relies on. Uids grow, a record
\* is never younger than its pod, and nothing of a deleted pod comes back.
CacheOrder ==
    /\ \A k \in Pods : podStatus[k].podID <= pods[k] /\ pods[k] <= born
    /\ \A k \in Pods : podStatus[k].podID = 0 => podStatus[k] = NoInfo
    /\ \A k \in Pods : api[k] # 0 => pods[k] <= api[k]

WorkerOwnsPod ==
    /\ work.at = "idle" <=> work = Free
    /\ work.at \in {"farewell", "remove"} =>
         pods[work.pod] # 0 /\ (api[work.pod] = 0 \/ api[work.pod] > pods[work.pod])

CommandStages ==
    /\ exec.at \in {"execute", "book"} => exec.uid = 0
    /\ exec.at = "execute" => ~exec.ok
    /\ exec.at = "book" => exec.kind = "deploy"

BookedRecordStays ==
    exec.at \in {"notify", "respond"} /\ exec.kind \in {"deploy", "reject"} /\ exec.uid # 0 =>
        /\ exec.uid <= born
        /\ \/ podStatus[exec.pod].podID = exec.uid
           \/ api[exec.pod] = 0
           \/ api[exec.pod] > exec.uid

BookedOutcome ==
    exec.at \in {"notify", "respond"} /\ exec.ok =>
        /\ exec.kind = "deploy" /\ exec.uid # 0 /\ podStatus[exec.pod].podID = exec.uid
             => podStatus[exec.pod].providerPodID = exec.inst
        /\ exec.kind = "reject"
             => exec.uid # 0 /\ (podStatus[exec.pod].podID = exec.uid
                                    => (podStatus[exec.pod].rejected <=> exec.coded))
        /\ exec.kind = "terminate" => exec.inst \notin running
        /\ exec.kind = "status" /\ exec.gone => exec.inst \notin running

\* A pod is announced as long as it is held, and an instance to be booked is
\* younger than all that are in the records.
AnnouncesHeld == work.at = "announce" => work.uid # 0 /\ pods[work.pod] = work.uid

BookingOrder ==
    /\ \A k \in Pods : podStatus[k].providerPodID <= launched
    /\ exec.at = "book" =>
         /\ exec.inst \in 1 .. launched
         /\ \A k \in Pods : podStatus[k].providerPodID < exec.inst

\* The inductive invariant.
PodInv ==
    /\ TypeOK /\ MapsAgree
    /\ CacheOrder /\ WorkerOwnsPod /\ CommandStages
    /\ BookedRecordStays /\ BookedOutcome
    /\ AnnouncesHeld /\ BookingOrder

\* An instance is in the record of one pod at most (kubelet.go:523-538).
OneRecordPerInstance ==
    \A j, k \in Pods :
        podStatus[j].providerPodID # 0
          /\ podStatus[j].providerPodID = podStatus[k].providerPodID => j = k

\* The cached pod is the youngest of its name that the platform was ever told of,
\* across restarts, updates and deletions (kubelet.go:144-200).
NoOlderPodHeld == \A p \in heard : pods[p[1]] # 0 => p[2] <= pods[p[1]]

\* A cached pod that Kubernetes still has leaves the cache with the process alone, and
\* whether it is rejected changes by a reject command for it alone: no booking, update,
\* deletion or event of this pod or another does that (kubelet.go:177-181, 230-238,
\* 524-534, 555).
LivePodsHeld ==
    [][\A k \in Pods :
         pods[k] # 0 /\ pods[k] = api[k] /\ restarts' = restarts
            => /\ pods'[k] = pods[k]
               /\ podStatus'[k].rejected # podStatus[k].rejected
                    => exec.kind = "reject" /\ exec.pod = k]_vars

\* The two maps, with Kubernetes and the platform, implement PodContract.
Contract == INSTANCE PodContract WITH
                newest <- born,
                wanted <- api,
                held <- pods,
                rejected <- [k \in Pods |-> podStatus[k].rejected],
                booked <- [k \in Pods |-> podStatus[k].providerPodID],
                known <- heard,
                instances <- launched,
                lives <- restarts

\* The worker, the commands and a crash, in any interleaving, keep the contract: a
\* pod still in Kubernetes leaves the cache with the process alone, only cached
\* pods are announced, and no instance is booked twice or after a later one
\* (kubelet.go:144-241, 491-567).
ImplementsContract == Contract!Spec
====
