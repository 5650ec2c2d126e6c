---- MODULE PodAccountsProofs ----
(* The accounts of PodAccounts are complete for any pods and any bounds. The     *)
(* steps of PodAccounts are steps of PodProvider, so PodInv is at hand.          *)
EXTENDS PodAccounts, PodProviderProofs

\* Writing the accounts forbids and adds no step of the kubelet's.
LEMMA AccountsStep == [AccountsNext]_accVars => [Next]_vars
<1> USE DEF Next, Kubernetes, WorkerTakes, WorkerGoesOn, Execute
<1>1. AnswerLost \/ ResponseSent \/ ProcessEnds \/ EventSent => Next
    BY DEF AnswerLost, ResponseSent, ProcessEnds, EventSent
<1>2. ASSUME NEW k \in Pods, Swaps(k) PROVE Next
    BY <1>2 DEF Swaps
<1>3. WorkerKeeps \/ CommandKeeps => Next
    BY DEF WorkerKeeps, CommandKeeps
<1>4. UNCHANGED accVars => UNCHANGED vars
    BY DEF accVars
<1>5. QED
    BY <1>1, <1>2, <1>3, <1>4 DEF AccountsNext

\* What holds of PodProvider holds in PodAccounts, the invariant and the order of the
\* pods among it.
LEMMA AccountsPodInv == AccountsSpec => []PodInv /\ []NoOlderPodHeld
<1>1. AccountsSpec => Spec
    BY AccountsStep, PTL DEF AccountsSpec, AccountsInit, Spec
<1>2. QED
    BY <1>1, PodInvariant, NoOlderPod, PTL

\* A step that writes nothing into the accounts leaves the instances and what the
\* platform was told alone, creates and books an instance, deletes one, or tells more
\* (kubelet.go:499-539).
LEMMA InstancesKept ==
    ASSUME PodInv, InstancesAccounted, WorkerKeeps \/ CommandKeeps,
           UNCHANGED <<lost, podVars>>
    PROVE  InstancesAccounted'
<1>1. exec \in ExecRecord /\ CommandStages /\ lost' = lost
    BY DEF PodInv, TypeOK, TypeFlow
<1>2. ASSUME told \subseteq told', running' \subseteq running, InHand \subseteq InHand'
      PROVE  InstancesAccounted'
    BY <1>1, <1>2 DEF InstancesAccounted
<1>3. CASE WorkerKeeps
  <2>1. exec' = exec /\ running' = running /\ told \subseteq told'
    <3>1. CASE \E k \in Pods : Kubernetes(k) \/ CreateStores(k) \/ DeleteReads(k)
        BY <3>1 DEF Kubernetes, UserCreates, UserDeletes, StatusSync, CreateStores,
           DeleteReads, instVars, platVars
    <3>2. CASE CreateNotifies \/ DeleteSends \/ DeleteRemoves
        BY <3>2 DEF CreateNotifies, DeleteSends, DeleteRemoves, instVars, platVars
    <3> QED
        BY <1>3, <3>1, <3>2 DEF WorkerKeeps
  <2> QED
      BY <1>2, <2>1 DEF InHand
<1>4. CASE DeployCreates
  <2>1. exec'.kind = "deploy" /\ exec'.ok /\ exec'.inst = launched + 1
      BY <1>1, <1>4 DEF DeployCreates, ExecRecord
  <2>2. /\ running' = running \cup {launched + 1} /\ told' = told /\ InHand = {}
      BY <1>1, <1>4 DEF DeployCreates, CommandStages, platVars, InHand
  <2>3. InHand' = {launched + 1}
      BY <2>1 DEF InHand
  <2> QED
      BY <1>1, <2>2, <2>3 DEF InstancesAccounted
<1>5. CASE DeployBooks \/ RejectBooks
  <2>1. CASE DeployBooks
    <3>1. exec'.kind = exec.kind /\ exec'.ok = exec.ok /\ exec'.inst = exec.inst
        BY <1>1, <2>1 DEF DeployBooks, ExecRecord
    <3>2. running' = running /\ told' = told
        BY <2>1 DEF DeployBooks, instVars, platVars
    <3> QED
        BY <1>2, <3>1, <3>2 DEF InHand
  <2>2. CASE RejectBooks
      BY <1>2, <2>2 DEF RejectBooks, instVars, platVars, InHand
  <2> QED
      BY <1>5, <2>1, <2>2
<1>6. CASE CommandNotifies
    BY <1>1, <1>2, <1>6 DEF CommandNotifies, ExecRecord, instVars, platVars, InHand
<1>7. CASE \/ TakeCommand \/ CommandFails \/ TerminateDeletes \/ TerminateAnswerLost
           \/ StatusAnswers \/ OtherAnswers
  <2>1. InHand = {}
    <3>1. ~(exec.kind = "deploy" /\ exec.ok)
        BY <1>1, <1>7 DEF TakeCommand, NoCommand, CommandFails, TerminateDeletes,
           TerminateAnswerLost, StatusAnswers, OtherAnswers, CommandStages
    <3> QED
        BY <3>1 DEF InHand
  <2>2. told' = told /\ running' \subseteq running
      BY <1>7 DEF TakeCommand, NoCommand, CommandFails, TerminateDeletes,
         TerminateAnswerLost, StatusAnswers, OtherAnswers, instVars, platVars
  <2> QED
      BY <1>2, <2>1, <2>2
<1> QED
    BY <1>3, <1>4, <1>5, <1>6, <1>7 DEF CommandKeeps

\* No step loses an instance but those that write it down (kubelet.go:499-539).
LEMMA InstancesStep ==
    PodInv /\ InstancesAccounted /\ [AccountsNext]_accVars => InstancesAccounted'
<1> SUFFICES ASSUME PodInv, InstancesAccounted, [AccountsNext]_accVars
             PROVE  InstancesAccounted'
    OBVIOUS
<1>1. exec \in ExecRecord /\ CommandStages
    BY DEF PodInv, TypeOK, TypeFlow
<1>2. CASE AnswerLost
  <2>1. /\ running' = running \cup {launched'} /\ lost' = lost \cup {launched'}
        /\ told' = told /\ InHand = {}
      BY <1>1, <1>2 DEF AnswerLost, DeployAnswerLost, CommandStages, platVars, InHand
  <2> QED
      BY <2>1 DEF InstancesAccounted
<1>3. CASE ResponseSent
    BY <1>3 DEF ResponseSent, Responds, instVars, InHand, NoCommand, InstancesAccounted
<1>4. CASE ProcessEnds
    BY <1>4 DEF ProcessEnds, Restart, instVars, platVars, InHand, InstancesAccounted
<1>5. CASE EventSent \/ \E k \in Pods : Swaps(k)
    BY <1>5 DEF EventSent, CreateSends, Swaps, UpdatePod, instVars, platVars, InHand,
       InstancesAccounted
<1>6. CASE UNCHANGED accVars
    BY <1>6 DEF accVars, vars, instVars, platVars, InHand, InstancesAccounted
<1> QED
    BY <1>2, <1>3, <1>4, <1>5, <1>6, InstancesKept DEF AccountsNext

\* What every step does to the pods in the two goroutines' sight, as far as the
\* announcements depend on it (kubelet.go:143-200).
LEMMA PodsMove ==
    ASSUME PodInv, [AccountsNext]_accVars
    PROVE  \/ ProcessEnds \/ EventSent
           \/ \E k \in Pods : Swaps(k) \/ (CreateStores(k) /\ UNCHANGED podVars)
           \/ /\ UNCHANGED <<heard, podVars>>
              /\ \E k \in Pods : Kubernetes(k) /\ UNCHANGED <<cacheVars, work>>
           \/ /\ UNCHANGED <<heard, podVars, kubeVars>>
              /\ \A k \in Pods : pods'[k] # pods[k] => pods'[k] = 0 /\ api[k] # pods[k]
              /\ work.at = "announce" <=> work'.at = "announce"
              /\ work.at = "announce" => work' = work
<1>1. CASE AnswerLost \/ ResponseSent
    BY <1>1 DEF AnswerLost, DeployAnswerLost, ResponseSent, Responds, cacheVars, platVars
<1>2. CASE WorkerKeeps /\ UNCHANGED podVars
  <2>1. CASE \E k \in Pods : Kubernetes(k)
      BY <1>2, <2>1 DEF Kubernetes, UserCreates, UserDeletes, StatusSync, platVars
  <2>2. CASE \E k \in Pods : CreateStores(k)
      BY <1>2, <2>2
  <2>3. CASE \E k \in Pods : DeleteReads(k)
      BY <1>2, <2>3 DEF DeleteReads, Free, cacheVars, platVars
  <2>4. CASE CreateNotifies
      BY <1>2, <2>4 DEF CreateNotifies, Free, cacheVars, platVars
  <2>5. CASE DeleteSends
    <3>1. work \in WorkRecord
        BY DEF PodInv, TypeOK, TypeFlow
    <3> QED
        BY <1>2, <2>5, <3>1 DEF DeleteSends, WorkRecord, cacheVars
  <2>6. CASE DeleteRemoves
    <3>1. /\ pods[work.pod] # 0 /\ (api[work.pod] = 0 \/ api[work.pod] > pods[work.pod])
          /\ pods \in [Pods -> Nat] /\ api \in [Pods -> Nat] /\ work.pod \in Pods
        BY <2>6 DEF DeleteRemoves, PodInv, TypeOK, TypeKube, TypeCache, TypeFlow,
           WorkerOwnsPod
    <3>2. api[work.pod] # pods[work.pod]
        BY <3>1
    <3>3. \A k \in Pods : pods'[k] # pods[k] => pods'[k] = 0 /\ api[k] # pods[k]
        BY <2>6, <3>1, <3>2 DEF DeleteRemoves
    <3> QED
        BY <1>2, <2>6, <3>3 DEF DeleteRemoves, Free, platVars
  <2> QED
      BY <1>2, <2>1, <2>2, <2>3, <2>4, <2>5, <2>6 DEF WorkerKeeps
<1>3. CASE CommandKeeps /\ UNCHANGED podVars
    BY <1>3 DEF CommandKeeps, TakeCommand, NoCommand, CommandFails, DeployCreates,
       DeployBooks, RejectBooks, CommandNotifies, TerminateDeletes, TerminateAnswerLost,
       StatusAnswers, OtherAnswers, cacheVars, platVars
<1>4. CASE UNCHANGED accVars
    BY <1>4 DEF accVars, vars, cacheVars, platVars
<1> QED
    BY <1>1, <1>2, <1>3, <1>4 DEF AccountsNext

\* A pod that UpdatePod stored is not announced, neither before nor after: all that the
\* platform was told of are older, and CreatePod does not come to it
\* (kubelet.go:143-200).
LEMMA SwapsStep ==
    PodInv /\ NoOlderPodHeld /\ SwapsUnannounced /\ [AccountsNext]_accVars
        => SwapsUnannounced'
<1> SUFFICES ASSUME PodInv, NoOlderPodHeld, SwapsUnannounced, [AccountsNext]_accVars
             PROVE  SwapsUnannounced'
    OBVIOUS
<1>1. /\ TypeKube /\ TypeCache /\ CacheOrder /\ AnnouncesHeld /\ heard \subseteq Pods \X Nat
    BY DEF PodInv, TypeOK, TypeRest
<1>2. CASE ProcessEnds
    BY <1>2 DEF ProcessEnds, SwapsUnannounced
<1>3. CASE EventSent
    BY <1>3 DEF EventSent, CreateSends, kubeVars, cacheVars, SwapsUnannounced
<1>4. ASSUME NEW k \in Pods, Swaps(k) PROVE SwapsUnannounced'
  <2>1. /\ work = Free /\ api[k] # 0 /\ pods[k] # 0 /\ api[k] # pods[k]
        /\ pods' = [pods EXCEPT ![k] = api[k]] /\ swapped' = swapped \cup {<<k, api[k]>>}
        /\ UNCHANGED <<api, born, heard, work>>
      BY <1>4 DEF Swaps, UpdatePod, GetPod, kubeVars, platVars
  <2>2. pods'[k] = api[k] /\ \A j \in Pods \ {k} : pods'[j] = pods[j]
      BY <1>1, <2>1 DEF TypeCache
  <2>3. <<k, api[k]>> \in Pods \X (1 .. born)
      BY <1>1, <2>1 DEF TypeKube
  <2>4. <<k, api[k]>> \notin heard
    <3>1. pods[k] < api[k]
        BY <1>1, <2>1 DEF CacheOrder, TypeKube, TypeCache
    <3> QED
        BY <1>1, <2>1, <3>1 DEF NoOlderPodHeld, TypeKube, TypeCache
  <2>5. work'.at # "announce"
      BY <2>1 DEF Free
  <2>6. ASSUME NEW p \in swapped, p[1] = k PROVE pods'[p[1]] = p[2] \/ api'[p[1]] # p[2]
      BY <2>1, <2>2, <2>6
  <2> QED
      BY <2>1, <2>2, <2>3, <2>4, <2>5, <2>6 DEF SwapsUnannounced
<1>5. ASSUME NEW k \in Pods, CreateStores(k), UNCHANGED podVars PROVE SwapsUnannounced'
  <2>1. /\ pods[k] = 0 /\ pods' = [pods EXCEPT ![k] = api[k]] /\ swapped' = swapped
        /\ work'.pod = k /\ work'.uid = api[k]
        /\ UNCHANGED <<api, born, heard>>
      BY <1>5 DEF CreateStores, GetPod, kubeVars, platVars, podVars
  <2>2. \A p \in swapped : p[1] = k => api[k] # p[2]
      BY <2>1 DEF SwapsUnannounced
  <2>3. pods'[k] = api[k] /\ \A j \in Pods \ {k} : pods'[j] = pods[j]
      BY <1>1, <2>1 DEF TypeCache
  <2> QED
      BY <2>1, <2>2, <2>3 DEF SwapsUnannounced
<1>6. ASSUME NEW k \in Pods, Kubernetes(k), UNCHANGED <<heard, podVars, cacheVars, work>>
      PROVE  SwapsUnannounced'
  <2>1. /\ born' >= born /\ born' \in Nat /\ born \in Nat
        /\ \A j \in Pods : api'[j] \in {api[j], 0, born + 1}
      BY <1>1, <1>6 DEF Kubernetes, UserCreates, UserDeletes, StatusSync, TypeKube
  <2>2. UNCHANGED <<heard, swapped, pods, work>>
      BY <1>6 DEF podVars, cacheVars
  <2>3. ASSUME NEW p \in swapped
        PROVE  /\ p \in Pods \X (1 .. born')
               /\ pods[p[1]] = p[2] \/ api'[p[1]] # p[2]
    <3>1. p \in Pods \X (1 .. born) /\ (pods[p[1]] = p[2] \/ api[p[1]] # p[2])
        BY DEF SwapsUnannounced
    <3>2. api'[p[1]] \in {api[p[1]], 0, born + 1}
        BY <2>1, <3>1
    <3> QED
        BY <2>1, <3>1, <3>2
  <2> QED
      BY <2>2, <2>3 DEF SwapsUnannounced
<1>7. CASE /\ UNCHANGED <<heard, podVars, kubeVars>>
           /\ \A k \in Pods : pods'[k] # pods[k] => pods'[k] = 0 /\ api[k] # pods[k]
           /\ work.at = "announce" <=> work'.at = "announce"
           /\ work.at = "announce" => work' = work
  <2>1. UNCHANGED <<heard, swapped, api, born>>
      BY <1>7 DEF podVars, kubeVars
  <2> QED
      BY <1>7, <2>1 DEF SwapsUnannounced
<1> QED
    BY <1>2, <1>3, <1>4, <1>5, <1>6, <1>7, PodsMove

\* No step caches a pod that is neither announced next nor written down
\* (kubelet.go:143-200).
LEMMA PodsStep == PodInv /\ PodsAccounted /\ [AccountsNext]_accVars => PodsAccounted'
<1> SUFFICES ASSUME PodInv, PodsAccounted, [AccountsNext]_accVars PROVE PodsAccounted'
    OBVIOUS
<1> USE DEF PodsAccounted, Announced, podVars
<1>1. pods \in [Pods -> Nat]
    BY DEF PodInv, TypeOK, TypeCache
<1>2. CASE ProcessEnds
    BY <1>2 DEF ProcessEnds, Restart
<1>3. CASE EventSent
    BY <1>3 DEF EventSent, CreateSends, cacheVars
<1>4. ASSUME NEW k \in Pods, Swaps(k) PROVE PodsAccounted'
    BY <1>1, <1>4 DEF Swaps, UpdatePod, platVars
<1>5. ASSUME NEW k \in Pods, CreateStores(k), UNCHANGED podVars PROVE PodsAccounted'
  <2>1. /\ pods'[k] = api[k] /\ \A j \in Pods \ {k} : pods'[j] = pods[j]
        /\ work'.at = "announce" /\ work'.pod = k /\ work'.uid = api[k]
        /\ work.at = "idle" /\ heard' = heard
      BY <1>1, <1>5 DEF CreateStores, Free, platVars
  <2> QED
      BY <1>1, <1>5, <2>1
<1>6. CASE UNCHANGED <<heard, podVars, cacheVars, work>>
    BY <1>6 DEF cacheVars
<1>7. CASE /\ UNCHANGED <<heard, podVars>>
           /\ \A k \in Pods : pods'[k] # pods[k] => pods'[k] = 0 /\ api[k] # pods[k]
           /\ work.at = "announce" => work' = work
    BY <1>7
<1> QED
    BY <1>2, <1>3, <1>4, <1>5, <1>6, <1>7, PodsMove

\* No interleaving of deploys, deletions, rejections and restarts loses an instance
\* otherwise than with RunPod's answer, the response or the process
\* (kubelet.go:499-539; runpod/client.go:127-150).
THEOREM InstancesNeverForgotten == AccountsSpec => []InstancesAccounted
<1>1. AccountsInit => InstancesAccounted
    BY DEF AccountsInit, Init, InstancesAccounted
<1>2. QED
    BY <1>1, AccountsPodInv, InstancesStep, PTL DEF AccountsSpec

\* Every pod that CreatePod caches is announced, is being announced, or its event was
\* lost, in every life of the process; one that UpdatePod caches is never announced
\* (kubelet.go:143-200).
THEOREM PodsNeverForgotten == AccountsSpec => []PodsAnnounced
<1>1. AccountsInit => SwapsUnannounced /\ PodsAccounted
    BY DEF AccountsInit, Init, SwapsUnannounced, PodsAccounted
<1>2. SwapsUnannounced /\ PodsAccounted => PodsAnnounced
    BY DEF SwapsUnannounced, PodsAccounted, PodsAnnounced, Announced
<1>3. QED
    BY <1>1, <1>2, AccountsPodInv, SwapsStep, PodsStep, PTL DEF AccountsSpec
====
