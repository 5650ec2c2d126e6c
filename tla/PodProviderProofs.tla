---- MODULE PodProviderProofs ----
(* Proofs about PodProvider: the invariant PodInv is preserved by every step,    *)
(* and from it follow the properties about the two maps and the answers. There   *)
(* is one lemma per conjunct of PodInv; what an action leaves alone it gets from *)
(* the lemmas KubeSteps, CacheSteps, WorkSteps and ExecSteps.                    *)
EXTENDS PodProvider, TLAPS

\* The maps start empty and both goroutines idle, as NewProvider leaves them
\* (kubelet.go:108-123).
LEMMA InitInv == Init => PodInv
<1> SUFFICES ASSUME Init PROVE PodInv
    OBVIOUS
<1> USE DEF Init, NoInfo, Free, NoCommand
<1>1. TypeOK
    BY PodsAssumption DEF TypeOK, TypeKube, TypeCache, TypeFlow, TypeRest, InfoRecord,
       WorkRecord, ExecRecord, Phases
<1>2. MapsAgree /\ CacheOrder /\ BookingOrder
    BY DEF MapsAgree, CacheOrder, BookingOrder
<1>3. /\ WorkerOwnsPod /\ AnnouncesHeld
      /\ CommandStages /\ BookedRecordStays /\ BookedOutcome
    BY DEF WorkerOwnsPod, AnnouncesHeld, CommandStages, BookedRecordStays, BookedOutcome
<1> QED
    BY <1>1, <1>2, <1>3 DEF PodInv

\* Who writes what a pod is in Kubernetes: its users, and the library that brings it
\* a reported phase. The kubelet has no client for it.
LEMMA KubeSteps ==
    ASSUME [Next]_vars
    PROVE  \/ UNCHANGED kubeVars
           \/ \E k \in Pods : /\ Kubernetes(k)
                              /\ UNCHANGED <<cacheVars, work, exec, issued, instVars, platVars,
                                             restarts>>
<1>1. CASE \E k \in Pods : Kubernetes(k)
    BY <1>1 DEF Kubernetes, UserCreates, UserDeletes, StatusSync
<1>2. CASE UNCHANGED vars
    BY <1>2 DEF vars
<1>3. CASE \E k \in Pods : WorkerTakes(k)
    BY <1>3 DEF WorkerTakes, CreateStores, UpdatePod, DeleteReads
<1>4. CASE WorkerGoesOn
    BY <1>4 DEF WorkerGoesOn, CreateSends, CreateNotifies, DeleteSends, DeleteRemoves
<1>5. CASE TakeCommand \/ Restart
    BY <1>5 DEF TakeCommand, Restart, NoCommand
<1>6. CASE Execute
    BY <1>6 DEF Execute, CommandFails, DeployCreates, DeployAnswerLost, DeployBooks,
       RejectBooks, CommandNotifies, TerminateDeletes, TerminateAnswerLost, StatusAnswers,
       OtherAnswers, Responds
<1> QED
    BY <1>1, <1>2, <1>3, <1>4, <1>5, <1>6 DEF Next

\* Who writes the two maps: CreatePod, UpdatePod, DeletePod, the booking of a command
\* and a restart (kubelet.go:150-159, 190-192, 235-238, 523-539, 552-559).
LEMMA CacheSteps ==
    ASSUME [Next]_vars
    PROVE  \/ UNCHANGED cacheVars
           \/ \E k \in Pods : CreateStores(k) \/ UpdatePod(k)
           \/ DeleteRemoves \/ DeployBooks \/ RejectBooks \/ Restart
<1>1. CASE \E k \in Pods : Kubernetes(k)
    BY <1>1 DEF Kubernetes, UserCreates, UserDeletes, StatusSync
<1>2. CASE UNCHANGED vars
    BY <1>2 DEF vars
<1>3. CASE \E k \in Pods : WorkerTakes(k)
    BY <1>3 DEF WorkerTakes, DeleteReads
<1>4. CASE WorkerGoesOn
    BY <1>4 DEF WorkerGoesOn, CreateSends, CreateNotifies, DeleteSends
<1>5. CASE TakeCommand \/ Restart
    BY <1>5 DEF TakeCommand, NoCommand
<1>6. CASE Execute
    BY <1>6 DEF Execute, CommandFails, DeployCreates, DeployAnswerLost, CommandNotifies,
       TerminateDeletes, TerminateAnswerLost, StatusAnswers, OtherAnswers, Responds
<1> QED
    BY <1>1, <1>2, <1>3, <1>4, <1>5, <1>6 DEF Next

\* Who moves the pod controller's worker: the calls it makes itself, and a restart
\* (kubelet.go:144-241).
LEMMA WorkSteps ==
    ASSUME [Next]_vars
    PROVE  \/ UNCHANGED work
           \/ \E k \in Pods : CreateStores(k) \/ DeleteReads(k)
           \/ WorkerGoesOn \/ Restart
<1>1. CASE \E k \in Pods : Kubernetes(k)
    BY <1>1 DEF Kubernetes, UserCreates, UserDeletes, StatusSync
<1>2. CASE UNCHANGED vars \/ TakeCommand
    BY <1>2 DEF vars, TakeCommand, NoCommand
<1>3. CASE \E k \in Pods : WorkerTakes(k)
    BY <1>3 DEF WorkerTakes, UpdatePod
<1>4. CASE Execute
    BY <1>4 DEF Execute, CommandFails, DeployCreates, DeployAnswerLost, DeployBooks,
       RejectBooks, CommandNotifies, TerminateDeletes, TerminateAnswerLost, StatusAnswers,
       OtherAnswers, Responds
<1> QED
    BY <1>1, <1>2, <1>3, <1>4 DEF Next

\* Who moves processCommands, and with it creates or deletes an instance or counts a
\* command: its own steps, and a restart (kubelet.go:491-567).
LEMMA ExecSteps ==
    ASSUME [Next]_vars
    PROVE  \/ UNCHANGED <<exec, issued, instVars>>
           \/ TakeCommand \/ Execute \/ Restart
<1>1. CASE \E k \in Pods : Kubernetes(k)
    BY <1>1 DEF Kubernetes, UserCreates, UserDeletes, StatusSync
<1>2. CASE UNCHANGED vars
    BY <1>2 DEF vars
<1>3. CASE \E k \in Pods : WorkerTakes(k)
    BY <1>3 DEF WorkerTakes, CreateStores, UpdatePod, DeleteReads
<1>4. CASE WorkerGoesOn
    BY <1>4 DEF WorkerGoesOn, CreateSends, CreateNotifies, DeleteSends, DeleteRemoves
<1> QED
    BY <1>1, <1>2, <1>3, <1>4 DEF Next

\* A command taken is to be executed and has no outcome yet (kubelet.go:491-497).
LEMMA Taken ==
    TakeCommand =>
        /\ exec'.at = "execute" /\ exec'.uid = 0 /\ ~exec'.ok
        /\ issued' = issued + 1 /\ launched' = launched /\ running' = running
<1>1. TakeCommand => issued' = issued + 1
    BY Zenon DEF TakeCommand
<1>2. TakeCommand => launched' = launched /\ running' = running
    BY DEF TakeCommand, NoCommand, instVars
<1>3. TakeCommand => exec'.at = "execute" /\ exec'.uid = 0 /\ ~exec'.ok
    BY DEF TakeCommand, NoCommand
<1> QED
    BY <1>1, <1>2, <1>3

\* What a reject command puts into the record it finds (kubelet.go:552-559).
LEMMA RejectionBooked ==
    ASSUME PodInv, RejectBooks
    PROVE  \E coded \in BOOLEAN :
              /\ exec'.coded = coded
              /\ podStatus' = IF podStatus[exec.pod] = NoInfo THEN podStatus
                              ELSE [podStatus EXCEPT ![exec.pod].rejected = coded]
BY DEF RejectBooks, PodInv, TypeOK, TypeFlow, ExecRecord

\* Keeping the books under the lock (kubelet.go:523-539, 552-559) opens and closes
\* no record, gives none another uid and leaves the cached pods alone.
LEMMA BookingKeepsIds ==
    ASSUME PodInv, DeployBooks \/ RejectBooks
    PROVE  /\ UNCHANGED <<pods, api, born>>
           /\ \A j \in Pods : /\ podStatus'[j].podID = podStatus[j].podID
                              /\ podStatus[j] = NoInfo <=> podStatus'[j] = NoInfo
<1>1. exec.pod \in Pods
    BY DEF PodInv, TypeOK, TypeFlow, CommandStages, DeployBooks, RejectBooks
<1>2. UNCHANGED <<pods, api, born>>
    BY DEF DeployBooks, RejectBooks, kubeVars
<1>3. ASSUME NEW j \in Pods
      PROVE  /\ podStatus'[j].podID = podStatus[j].podID
             /\ podStatus[j] = NoInfo <=> podStatus'[j] = NoInfo
    <2>1. podStatus[j] \in InfoRecord /\ podStatus \in [Pods -> InfoRecord]
        BY DEF PodInv, TypeOK, TypeCache
    <2>2. podStatus[j] # NoInfo => podStatus[j].podID # 0
        BY DEF PodInv, CacheOrder
    <2>3. CASE podStatus[exec.pod] = NoInfo \/ j # exec.pod
        <3>1. podStatus'[j] = podStatus[j]
            BY <1>1, <2>1, <2>3 DEF DeployBooks, RejectBooks
        <3>2. QED
            BY <3>1
    <2>4. CASE podStatus[exec.pod] # NoInfo /\ j = exec.pod
        <3>1. DeployBooks => podStatus'[j].podID = podStatus[j].podID
            BY <1>1, <2>1, <2>4 DEF DeployBooks, InfoRecord
        <3>2. RejectBooks => podStatus'[j].podID = podStatus[j].podID
            BY <1>1, <2>1, <2>4, RejectionBooked DEF InfoRecord
        <3>3. podStatus'[j].podID = podStatus[j].podID
            BY <3>1, <3>2
        <3>4. podStatus'[j] # NoInfo
            BY <2>2, <2>4, <3>3 DEF NoInfo
        <3>5. QED
            BY <2>4, <3>3, <3>4
    <2>5. QED
        BY <2>3, <2>4
<1>4. QED
    BY <1>2, <1>3

\* Every step keeps the types of what Kubernetes and the library hold, and no pod
\* in Kubernetes has a uid that was not given out.
LEMMA TypeKubeStep == PodInv /\ [Next]_vars => TypeKube'
<1> SUFFICES ASSUME PodInv, [Next]_vars PROVE TypeKube'
    OBVIOUS
<1> USE DEF TypeKube, Phases
<1>1. TypeKube
    BY DEF PodInv, TypeOK
<1>2. reported' \in [Pods -> Phases]
  <2>1. \A k, phase : phase \in Phases => Notified(k, phase) \in [Pods -> Phases]
      BY <1>1 DEF Notified
  <2>2. \/ UNCHANGED reported \/ Restart \/ \E k \in Pods : UserDeletes(k)
        \/ CreateNotifies \/ CommandNotifies
      BY DEF Next, vars, Kubernetes, WorkerTakes, WorkerGoesOn, Execute, UserCreates,
         StatusSync, CreateStores, UpdatePod, DeleteReads, CreateSends, DeleteSends,
         DeleteRemoves, TakeCommand, CommandFails, DeployCreates, DeployAnswerLost,
         DeployBooks, RejectBooks, TerminateDeletes, TerminateAnswerLost, StatusAnswers,
         OtherAnswers, Responds, NoCommand
  <2> QED
      BY <1>1, <2>1, <2>2 DEF UserDeletes, Restart, CreateNotifies, CommandNotifies
<1>3. ASSUME NEW k \in Pods, Kubernetes(k) PROVE TypeKube'
  <2>1. CASE UserCreates(k)
      BY <1>1, <1>2, <2>1 DEF UserCreates
  <2>2. CASE UserDeletes(k)
      BY <1>1, <1>2, <2>2 DEF UserDeletes
  <2>3. CASE StatusSync(k)
      BY <1>1, <1>2, <2>3 DEF StatusSync
  <2> QED
      BY <1>3, <2>1, <2>2, <2>3 DEF Kubernetes
<1> QED
    BY <1>1, <1>2, <1>3, KubeSteps DEF kubeVars

\* Every step keeps the types of the two maps (kubelet.go:42-43).
LEMMA TypeCacheStep == PodInv /\ [Next]_vars => TypeCache'
<1> SUFFICES ASSUME PodInv, [Next]_vars PROVE TypeCache'
    OBVIOUS
<1>1. /\ pods \in [Pods -> Nat] /\ podStatus \in [Pods -> InfoRecord]
      /\ api \in [Pods -> Nat] /\ exec \in ExecRecord
    BY DEF PodInv, TypeOK, TypeKube, TypeCache, TypeFlow
<1>2. NoInfo \in InfoRecord
    BY DEF NoInfo, InfoRecord, Phases
<1>3. ASSUME NEW k \in Pods, CreateStores(k) \/ UpdatePod(k) PROVE TypeCache'
  <2>1. [NoInfo EXCEPT !.podID = api[k]] \in InfoRecord
      BY <1>1 DEF NoInfo, InfoRecord, Phases
  <2> QED
      BY <1>1, <1>3, <2>1 DEF CreateStores, UpdatePod, TypeCache
<1>4. CASE DeleteRemoves \/ Restart
    BY <1>1, <1>2, <1>4 DEF DeleteRemoves, Restart, TypeCache
<1>5. CASE DeployBooks \/ RejectBooks
  <2>1. \A k \in Pods : /\ [podStatus[k] EXCEPT !.providerPodID = exec.inst] \in InfoRecord
                        /\ \A coded \in BOOLEAN :
                             [podStatus[k] EXCEPT !.rejected = coded] \in InfoRecord
      BY <1>1 DEF InfoRecord, ExecRecord
  <2>2. CASE DeployBooks
      BY <1>1, <2>1, <2>2 DEF DeployBooks, TypeCache
  <2>3. CASE RejectBooks
    <3>1. PICK coded \in BOOLEAN :
              podStatus' = IF podStatus[exec.pod] = NoInfo THEN podStatus
                           ELSE [podStatus EXCEPT ![exec.pod].rejected = coded]
        BY <2>3, RejectionBooked
    <3>2. pods' = pods
        BY <2>3 DEF RejectBooks
    <3>3. podStatus' \in [Pods -> InfoRecord]
        BY <1>1, <2>1, <3>1
    <3> QED
        BY <1>1, <3>2, <3>3 DEF TypeCache
  <2> QED
      BY <1>5, <2>2, <2>3
<1> QED
    BY <1>1, <1>3, <1>4, <1>5, CacheSteps DEF TypeCache, cacheVars

\* Every step keeps the types of the two goroutines' local state, and what is at
\* work on a pod has one (kubelet.go:144-241, 491-567).
LEMMA TypeFlowStep == PodInv /\ [Next]_vars => TypeFlow'
<1> SUFFICES ASSUME PodInv, [Next]_vars PROVE TypeFlow'
    OBVIOUS
<1>1. /\ TypeFlow /\ TypeCache /\ api \in [Pods -> Nat] /\ launched + 1 \in Nat
      /\ told \subseteq Nat
    BY DEF PodInv, TypeOK, TypeKube, TypeRest
<1>2. work' \in WorkRecord /\ (work'.at # "idle" => work'.pod \in Pods)
  <2> USE <1>1 DEF TypeFlow, TypeCache, WorkRecord
  <2>1. CASE \E k \in Pods : CreateStores(k) \/ DeleteReads(k)
      BY <2>1 DEF CreateStores, DeleteReads, InfoRecord
  <2>2. CASE WorkerGoesOn
      BY <2>2 DEF WorkerGoesOn, CreateSends, CreateNotifies, DeleteSends, DeleteRemoves, Free
  <2>3. CASE Restart
      BY <2>3 DEF Restart, Free
  <2> QED
      BY <2>1, <2>2, <2>3, WorkSteps
<1>3. /\ exec' \in ExecRecord
      /\ exec'.kind \in {"deploy", "reject"} => exec'.pod \in Pods
      /\ exec'.at \in {"book", "notify"} => exec'.kind \in {"deploy", "reject"}
  <2> USE <1>1 DEF TypeFlow, TypeCache, ExecRecord, NoCommand
  <2>1. CASE TakeCommand
      BY <2>1 DEF TakeCommand
  <2>2. CASE DeployCreates
      BY <2>2 DEF DeployCreates
  <2>3. CASE CommandFails \/ DeployAnswerLost
      BY <2>3 DEF CommandFails, DeployAnswerLost
  <2>4. CASE DeployBooks
    <3>1. podStatus[exec.pod].podID \in Nat
        BY <2>4 DEF DeployBooks, InfoRecord
    <3> QED
        BY <2>4, <3>1 DEF DeployBooks
  <2>5. CASE RejectBooks
    <3>1. podStatus[exec.pod].podID \in Nat
        BY <2>5 DEF RejectBooks, InfoRecord
    <3> QED
        BY <2>5, <3>1 DEF RejectBooks
  <2>6. CASE CommandNotifies \/ TerminateDeletes \/ TerminateAnswerLost
      BY <2>6 DEF CommandNotifies, TerminateDeletes, TerminateAnswerLost
  <2>7. CASE StatusAnswers
      BY <2>7 DEF StatusAnswers, InstanceGone
  <2>8. CASE OtherAnswers
      BY <2>8 DEF OtherAnswers
  <2>9. CASE Responds \/ Restart
    <3>1. exec' = NoCommand
        BY <2>9 DEF Responds, Restart
    <3> QED
        BY <3>1
  <2> QED
      BY <2>1, <2>2, <2>3, <2>4, <2>5, <2>6, <2>7, <2>8, <2>9, ExecSteps DEF Execute
<1> QED
    BY <1>2, <1>3 DEF TypeFlow

\* Every step keeps the types of the instances, of what the platform knows and of
\* the counters.
LEMMA TypeRestStep == PodInv /\ [Next]_vars => TypeRest'
<1> SUFFICES ASSUME PodInv, [Next]_vars PROVE TypeRest'
    OBVIOUS
<1>1. /\ TypeRest /\ TypeFlow /\ api \in [Pods -> Nat]
    BY DEF PodInv, TypeOK, TypeKube
<1>2. /\ issued' \in Nat /\ launched' \in Nat /\ running' \subseteq 1 .. launched'
  <2> USE <1>1 DEF TypeRest
  <2>1. CASE TakeCommand
    <3>1. issued' = issued + 1 /\ launched' = launched /\ running' = running
        BY <2>1, Taken
    <3>2. issued' \in Nat
        BY <3>1
    <3> QED
        BY <3>1, <3>2
  <2>2. CASE DeployCreates \/ DeployAnswerLost
      BY <2>2 DEF DeployCreates, DeployAnswerLost
  <2>3. CASE TerminateDeletes \/ TerminateAnswerLost
      BY <2>3 DEF TerminateDeletes, TerminateAnswerLost
  <2>4. CASE \/ CommandFails \/ DeployBooks \/ RejectBooks \/ CommandNotifies
             \/ StatusAnswers \/ OtherAnswers \/ Responds \/ Restart
      BY <2>4 DEF CommandFails, DeployBooks, RejectBooks, CommandNotifies, StatusAnswers,
         OtherAnswers, Responds, Restart, instVars
  <2> QED
      BY <2>1, <2>2, <2>3, <2>4, ExecSteps DEF Execute, instVars
<1>3. heard' \subseteq Pods \X Nat /\ told' \subseteq Nat
  <2> USE <1>1 DEF TypeRest, platVars
  <2>1. CASE CreateSends
      BY <2>1 DEF CreateSends, TypeFlow, WorkRecord
  <2>2. CASE DeleteSends
      BY <2>2 DEF DeleteSends, TypeFlow, WorkRecord
  <2>3. CASE Responds
      BY <2>3 DEF Responds, TypeFlow, ExecRecord
  <2>4. UNCHANGED platVars \/ CreateSends \/ DeleteSends \/ Responds
      BY DEF Next, vars, Kubernetes, WorkerTakes, WorkerGoesOn, Execute, UserCreates,
         UserDeletes, StatusSync, CreateStores, UpdatePod, DeleteReads, CreateNotifies,
         DeleteRemoves, TakeCommand, CommandFails, DeployCreates, DeployAnswerLost,
         DeployBooks, RejectBooks, CommandNotifies, TerminateDeletes, TerminateAnswerLost,
         StatusAnswers, OtherAnswers, Restart, NoCommand
  <2> QED
      BY <2>1, <2>2, <2>3, <2>4
<1>4. restarts' \in {restarts, restarts + 1}
    BY DEF Next, vars, Kubernetes, WorkerTakes, WorkerGoesOn, Execute, UserCreates,
       UserDeletes, StatusSync, CreateStores, UpdatePod, DeleteReads, CreateSends,
       CreateNotifies, DeleteSends, DeleteRemoves, TakeCommand, CommandFails, DeployCreates,
       DeployAnswerLost, DeployBooks, RejectBooks, CommandNotifies, TerminateDeletes,
       TerminateAnswerLost, StatusAnswers, OtherAnswers, Responds, Restart, NoCommand
<1> QED
    BY <1>1, <1>2, <1>3, <1>4 DEF TypeRest

\* Every step keeps the two maps in agreement (kubelet.go:150-159, 235-238).
LEMMA MapsAgreeStep == PodInv /\ [Next]_vars => MapsAgree'
<1> SUFFICES ASSUME PodInv, [Next]_vars PROVE MapsAgree'
    OBVIOUS
<1>1. TypeCache /\ MapsAgree
    BY DEF PodInv, TypeOK
<1>2. ASSUME NEW k \in Pods, CreateStores(k) \/ UpdatePod(k) PROVE MapsAgree'
  <2>1. CASE CreateStores(k)
    <3>1. podStatus'[k].podID = api[k] /\ pods'[k] = api[k] /\ api[k] # 0
        BY <1>1, <2>1 DEF CreateStores, TypeCache, NoInfo
    <3>2. \A j \in Pods \ {k} : podStatus'[j] = podStatus[j] /\ pods'[j] = pods[j]
        BY <1>1, <2>1 DEF CreateStores, TypeCache
    <3> QED
        BY <1>1, <3>1, <3>2 DEF MapsAgree, NoInfo
  <2>2. CASE UpdatePod(k)
      BY <1>1, <2>2 DEF UpdatePod, GetPod, TypeCache, MapsAgree
  <2> QED
      BY <1>2, <2>1, <2>2
<1>3. CASE DeleteRemoves \/ Restart
    BY <1>1, <1>3 DEF DeleteRemoves, Restart, TypeCache, MapsAgree
<1>4. CASE DeployBooks \/ RejectBooks
    BY <1>1, <1>4, BookingKeepsIds DEF MapsAgree
<1> QED
    BY <1>1, <1>2, <1>3, <1>4, CacheSteps DEF MapsAgree, cacheVars

\* Every step keeps the order of the uids: a record is of the cached pod or of one it
\* replaced, and Kubernetes never goes back to an older pod (kubelet.go:150-159,
\* 190-192, 235-238).
LEMMA CacheOrderStep == PodInv /\ [Next]_vars => CacheOrder'
<1> SUFFICES ASSUME PodInv, [Next]_vars PROVE CacheOrder'
    OBVIOUS
<1>1. /\ TypeKube /\ TypeCache /\ MapsAgree /\ CacheOrder /\ WorkerOwnsPod
      /\ work.at # "idle" => work.pod \in Pods
    BY DEF PodInv, TypeOK, TypeFlow
<1>2. \A k \in Pods : podStatus[k] \in InfoRecord /\ podStatus[k].podID \in Nat
    BY <1>1 DEF TypeCache, InfoRecord
<1>3. ASSUME NEW k \in Pods, Kubernetes(k), UNCHANGED cacheVars PROVE CacheOrder'
  <2> USE <1>1, <1>2, <1>3 DEF TypeKube, TypeCache, CacheOrder, cacheVars
  <2>1. CASE UserCreates(k)
      BY <2>1 DEF UserCreates
  <2>2. CASE UserDeletes(k)
      BY <2>2 DEF UserDeletes
  <2>3. CASE StatusSync(k)
      BY <2>3 DEF StatusSync
  <2> QED
      BY <2>1, <2>2, <2>3 DEF Kubernetes
<1>4. CASE UNCHANGED kubeVars
  <2>1. api' = api /\ born' = born
      BY <1>4 DEF kubeVars
  <2>2. ASSUME NEW k \in Pods, CreateStores(k) PROVE CacheOrder'
    <3>1. podStatus'[k].podID = api[k] /\ pods'[k] = api[k] /\ api[k] # 0 /\ api[k] <= born
        BY <1>1, <2>2 DEF CreateStores, TypeCache, TypeKube, NoInfo
    <3>2. \A j \in Pods \ {k} : podStatus'[j] = podStatus[j] /\ pods'[j] = pods[j]
        BY <1>1, <2>2 DEF CreateStores, TypeCache
    <3> QED
        BY <1>1, <2>1, <3>1, <3>2 DEF CacheOrder, TypeKube
  <2>3. ASSUME NEW k \in Pods, UpdatePod(k) PROVE CacheOrder'
    <3>1. podStatus' = podStatus /\ pods'[k] = api[k] /\ api[k] # 0 /\ api[k] <= born
        BY <1>1, <2>3 DEF UpdatePod, TypeCache, TypeKube
    <3>2. \A j \in Pods \ {k} : pods'[j] = pods[j]
        BY <1>1, <2>3 DEF UpdatePod, TypeCache
    <3> QED
        BY <1>1, <1>2, <2>1, <3>1, <3>2 DEF CacheOrder, TypeKube, TypeCache
  <2>4. CASE DeleteRemoves
    <3>1. podStatus'[work.pod] = NoInfo /\ pods'[work.pod] = 0 /\ NoInfo.podID = 0
        BY <1>1, <2>4 DEF DeleteRemoves, TypeCache, NoInfo
    <3>2. \A j \in Pods \ {work.pod} : podStatus'[j] = podStatus[j] /\ pods'[j] = pods[j]
        BY <1>1, <2>4 DEF DeleteRemoves, TypeCache
    <3> QED
        BY <1>1, <2>1, <3>1, <3>2 DEF CacheOrder, TypeKube
  <2>5. CASE DeployBooks \/ RejectBooks
      BY <1>1, <2>5, BookingKeepsIds DEF CacheOrder
  <2>6. CASE Restart
      BY <1>1, <2>1, <2>6 DEF Restart, CacheOrder, TypeKube, NoInfo
  <2> QED
      BY <1>1, <2>1, <2>2, <2>3, <2>4, <2>5, <2>6, CacheSteps DEF CacheOrder, cacheVars
<1> QED
    BY <1>3, <1>4, KubeSteps

\* While DeletePod is at work its pod stays cached, and Kubernetes does not get
\* that pod back (kubelet.go:203-241).
LEMMA WorkerOwnsPodStep == PodInv /\ [Next]_vars => WorkerOwnsPod'
<1> SUFFICES ASSUME PodInv, [Next]_vars PROVE WorkerOwnsPod'
    OBVIOUS
<1>1. /\ TypeKube /\ TypeCache /\ CacheOrder /\ WorkerOwnsPod
      /\ work \in WorkRecord /\ (work.at # "idle" => work.pod \in Pods)
    BY DEF PodInv, TypeOK, TypeFlow
<1>2. ASSUME NEW k \in Pods, CreateStores(k) \/ DeleteReads(k) PROVE WorkerOwnsPod'
    BY <1>1, <1>2 DEF CreateStores, DeleteReads, GetPod, kubeVars, cacheVars, Free,
       WorkerOwnsPod
<1>3. CASE WorkerGoesOn
    BY <1>1, <1>3 DEF WorkerGoesOn, CreateSends, CreateNotifies, DeleteSends, DeleteRemoves,
       kubeVars, cacheVars, Free, WorkRecord, WorkerOwnsPod
<1>4. CASE Restart
    BY <1>4 DEF Restart, Free, WorkerOwnsPod
<1>5. CASE work' = work
  <2> SUFFICES ASSUME work.at \in {"farewell", "remove"}
               PROVE  pods'[work.pod] # 0
                      /\ (api'[work.pod] = 0 \/ api'[work.pod] > pods'[work.pod])
      BY <1>1, <1>5 DEF WorkerOwnsPod
  <2>1. work # Free
      BY DEF Free
  <2>2. pods' = pods
      BY <1>5, <2>1, CacheSteps, BookingKeepsIds
      DEF CreateStores, UpdatePod, DeleteRemoves, Restart, cacheVars
  <2>3. ASSUME NEW k \in Pods, Kubernetes(k)
        PROVE  api'[work.pod] \in {api[work.pod], 0, born + 1}
      BY <1>1, <2>3 DEF Kubernetes, UserCreates, UserDeletes, StatusSync, TypeKube
  <2>4. api'[work.pod] \in {api[work.pod], 0, born + 1}
      BY <2>3, KubeSteps DEF kubeVars
  <2> QED
      BY <1>1, <2>2, <2>4 DEF WorkerOwnsPod, CacheOrder, TypeKube, TypeCache
<1> QED
    BY <1>2, <1>3, <1>4, <1>5, WorkSteps

\* Every step keeps the order of a command's stages: it has no outcome while it is
\* executed, and only a deploy is booked by processCommands (kubelet.go:497-510).
LEMMA CommandStagesStep == PodInv /\ [Next]_vars => CommandStages'
<1> SUFFICES ASSUME PodInv, [Next]_vars PROVE CommandStages'
    OBVIOUS
<1>1. CommandStages /\ exec \in ExecRecord
    BY DEF PodInv, TypeOK, TypeFlow
<1> USE <1>1 DEF CommandStages, ExecRecord
<1>2. CASE TakeCommand \/ Responds \/ Restart
    BY <1>2, Taken DEF Responds, Restart, NoCommand
<1>3. CASE DeployCreates
    BY <1>3 DEF DeployCreates
<1>4. CASE DeployBooks
    BY <1>4 DEF DeployBooks
<1>5. CASE RejectBooks
    BY <1>5 DEF RejectBooks
<1>6. CASE CommandFails \/ DeployAnswerLost \/ CommandNotifies
    BY <1>6 DEF CommandFails, DeployAnswerLost, CommandNotifies
<1>7. CASE TerminateDeletes \/ TerminateAnswerLost \/ StatusAnswers \/ OtherAnswers
    BY <1>7 DEF TerminateDeletes, TerminateAnswerLost, StatusAnswers, OtherAnswers
<1> QED
    BY <1>2, <1>3, <1>4, <1>5, <1>6, <1>7, ExecSteps DEF Execute

\* While the process lives, a record of a given pod is removed only when Kubernetes has
\* lost that pod for good (kubelet.go:144-159, 203-241).
LEMMA RecordStays ==
    ASSUME PodInv, [Next]_vars, ~Restart, NEW k \in Pods, NEW u \in Nat \ {0}, u <= born,
           podStatus[k].podID = u \/ api[k] = 0 \/ api[k] > u
    PROVE  u <= born' /\ (podStatus'[k].podID = u \/ api'[k] = 0 \/ api'[k] > u)
<1>1. /\ TypeKube /\ TypeCache /\ MapsAgree /\ CacheOrder /\ WorkerOwnsPod
      /\ work.at # "idle" => work.pod \in Pods
    BY DEF PodInv, TypeOK, TypeFlow
<1>2. ASSUME NEW j \in Pods, Kubernetes(j), UNCHANGED cacheVars
      PROVE  /\ u <= born' /\ podStatus' = podStatus
             /\ api'[k] \in {api[k], 0, born + 1}
  <2> USE <1>1, <1>2 DEF TypeKube, cacheVars
  <2>1. CASE UserCreates(j)
      BY <2>1 DEF UserCreates
  <2>2. CASE UserDeletes(j) \/ StatusSync(j)
      BY <2>2 DEF UserDeletes, StatusSync
  <2> QED
      BY <2>1, <2>2 DEF Kubernetes
<1>3. CASE UNCHANGED kubeVars
  <2>1. api' = api /\ born' = born
      BY <1>3 DEF kubeVars
  <2>2. ASSUME NEW j \in Pods, CreateStores(j) \/ UpdatePod(j)
        PROVE  podStatus'[k].podID = u \/ api[k] = 0 \/ api[k] > u
    <3>1. CASE UpdatePod(j) \/ j # k
        BY <1>1, <2>2, <3>1 DEF CreateStores, UpdatePod, TypeCache
    <3>2. CASE CreateStores(k)
      <4>1. podStatus[k].podID = 0
          BY <1>1, <3>2 DEF CreateStores, GetPod, MapsAgree, NoInfo
      <4> QED
          BY <4>1
    <3> QED
        BY <2>2, <3>1, <3>2
  <2>3. CASE DeleteRemoves
    <3>1. CASE k = work.pod
        BY <1>1, <2>1, <2>3, <3>1
        DEF DeleteRemoves, WorkerOwnsPod, CacheOrder, TypeKube, TypeCache, InfoRecord
    <3>2. CASE k # work.pod
        BY <1>1, <2>1, <2>3, <3>2 DEF DeleteRemoves, TypeCache
    <3> QED
        BY <3>1, <3>2
  <2>4. CASE DeployBooks \/ RejectBooks
      BY <2>4, BookingKeepsIds
  <2> QED
      BY <2>1, <2>2, <2>3, <2>4, CacheSteps DEF cacheVars
<1> QED
    BY <1>1, <1>2, <1>3, KubeSteps DEF TypeKube

\* Between the booking of a command and its answer the record stays, or its pod is
\* gone from Kubernetes or replaced (kubelet.go:523-543, 552-566).
LEMMA BookedRecordStaysStep == PodInv /\ [Next]_vars => BookedRecordStays'
<1> SUFFICES ASSUME PodInv, [Next]_vars PROVE BookedRecordStays'
    OBVIOUS
<1>1. /\ TypeKube /\ TypeCache /\ CacheOrder /\ CommandStages /\ BookedRecordStays
      /\ exec \in ExecRecord /\ (exec.kind \in {"deploy", "reject"} => exec.pod \in Pods)
    BY DEF PodInv, TypeOK, TypeFlow
<1>2. CASE Restart
    BY <1>2 DEF Restart, NoCommand, BookedRecordStays
<1>3. ASSUME exec'.at \in {"notify", "respond"}, exec.at \in {"notify", "respond"},
             exec'.kind = exec.kind, exec'.pod = exec.pod, exec'.uid = exec.uid, ~Restart
      PROVE  BookedRecordStays'
    BY <1>1, <1>3, RecordStays DEF BookedRecordStays, ExecRecord
<1>4. CASE DeployBooks \/ RejectBooks
  <2> DEFINE u == podStatus[exec.pod].podID
  <2>1. exec.pod \in Pods /\ exec'.pod = exec.pod /\ exec'.uid = u
      BY <1>1, <1>4 DEF DeployBooks, RejectBooks, CommandStages, ExecRecord
  <2>2. podStatus'[exec.pod].podID = u /\ born' = born
      BY <1>4, <2>1, BookingKeepsIds
  <2>3. u <= born
      BY <1>1, <2>1 DEF CacheOrder, TypeKube, TypeCache, InfoRecord
  <2> QED
      BY <2>1, <2>2, <2>3 DEF BookedRecordStays
<1>5. CASE CommandNotifies
  <2>1. /\ exec.at = "notify" /\ exec'.at = "respond" /\ exec'.kind = exec.kind
        /\ exec'.pod = exec.pod /\ exec'.uid = exec.uid
      BY <1>1, <1>5 DEF CommandNotifies, ExecRecord
  <2> QED
      BY <1>2, <1>3, <2>1
<1>6. CASE TakeCommand \/ DeployCreates \/ Responds
  <2>1. CASE TakeCommand
      BY <2>1, Taken DEF BookedRecordStays
  <2>2. CASE DeployCreates
      BY <1>1, <2>2 DEF DeployCreates, ExecRecord, BookedRecordStays
  <2>3. CASE Responds
      BY <2>3 DEF Responds, NoCommand, BookedRecordStays
  <2> QED
      BY <1>6, <2>1, <2>2, <2>3
<1>7. CASE \/ CommandFails \/ DeployAnswerLost \/ TerminateDeletes \/ TerminateAnswerLost
           \/ StatusAnswers \/ OtherAnswers
    BY <1>1, <1>7 DEF CommandFails, DeployAnswerLost, TerminateDeletes, TerminateAnswerLost,
       StatusAnswers, OtherAnswers, CommandStages, BookedRecordStays, ExecRecord
<1>8. CASE exec' = exec
    BY <1>2, <1>3, <1>8 DEF BookedRecordStays
<1> QED
    BY <1>2, <1>4, <1>5, <1>6, <1>7, <1>8, ExecSteps DEF Execute

\* Between the booking of a command and its answer no other step undoes what was
\* booked (kubelet.go:523-543, 552-566).
LEMMA BookedOutcomeStep == PodInv /\ [Next]_vars => BookedOutcome'
<1> SUFFICES ASSUME PodInv, [Next]_vars PROVE BookedOutcome'
    OBVIOUS
<1>1. /\ TypeKube /\ TypeCache /\ MapsAgree /\ CacheOrder /\ CommandStages
      /\ BookedRecordStays /\ BookedOutcome /\ exec \in ExecRecord
      /\ (exec.kind \in {"deploy", "reject"} => exec.pod \in Pods)
    BY DEF PodInv, TypeOK, TypeFlow
<1>2. CASE TakeCommand \/ DeployCreates \/ Responds \/ Restart
  <2>1. CASE TakeCommand
      BY <2>1, Taken DEF BookedOutcome
  <2>2. CASE DeployCreates
      BY <1>1, <2>2 DEF DeployCreates, ExecRecord, BookedOutcome
  <2>3. CASE Responds \/ Restart
      BY <2>3 DEF Responds, Restart, NoCommand, BookedOutcome
  <2> QED
      BY <1>2, <2>1, <2>2, <2>3
<1>3. CASE CommandFails \/ DeployAnswerLost \/ TerminateAnswerLost
    BY <1>1, <1>3 DEF CommandFails, DeployAnswerLost, TerminateAnswerLost, CommandStages,
       BookedOutcome, ExecRecord
<1>4. CASE TerminateDeletes \/ StatusAnswers \/ OtherAnswers
    BY <1>1, <1>4 DEF TerminateDeletes, StatusAnswers, OtherAnswers, InstanceGone, instVars,
       BookedOutcome, ExecRecord
<1>5. CASE DeployBooks
  <2>1. exec.kind = "deploy" /\ exec.pod \in Pods /\ podStatus[exec.pod] \in InfoRecord
      BY <1>1, <1>5 DEF DeployBooks, CommandStages, TypeCache
  <2>2. /\ exec'.kind = "deploy" /\ exec'.pod = exec.pod /\ exec'.inst = exec.inst
        /\ exec'.uid = podStatus[exec.pod].podID
      BY <1>1, <1>5, <2>1 DEF DeployBooks, ExecRecord
  <2>3. exec'.uid # 0 => podStatus'[exec.pod].providerPodID = exec.inst
      BY <1>1, <1>5, <2>1, <2>2 DEF DeployBooks, TypeCache, InfoRecord, NoInfo
  <2> QED
      BY <2>2, <2>3 DEF BookedOutcome
<1>6. CASE RejectBooks
  <2>1. exec.kind = "reject" /\ exec.pod \in Pods /\ podStatus[exec.pod] \in InfoRecord
      BY <1>1, <1>6 DEF RejectBooks, TypeCache
  <2>2. /\ exec'.kind = "reject" /\ exec'.pod = exec.pod
        /\ exec'.uid = podStatus[exec.pod].podID
        /\ exec'.ok => pods[exec.pod] # 0
      BY <1>1, <1>6, <2>1 DEF RejectBooks, ExecRecord
  <2>3. pods[exec.pod] # 0 => podStatus[exec.pod] # NoInfo /\ podStatus[exec.pod].podID # 0
      BY <1>1, <2>1 DEF MapsAgree, CacheOrder
  <2>4. podStatus[exec.pod] # NoInfo => (podStatus'[exec.pod].rejected <=> exec'.coded)
    <3>1. PICK coded \in BOOLEAN :
              /\ exec'.coded = coded
              /\ podStatus' = IF podStatus[exec.pod] = NoInfo THEN podStatus
                              ELSE [podStatus EXCEPT ![exec.pod].rejected = coded]
        BY <1>6, RejectionBooked
    <3>2. podStatus[exec.pod] # NoInfo => podStatus'[exec.pod].rejected = coded
        BY <1>1, <2>1, <3>1 DEF TypeCache, InfoRecord
    <3> QED
        BY <3>1, <3>2
  <2> QED
      BY <2>2, <2>3, <2>4 DEF BookedOutcome
<1>7. ASSUME exec'.kind = exec.kind, exec'.pod = exec.pod, exec'.uid = exec.uid,
             exec'.inst = exec.inst, exec'.ok = exec.ok, exec'.gone = exec.gone,
             exec'.coded = exec.coded, exec.at \in {"notify", "respond"},
             ~DeployBooks, ~RejectBooks, ~Restart, running' = running
      PROVE  BookedOutcome'
  <2>1. ASSUME exec.kind \in {"deploy", "reject"}, exec.uid # 0,
               podStatus'[exec.pod].podID = exec.uid
        PROVE  podStatus'[exec.pod] = podStatus[exec.pod]
    <3> USE <1>1, <2>1
    <3>1. exec.pod \in Pods
        OBVIOUS
    <3>2. ASSUME NEW k \in Pods, CreateStores(k), k = exec.pod PROVE FALSE
      <4>1. podStatus[k].podID = 0 /\ api[k] # 0 /\ podStatus'[k].podID = api[k]
          BY <3>2 DEF CreateStores, GetPod, MapsAgree, TypeCache, NoInfo
      <4> QED
          BY <1>7, <3>2, <4>1 DEF BookedRecordStays, TypeKube, ExecRecord
    <3>3. ASSUME NEW k \in Pods, CreateStores(k), k # exec.pod
          PROVE  podStatus'[exec.pod] = podStatus[exec.pod]
        BY <3>1, <3>3 DEF CreateStores, TypeCache
    <3>4. CASE DeleteRemoves
        BY <3>1, <3>4 DEF DeleteRemoves, TypeCache, NoInfo
    <3>5. ASSUME NEW k \in Pods, UpdatePod(k) PROVE podStatus' = podStatus
        BY <3>5 DEF UpdatePod
    <3> QED
        BY <1>7, <3>2, <3>3, <3>4, <3>5, CacheSteps DEF cacheVars
  <2>2. exec.kind = "reject" /\ exec.ok => exec.uid # 0
      BY <1>1, <1>7 DEF BookedOutcome
  <2> QED
      BY <1>1, <1>7, <2>1, <2>2 DEF BookedOutcome
<1>8. CASE CommandNotifies
  <2>1. /\ exec.at = "notify" /\ podStatus' = podStatus /\ running' = running
        /\ exec' = [exec EXCEPT !.at = "respond"]
      BY <1>8 DEF CommandNotifies, cacheVars, instVars
  <2> QED
      BY <1>1, <2>1 DEF BookedOutcome, ExecRecord
<1>9. CASE UNCHANGED <<exec, instVars>>
  <2>1. CASE exec.at \in {"notify", "respond"}
    <3>1. ~DeployBooks /\ ~RejectBooks
        BY <1>9, <2>1 DEF DeployBooks, RejectBooks
    <3> QED
        BY <1>2, <1>7, <1>9, <2>1, <3>1 DEF instVars
  <2>2. CASE exec.at \notin {"notify", "respond"}
      BY <1>9, <2>2 DEF BookedOutcome
  <2> QED
      BY <2>1, <2>2
<1> QED
    BY <1>2, <1>3, <1>4, <1>5, <1>6, <1>8, <1>9, ExecSteps DEF Execute

\* While CreatePod announces a pod, that pod is cached: only the worker replaces or
\* removes what is cached, and a crash ends both (kubelet.go:144-178, 187-241).
LEMMA AnnouncesHeldStep == PodInv /\ [Next]_vars => AnnouncesHeld'
<1> SUFFICES ASSUME PodInv, [Next]_vars PROVE AnnouncesHeld'
    OBVIOUS
<1>1. TypeCache /\ AnnouncesHeld /\ work \in WorkRecord
    BY DEF PodInv, TypeOK, TypeFlow
<1>2. ASSUME NEW k \in Pods, CreateStores(k) \/ DeleteReads(k) PROVE AnnouncesHeld'
    BY <1>1, <1>2 DEF CreateStores, DeleteReads, AnnouncesHeld, TypeCache
<1>3. CASE WorkerGoesOn \/ Restart
    BY <1>1, <1>3 DEF WorkerGoesOn, CreateSends, CreateNotifies, DeleteSends, DeleteRemoves,
       Restart, Free, WorkRecord, AnnouncesHeld
<1>4. CASE work' = work
  <2>1. work.at = "announce" => pods' = pods
      BY <1>4, CacheSteps, BookingKeepsIds
      DEF CreateStores, UpdatePod, DeleteRemoves, Restart, Free, cacheVars
  <2> QED
      BY <1>1, <1>4, <2>1 DEF AnnouncesHeld
<1> QED
    BY <1>2, <1>3, <1>4, WorkSteps

\* An instance in hand is younger than every booked one, since one goroutine
\* creates and books in turn (kubelet.go:487-510, 523-538).
LEMMA BookingOrderStep == PodInv /\ [Next]_vars => BookingOrder'
<1> SUFFICES ASSUME PodInv, [Next]_vars PROVE BookingOrder'
    OBVIOUS
<1> USE DEF NoInfo, NoCommand, PodInv, TypeOK, TypeCache, TypeFlow, TypeRest, InfoRecord,
            ExecRecord, BookingOrder
<1>0. \A k \in Pods : podStatus[k] \in InfoRecord /\ podStatus[k].providerPodID \in Nat
    OBVIOUS
<1>1. ASSUME NEW k \in Pods, CreateStores(k) PROVE BookingOrder'
  <2>1. /\ podStatus'[k].providerPodID = 0
        /\ \A j \in Pods \ {k} : podStatus'[j] = podStatus[j]
        /\ UNCHANGED <<exec, launched>>
      BY <1>1 DEF CreateStores, instVars
  <2> QED
      BY <1>0, <2>1
<1>2. CASE DeleteRemoves
  <2>1. /\ podStatus' = [podStatus EXCEPT ![work.pod] = NoInfo]
        /\ UNCHANGED <<exec, launched>>
      BY <1>2 DEF DeleteRemoves, instVars
  <2>2. \A j \in Pods : podStatus'[j].providerPodID \in {0, podStatus[j].providerPodID}
      BY <2>1
  <2> QED
      BY <1>0, <2>1, <2>2
<1>3. CASE DeployCreates
  <2>1. /\ launched' = launched + 1 /\ podStatus' = podStatus
        /\ exec' = [exec EXCEPT !.at = "book", !.inst = launched + 1, !.ok = TRUE]
      BY <1>3 DEF DeployCreates, cacheVars
  <2>2. exec'.inst = launched + 1
      BY <2>1
  <2> QED
      BY <1>0, <2>1, <2>2
<1>4. CASE DeployAnswerLost
    BY <1>0, <1>4 DEF DeployAnswerLost, cacheVars
<1>5. CASE DeployBooks
  <2>1. exec'.at # "book" /\ launched' = launched /\ exec.inst \in 1 .. launched
      BY <1>5 DEF DeployBooks, instVars
  <2>2. \A j \in Pods :
            podStatus'[j].providerPodID \in {exec.inst, podStatus[j].providerPodID}
    <3> TAKE j \in Pods
    <3>1. CASE podStatus[exec.pod] = NoInfo \/ j # exec.pod
        BY <1>5, <3>1 DEF DeployBooks
    <3>2. CASE podStatus[exec.pod] # NoInfo /\ j = exec.pod
        BY <1>5, <1>0, <3>2 DEF DeployBooks
    <3> QED
        BY <3>1, <3>2
  <2> QED
      BY <1>0, <2>1, <2>2
<1>6. CASE RejectBooks
  <2>1. exec'.at # "book" /\ launched' = launched
      BY <1>6 DEF RejectBooks, instVars
  <2>2. \A j \in Pods : podStatus'[j].providerPodID = podStatus[j].providerPodID
    <3> TAKE j \in Pods
    <3>1. CASE podStatus[exec.pod] = NoInfo \/ j # exec.pod
        BY <1>6, <3>1 DEF RejectBooks
    <3>2. CASE podStatus[exec.pod] # NoInfo /\ j = exec.pod
        BY <1>6, <1>0, <3>2 DEF RejectBooks
    <3> QED
        BY <3>1, <3>2
  <2> QED
      BY <2>1, <2>2
<1>7. CASE Restart
    BY <1>7 DEF Restart, instVars
<1>8. CASE /\ UNCHANGED <<podStatus, launched>>
           /\ exec' = exec \/ exec'.at # "book"
    BY <1>8
<1>9. CASE \/ TakeCommand \/ CommandFails \/ CommandNotifies \/ TerminateDeletes
           \/ TerminateAnswerLost \/ StatusAnswers \/ OtherAnswers \/ Responds
  <2>1. UNCHANGED <<podStatus, launched>>
      BY <1>9 DEF TakeCommand, CommandFails, CommandNotifies, TerminateDeletes,
         TerminateAnswerLost, StatusAnswers, OtherAnswers, Responds, cacheVars, instVars
  <2>2. exec'.at # "book"
    <3>1. CASE TakeCommand
        BY <3>1 DEF TakeCommand
    <3>2. CASE CommandFails
        BY <3>2 DEF CommandFails
    <3>3. CASE CommandNotifies
        BY <3>3 DEF CommandNotifies
    <3>4. CASE TerminateDeletes \/ TerminateAnswerLost
        BY <3>4 DEF TerminateDeletes, TerminateAnswerLost
    <3>5. CASE StatusAnswers \/ OtherAnswers
        BY <3>5 DEF StatusAnswers, OtherAnswers
    <3>6. CASE Responds
        BY <3>6 DEF Responds
    <3> QED
        BY <1>9, <3>1, <3>2, <3>3, <3>4, <3>5, <3>6
  <2> QED
      BY <1>8, <2>1, <2>2
<1>10. CASE UNCHANGED <<podStatus, launched, exec>>
    BY <1>8, <1>10
<1> QED
    BY <1>1, <1>2, <1>3, <1>4, <1>5, <1>6, <1>7, <1>9, <1>10, CacheSteps, ExecSteps
    DEF Execute, UpdatePod, cacheVars, instVars

\* No step takes a rejection back but another reject command for the pod, one without
\* a code (kubelet.go:282, 524-534, 554-558).
LEMMA StickStep ==
    ASSUME PodInv, [Next]_vars, NEW k \in Pods,
           podStatus[k].rejected, podStatus'[k].podID = podStatus[k].podID
    PROVE  \/ podStatus'[k].rejected
           \/ exec.kind = "reject" /\ exec.pod = k /\ ~exec'.coded
<1> SUFFICES ASSUME ~(exec.kind = "reject" /\ exec.pod = k /\ ~exec'.coded)
             PROVE  podStatus'[k].rejected
    BY Zenon
<1>1. podStatus \in [Pods -> InfoRecord] /\ podStatus[k] # NoInfo /\ podStatus[k].podID # 0
    BY DEF PodInv, TypeOK, TypeCache, CacheOrder, NoInfo
<1>2. ASSUME NEW j \in Pods, CreateStores(j) PROVE podStatus'[k].rejected
    <2>1. k # j
        BY <1>1, <1>2 DEF CreateStores, GetPod, PodInv, MapsAgree
    <2>2. QED
        BY <1>1, <1>2, <2>1 DEF CreateStores
<1>3. CASE DeleteRemoves
    <2>1. k # work.pod
        BY <1>1, <1>3 DEF DeleteRemoves, NoInfo
    <2>2. QED
        BY <1>1, <1>3, <2>1 DEF DeleteRemoves
<1>4. CASE DeployBooks
    <2>1. CASE k = exec.pod
        BY <1>1, <1>4, <2>1 DEF DeployBooks, InfoRecord
    <2>2. CASE k # exec.pod
        BY <1>1, <1>4, <2>2 DEF DeployBooks
    <2>3. QED
        BY <2>1, <2>2
<1>5. CASE RejectBooks
    <2>1. PICK coded \in BOOLEAN :
              /\ exec'.coded = coded
              /\ podStatus' = IF podStatus[exec.pod] = NoInfo THEN podStatus
                              ELSE [podStatus EXCEPT ![exec.pod].rejected = coded]
        BY <1>5, RejectionBooked
    <2>2. CASE k = exec.pod
        BY <1>1, <1>5, <2>1, <2>2 DEF RejectBooks, InfoRecord
    <2>3. CASE k # exec.pod
        BY <1>1, <2>1, <2>3
    <2>4. QED
        BY <2>2, <2>3
<1>6. CASE Restart
    BY <1>1, <1>6 DEF Restart, NoInfo
<1>7. CASE UNCHANGED podStatus
    BY <1>7
<1>8. QED
    BY <1>2, <1>3, <1>4, <1>5, <1>6, <1>7, CacheSteps DEF UpdatePod, cacheVars

\* PodInv is inductive: its conjuncts together are preserved by every step.
LEMMA PodInvStep == PodInv /\ [Next]_vars => PodInv'
BY TypeKubeStep, TypeCacheStep, TypeFlowStep, TypeRestStep, MapsAgreeStep,
   CacheOrderStep, WorkerOwnsPodStep, CommandStagesStep, BookedRecordStaysStep,
   BookedOutcomeStep, AnnouncesHeldStep, BookingOrderStep DEF PodInv, TypeOK

\* PodInv holds in every reachable state of the pod side of the kubelet, for any
\* pods and bounds (kubelet.go:144-241, 491-567).
THEOREM PodInvariant == Spec => []PodInv
BY InitInv, PodInvStep, PTL DEF Spec

\* pods and podStatus have the same keys at all times, whatever command, deletion or
\* restart comes when (kubelet.go:150-159, 235-238, 524-538, 552-559).
THEOREM MapsAlwaysAgree == Spec => []MapsAgree
<1>1. PodInv => MapsAgree
    BY DEF PodInv
<1>2. QED
    BY PodInvariant, <1>1, PTL

\* A successful answer is true of the record and of the instance when it is sent
\* (kubelet.go:499-513, 549-567; runpod/client.go:188-198, 520-529).
THEOREM AnswersAlwaysTrue == Spec => []AnswersAreTrue
<1>1. PodInv => AnswersAreTrue
    BY DEF PodInv, BookedOutcome, AnswersAreTrue
<1>2. QED
    BY PodInvariant, <1>1, PTL

\* In no behaviour is a rejection taken back while its record lives, except by another
\* reject command for the same pod that has no code (kubelet.go:282, 524-534, 555).
THEOREM RejectionsStick == Spec => RejectionSticks
<1>1. PodInv /\ [Next]_vars
        => [\A k \in Pods : podStatus[k].rejected /\ podStatus'[k].podID = podStatus[k].podID
                => \/ podStatus'[k].rejected
                   \/ exec.kind = "reject" /\ exec.pod = k /\ ~exec'.coded]_vars
    BY StickStep
<1>2. QED
    BY PodInvariant, <1>1, PTL DEF Spec, RejectionSticks
----------------------------------------------------------------------------
(* The contract                                                               *)

\* What the contract sees of the records.
Rejected == [k \in Pods |-> podStatus[k].rejected]
Booked == [k \in Pods |-> podStatus[k].providerPodID]

\* When one record changes, its verdict and its instance are all that the contract
\* sees of it.
LEMMA RecordChanged ==
    ASSUME NEW k \in Pods, NEW STATE b, NEW STATE i,
           podStatus'[k].rejected = b, podStatus'[k].providerPodID = i,
           \A j \in Pods \ {k} : podStatus'[j] = podStatus[j]
    PROVE  /\ Rejected' = [Rejected EXCEPT ![k] = b]
           /\ Booked' = [Booked EXCEPT ![k] = i]
BY Zenon DEF Rejected, Booked

\* A record that is opened or deleted shows no verdict and no instance; the other
\* records are as they were (kubelet.go:150-159, 235-238).
LEMMA FreshRecord ==
    ASSUME PodInv, NEW k \in Pods, NEW STATE u,
           podStatus' = [podStatus EXCEPT ![k] = [NoInfo EXCEPT !.podID = u]]
    PROVE  /\ Rejected' = [Rejected EXCEPT ![k] = FALSE]
           /\ Booked' = [Booked EXCEPT ![k] = 0]
<1>1. podStatus \in [Pods -> InfoRecord]
    BY DEF PodInv, TypeOK, TypeCache
<1>2. /\ podStatus'[k].rejected = FALSE /\ podStatus'[k].providerPodID = 0
      /\ \A j \in Pods \ {k} : podStatus'[j] = podStatus[j]
    BY <1>1 DEF NoInfo
<1> QED
    BY <1>2, RecordChanged

\* NewProvider's empty maps are the contract's initial state (kubelet.go:108-123).
LEMMA MappedInit == Init => Contract!Init
<1> SUFFICES ASSUME Init PROVE Contract!Init
    OBVIOUS
<1>1. /\ born = 0 /\ launched = 0 /\ restarts = 0 /\ heard = {}
      /\ api = [k \in Pods |-> 0] /\ pods = [k \in Pods |-> 0]
      /\ podStatus = [k \in Pods |-> NoInfo]
    BY DEF Init
<1>2. [k \in Pods |-> podStatus[k].rejected] = [k \in Pods |-> FALSE]
    BY <1>1, Zenon DEF NoInfo
<1>3. [k \in Pods |-> podStatus[k].providerPodID] = [k \in Pods |-> 0]
    BY <1>1 DEF NoInfo
<1> QED
    BY <1>1, <1>2, <1>3 DEF Contract!Init

\* CreatePod's first section takes the pod that Kubernetes has (kubelet.go:144-159).
LEMMA MappedCreate == ASSUME PodInv, NEW k \in Pods, CreateStores(k) PROVE Contract!Take(k)
<1>1. /\ api[k] # 0 /\ pods[k] = 0 /\ pods' = [pods EXCEPT ![k] = api[k]]
      /\ podStatus' = [podStatus EXCEPT ![k] = [NoInfo EXCEPT !.podID = api[k]]]
      /\ UNCHANGED <<born, api, heard, launched, restarts>>
    BY DEF CreateStores, GetPod, kubeVars, platVars, instVars
<1>2. Rejected' = [Rejected EXCEPT ![k] = FALSE] /\ Booked' = [Booked EXCEPT ![k] = 0]
    BY <1>1, FreshRecord
<1>3. podStatus[k].rejected = FALSE /\ podStatus[k].providerPodID = 0
    BY <1>1 DEF PodInv, MapsAgree, NoInfo
<1>4. Rejected' = Rejected
    BY <1>2, <1>3, Zenon DEF Rejected
<1>5. Booked' = Booked
    BY <1>2, <1>3, Zenon DEF Booked
<1> QED
    BY <1>1, <1>4, <1>5 DEF Contract!Take, Rejected, Booked

\* DeletePod's last section lets the pod go, which Kubernetes no longer wants since
\* it first looked (kubelet.go:203-241).
LEMMA MappedDelete ==
    ASSUME PodInv, DeleteRemoves, NEW k \in Pods, k = work.pod PROVE Contract!LetGo(k)
<1>1. /\ work.at = "remove" /\ pods' = [pods EXCEPT ![k] = 0]
      /\ podStatus' = [podStatus EXCEPT ![k] = NoInfo]
      /\ UNCHANGED <<born, api, heard, launched, restarts>>
    BY DEF DeleteRemoves, kubeVars, platVars, instVars
<1>2. k \in Pods /\ pods[k] \notin {0, api[k]}
    BY <1>1 DEF PodInv, TypeOK, TypeKube, TypeCache, TypeFlow, WorkerOwnsPod
<1>3. NoInfo = [NoInfo EXCEPT !.podID = 0]
    BY DEF NoInfo
<1>4. /\ Rejected' = [Rejected EXCEPT ![k] = FALSE]
      /\ Booked' = [Booked EXCEPT ![k] = 0]
    BY <1>1, <1>2, <1>3, FreshRecord
<1> QED
    BY <1>1, <1>2, <1>4 DEF Contract!LetGo, Rejected, Booked

\* A deploy result enters the record of a pod that is held, or none at all: an
\* instance younger than all in the records (kubelet.go:523-538).
LEMMA MappedBooking ==
    ASSUME PodInv, DeployBooks, NEW k \in Pods, k = exec.pod
    PROVE  Contract!Book(k) \/ UNCHANGED Contract!vars
<1>1. /\ exec.at = "book" /\ k \in Pods
      /\ UNCHANGED <<born, api, pods, heard, launched, restarts>>
      /\ podStatus' = IF podStatus[k] = NoInfo THEN podStatus
                      ELSE [podStatus EXCEPT ![k].providerPodID = exec.inst]
    BY DEF DeployBooks, PodInv, TypeOK, TypeFlow, kubeVars, platVars, instVars
<1>2. CASE podStatus[k] = NoInfo
  <2>1. UNCHANGED <<born, api, pods, heard, launched, restarts, podStatus>>
      BY <1>1, <1>2
  <2> QED
      BY <2>1 DEF Contract!vars
<1>3. CASE podStatus[k] # NoInfo
  <2>1. podStatus \in [Pods -> InfoRecord] /\ pods[k] # 0
      BY <1>1, <1>3 DEF PodInv, TypeOK, TypeCache, MapsAgree
  <2>2. /\ podStatus'[k].providerPodID = exec.inst
        /\ podStatus'[k].rejected = podStatus[k].rejected
        /\ \A j \in Pods \ {k} : podStatus'[j] = podStatus[j]
      BY <1>1, <1>3, <2>1 DEF InfoRecord
  <2>3. Rejected' = Rejected
      BY <2>2, Zenon DEF Rejected
  <2>4. Booked' = [Booked EXCEPT ![k] = exec.inst]
      BY <2>2, Zenon DEF Booked
  <2>5. exec.inst \in 1 .. launched /\ \A j \in Pods : Booked[j] < exec.inst
      BY <1>1 DEF PodInv, BookingOrder, Booked
  <2> QED
      BY <1>1, <2>1, <2>3, <2>4, <2>5 DEF Contract!Book, Rejected, Booked
<1> QED
    BY <1>2, <1>3

\* The verdict of a reject command enters the record of a pod that is held, or none
\* (kubelet.go:552-559).
LEMMA MappedRejection ==
    ASSUME PodInv, RejectBooks, NEW k \in Pods, k = exec.pod
    PROVE  Contract!Judge(k) \/ UNCHANGED Contract!vars
<1>1. PICK verdict \in BOOLEAN :
          podStatus' = IF podStatus[k] = NoInfo THEN podStatus
                       ELSE [podStatus EXCEPT ![k].rejected = verdict]
    BY DEF RejectBooks
<1>4. UNCHANGED <<born, api, pods, heard, launched, restarts>>
    BY DEF RejectBooks, kubeVars, platVars, instVars
<1>2. CASE podStatus[k] = NoInfo
  <2>1. UNCHANGED <<born, api, pods, heard, launched, restarts, podStatus>>
      BY <1>1, <1>2, <1>4
  <2> QED
      BY <2>1 DEF Contract!vars
<1>3. CASE podStatus[k] # NoInfo
  <2>1. podStatus \in [Pods -> InfoRecord] /\ pods[k] # 0
      BY <1>1, <1>3 DEF PodInv, TypeOK, TypeCache, MapsAgree
  <2>2. /\ podStatus'[k].providerPodID = podStatus[k].providerPodID
        /\ podStatus'[k].rejected = verdict
        /\ \A j \in Pods \ {k} : podStatus'[j] = podStatus[j]
      BY <1>1, <1>3, <2>1 DEF InfoRecord
  <2>3. Rejected' = [Rejected EXCEPT ![k] = verdict]
      BY <2>2, Zenon DEF Rejected
  <2>4. Booked' = Booked
      BY <2>2, Zenon DEF Booked
  <2> QED
      BY <1>4, <2>1, <2>3, <2>4 DEF Contract!Judge, Rejected, Booked
<1> QED
    BY <1>2, <1>3

\* Every step of the pod side is a step of the contract, or one it does not see
\* (kubelet.go:144-241, 491-567).
LEMMA MappedStep == PodInv /\ [Next]_vars => [Contract!Next]_(Contract!vars)
<1> SUFFICES ASSUME PodInv, [Next]_vars PROVE [Contract!Next]_(Contract!vars)
    OBVIOUS
<1> USE DEF kubeVars, cacheVars, instVars, platVars
<1>1. ASSUME NEW k \in Pods, UserCreates(k) PROVE Contract!Appears(k)
    BY <1>1 DEF UserCreates, Contract!Appears
<1>2. ASSUME NEW k \in Pods, UserDeletes(k) PROVE Contract!Disappears(k)
    BY <1>2 DEF UserDeletes, Contract!Disappears
<1>3. ASSUME NEW k \in Pods, UpdatePod(k) PROVE Contract!Take(k)
    BY <1>3 DEF UpdatePod, GetPod, Contract!Take
<1>4. CASE CreateSends
  <2>1. /\ work.pod \in Pods /\ pods[work.pod] = work.uid /\ work.uid # 0
        /\ UNCHANGED <<born, api, pods, podStatus, launched, restarts>>
        /\ heard' = heard \cup {<<work.pod, work.uid>>} \/ heard' = heard
      BY <1>4 DEF CreateSends, PodInv, TypeOK, TypeFlow, AnnouncesHeld
  <2>2. CASE heard' = heard \cup {<<work.pod, work.uid>>}
      BY <2>1, <2>2 DEF Contract!Announce, Contract!Next
  <2>3. CASE heard' = heard
      BY <2>1, <2>3 DEF Contract!vars
  <2> QED
      BY <2>1, <2>2, <2>3
<1>5. CASE DeployCreates \/ DeployAnswerLost
    BY <1>5 DEF DeployCreates, DeployAnswerLost, Contract!Launch, Contract!Next
<1>6. CASE Restart
  <2>1. /\ pods' = [k \in Pods |-> 0] /\ podStatus' = [k \in Pods |-> NoInfo]
        /\ restarts' = restarts + 1 /\ UNCHANGED <<born, api, heard, launched>>
      BY <1>6 DEF Restart
  <2>2. Rejected' = [k \in Pods |-> FALSE]
      BY <2>1, Zenon DEF Rejected, NoInfo
  <2>3. Booked' = [k \in Pods |-> 0]
      BY <2>1 DEF Booked, NoInfo
  <2> QED
      BY <2>1, <2>2, <2>3 DEF Contract!Die, Contract!Next, Rejected, Booked
<1>7. CASE UNCHANGED <<born, api, pods, podStatus, heard, launched, restarts>>
    BY <1>7 DEF Contract!vars
<1>8. CASE \/ \E k \in Pods : StatusSync(k) \/ DeleteReads(k)
           \/ CreateNotifies \/ DeleteSends \/ TakeCommand \/ CommandFails
           \/ CommandNotifies \/ TerminateDeletes \/ TerminateAnswerLost
           \/ StatusAnswers \/ OtherAnswers \/ Responds \/ UNCHANGED vars
  <2>1. UNCHANGED <<born, api, pods, podStatus, heard, launched, restarts>>
      BY <1>8 DEF StatusSync, DeleteReads, CreateNotifies, DeleteSends, TakeCommand,
         CommandFails, CommandNotifies, TerminateDeletes, TerminateAnswerLost,
         StatusAnswers, OtherAnswers, Responds, vars
  <2> QED
      BY <1>7, <2>1
<1>9. ASSUME NEW k \in Pods, Kubernetes(k) \/ WorkerTakes(k)
      PROVE  [Contract!Next]_(Contract!vars)
  <2>1. \/ Contract!Appears(k) \/ Contract!Disappears(k) \/ Contract!Take(k)
        \/ StatusSync(k) \/ DeleteReads(k)
      BY <1>1, <1>2, <1>3, <1>9, MappedCreate DEF Kubernetes, WorkerTakes
  <2>2. CASE Contract!Appears(k) \/ Contract!Disappears(k) \/ Contract!Take(k)
      BY <2>2, Zenon DEF Contract!Next
  <2> QED
      BY <1>8, <2>1, <2>2
<1>10. CASE DeleteRemoves
  <2>1. PICK k \in Pods : k = work.pod
      BY <1>10 DEF DeleteRemoves, PodInv, TypeOK, TypeFlow
  <2>2. Contract!LetGo(k)
      BY <1>10, <2>1, MappedDelete
  <2> QED
      BY <2>2, Zenon DEF Contract!Next
<1>11. CASE DeployBooks \/ RejectBooks
  <2>1. PICK k \in Pods : k = exec.pod
      BY <1>11 DEF DeployBooks, RejectBooks, PodInv, TypeOK, TypeFlow
  <2>2. Contract!Book(k) \/ Contract!Judge(k) \/ UNCHANGED Contract!vars
      BY <1>11, <2>1, MappedBooking, MappedRejection
  <2> QED
      BY <2>2, Zenon DEF Contract!Next
<1> QED
    BY <1>4, <1>5, <1>6, <1>8, <1>9, <1>10, <1>11 DEF Next, WorkerGoesOn, Execute

\* The pod side implements the contract, for any pods, commands and restarts
\* (kubelet.go:144-241, 491-567).
THEOREM Implements == Spec => ImplementsContract
BY PodInvariant, MappedInit, MappedStep, PTL DEF Spec, ImplementsContract, Contract!Spec

\* What is proved of the contract, under the same mapping.
Promise == INSTANCE PodContractProofs WITH
               newest <- born,
               wanted <- api,
               held <- pods,
               rejected <- [k \in Pods |-> podStatus[k].rejected],
               booked <- [k \in Pods |-> podStatus[k].providerPodID],
               known <- heard,
               instances <- launched,
               lives <- restarts

\* The contract as its proofs state it (kubelet.go:144-241, 491-567).
LEMMA ImplementsPromise == Spec => Promise!Spec
<1>1. Init => Promise!Init
    BY MappedInit DEF Contract!Init, Promise!Init
<1>2. PodInv /\ [Next]_vars => [Promise!Next]_(Promise!vars)
    BY MappedStep
    DEF Contract!Next, Contract!vars, Contract!Appears, Contract!Disappears, Contract!Take,
        Contract!LetGo, Contract!Announce, Contract!Launch, Contract!Book, Contract!Judge,
        Contract!Die,
        Promise!Next, Promise!vars, Promise!Appears, Promise!Disappears, Promise!Take,
        Promise!LetGo, Promise!Announce, Promise!Launch, Promise!Book, Promise!Judge,
        Promise!Die
<1> QED
    BY <1>1, <1>2, PodInvariant, PTL DEF Spec, Promise!Spec

\* No pod is cached that is older than one of its name the platform was told of,
\* whatever restarts, updates and deletions there were (kubelet.go:144-200).
THEOREM NoOlderPod == Spec => []NoOlderPodHeld
<1>1. Promise!NoOlderPodHeld => NoOlderPodHeld
    BY DEF Promise!NoOlderPodHeld, NoOlderPodHeld
<1>2. Promise!Spec => [](Promise!OneRecordPerInstance /\ Promise!NoOlderPodHeld)
    BY Promise!ContractKept
<1> QED
    BY <1>1, <1>2, ImplementsPromise, PTL

\* No instance is in the records of two pods, also when a deploy is repeated for
\* another pod (kubelet.go:523-538).
THEOREM InstancesApart == Spec => []OneRecordPerInstance
<1>1. Promise!OneRecordPerInstance => OneRecordPerInstance
    BY DEF Promise!OneRecordPerInstance, OneRecordPerInstance
<1>2. Promise!Spec => [](Promise!OneRecordPerInstance /\ Promise!NoOlderPodHeld)
    BY Promise!ContractKept
<1> QED
    BY <1>1, <1>2, ImplementsPromise, PTL

\* While its record lives, a pod's verdict changes by a reject command for it alone
\* (kubelet.go:282, 524-534, 555).
LEMMA VerdictStep ==
    ASSUME PodInv, [Next]_vars, NEW k \in Pods, pods[k] # 0, pods'[k] # 0,
           restarts' = restarts, podStatus'[k].rejected # podStatus[k].rejected
    PROVE  exec.kind = "reject" /\ exec.pod = k
<1>1. podStatus \in [Pods -> InfoRecord] /\ pods \in [Pods -> Nat] /\ restarts \in Nat
    BY DEF PodInv, TypeOK, TypeCache, TypeRest
<1>2. ASSUME NEW j \in Pods, CreateStores(j) PROVE FALSE
    BY <1>1, <1>2 DEF CreateStores, GetPod
<1>3. ASSUME NEW j \in Pods, UpdatePod(j) PROVE FALSE
    BY <1>3 DEF UpdatePod
<1>4. CASE DeleteRemoves
    BY <1>1, <1>4 DEF DeleteRemoves
<1>5. CASE DeployBooks
  <2>1. CASE k = exec.pod
      BY <1>1, <1>5, <2>1 DEF DeployBooks, InfoRecord
  <2>2. CASE k # exec.pod
      BY <1>1, <1>5, <2>2 DEF DeployBooks
  <2> QED
      BY <2>1, <2>2
<1>6. CASE RejectBooks
    BY <1>1, <1>6 DEF RejectBooks
<1>7. CASE Restart
    BY <1>1, <1>7 DEF Restart
<1>8. CASE UNCHANGED podStatus
    BY <1>8
<1> QED
    BY <1>2, <1>3, <1>4, <1>5, <1>6, <1>7, <1>8, CacheSteps DEF cacheVars

\* A cached pod that Kubernetes still has stays cached as long as the process lives, and
\* only a reject command for it changes whether it is rejected (kubelet.go:177-181,
\* 230-238, 524-534, 555).
THEOREM LivePodsAreHeld == Spec => LivePodsHeld
<1>1. Promise!Spec => Promise!WantedStaysHeld
    BY Promise!ContractHolds
<1>2. ASSUME PodInv, [Next]_vars,
             [\A k \in Pods :
                pods[k] # 0 /\ pods[k] = api[k] /\ restarts' = restarts
                  => /\ pods'[k] = pods[k]
                     /\ Rejected'[k] # Rejected[k]
                          => UNCHANGED <<pods, heard, Booked>>]_(Promise!vars)
      PROVE  [\A k \in Pods :
                pods[k] # 0 /\ pods[k] = api[k] /\ restarts' = restarts
                  => /\ pods'[k] = pods[k]
                     /\ podStatus'[k].rejected # podStatus[k].rejected
                          => exec.kind = "reject" /\ exec.pod = k]_vars
  <2>1. CASE UNCHANGED Promise!vars
    <3>1. pods' = pods
        BY <2>1 DEF Promise!vars
    <3> QED
        BY <1>2, <3>1, VerdictStep
  <2> QED
      BY <1>2, <2>1, VerdictStep
<1>3. Promise!WantedStaysHeld /\ [][Next]_vars /\ []PodInv => LivePodsHeld
    BY <1>2, PTL DEF Promise!WantedStaysHeld, LivePodsHeld, Rejected, Booked
<1> QED
    BY <1>1, <1>3, ImplementsPromise, PodInvariant, PTL DEF Spec
====
