---- MODULE PodContractProofs ----
(* What follows from PodContract alone, and so for whatever implements it. The   *)
(* steps of the contract are few: one step of the proof for each.                *)
EXTENDS PodContract, TLAPS

\* Nothing is wanted, held or known at first (kubelet.go:108-123).
LEMMA ContractInit == Init => Inv
BY DEF Init, Inv, TypeOK, OneRecordPerInstance, NoOlderPodHeld, RecordsGoWithPods, UidsGrow,
   UidsApart

\* Every step keeps the types.
LEMMA TypeStep == Inv /\ [Next]_vars => TypeOK'
<1> SUFFICES ASSUME Inv, [Next]_vars PROVE TypeOK'
    OBVIOUS
<1> USE DEF Inv, TypeOK
<1>1. ASSUME NEW k \in Pods, Appears(k) \/ Disappears(k) \/ Take(k) PROVE TypeOK'
    BY <1>1 DEF Appears, Disappears, Take
<1>2. ASSUME NEW k \in Pods, LetGo(k) PROVE TypeOK'
    BY <1>2 DEF LetGo
<1>3. ASSUME NEW k \in Pods, Announce(k) PROVE TypeOK'
    BY <1>3 DEF Announce
<1>4. ASSUME NEW k \in Pods, Book(k) PROVE TypeOK'
    BY <1>4 DEF Book
<1>5. ASSUME NEW k \in Pods, Judge(k) PROVE TypeOK'
    BY <1>5 DEF Judge
<1>6. CASE Launch
    BY <1>6 DEF Launch
<1>7. CASE Die
  <2>1. /\ UNCHANGED <<newest, wanted, known, instances>> /\ lives' \in Nat
        /\ held' \in [Pods -> Nat] /\ booked' \in [Pods -> Nat]
      BY <1>7 DEF Die
  <2>2. rejected' \in [Pods -> BOOLEAN]
      BY <1>7, Zenon DEF Die
  <2> QED
      BY <2>1, <2>2
<1>8. CASE UNCHANGED vars
    BY <1>8 DEF vars
<1> QED
    BY <1>1, <1>2, <1>3, <1>4, <1>5, <1>6, <1>7, <1>8 DEF Next

\* Every step keeps the records apart and with their pods: an instance booked now
\* is in no record yet (kubelet.go:235-238, 523-538).
LEMMA RecordsStep ==
    Inv /\ [Next]_vars => /\ \A k \in Pods : booked'[k] <= instances'
                          /\ OneRecordPerInstance' /\ RecordsGoWithPods'
<1> DEFINE Records == /\ \A k \in Pods : booked[k] <= instances
                      /\ OneRecordPerInstance /\ RecordsGoWithPods
<1> SUFFICES ASSUME Inv, [Next]_vars PROVE Records'
    OBVIOUS
<1> USE DEF Inv, TypeOK, OneRecordPerInstance, RecordsGoWithPods
<1>1. ASSUME NEW k \in Pods, Take(k) PROVE Records'
    BY <1>1 DEF Take
<1>2. ASSUME NEW k \in Pods, LetGo(k) PROVE Records'
    BY <1>2 DEF LetGo
<1>3. ASSUME NEW k \in Pods, Book(k) PROVE Records'
  <2>1. PICK i \in 1 .. instances :
            (\A j \in Pods : booked[j] < i) /\ booked' = [booked EXCEPT ![k] = i]
      BY <1>3 DEF Book
  <2>2. UNCHANGED <<held, rejected, instances>> /\ held[k] # 0
      BY <1>3 DEF Book
  <2>3. booked'[k] = i /\ \A j \in Pods \ {k} : booked'[j] = booked[j] /\ booked'[j] < i
      BY <2>1
  <2> QED
      BY <2>1, <2>2, <2>3
<1>4. ASSUME NEW k \in Pods, Judge(k) PROVE Records'
    BY <1>4 DEF Judge
<1>5. CASE Launch
    BY <1>5 DEF Launch
<1>6. CASE Die
    BY <1>6 DEF Die
<1>7. CASE UNCHANGED <<held, rejected, booked, instances>>
    BY <1>7
<1> QED
    BY <1>1, <1>2, <1>3, <1>4, <1>5, <1>6, <1>7
       DEF Next, Appears, Disappears, Announce, vars

\* Every step keeps the uids in order and apart: a new pod gets a uid above all,
\* and what is taken is what is wanted (kubelet.go:144-200).
LEMMA UidsStep == Inv /\ [Next]_vars => UidsGrow' /\ UidsApart' /\ NoOlderPodHeld'
<1> DEFINE Uids == UidsGrow /\ UidsApart /\ NoOlderPodHeld
<1> SUFFICES ASSUME Inv, [Next]_vars PROVE Uids'
    OBVIOUS
<1> USE DEF Inv, TypeOK, UidsGrow, UidsApart, NoOlderPodHeld
<1>0. \A p \in known : p[1] \in Pods /\ p[2] \in Nat
    OBVIOUS
<1>1. ASSUME NEW k \in Pods, Appears(k) PROVE Uids'
  <2>1. /\ wanted'[k] = newest + 1 /\ newest' = newest + 1
        /\ \A j \in Pods \ {k} : wanted'[j] = wanted[j]
        /\ UNCHANGED <<held, known>>
      BY <1>1 DEF Appears
  <2>2. \A j \in Pods : wanted[j] < newest + 1 /\ held[j] < newest + 1
      OBVIOUS
  <2>3. UidsGrow'
      BY <1>0, <2>1, <2>2
  <2>4. UidsApart'
    <3> SUFFICES ASSUME NEW i \in Pods, NEW j \in Pods, i # j
                 PROVE  /\ wanted'[i] # 0 => wanted'[i] \notin {wanted'[j], held'[j]}
                        /\ held'[i] # 0 => held'[i] # held'[j]
        OBVIOUS
    <3>1. CASE i = k
        BY <2>1, <2>2, <3>1
    <3>2. CASE j = k
        BY <2>1, <2>2, <3>2
    <3>3. CASE i # k /\ j # k
        BY <2>1, <3>3
    <3> QED
        BY <3>1, <3>2, <3>3
  <2> QED
      BY <2>1, <2>3, <2>4
<1>2. ASSUME NEW k \in Pods, Disappears(k) PROVE Uids'
    BY <1>0, <1>2 DEF Disappears
<1>3. ASSUME NEW k \in Pods, Take(k) PROVE Uids'
  <2>1. /\ held'[k] = wanted[k] /\ wanted[k] # 0
        /\ \A j \in Pods \ {k} : held'[j] = held[j]
        /\ UNCHANGED <<newest, wanted, known>>
      BY <1>3 DEF Take
  <2>2. UidsGrow' /\ NoOlderPodHeld'
      BY <1>0, <2>1
  <2>3. UidsApart'
    <3> SUFFICES ASSUME NEW i \in Pods, NEW j \in Pods, i # j
                 PROVE  /\ wanted'[i] # 0 => wanted'[i] \notin {wanted'[j], held'[j]}
                        /\ held'[i] # 0 => held'[i] # held'[j]
        OBVIOUS
    <3>1. CASE i = k
        BY <2>1, <3>1
    <3>2. CASE j = k
        BY <2>1, <3>2
    <3>3. CASE i # k /\ j # k
        BY <2>1, <3>3
    <3> QED
        BY <3>1, <3>2, <3>3
  <2> QED
      BY <2>2, <2>3
<1>4. ASSUME NEW k \in Pods, LetGo(k) PROVE Uids'
    BY <1>0, <1>4 DEF LetGo
<1>5. ASSUME NEW k \in Pods, Announce(k) PROVE Uids'
  <2>1. UNCHANGED <<newest, wanted, held>> /\ known' = known \cup {<<k, held[k]>>}
      BY <1>5 DEF Announce
  <2>2. \A p \in known' : p \in known \/ (p[1] = k /\ p[2] = held[k])
      BY <2>1
  <2> QED
      BY <1>0, <2>1, <2>2
<1>6. CASE Die
    BY <1>0, <1>6 DEF Die
<1>7. CASE UNCHANGED <<newest, wanted, held, known>>
    BY <1>7
<1> QED
    BY <1>1, <1>2, <1>3, <1>4, <1>5, <1>6, <1>7 DEF Next, Launch, Book, Judge, vars

\* The inductive invariant of the contract, for any number of keys.
THEOREM ContractInv == Spec => []Inv
<1>1. Inv /\ [Next]_vars => Inv'
    BY TypeStep, RecordsStep, UidsStep DEF Inv
<1> QED
    BY ContractInit, <1>1, PTL DEF Spec

\* Whatever implements the contract has no instance in two records and holds no pod
\* older than one it announced under the same key (kubelet.go:144-200, 523-538).
THEOREM ContractKept == Spec => [](OneRecordPerInstance /\ NoOlderPodHeld)
<1>1. Inv => OneRecordPerInstance /\ NoOlderPodHeld
    BY DEF Inv
<1> QED
    BY ContractInv, <1>1, PTL

\* Whatever implements the contract keeps a pod that is still wanted until the process
\* dies, and changes the verdict on it by a verdict alone (kubelet.go:177-181, 230-238,
\* 524-534).
THEOREM ContractHolds == Spec => WantedStaysHeld
<1> DEFINE Kept(k) == /\ held'[k] = held[k]
                      /\ rejected'[k] # rejected[k] => UNCHANGED <<held, known, booked>>
<1>1. ASSUME Inv, [Next]_vars
      PROVE  \A k \in Pods : held[k] # 0 /\ held[k] = wanted[k] /\ lives' = lives => Kept(k)
  <2> SUFFICES ASSUME NEW k \in Pods, held[k] # 0, held[k] = wanted[k], lives' = lives
               PROVE  Kept(k)
      OBVIOUS
  <2> USE <1>1 DEF Inv, TypeOK
  <2>1. ASSUME NEW j \in Pods, Take(j) PROVE Kept(k)
      BY <2>1 DEF Take
  <2>2. ASSUME NEW j \in Pods, LetGo(j) PROVE Kept(k)
      BY <2>2 DEF LetGo
  <2>3. ASSUME NEW j \in Pods, Judge(j) PROVE Kept(k)
      BY <2>3 DEF Judge
  <2>4. CASE Die
      BY <2>4 DEF Die
  <2>5. CASE UNCHANGED <<held, rejected>>
      BY <2>5
  <2> QED
      BY <2>1, <2>2, <2>3, <2>4, <2>5
         DEF Next, Appears, Disappears, Announce, Book, Launch, vars
<1>2. Inv /\ [Next]_vars
        => [\A k \in Pods :
              held[k] # 0 /\ held[k] = wanted[k] /\ lives' = lives => Kept(k)]_vars
    BY <1>1
<1> QED
    BY ContractInv, <1>2, PTL DEF Spec, WantedStaysHeld
====
