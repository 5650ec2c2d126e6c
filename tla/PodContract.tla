---- MODULE PodContract ----
(* What the pod side of the kubelet promises about the pods it holds, whatever   *)
(* goroutine is where: it holds only what Kubernetes wants or wanted last, a pod *)
(* that is still wanted is let go by the death of the process alone, the         *)
(* platform is told of held pods only, and an instance enters one record, after  *)
(* all those booked before it. PodProvider is shown to implement this module.    *)
EXTENDS Integers

CONSTANT Pods       \* pod keys

VARIABLES
    newest,     \* uids Kubernetes has given out
    wanted,     \* pod key -> uid of the pod in Kubernetes, 0 for none
    held,       \* pod key -> uid of the pod the kubelet holds, 0 for none
    rejected,   \* pod key -> the platform has rejected what is held
    booked,     \* pod key -> instance in the record of what is held, 0 for none
    known,      \* <<pod key, uid>> of the pods the platform was told of
    instances,  \* instances created
    lives       \* lives of the process that have ended

vars == <<newest, wanted, held, rejected, booked, known, instances, lives>>

Init ==
    /\ newest = 0 /\ instances = 0 /\ lives = 0 /\ known = {}
    /\ wanted = [k \in Pods |-> 0] /\ held = [k \in Pods |-> 0]
    /\ rejected = [k \in Pods |-> FALSE] /\ booked = [k \in Pods |-> 0]

Appears(k) ==
    /\ wanted[k] = 0
    /\ newest' = newest + 1
    /\ wanted' = [wanted EXCEPT ![k] = newest + 1]
    /\ UNCHANGED <<held, rejected, booked, known, instances, lives>>

Disappears(k) ==
    /\ wanted[k] # 0
    /\ wanted' = [wanted EXCEPT ![k] = 0]
    /\ UNCHANGED <<newest, held, rejected, booked, known, instances, lives>>

\* Only the pod wanted now is taken, in the place of none or of an older one; the
\* record of the older one is kept.
Take(k) ==
    /\ wanted[k] # 0 /\ held[k] # wanted[k]
    /\ held' = [held EXCEPT ![k] = wanted[k]]
    /\ UNCHANGED <<newest, wanted, rejected, booked, known, instances, lives>>

\* What is wanted is not let go.
LetGo(k) ==
    /\ held[k] \notin {0, wanted[k]}
    /\ held' = [held EXCEPT ![k] = 0]
    /\ rejected' = [rejected EXCEPT ![k] = FALSE]
    /\ booked' = [booked EXCEPT ![k] = 0]
    /\ UNCHANGED <<newest, wanted, known, instances, lives>>

Announce(k) ==
    /\ held[k] # 0
    /\ known' = known \cup {<<k, held[k]>>}
    /\ UNCHANGED <<newest, wanted, held, rejected, booked, instances, lives>>

Launch ==
    /\ instances' = instances + 1
    /\ UNCHANGED <<newest, wanted, held, rejected, booked, known, lives>>

\* An instance is booked after all those in the records, never before one.
Book(k) ==
    /\ held[k] # 0
    /\ \E i \in 1 .. instances :
         /\ \A j \in Pods : booked[j] < i
         /\ booked' = [booked EXCEPT ![k] = i]
    /\ UNCHANGED <<newest, wanted, held, rejected, known, instances, lives>>

\* The platform's verdict, which may be that the pod is not rejected after all.
Judge(k) ==
    /\ held[k] # 0
    /\ \E verdict \in BOOLEAN : rejected' = [rejected EXCEPT ![k] = verdict]
    /\ UNCHANGED <<newest, wanted, held, booked, known, instances, lives>>

Die ==
    /\ lives' = lives + 1
    /\ held' = [k \in Pods |-> 0] /\ booked' = [k \in Pods |-> 0]
    /\ rejected' = [k \in Pods |-> FALSE]
    /\ UNCHANGED <<newest, wanted, known, instances>>

Next ==
    \/ \E k \in Pods : \/ Appears(k) \/ Disappears(k) \/ Take(k) \/ LetGo(k)
                       \/ Announce(k) \/ Book(k) \/ Judge(k)
    \/ Launch \/ Die

Spec == Init /\ [][Next]_vars

----------------------------------------------------------------------------
TypeOK ==
    /\ newest \in Nat /\ instances \in Nat /\ lives \in Nat
    /\ wanted \in [Pods -> Nat] /\ held \in [Pods -> Nat] /\ booked \in [Pods -> Nat]
    /\ rejected \in [Pods -> BOOLEAN]
    /\ known \subseteq Pods \X Nat

\* No instance is in the records of two pods: what is booked last is in none yet
\* (kubelet.go:523-538).
OneRecordPerInstance ==
    \A j, k \in Pods : booked[j] # 0 /\ booked[j] = booked[k] => j = k

\* No pod comes back under a key once the platform was told of a younger one
\* there, across any number of lives of the process (kubelet.go:144-200).
NoOlderPodHeld == \A p \in known : held[p[1]] # 0 => p[2] <= held[p[1]]

\* No verdict and no instance outlives its pod (kubelet.go:235-238).
RecordsGoWithPods == \A k \in Pods : held[k] = 0 => booked[k] = 0 /\ ~rejected[k]

\* Nothing wanted, held or announced is older than what came after it.
UidsGrow ==
    /\ \A k \in Pods : wanted[k] <= newest /\ held[k] <= newest
    /\ \A k \in Pods : wanted[k] # 0 => held[k] <= wanted[k]
    /\ \A p \in known : p[2] <= newest /\ (wanted[p[1]] # 0 => p[2] <= wanted[p[1]])

\* A uid is that of one key, in Kubernetes and in the cache.
UidsApart ==
    \A j, k \in Pods : j # k =>
        /\ wanted[j] # 0 => wanted[j] \notin {wanted[k], held[k]}
        /\ held[j] # 0 => held[j] # held[k]

Inv ==
    /\ TypeOK
    /\ \A k \in Pods : booked[k] <= instances
    /\ OneRecordPerInstance /\ NoOlderPodHeld /\ RecordsGoWithPods
    /\ UidsGrow /\ UidsApart

\* A pod that is still wanted stays held as long as the process lives, and a new verdict
\* on it comes alone: what takes, lets go, announces or books leaves the verdict as it is
\* (kubelet.go:177-181, 230-238, 524-534).
WantedStaysHeld ==
    [][\A k \in Pods :
         held[k] # 0 /\ held[k] = wanted[k] /\ lives' = lives
            => /\ held'[k] = held[k]
               /\ rejected'[k] # rejected[k] => UNCHANGED <<held, known, booked>>]_vars
====
