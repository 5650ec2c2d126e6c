---- MODULE MCKubeletProcess ----
(* A small instance of KubeletProcess: two probes at once. *)
EXTENDS KubeletProcess

CONSTANTS p1, p2

MCProbes == {p1, p2}
====
