---- MODULE MCPodAccounts ----
(* A small instance of PodAccounts, and with it of PodProvider. *)
EXTENDS PodAccounts

CONSTANTS p1, p2, none

MCTwoPods == {p1, p2}
====
