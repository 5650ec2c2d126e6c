---- MODULE MCPodProvider ----
(* Small instances of PodProvider. *)
EXTENDS PodProvider

CONSTANTS p1, p2, none

MCOnePod == {p1}
MCTwoPods == {p1, p2}
====
