---- MODULE MCWSClient ----
(* Small instances of WSClient. *)
EXTENDS WSClient

CONSTANTS a1, heart

MCApps == {a1}
NoApps == {}
====
