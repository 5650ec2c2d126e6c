---- MODULE MCCommandPath ----
(* A small instance of CommandPath: two accounts, of the kubelet's own key and of  *)
(* a key the platform sends.                                                     *)
EXTENDS CommandPath

CONSTANTS own, sent, none

MCAccounts == {own, sent}
====
