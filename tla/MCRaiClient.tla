----------------------------- MODULE MCRaiClient -----------------------------
(***************************************************************************)
(* Two helpers, a login and a logout of one user on one machine.           *)
(***************************************************************************)
EXTENDS RaiClient, TLC

CONSTANTS b1, t1

\* An installation with one account, whose user approves devices.
OneUser == {[founder |-> t1, gone |-> {}, operations |-> b1 :> {"login", "approve", "device"}]}
=============================================================================
