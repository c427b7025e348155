-------------------------- MODULE MCClientConfig --------------------------
(***************************************************************************)
(* Files in which the user has set everything, or only a credential.       *)
(***************************************************************************)
EXTENDS ClientConfig
MCOriginals == {[k \in Fields |-> "u"], [k \in Fields |-> IF k = "auth" THEN "u" ELSE "-"]}
=============================================================================
