--------------------------- MODULE MCCredentials ---------------------------
(***************************************************************************)
(* Two credentials, one of them there from the beginning, and two requests. *)
(***************************************************************************)
EXTENDS Credentials, TLC
Symmetry == Permutations(Admins)

(* Of a new document, a new catalogue, a fault and an overlap two meet in  *)
(* a behaviour, and a third token, the refresh of a document that was      *)
(* captured, is issued only where the requests served are finalizes.       *)
EventBound ==
    \/ issued < MaxToken /\ issued + catalog + faults + (IF disturbed THEN 1 ELSE 0) <= 4
    \/ ~disturbed /\ catalog = 1 /\ \A a \in Admins : req[a].op \in {"none", "oauth"}
=============================================================================
