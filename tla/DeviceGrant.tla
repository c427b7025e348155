---------------------------- MODULE DeviceGrant ----------------------------
(***************************************************************************)
(* What a device authorisation promises, whatever the order in which the   *)
(* device polls, the user decides, passwords are reset, devices are        *)
(* revoked and expired rows are swept: a grant is decided once, its tokens *)
(* are handed out once, and a grant that has ended stays ended.            *)
(* DeviceAuthorization is shown to implement this specification.           *)
(***************************************************************************)
CONSTANT Grants

\* "asked": shown to the user; "ready": approved, its tokens are waiting to
\* be fetched; "held": the device has them; "over": refused, lapsed or cut.
VARIABLE grant

\* Grants of the past may be over already.
GrantInit == grant \in [Grants -> {"none", "over"}]

Becomes(a, from, to) == grant[a] \in from /\ grant' = [grant EXCEPT ![a] = to]

Ask(a) == Becomes(a, {"none"}, "asked")
Approve(a) == Becomes(a, {"asked"}, "ready")
HandOver(a) == Becomes(a, {"ready"}, "held")

\* A reset of a password ends every grant of an account at once, and a sweep
\* any number of them.
End ==
    \E A \in SUBSET {a \in Grants : grant[a] # "none"} :
        A # {} /\ grant' = [a \in Grants |-> IF a \in A THEN "over" ELSE grant[a]]

GrantNext == End \/ \E a \in Grants : Ask(a) \/ Approve(a) \/ HandOver(a)

GrantSpec == GrantInit /\ [][GrantNext]_grant
=============================================================================
