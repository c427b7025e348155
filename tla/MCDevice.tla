------------------------------ MODULE MCDevice ------------------------------
(***************************************************************************)
(* A small instance of Accounts and DeviceAuthorization.  What the two     *)
(* browsers do is part of the deployment a behaviour starts from.          *)
(***************************************************************************)
EXTENDS DeviceAuthorization, TLC

CONSTANTS b1, b2

\* One browser is used for administration, the other by users; anybody may
\* sign in on both.  A new installation: either may be the first to register,
\* and what devices asked for before has expired.
Fresh(administration, use) ==
    [founder |-> None, gone |-> Grants,
     operations |-> b1 :> {"register", "login", "invite", "reset"} \cup administration @@
                    b2 :> {"register", "login"} \cup use]

\* One that is in use, where an account has already been deleted.
InUse(founder, gone) ==
    [founder |-> founder, gone |-> {gone},
     operations |->
        b1 :> {"login", "create", "reset", "delete"} @@
        b2 :> {"login", "password", "keyOn", "keyOff", "dropKey", "approve", "deny", "device"}]

FreshOrInUse ==
    {Fresh({"uninvite", "delete"}, {"logout", "password", "newKey"}),
     Fresh({"enable", "disable", "delete", "password"}, {"logout", "bind", "unbind", "githubLogin"})} \cup
    UNION {{InUse(f, g) : g \in Tenants \ {f}} : f \in Tenants}

\* Accounts are alike.
Symmetry == Permutations(Tenants)
=============================================================================
