------------------------------ MODULE Accounts ------------------------------
(***************************************************************************)
(* Accounts of the gateway: internal/store/store.go and github.go (the     *)
(* rows), internal/app/api.go, app.go and github_auth.go (the handlers).   *)
(* The first registration becomes the administrator, the others need an    *)
(* invitation; sessions are signed cookies that carry the password version *)
(* of the account; a GitHub identity may be bound to an account and then   *)
(* signs in for it.                                                        *)
(*                                                                         *)
(* A handler runs behind a middleware that reads the account, and writes   *)
(* in a later statement or transaction: a request is a step that           *)
(* authenticates and a step that acts, and anything may happen in between. *)
(* (The middleware reads the row more than once; one read stands for all,  *)
(* since what the later reads let through an earlier or later single read  *)
(* also does.)                                                             *)
(*                                                                         *)
(* Abstractions: names, limits, passwords and tokens are left out (a login *)
(* is a login with the right password, an invitation token is the          *)
(* invitation), and so is the expiry date of an account, which no code     *)
(* sets.  The clock is a step: what has a time to live may expire at any   *)
(* moment.  An identifier is used once (identity.NewID).                   *)
(***************************************************************************)
EXTENDS Naturals, FiniteSets

CONSTANTS
    Tenants,         \* identifiers of accounts
    Keys,            \* identifiers of API keys made by hand
    Grants,          \* device grants: each may make one key and one session
    Invitations,
    GitHubIds,
    Browsers,        \* browsers, each with a cookie jar and one request
    Deployments,     \* where a behaviour starts: the administrator (None in a new
                     \*   installation), accounts and grants that are already
                     \*   gone, and the handlers each browser calls
    MaxVersion,      \* bound on password versions
    None

ASSUME AccountsAssumption ==
    /\ \A d \in Deployments : /\ d.founder \in Tenants \cup {None}
                              /\ d.gone \subseteq (Tenants \ {d.founder}) \cup Grants
    /\ MaxVersion \in Nat
    /\ None \notin Tenants \cup Keys \cup Grants \cup Invitations \cup GitHubIds \cup Browsers
    /\ Keys \cap Grants = {}

VARIABLES
    tenant,       \* rows of tenants
    key,          \* rows of api_keys
    invitation,   \* rows of invitations
    joined,       \* history: the invitation an account registered with
    cookie,       \* the session cookie of each browser
    flow,         \* the sealed cookie of a GitHub sign-in under way
    request,      \* the request each browser has authenticated
    setup,        \* holder of the advisory lock of Register
    deployment    \* the element of Deployments this behaviour is about

accountVars == <<tenant, key, invitation, joined, cookie, flow, request, setup>>

-----------------------------------------------------------------------------
AllKeys == Keys \cup Grants
AdminOps == {"create", "enable", "disable", "delete", "reset", "invite", "uninvite"}
TenantOps == {"newKey", "keyOn", "keyOff", "dropKey", "bind", "unbind", "approve", "deny", "device"}
Targets == Tenants \cup AllKeys \cup Invitations \cup GitHubIds \cup {None}

Tenant == [state : {"absent", "live", "deleted"}, enabled : BOOLEAN, admin : BOOLEAN,
           mustChange : BOOLEAN, version : 0..MaxVersion, github : GitHubIds \cup {None}]
APIKey == [state : {"absent", "live", "deleted"}, tenant : Tenants \cup {None},
           source : {"manual", "rai"}, enabled : BOOLEAN]
Invitation == [exists : BOOLEAN, used : BOOLEAN, revoked : BOOLEAN, expired : BOOLEAN]
Session == [tenant : Tenants, version : 0..MaxVersion]
NoSession == [tenant |-> None, version |-> 0]
\* A flow without a tenant is a sign-in; sameCookie: the session cookie it
\* was started with (SessionHash) is still the browser's.
Flow == [open : BOOLEAN, tenant : Tenants \cup {None}, version : 0..MaxVersion, sameCookie : BOOLEAN]
NoFlow == [open |-> FALSE, tenant |-> None, version |-> 0, sameCookie |-> FALSE]
Request == [op : AdminOps \cup TenantOps \cup {"none", "password", "register", "github"},
            by : Tenants \cup {None}, version : 0..MaxVersion, target : Targets]
NoRequest == [op |-> "none", by |-> None, version |-> 0, target |-> None]

NewTenant(admin) == [state |-> "live", enabled |-> TRUE, admin |-> admin, mustChange |-> FALSE,
                     version |-> 0, github |-> None]
NoTenant == [NewTenant(FALSE) EXCEPT !.state = "absent"]
NoKey == [state |-> "absent", tenant |-> None, source |-> "manual", enabled |-> FALSE]
NoInvitation == [exists |-> FALSE, used |-> FALSE, revoked |-> FALSE, expired |-> FALSE]

Operations(b) == deployment.operations[b]
Live(t) == tenant[t].state = "live"
Answered(b) == request' = [request EXCEPT ![b] = NoRequest]

AccountsInit ==
    /\ deployment \in Deployments
    /\ tenant = [t \in Tenants |-> IF t = deployment.founder THEN NewTenant(TRUE)
                                   ELSE IF t \in deployment.gone THEN [NoTenant EXCEPT !.state = "deleted"]
                                   ELSE NoTenant]
    /\ key = [k \in AllKeys |-> NoKey]
    /\ invitation = [i \in Invitations |-> NoInvitation]
    /\ joined = [t \in Tenants |-> None]
    /\ cookie = [b \in Browsers |-> NoSession]
    /\ flow = [b \in Browsers |-> NoFlow]
    /\ request = [b \in Browsers |-> NoRequest]
    /\ setup = None

-----------------------------------------------------------------------------
(* Registration: one transaction under an advisory lock that counts the    *)
(* accounts, locks the invitation, creates the account and spends the      *)
(* invitation.  The transaction is split where its reads end.              *)

Idle(b) == request[b].op = "none"
Acceptable(i) == invitation[i].exists /\ ~invitation[i].used /\ ~invitation[i].revoked /\ ~invitation[i].expired

\* Mutant of RegisterRead: the advisory lock is not taken.
UnlockedRegisterRead(b, i) ==
    /\ "register" \in Operations(b) /\ Idle(b)
    /\ IF \A t \in Tenants : ~Live(t) THEN i = None ELSE i # None /\ Acceptable(i)
    /\ setup' = b
    /\ request' = [request EXCEPT ![b] = [NoRequest EXCEPT !.op = "register", !.target = i]]
    /\ UNCHANGED <<tenant, key, invitation, joined, cookie, flow>>

RegisterRead(b, i) ==
    /\ "register" \in Operations(b) /\ Idle(b) /\ setup = None
    /\ IF \A t \in Tenants : ~Live(t) THEN i = None ELSE i # None /\ Acceptable(i)
    /\ setup' = b
    /\ request' = [request EXCEPT ![b] = [NoRequest EXCEPT !.op = "register", !.target = i]]
    /\ UNCHANGED <<tenant, key, invitation, joined, cookie, flow>>

\* A new cookie; a GitHub flow begun under the old one no longer matches it.
setSession(b, t, version) ==
    /\ cookie' = [cookie EXCEPT ![b] = [tenant |-> t, version |-> version]]
    /\ flow' = [flow EXCEPT ![b].sameCookie = FALSE]

\* The rest of Register, and the session the handler signs.
register(b, t) ==
    /\ request[b].op = "register" /\ tenant[t].state = "absent"
    /\ LET i == request[b].target IN
       /\ tenant' = [tenant EXCEPT ![t] = NewTenant(i = None)]
       /\ joined' = [joined EXCEPT ![t] = i]
       /\ invitation' = IF i = None THEN invitation ELSE [invitation EXCEPT ![i].used = TRUE]
    /\ setSession(b, t, 0)
    /\ setup' = None
    /\ Answered(b)
    /\ UNCHANGED key

\* The transaction rolls back: the e-mail address is taken, or the database fails.
RegisterRollback(b) ==
    /\ request[b].op = "register"
    /\ setup' = None
    /\ Answered(b)
    /\ UNCHANGED <<tenant, key, invitation, joined, cookie, flow>>

InvitationExpires(i) ==
    /\ invitation[i].exists /\ ~invitation[i].expired
    /\ invitation' = [invitation EXCEPT ![i].expired = TRUE]
    /\ UNCHANGED <<tenant, key, joined, cookie, flow, request, setup>>

-----------------------------------------------------------------------------
(* Sessions.                                                               *)

Login(t) == Live(t) /\ tenant[t].enabled

tenantLogin(b, t) ==
    /\ "login" \in Operations(b) /\ Idle(b) /\ Login(t)
    /\ setSession(b, t, tenant[t].version)
    /\ UNCHANGED <<tenant, key, invitation, joined, request, setup>>

\* logout, and a cookie that expires.
logout(b) ==
    /\ "logout" \in Operations(b) /\ cookie[b] # NoSession
    /\ cookie' = [cookie EXCEPT ![b] = NoSession]
    /\ flow' = [flow EXCEPT ![b].sameCookie = FALSE]
    /\ UNCHANGED <<tenant, key, invitation, joined, request, setup>>

withTenantSession(b) ==
    /\ cookie[b] # NoSession
    /\ LET t == tenant[cookie[b].tenant] IN
       t.state = "live" /\ t.enabled /\ t.version = cookie[b].version

withTenant(b) == withTenantSession(b) /\ ~tenant[cookie[b].tenant].mustChange

withAdmin(b) == withTenant(b) /\ tenant[cookie[b].tenant].admin

\* What a handler is called with: the administrator's take an account or an
\* invitation, a tenant's take its own things.
TargetsOf(op) ==
    CASE op \in {"enable", "disable", "delete", "reset", "create"} -> Tenants \ deployment.gone
      [] op \in {"invite", "uninvite"} -> Invitations
      [] op = "newKey" -> Keys
      [] op \in {"keyOn", "keyOff", "dropKey"} -> {k \in AllKeys : key[k].state # "absent"}
      [] op \in {"approve", "deny", "device"} -> Grants
      [] OTHER -> {None}

Authenticate(b, op, target) ==
    /\ op \in Operations(b) /\ target \in TargetsOf(op) /\ Idle(b)
    /\ \/ op \in AdminOps /\ withAdmin(b)
       \/ op \in TenantOps /\ withTenant(b)
       \/ op = "password" /\ withTenantSession(b)
    /\ request' = [request EXCEPT ![b] = [op |-> op, by |-> cookie[b].tenant,
                                          version |-> cookie[b].version, target |-> target]]
    /\ UNCHANGED <<tenant, key, invitation, joined, cookie, flow, setup>>

\* The administrator's handlers for the keys of an account t.
AuthenticateFor(b, op, t, target) ==
    /\ op \in Operations(b) \cap {"newKey", "keyOn", "keyOff"} /\ target \in TargetsOf(op) /\ Idle(b)
    /\ withAdmin(b) /\ t # cookie[b].tenant
    /\ request' = [request EXCEPT ![b] = [op |-> op, by |-> t, version |-> cookie[b].version, target |-> target]]
    /\ UNCHANGED <<tenant, key, invitation, joined, cookie, flow, setup>>

-----------------------------------------------------------------------------
(* The store: each operator is the table after one statement.              *)

CreateTenant(t) ==
    IF tenant[t].state = "absent" THEN [tenant EXCEPT ![t] = NewTenant(FALSE)] ELSE tenant

UpdateTenant(t, enabled) == IF Live(t) THEN [tenant EXCEPT ![t].enabled = enabled] ELSE tenant

ResetPassword(t) ==
    IF Live(t) THEN [tenant EXCEPT ![t].mustChange = TRUE, ![t].version = @ + 1] ELSE tenant

\* Sessions stay valid: the version is not raised.
ChangePassword(t) == IF Live(t) THEN [tenant EXCEPT ![t].mustChange = FALSE] ELSE tenant

UnbindGitHub(t) == [tenant EXCEPT ![t].github = None, ![t].version = @ + 1]

CreateInvitation(i) == [invitation EXCEPT ![i].exists = TRUE]

RevokeInvitation(i) ==
    IF Acceptable(i) THEN [invitation EXCEPT ![i].revoked = TRUE] ELSE invitation

\* The foreign key refuses a key of a deleted account.
CreateKey(k, t) ==
    IF key[k].state = "absent" /\ Live(t)
    THEN [key EXCEPT ![k] = [state |-> "live", tenant |-> t, source |-> "manual", enabled |-> TRUE]]
    ELSE key

Owned(k, t) == key[k].state = "live" /\ key[k].tenant = t

UpdateKey(k, t, enabled) ==
    IF Owned(k, t) /\ key[k].source = "manual" THEN [key EXCEPT ![k].enabled = enabled] ELSE key

\* The source does not matter here: a device's key can be deleted.
DeleteKey(k, t) == IF Owned(k, t) THEN [key EXCEPT ![k].state = "deleted"] ELSE key

-----------------------------------------------------------------------------
(* The administrator's handlers.                                           *)

Serving(b, op) == request[b].op = op

adminTenants(b) ==
    /\ Serving(b, "create")
    /\ tenant' = CreateTenant(request[b].target)
    /\ Answered(b)
    /\ UNCHANGED <<key, invitation, joined, cookie, flow, setup>>

adminTenantUpdate(b) ==
    /\ Serving(b, "enable") \/ Serving(b, "disable")
    /\ LET t == request[b].target
           refused == Serving(b, "disable") /\ t = request[b].by
       IN  tenant' = IF refused THEN tenant ELSE UpdateTenant(t, Serving(b, "enable"))
    /\ Answered(b)
    /\ UNCHANGED <<key, invitation, joined, cookie, flow, setup>>

\* The keys go with the account; the invitation it used keeps used_at.
adminTenantDelete(b) ==
    /\ Serving(b, "delete")
    /\ LET t == request[b].target IN
       IF t = request[b].by \/ ~Live(t) THEN UNCHANGED <<tenant, key>>
       ELSE /\ tenant' = [tenant EXCEPT ![t].state = "deleted", ![t].github = None]
            /\ key' = [k \in AllKeys |-> IF key[k].state = "live" /\ key[k].tenant = t
                                         THEN [key[k] EXCEPT !.state = "deleted"] ELSE key[k]]
    /\ Answered(b)
    /\ UNCHANGED <<invitation, joined, cookie, flow, setup>>

adminPassword(b) ==
    /\ Serving(b, "reset")
    /\ LET t == request[b].target IN
       IF t = request[b].by \/ ~Live(t) THEN UNCHANGED tenant
       ELSE /\ tenant[t].version < MaxVersion
            /\ tenant' = ResetPassword(t)
    /\ Answered(b)
    /\ UNCHANGED <<key, invitation, joined, cookie, flow, setup>>

adminInvitations(b) ==
    /\ Serving(b, "invite")
    /\ invitation' = CreateInvitation(request[b].target)
    /\ Answered(b)
    /\ UNCHANGED <<tenant, key, joined, cookie, flow, setup>>

\* The UPDATE waits for a registration that holds the row's lock.
adminInvitationRevoke(b) ==
    /\ Serving(b, "uninvite")
    /\ LET i == request[b].target IN
       /\ \A c \in Browsers : ~(Serving(c, "register") /\ request[c].target = i)
       /\ invitation' = RevokeInvitation(i)
    /\ Answered(b)
    /\ UNCHANGED <<tenant, key, joined, cookie, flow, setup>>

-----------------------------------------------------------------------------
(* A tenant's handlers.                                                    *)

changePassword(b) ==
    /\ Serving(b, "password")
    /\ tenant' = ChangePassword(request[b].by)
    /\ Answered(b)
    /\ UNCHANGED <<key, invitation, joined, cookie, flow, setup>>

keys(b) ==
    /\ Serving(b, "newKey")
    /\ key' = CreateKey(request[b].target, request[b].by)
    /\ Answered(b)
    /\ UNCHANGED <<tenant, invitation, joined, cookie, flow, setup>>

keyUpdate(b) ==
    /\ Serving(b, "keyOn") \/ Serving(b, "keyOff")
    /\ key' = UpdateKey(request[b].target, request[b].by, Serving(b, "keyOn"))
    /\ Answered(b)
    /\ UNCHANGED <<tenant, invitation, joined, cookie, flow, setup>>

keyDelete(b) ==
    /\ Serving(b, "dropKey")
    /\ key' = DeleteKey(request[b].target, request[b].by)
    /\ Answered(b)
    /\ UNCHANGED <<tenant, invitation, joined, cookie, flow, setup>>

-----------------------------------------------------------------------------
(* GitHub: a flow is a sealed cookie; the callback reads it, exchanges the *)
(* code for an identity, and then binds or signs in.                       *)

\* githubPassword: the session and the password are checked again.
Confirmed(b) ==
    LET t == tenant[request[b].by]
    IN  t.state = "live" /\ t.enabled /\ t.version = request[b].version /\ ~t.mustChange

githubBindStart(b) ==
    /\ Serving(b, "bind")
    /\ flow' = IF Confirmed(b) /\ tenant[request[b].by].github = None
               THEN [flow EXCEPT ![b] = [open |-> TRUE, tenant |-> request[b].by, version |-> request[b].version,
                                         sameCookie |-> cookie[b] = [tenant |-> request[b].by, version |-> request[b].version]]]
               ELSE flow
    /\ Answered(b)
    /\ UNCHANGED <<tenant, key, invitation, joined, cookie, setup>>

githubLoginStart(b) ==
    /\ "githubLogin" \in Operations(b) /\ Idle(b)
    /\ flow' = [flow EXCEPT ![b] = [NoFlow EXCEPT !.open = TRUE]]
    /\ UNCHANGED <<tenant, key, invitation, joined, cookie, request, setup>>

\* A callback that finds a valid flow; the flow's cookie is dropped, and g is
\* the identity GitHub answers with.
githubReadFlow(b, g) ==
    /\ flow[b].open /\ Idle(b)
    /\ flow[b].tenant # None =>
          flow[b].sameCookie /\ cookie[b] = [tenant |-> flow[b].tenant, version |-> flow[b].version]
    /\ request' = [request EXCEPT ![b] = [op |-> "github", by |-> flow[b].tenant,
                                          version |-> flow[b].version, target |-> g]]
    /\ flow' = [flow EXCEPT ![b] = NoFlow]
    /\ UNCHANGED <<tenant, key, invitation, joined, cookie, setup>>

\* A callback refused before it reaches GitHub, a denial, or a flow that
\* expires: only the cookie goes.
githubFlowFails(b) ==
    /\ flow[b].open
    /\ flow' = [flow EXCEPT ![b] = NoFlow]
    /\ UNCHANGED <<tenant, key, invitation, joined, cookie, request, setup>>

\* Mutant of BindGitHub: the password version is not compared.
BindAnyVersion(t, version, g) ==
    /\ Live(t) /\ tenant[t].enabled /\ ~tenant[t].mustChange /\ tenant[t].github = None
    /\ \A u \in Tenants : tenant[u].github # g

\* The conditional update, and the unique index on github_id.
BindGitHub(t, version, g) ==
    /\ Live(t) /\ tenant[t].enabled /\ ~tenant[t].mustChange /\ tenant[t].github = None
    /\ tenant[t].version = version
    /\ \A u \in Tenants : tenant[u].github # g

GitHubTenant(g) == {t \in Tenants : Login(t) /\ tenant[t].github = g}

githubCallback(b) ==
    /\ Serving(b, "github")
    /\ LET g == request[b].target
           t == request[b].by
       IN  \/ /\ t # None
              /\ tenant' = IF BindGitHub(t, request[b].version, g)
                           THEN [tenant EXCEPT ![t].github = g] ELSE tenant
              /\ UNCHANGED <<cookie, flow>>
           \/ /\ t = None
              /\ \E u \in GitHubTenant(g) : setSession(b, u, tenant[u].version)
              /\ UNCHANGED tenant
           \/ /\ t = None
              /\ GitHubTenant(g) = {}
              /\ UNCHANGED <<tenant, cookie, flow>>
    /\ Answered(b)
    /\ UNCHANGED <<key, invitation, joined, setup>>

githubUnbind(b) ==
    /\ Serving(b, "unbind")
    /\ LET t == request[b].by IN
       IF ~Confirmed(b) THEN UNCHANGED <<tenant, cookie, flow>>
       ELSE /\ tenant[t].version < MaxVersion
            /\ tenant' = UnbindGitHub(t)
            /\ setSession(b, t, tenant[t].version + 1)
    /\ Answered(b)
    /\ UNCHANGED <<key, invitation, joined, setup>>

-----------------------------------------------------------------------------
\* Every step but the deletion of an account, which reaches other tables.
AccountStep ==
    \/ \E b \in Browsers :
         \/ \E i \in Invitations \cup {None} : RegisterRead(b, i)
         \/ \E t \in Tenants : register(b, t) \/ tenantLogin(b, t)
         \/ RegisterRollback(b)
         \/ logout(b)
         \/ \E op \in Operations(b) : \E target \in TargetsOf(op) :
                Authenticate(b, op, target) \/ \E t \in Tenants : AuthenticateFor(b, op, t, target)
         \/ adminTenants(b) \/ adminTenantUpdate(b) \/ adminPassword(b)
         \/ adminInvitations(b) \/ adminInvitationRevoke(b)
         \/ changePassword(b) \/ keys(b) \/ keyUpdate(b) \/ keyDelete(b)
         \/ githubBindStart(b) \/ githubLoginStart(b) \/ githubFlowFails(b) \/ githubUnbind(b)
         \/ \E g \in GitHubIds : githubReadFlow(b, g)
         \/ githubCallback(b)
    \/ \E i \in Invitations : InvitationExpires(i)

AccountsNext ==
    /\ AccountStep \/ \E b \in Browsers : adminTenantDelete(b)
    /\ UNCHANGED deployment

Accounts == AccountsInit /\ [][AccountsNext]_accountVars

-----------------------------------------------------------------------------
AccountsTypeOK ==
    /\ tenant \in [Tenants -> Tenant]
    /\ key \in [AllKeys -> APIKey]
    /\ invitation \in [Invitations -> Invitation]
    /\ joined \in [Tenants -> Invitations \cup {None}]
    /\ cookie \in [Browsers -> Session \cup {NoSession}]
    /\ flow \in [Browsers -> Flow]
    /\ request \in [Browsers -> Request]
    /\ setup \in Browsers \cup {None}

\* Register and the administrator's handlers: as soon as an account exists
\* there is exactly one administrator, who can always get in: setting up
\* twice at once, disabling, deleting or resetting accounts, in any order
\* and however late a request is served, neither makes a second one nor
\* locks the first one out.
OneAdministrator ==
    (\E t \in Tenants : Live(t)) =>
        \E t \in Tenants :
            /\ Live(t) /\ tenant[t].admin /\ tenant[t].enabled /\ ~tenant[t].mustChange
            /\ \A u \in Tenants \ {t} : ~tenant[u].admin

\* Register and RevokeInvitation: an invitation makes at most one account,
\* and one that was revoked makes none, even when the two are under way at
\* the same time.
InvitationSpentOnce ==
    \A i \in Invitations :
        /\ ~(invitation[i].used /\ invitation[i].revoked)
        /\ \A t, u \in Tenants : joined[t] = i /\ joined[u] = i => t = u

\* CreateKey, DeleteTenant and the foreign key of api_keys: no key outlives
\* its account, also when it is made by a request that was authenticated
\* before the account was deleted.
NoOrphanKeys == \A k \in AllKeys : key[k].state = "live" => key[k].tenant \in Tenants /\ Live(key[k].tenant)

\* BindGitHub: whoever binds an identity holds a session of the account's
\* password version of that moment: a reset of the password, or an unbinding,
\* that comes while GitHub is being asked wins.
BindsWithCurrentPassword ==
    [][\A t \in Tenants : tenant[t].github = None /\ tenant'[t].github # None =>
          \E b \in Browsers : /\ Serving(b, "github") /\ request'[b] = NoRequest
                              /\ request[b].by = t /\ request[b].version = tenant[t].version]_accountVars
=============================================================================
