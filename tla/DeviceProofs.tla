---------------------------- MODULE DeviceProofs ----------------------------
(***************************************************************************)
(* Accounts and device grants, for any number of accounts, browsers, keys, *)
(* invitations and grants: one administrator who cannot be locked out, an  *)
(* invitation spent once, no key without its account, no way back for a    *)
(* grant that was cut off, and the abstract life of a grant implemented.   *)
(*                                                                         *)
(* The second part adds the commands of rai, for any number of helpers,    *)
(* logins and logouts: they use the gateway only as a device may, so what  *)
(* is proved of the grants holds with them, helpers share one refresh, and *)
(* a login that fails leaves no grant.                                     *)
(***************************************************************************)
EXTENDS RaiClient, TLAPS

-----------------------------------------------------------------------------
(* Rows *)

\* What the assumptions say of the constants.
LEMMA AccountFacts ==
    /\ MaxVersion \in Nat /\ 0 \in 0..MaxVersion
    /\ None \notin Tenants /\ None \notin Browsers /\ None \notin Invitations /\ None \notin GitHubIds
    /\ None \notin Grants
    /\ Keys \cap Grants = {}
BY AccountsAssumption

\* The rows that operations insert have the types of their tables.
LEMMA NewRows ==
    /\ \A admin \in BOOLEAN : /\ NewTenant(admin) \in Tenant
                              /\ NewTenant(admin).state = "live" /\ NewTenant(admin).admin = admin
                              /\ NewTenant(admin).enabled /\ ~NewTenant(admin).mustChange
                              /\ NewTenant(admin).version = 0 /\ NewTenant(admin).github = None
    /\ NoTenant \in Tenant /\ NoTenant.state = "absent" /\ ~NoTenant.admin
    /\ NoKey \in APIKey /\ NoKey.state = "absent"
    /\ NoInvitation \in Invitation /\ ~NoInvitation.used /\ ~NoInvitation.revoked
    /\ NoFlow \in Flow
    /\ NoRequest \in Request /\ NoRequest.op = "none"
<1>1. \A admin \in BOOLEAN : NewTenant(admin) \in Tenant
  BY AccountFacts DEF NewTenant, Tenant
<1>2. NoTenant \in Tenant
  BY <1>1, Zenon DEF NoTenant, Tenant
<1>3. NoTenant.state = "absent" /\ ~NoTenant.admin
  BY <1>1, Zenon DEF NoTenant, NewTenant, Tenant
<1>4. NoFlow \in Flow /\ NoRequest \in Request
  BY AccountFacts DEF NoFlow, Flow, NoRequest, Request, Targets
<1> QED
  BY <1>1, <1>2, <1>3, <1>4 DEF NewTenant, NoKey, APIKey, NoInvitation, Invitation, NoRequest

\* What an update of a column leaves of an account's row.
LEMMA EnabledUpdate ==
    ASSUME NEW row \in Tenant, NEW enabled \in BOOLEAN
    PROVE  LET new == [row EXCEPT !.enabled = enabled] IN
              /\ new \in Tenant /\ new.state = row.state /\ new.admin = row.admin
              /\ new.enabled = enabled /\ new.mustChange = row.mustChange
              /\ new.version = row.version /\ new.github = row.github
BY Zenon DEF Tenant

\* DeleteTenant, as the history keeps it.
LEMMA DeletedUpdate ==
    ASSUME NEW row \in Tenant
    PROVE  LET new == [row EXCEPT !.state = "deleted", !.github = None] IN
              /\ new \in Tenant /\ new.state = "deleted" /\ new.admin = row.admin
              /\ new.enabled = row.enabled /\ new.mustChange = row.mustChange
              /\ new.version = row.version /\ new.github = None
BY DEF Tenant

\* ChangePassword.
LEMMA MustChangeUpdate ==
    ASSUME NEW row \in Tenant, NEW must \in BOOLEAN
    PROVE  LET new == [row EXCEPT !.mustChange = must] IN
              /\ new \in Tenant /\ new.state = row.state /\ new.admin = row.admin
              /\ new.enabled = row.enabled /\ new.mustChange = must
              /\ new.version = row.version /\ new.github = row.github
BY Zenon DEF Tenant

\* ResetPassword.
LEMMA ResetUpdate ==
    ASSUME NEW row \in Tenant, NEW version \in 0..MaxVersion
    PROVE  LET new == [row EXCEPT !.mustChange = TRUE, !.version = version] IN
              /\ new \in Tenant /\ new.state = row.state /\ new.admin = row.admin
              /\ new.enabled = row.enabled /\ new.mustChange = TRUE
              /\ new.version = version /\ new.github = row.github
BY Zenon DEF Tenant

\* UnbindGitHub.
LEMMA UnboundUpdate ==
    ASSUME NEW row \in Tenant, NEW version \in 0..MaxVersion
    PROVE  LET new == [row EXCEPT !.github = None, !.version = version] IN
              /\ new \in Tenant /\ new.state = row.state /\ new.admin = row.admin
              /\ new.enabled = row.enabled /\ new.mustChange = row.mustChange
              /\ new.version = version /\ new.github = None
BY DEF Tenant

\* BindGitHub.
LEMMA BoundUpdate ==
    ASSUME NEW row \in Tenant, NEW g \in GitHubIds
    PROVE  LET new == [row EXCEPT !.github = g] IN
              /\ new \in Tenant /\ new.state = row.state /\ new.admin = row.admin
              /\ new.enabled = row.enabled /\ new.mustChange = row.mustChange
              /\ new.version = row.version /\ new.github = g
BY DEF Tenant

-----------------------------------------------------------------------------
(* The inductive invariant of the accounts *)

\* A request under way, as its middleware left it.
RequestOK(q) ==
    /\ q.op \in AdminOps \cup TenantOps \cup {"password"} => q.by \in Tenants
    /\ q.op \in {"enable", "disable", "delete", "reset", "create"} => q.target \in Tenants
    /\ q.op \in {"invite", "uninvite"} => q.target \in Invitations
    /\ q.op = "newKey" => q.target \in Keys
    /\ q.op \in {"keyOn", "keyOff", "dropKey"} => q.target \in AllKeys
    /\ q.op \in {"approve", "deny", "device"} => q.target \in Grants
    /\ q.op = "github" => q.target \in GitHubIds
    /\ q.op = "register" => q.target \in Invitations \cup {None}

\* The administrator's requests are the administrator's, however late they
\* are served.
AdminsRequest(q, rows) == q.op \in AdminOps => rows[q.by].admin

\* A registration under way holds the advisory lock; without an invitation it
\* has found no account, with one it has found an account and the invitation
\* is still good.
RegistrationOK(b, q, holder, rows, invitations) ==
    q.op = "register" =>
        /\ holder = b
        /\ q.target = None <=> \A t \in Tenants : rows[t].state # "live"
        /\ q.target # None => ~invitations[q.target].used /\ ~invitations[q.target].revoked

\* Every administrator is the administrator, and can get in.
AdministratorOK(rows) ==
    /\ \A t \in Tenants : rows[t].admin =>
          /\ rows[t].state = "live" /\ rows[t].enabled /\ ~rows[t].mustChange
          /\ \A u \in Tenants \ {t} : ~rows[u].admin
    /\ (\E t \in Tenants : rows[t].state = "live") => \E t \in Tenants : rows[t].admin

\* An invitation somebody joined with is used.
JoinedOK(invitations, by) ==
    \A i \in Invitations :
        /\ ~(invitations[i].used /\ invitations[i].revoked)
        /\ \A t \in Tenants : by[t] = i => invitations[i].used
        /\ \A t, u \in Tenants : by[t] = i /\ by[u] = i => t = u

\* OneAdministrator and InvitationSpentOnce are not inductive: they also need
\* what a request under way has read to be still true when it writes.
AccountsInv ==
    /\ AccountsTypeOK
    /\ \A b \in Browsers : RequestOK(request[b])
    /\ \A b \in Browsers : AdminsRequest(request[b], tenant)
    /\ \A b \in Browsers : RegistrationOK(b, request[b], setup, tenant, invitation)
    /\ AdministratorOK(tenant)
    /\ JoinedOK(invitation, joined)
    /\ NoOrphanKeys

\* The types that a step starts from.
LEMMA AccountTypes ==
    ASSUME AccountsInv
    PROVE  /\ tenant \in [Tenants -> Tenant] /\ key \in [AllKeys -> APIKey]
           /\ invitation \in [Invitations -> Invitation] /\ joined \in [Tenants -> Invitations \cup {None}]
           /\ cookie \in [Browsers -> Session \cup {NoSession}] /\ flow \in [Browsers -> Flow]
           /\ request \in [Browsers -> Request] /\ setup \in Browsers \cup {None}
           /\ \A t \in Tenants : tenant[t] \in Tenant /\ tenant[t].version \in 0..MaxVersion
           /\ \A b \in Browsers : request[b] \in Request /\ flow[b] \in Flow
                                  /\ cookie[b] \in Session \cup {NoSession}
BY DEF AccountsInv, AccountsTypeOK, Tenant

-----------------------------------------------------------------------------
(* How the row of an account may change *)

\* An account is created once and deleted once, its password version only
\* grows, and nobody becomes administrator later.
Ages(old, new) ==
    /\ new \in Tenant
    /\ old.state # "absent" => new.state # "absent" /\ old.version <= new.version /\ new.admin = old.admin
    /\ old.state = "deleted" => new.state = "deleted"
    /\ new.state = "deleted" => old.state # "absent"
    /\ old.state = "live" => new.state \in {"live", "deleted"}

LEMMA AgesSame ==
    ASSUME NEW row \in Tenant
    PROVE  Ages(row, row)
BY AccountFacts DEF Tenant, Ages

\* A write to the row of account t that keeps the administrator in.
Writes(t, row) ==
    /\ Ages(tenant[t], row)
    /\ tenant[t].admin => row.state = "live" /\ row.enabled /\ ~row.mustChange
    /\ tenant[t].state = "absent" =>
          /\ row.state = "live" /\ row.enabled /\ ~row.mustChange
          /\ row.admin <=> \A u \in Tenants : tenant[u].state # "live"

\* A change of a live account's row.
LEMMA LiveWrites ==
    ASSUME NEW t \in Tenants, tenant[t] \in Tenant, NEW row \in Tenant,
           tenant[t].state # "absent", row.state = tenant[t].state, row.admin = tenant[t].admin,
           tenant[t].version <= row.version,
           tenant[t].admin => row.state = "live" /\ row.enabled /\ ~row.mustChange
    PROVE  Writes(t, row)
BY DEF Tenant, Writes, Ages

\* The one account whose row a step writes, if any.
OneRow == \E t \in Tenants : \E row \in Tenant :
    /\ tenant' = [tenant EXCEPT ![t] = row] /\ Writes(t, row)
    /\ tenant[t].state = "live" => row.state = "live"
WrittenRow == \E t \in Tenants : \E row \in Tenant :
    tenant' = [tenant EXCEPT ![t] = row] /\ Writes(t, row)

\* Registration inserts a row.
LEMMA RegisterRow ==
    ASSUME AccountsInv, NEW b \in Browsers, NEW t \in Tenants, register(b, t)
    PROVE  OneRow
<1> DEFINE admin == request[b].target = None
<1>1. request[b].op = "register" /\ tenant[t].state = "absent" /\ tenant' = [tenant EXCEPT ![t] = NewTenant(admin)]
  BY Zenon DEF register
<1>2. admin \in BOOLEAN
  OBVIOUS
<1>3. admin <=> \A u \in Tenants : tenant[u].state # "live"
  BY <1>1, Zenon DEF AccountsInv, RegistrationOK
<1>4. ~tenant[t].admin
  BY <1>1 DEF AccountsInv, AdministratorOK
<1>5. /\ NewTenant(admin) \in Tenant /\ NewTenant(admin).state = "live" /\ NewTenant(admin).admin = admin
      /\ NewTenant(admin).enabled /\ ~NewTenant(admin).mustChange
  BY <1>2, NewRows
<1> HIDE DEF admin
<1>6. Ages(tenant[t], NewTenant(admin))
  BY <1>1, <1>5 DEF Ages
<1>7. Writes(t, NewTenant(admin))
  BY <1>1, <1>3, <1>4, <1>5, <1>6, Zenon DEF Writes
<1> QED
  BY <1>1, <1>5, <1>7, Zenon DEF OneRow

\* An administrator's request is about another account.
LEMMA OtherAccount ==
    ASSUME AccountsInv, NEW b \in Browsers, request[b].op \in AdminOps,
           request[b].target \in Tenants, request[b].target # request[b].by
    PROVE  ~tenant[request[b].target].admin
BY DEF AccountsInv, RequestOK, AdminsRequest, AdministratorOK

\* The administrator's handlers write one row.
LEMMA AdminRows ==
    ASSUME AccountsInv, NEW b \in Browsers,
           adminTenants(b) \/ adminTenantUpdate(b) \/ adminPassword(b)
    PROVE  OneRow \/ tenant' = tenant
<1> DEFINE t == request[b].target
<1>1. request[b].op \in {"create", "enable", "disable", "reset"}
  BY DEF adminTenants, adminTenantUpdate, adminPassword, Serving
<1>2. t \in Tenants /\ request[b].op \in AdminOps
  BY <1>1 DEF AccountsInv, RequestOK, AdminOps
<1>3. tenant[t] \in Tenant /\ tenant[t].version \in 0..MaxVersion
  BY <1>2, AccountTypes
<1>4. tenant[t].admin => tenant[t].state = "live" /\ tenant[t].enabled /\ ~tenant[t].mustChange
  BY <1>2, Zenon DEF AccountsInv, AdministratorOK
<1>5. t # request[b].by => ~tenant[t].admin
  BY <1>2, OtherAccount
<1>6. tenant[t].version <= tenant[t].version
  BY <1>3, AccountFacts
<1>7. CASE adminTenants(b) /\ tenant[t].state = "absent"
  <2>1. tenant' = [tenant EXCEPT ![t] = NewTenant(FALSE)]
    BY <1>7, Zenon DEF adminTenants, CreateTenant
  <2>2. ~(\A u \in Tenants : tenant[u].state # "live")
    BY <1>2 DEF AccountsInv, RequestOK, AdminsRequest, AdministratorOK
  <2>3. /\ NewTenant(FALSE) \in Tenant /\ NewTenant(FALSE).state = "live" /\ ~NewTenant(FALSE).admin
        /\ NewTenant(FALSE).enabled /\ ~NewTenant(FALSE).mustChange
    BY NewRows
  <2>4. Ages(tenant[t], NewTenant(FALSE))
    BY <1>7, <2>3 DEF Ages
  <2>5. Writes(t, NewTenant(FALSE))
    BY <1>4, <1>7, <2>2, <2>3, <2>4, Zenon DEF Writes
  <2> QED
    BY <1>2, <2>1, <2>3, <2>5, Zenon DEF OneRow
<1>8. CASE adminTenants(b) /\ tenant[t].state # "absent"
  BY <1>8, Zenon DEF adminTenants, CreateTenant
<1>9. CASE adminTenantUpdate(b)
  <2> DEFINE enabled == Serving(b, "enable")
             row == [tenant[t] EXCEPT !.enabled = enabled]
  <2>1. enabled \in BOOLEAN
    BY DEF Serving
  <2>2. tenant' = tenant \/ (tenant' = [tenant EXCEPT ![t] = row] /\ Live(t) /\ (enabled \/ t # request[b].by))
    BY <1>9, Zenon DEF adminTenantUpdate, UpdateTenant
  <2>3. /\ row \in Tenant /\ row.state = tenant[t].state /\ row.admin = tenant[t].admin
        /\ row.enabled = enabled /\ row.mustChange = tenant[t].mustChange /\ row.version = tenant[t].version
    BY <1>3, <2>1, EnabledUpdate, Zenon
  <2> HIDE DEF row, enabled
  <2>4. CASE tenant' = [tenant EXCEPT ![t] = row] /\ Live(t) /\ (enabled \/ t # request[b].by)
    BY <1>2, <1>3, <1>4, <1>5, <1>6, <2>3, <2>4, LiveWrites DEF Live, OneRow
  <2> QED
    BY <2>2, <2>4
<1>10. CASE adminPassword(b)
  <2> DEFINE row == [tenant[t] EXCEPT !.mustChange = TRUE, !.version = tenant[t].version + 1]
  <2>1. \/ tenant' = tenant
        \/ /\ tenant' = [tenant EXCEPT ![t] = row] /\ Live(t) /\ t # request[b].by
           /\ tenant[t].version < MaxVersion
    BY <1>10, Zenon DEF adminPassword, ResetPassword
  <2>2. CASE /\ tenant' = [tenant EXCEPT ![t] = row] /\ Live(t) /\ t # request[b].by
             /\ tenant[t].version < MaxVersion
    <3>1. tenant[t].version + 1 \in 0..MaxVersion /\ tenant[t].version <= tenant[t].version + 1
      BY <1>3, <2>2, AccountFacts
    <3>2. /\ row \in Tenant /\ row.state = tenant[t].state /\ row.admin = tenant[t].admin
          /\ row.version = tenant[t].version + 1
      BY <1>3, <3>1, ResetUpdate, Zenon
    <3> HIDE DEF row
    <3>3. tenant[t].state = "live"
      BY <2>2 DEF Live
    <3>4. tenant[t].version <= row.version
      BY <3>1, <3>2
    <3>5. Writes(t, row)
      BY <1>2, <1>3, <1>5, <2>2, <3>2, <3>3, <3>4, LiveWrites
    <3> QED
      BY <1>2, <2>2, <3>2, <3>3, <3>5, Zenon DEF OneRow
  <2> QED
    BY <2>1, <2>2
<1> QED
  BY <1>7, <1>8, <1>9, <1>10

\* So do a tenant's.
LEMMA TenantRows ==
    ASSUME AccountsInv, NEW b \in Browsers,
           changePassword(b) \/ githubUnbind(b) \/ githubCallback(b)
    PROVE  OneRow \/ tenant' = tenant
<1> DEFINE t == request[b].by
<1>1. request[b].op \in {"password", "unbind"} => t \in Tenants
  BY DEF AccountsInv, RequestOK, TenantOps
<1>2. t \in Tenants => tenant[t] \in Tenant /\ tenant[t].version \in 0..MaxVersion
  BY AccountTypes
<1>3. t \in Tenants =>
         (tenant[t].admin => tenant[t].state = "live" /\ tenant[t].enabled /\ ~tenant[t].mustChange)
  BY Zenon DEF AccountsInv, AdministratorOK
<1>4. t \in Tenants => tenant[t].version <= tenant[t].version
  BY <1>2, AccountFacts
<1>5. CASE changePassword(b)
  <2> DEFINE row == [tenant[t] EXCEPT !.mustChange = FALSE]
  <2>1. t \in Tenants
    BY <1>1, <1>5, Zenon DEF changePassword, Serving
  <2>2. tenant' = tenant \/ (tenant' = [tenant EXCEPT ![t] = row] /\ Live(t))
    BY <1>5, Zenon DEF changePassword, ChangePassword
  <2>3. /\ row \in Tenant /\ row.state = tenant[t].state /\ row.admin = tenant[t].admin
        /\ row.enabled = tenant[t].enabled /\ row.mustChange = FALSE /\ row.version = tenant[t].version
    BY <1>2, <2>1, MustChangeUpdate, Zenon
  <2> HIDE DEF row
  <2>4. CASE tenant' = [tenant EXCEPT ![t] = row] /\ Live(t)
    BY <1>2, <1>3, <1>4, <2>1, <2>3, <2>4, LiveWrites DEF Live, OneRow
  <2> QED
    BY <2>2, <2>4
<1>6. CASE githubUnbind(b)
  <2> DEFINE row == [tenant[t] EXCEPT !.github = None, !.version = tenant[t].version + 1]
  <2>1. t \in Tenants
    BY <1>1, <1>6, Zenon DEF githubUnbind, Serving
  <2>2. \/ tenant' = tenant
        \/ tenant' = [tenant EXCEPT ![t] = row] /\ Confirmed(b) /\ tenant[t].version < MaxVersion
    BY <1>6, Zenon DEF githubUnbind, UnbindGitHub
  <2>3. CASE tenant' = [tenant EXCEPT ![t] = row] /\ Confirmed(b) /\ tenant[t].version < MaxVersion
    <3>1. tenant[t].version + 1 \in 0..MaxVersion /\ tenant[t].version <= tenant[t].version + 1
      BY <1>2, <2>1, <2>3, AccountFacts
    <3>2. /\ row \in Tenant /\ row.state = tenant[t].state /\ row.admin = tenant[t].admin
          /\ row.enabled = tenant[t].enabled /\ row.mustChange = tenant[t].mustChange
          /\ row.version = tenant[t].version + 1
      BY <1>2, <2>1, <3>1, UnboundUpdate, Zenon
    <3> HIDE DEF row
    <3>3. tenant[t].state = "live"
      BY <2>3 DEF Confirmed
    <3>4. tenant[t].version <= row.version
      BY <3>1, <3>2
    <3>5. Writes(t, row)
      BY <1>2, <1>3, <2>1, <3>2, <3>3, <3>4, LiveWrites
    <3> QED
      BY <2>1, <2>3, <3>2, <3>3, <3>5, Zenon DEF OneRow
  <2> QED
    BY <2>2, <2>3
<1>7. CASE githubCallback(b)
  <2> DEFINE g == request[b].target
             row == [tenant[t] EXCEPT !.github = g]
  <2>1. g \in GitHubIds
    BY <1>7 DEF githubCallback, Serving, AccountsInv, RequestOK
  <2>2. tenant' = tenant \/ (tenant' = [tenant EXCEPT ![t] = row] /\ Live(t) /\ t # None)
    BY <1>7, Zenon DEF githubCallback, BindGitHub
  <2>3. t # None => t \in Tenants
    BY AccountTypes DEF Request
  <2>4. CASE tenant' = [tenant EXCEPT ![t] = row] /\ Live(t) /\ t # None
    <3>1. tenant[t].state = "live" /\ t \in Tenants
      BY <2>3, <2>4 DEF Live
    <3>2. /\ row \in Tenant /\ row.state = tenant[t].state /\ row.admin = tenant[t].admin
          /\ row.enabled = tenant[t].enabled /\ row.mustChange = tenant[t].mustChange
          /\ row.version = tenant[t].version
      BY <1>2, <2>1, <3>1, BoundUpdate, Zenon
    <3> HIDE DEF row
    <3>3. tenant[t].version <= row.version
      BY <1>4, <3>1, <3>2
    <3>4. Writes(t, row)
      BY <1>2, <1>3, <3>1, <3>2, <3>3, LiveWrites
    <3> QED
      BY <2>4, <3>1, <3>2, <3>4, Zenon DEF OneRow
  <2> QED
    BY <2>2, <2>4
<1> QED
  BY <1>5, <1>6, <1>7

\* Every step of the accounts but a deletion.
LEMMA AccountRows ==
    ASSUME AccountsInv, AccountStep
    PROVE  OneRow \/ tenant' = tenant
<1>1. /\ \A b \in Browsers : adminTenants(b) \/ adminTenantUpdate(b) \/ adminPassword(b) => OneRow \/ tenant' = tenant
      /\ \A b \in Browsers : changePassword(b) \/ githubUnbind(b) \/ githubCallback(b) => OneRow \/ tenant' = tenant
      /\ \A b \in Browsers, t \in Tenants : register(b, t) => OneRow
  BY AdminRows, TenantRows, RegisterRow
<1>2. /\ \A b, i : RegisterRead(b, i) => tenant' = tenant
      /\ \A b, t : tenantLogin(b, t) => tenant' = tenant
      /\ \A b : RegisterRollback(b) \/ logout(b) => tenant' = tenant
      /\ \A b, op, target : Authenticate(b, op, target) => tenant' = tenant
      /\ \A b, op, t, target : AuthenticateFor(b, op, t, target) => tenant' = tenant
      /\ \A b : adminInvitations(b) \/ adminInvitationRevoke(b) => tenant' = tenant
      /\ \A b : keys(b) \/ keyUpdate(b) \/ keyDelete(b) => tenant' = tenant
      /\ \A b : githubBindStart(b) \/ githubLoginStart(b) \/ githubFlowFails(b) => tenant' = tenant
      /\ \A b, g : githubReadFlow(b, g) => tenant' = tenant
      /\ \A i : InvitationExpires(i) => tenant' = tenant
  BY Zenon DEF RegisterRead, tenantLogin, RegisterRollback, logout, Authenticate, AuthenticateFor,
     adminInvitations, adminInvitationRevoke, keys, keyUpdate, keyDelete, githubBindStart,
     githubLoginStart, githubFlowFails, githubReadFlow, InvitationExpires
<1> QED
  BY <1>1, <1>2, Zenon DEF AccountStep

\* A row that is written keeps its type, the administrator and its age.
LEMMA RowsKept ==
    ASSUME AccountsInv, WrittenRow \/ tenant' = tenant
    PROVE  /\ tenant' \in [Tenants -> Tenant]
           /\ \A t \in Tenants : Ages(tenant[t], tenant'[t])
           /\ \A t \in Tenants : tenant[t].admin => tenant'[t].admin
           /\ AdministratorOK(tenant')
<1>1. tenant \in [Tenants -> Tenant] /\ \A t \in Tenants : tenant[t] \in Tenant
  BY AccountTypes
<1>2. \A t \in Tenants : Ages(tenant[t], tenant[t])
  BY <1>1, AgesSame
<1>3. CASE tenant' = tenant
  BY <1>1, <1>2, <1>3, Zenon DEF AccountsInv
<1>4. CASE WrittenRow
  <2>1. PICK t \in Tenants : \E row \in Tenant : tenant' = [tenant EXCEPT ![t] = row] /\ Writes(t, row)
    BY <1>4, Zenon DEF WrittenRow
  <2>2. PICK row \in Tenant : tenant' = [tenant EXCEPT ![t] = row] /\ Writes(t, row)
    BY <2>1
  <2>3. /\ tenant' \in [Tenants -> Tenant] /\ tenant'[t] = row
        /\ \A u \in Tenants \ {t} : tenant'[u] = tenant[u]
    BY <1>1, <2>2, Zenon
  <2>4. AdministratorOK(tenant)
    BY DEF AccountsInv
  <2>5. tenant[t].state # "absent" => row.admin = tenant[t].admin
    BY <2>2, Zenon DEF Writes, Ages
  <2>6. tenant[t].admin => tenant[t].state # "absent"
    BY <2>4 DEF AdministratorOK
  <2>7. \A u \in Tenants : tenant[u].admin => tenant'[u].admin
    BY <2>3, <2>5, <2>6, Zenon
  <2>8. tenant[t].state = "absent" =>
           /\ row.state = "live" /\ row.enabled /\ ~row.mustChange
           /\ row.admin <=> \A u \in Tenants : tenant[u].state # "live"
    BY <2>2, Zenon DEF Writes
  <2>9. /\ tenant[t].admin => row.state = "live" /\ row.enabled /\ ~row.mustChange
    BY <2>2, Zenon DEF Writes
  <2>10. row.admin => row.state = "live" /\ row.enabled /\ ~row.mustChange
    BY <2>5, <2>8, <2>9
  <2>11. row.admin => \A u \in Tenants \ {t} : ~tenant[u].admin
    BY <2>4, <2>5, <2>8 DEF AdministratorOK
  <2>12. \A u \in Tenants \ {t} : tenant[u].admin => ~row.admin
    BY <2>11, Zenon
  <2>13. \A u \in Tenants : tenant'[u].admin =>
            /\ tenant'[u].state = "live" /\ tenant'[u].enabled /\ ~tenant'[u].mustChange
            /\ \A v \in Tenants \ {u} : ~tenant'[v].admin
    BY <2>3, <2>4, <2>10, <2>11, <2>12, Zenon DEF AdministratorOK
  <2>14. (\E u \in Tenants : tenant'[u].state = "live") => \E u \in Tenants : tenant'[u].admin
    <3>1. CASE \E u \in Tenants : tenant[u].state = "live"
      BY <2>4, <2>7, <3>1, Zenon DEF AdministratorOK
    <3>2. CASE \A u \in Tenants : tenant[u].state # "live"
      <4>1. row.state = "live" => tenant[t].state = "absent"
        BY <1>1, <2>2, <3>2 DEF Tenant, Writes, Ages
      <4>2. row.state = "live" => row.admin
        BY <2>8, <3>2, <4>1
      <4>3. ASSUME NEW u \in Tenants, tenant'[u].state = "live"
            PROVE  u = t
        BY <2>3, <3>2, <4>3
      <4> QED
        BY <2>3, <4>2, <4>3
    <3> QED
      BY <3>1, <3>2, Zenon
  <2>15. AdministratorOK(tenant')
    BY <2>13, <2>14, Zenon DEF AdministratorOK
  <2>16. \A u \in Tenants : Ages(tenant[u], tenant'[u])
    BY <1>2, <2>2, <2>3, Zenon DEF Writes
  <2> QED
    BY <2>2, <2>3, <2>7, <2>15, <2>16, Zenon
<1> QED
  BY <1>3, <1>4

\* What a step of the accounts other than a deletion leaves of the rows.
LEMMA AccountRowsKept ==
    ASSUME AccountsInv, AccountStep
    PROVE  /\ tenant' \in [Tenants -> Tenant]
           /\ \A t \in Tenants : Ages(tenant[t], tenant'[t])
           /\ \A t \in Tenants : tenant[t].state = "live" => tenant'[t].state = "live"
           /\ \A t \in Tenants : tenant[t].admin => tenant'[t].admin
           /\ AdministratorOK(tenant')
BY AccountRows, AccountTypes, RowsKept DEF OneRow, WrittenRow

\* As long as nobody has an account, only a registration makes one.
LEMMA Founding ==
    ASSUME AccountsInv, AccountStep, \A t \in Tenants : tenant[t].state # "live"
    PROVE  tenant' = tenant \/ \E b \in Browsers, t \in Tenants : register(b, t)
<1>1. \A t \in Tenants : ~Live(t)
  BY DEF Live
<1>2. \A b \in Browsers : request[b].op \notin AdminOps
  BY Zenon DEF AccountsInv, AdministratorOK, RequestOK, AdminsRequest
<1>3. ASSUME NEW b \in Browsers
      PROVE  ~(adminTenants(b) \/ adminTenantUpdate(b) \/ adminPassword(b))
  BY <1>2 DEF AdminOps, adminTenants, adminTenantUpdate, adminPassword, Serving
<1>4. ASSUME NEW b \in Browsers, changePassword(b) \/ githubUnbind(b) \/ githubCallback(b)
      PROVE  tenant' = tenant
  <2>1. request[b] \in Request
    BY AccountTypes
  <2>2. request[b].by \in Tenants \cup {None}
    BY <2>1, Zenon DEF Request
  <2>3. request[b].op \in {"password", "unbind"} => request[b].by \in Tenants
    BY DEF AccountsInv, RequestOK, TenantOps
  <2>4. CASE changePassword(b)
    BY <1>1, <2>3, <2>4 DEF changePassword, ChangePassword, Serving
  <2>5. CASE githubUnbind(b)
    BY <1>1, <2>3, <2>5 DEF githubUnbind, Confirmed, Serving, Live
  <2>6. CASE githubCallback(b)
    BY <1>1, <2>2, <2>6 DEF githubCallback, BindGitHub
  <2> QED
    BY <1>4, <2>4, <2>5, <2>6
<1>5. /\ \A b, i : RegisterRead(b, i) => tenant' = tenant
      /\ \A b, t : tenantLogin(b, t) => tenant' = tenant
      /\ \A b : RegisterRollback(b) \/ logout(b) => tenant' = tenant
      /\ \A b, op, target : Authenticate(b, op, target) => tenant' = tenant
      /\ \A b, op, t, target : AuthenticateFor(b, op, t, target) => tenant' = tenant
      /\ \A b : adminInvitations(b) \/ adminInvitationRevoke(b) => tenant' = tenant
      /\ \A b : keys(b) \/ keyUpdate(b) \/ keyDelete(b) => tenant' = tenant
      /\ \A b : githubBindStart(b) \/ githubLoginStart(b) \/ githubFlowFails(b) => tenant' = tenant
      /\ \A b, g : githubReadFlow(b, g) => tenant' = tenant
      /\ \A i : InvitationExpires(i) => tenant' = tenant
  BY Zenon DEF RegisterRead, tenantLogin, RegisterRollback, logout, Authenticate, AuthenticateFor,
     adminInvitations, adminInvitationRevoke, keys, keyUpdate, keyDelete, githubBindStart,
     githubLoginStart, githubFlowFails, githubReadFlow, InvitationExpires
<1> QED
  BY <1>3, <1>4, <1>5, Zenon DEF AccountStep

-----------------------------------------------------------------------------
(* Requests *)

\* Browser b's request becomes q, which is no registration.
NewRequest(b, q) ==
    /\ request' = [request EXCEPT ![b] = q]
    /\ q \in Request /\ RequestOK(q) /\ AdminsRequest(q, tenant) /\ q.op # "register"

\* An answered request is gone.
LEMMA AnsweredRequest ==
    ASSUME NEW b, Answered(b)
    PROVE  NewRequest(b, NoRequest)
BY NewRows DEF RequestOK, AdminsRequest, AdminOps, TenantOps, NewRequest, Answered

\* What a handler is called with.
LEMMA TargetTypes ==
    ASSUME NEW op \in AdminOps \cup TenantOps \cup {"password"}, NEW target \in TargetsOf(op)
    PROVE  /\ op \in {"enable", "disable", "delete", "reset", "create"} => target \in Tenants
           /\ op \in {"invite", "uninvite"} => target \in Invitations
           /\ op = "newKey" => target \in Keys
           /\ op \in {"keyOn", "keyOff", "dropKey"} => target \in AllKeys
           /\ op \in {"approve", "deny", "device"} => target \in Grants
           /\ target \in Targets
BY DEF TargetsOf, Targets, AllKeys, AdminOps, TenantOps

\* A request that a middleware lets through.
LEMMA LetThrough ==
    ASSUME NEW b, NEW op \in AdminOps \cup TenantOps \cup {"password"}, NEW target \in TargetsOf(op),
           NEW t \in Tenants, NEW version \in 0..MaxVersion, op \in AdminOps => tenant[t].admin,
           request' = [request EXCEPT ![b] = [op |-> op, by |-> t, version |-> version, target |-> target]]
    PROVE  \E q : NewRequest(b, q)
<1> DEFINE q == [op |-> op, by |-> t, version |-> version, target |-> target]
<1>1. target \in Targets
  BY TargetTypes
<1>2. q \in Request
  BY <1>1 DEF Request
<1>3. q.op = op /\ q.by = t /\ q.target = target
  OBVIOUS
<1>4. op \notin {"register", "github"}
  BY DEF AdminOps, TenantOps
<1> HIDE DEF q
<1>5. RequestOK(q)
  BY <1>3, <1>4, TargetTypes DEF RequestOK
<1>6. AdminsRequest(q, tenant) /\ q.op # "register"
  BY <1>3, <1>4 DEF AdminsRequest
<1>7. request' = [request EXCEPT ![b] = q]
  BY DEF q
<1> QED
  BY <1>2, <1>5, <1>6, <1>7, Zenon DEF NewRequest

\* The cookie a middleware accepts.
LEMMA CookieTypes ==
    ASSUME AccountsInv, NEW b \in Browsers, cookie[b] # NoSession
    PROVE  cookie[b].tenant \in Tenants /\ cookie[b].version \in 0..MaxVersion
BY AccountTypes DEF Session

\* Every step but a registration's first leaves requests that are in order.
LEMMA NewRequests ==
    ASSUME AccountsInv, AccountStep \/ \E b \in Browsers : adminTenantDelete(b)
    PROVE  \/ request' = request
           \/ \E b \in Browsers : \E q : NewRequest(b, q)
           \/ \E b \in Browsers, i \in Invitations \cup {None} : RegisterRead(b, i)
<1>1. ASSUME NEW b \in Browsers, NEW op, NEW target \in TargetsOf(op), Authenticate(b, op, target)
      PROVE  \E q : NewRequest(b, q)
  <2>1. cookie[b] # NoSession
    BY <1>1, Zenon DEF Authenticate, withAdmin, withTenant, withTenantSession
  <2>2. cookie[b].tenant \in Tenants /\ cookie[b].version \in 0..MaxVersion
    BY <2>1, CookieTypes
  <2>3. op \in AdminOps \cup TenantOps \cup {"password"}
    BY <1>1, Zenon DEF Authenticate
  <2>4. op \in AdminOps => tenant[cookie[b].tenant].admin
    BY <1>1 DEF AdminOps, TenantOps, Authenticate, withAdmin
  <2>5. request' = [request EXCEPT ![b] = [op |-> op, by |-> cookie[b].tenant,
                                           version |-> cookie[b].version, target |-> target]]
    BY <1>1, Zenon DEF Authenticate
  <2> QED
    BY <1>1, <2>2, <2>3, <2>4, <2>5, LetThrough
<1>2. ASSUME NEW b \in Browsers, NEW op, NEW t \in Tenants, NEW target \in TargetsOf(op),
             AuthenticateFor(b, op, t, target)
      PROVE  \E q : NewRequest(b, q)
  BY <1>2, CookieTypes, LetThrough DEF AuthenticateFor, withAdmin, withTenant, withTenantSession,
     TenantOps, AdminOps
<1>3. ASSUME NEW b \in Browsers, NEW g \in GitHubIds, githubReadFlow(b, g)
      PROVE  \E q : NewRequest(b, q)
  <2> DEFINE q == [op |-> "github", by |-> flow[b].tenant, version |-> flow[b].version, target |-> g]
  <2>1. flow[b] \in Flow
    BY AccountTypes
  <2>2. flow[b].tenant \in Tenants \cup {None} /\ flow[b].version \in 0..MaxVersion
    BY <2>1, Zenon DEF Flow
  <2>3. q \in Request
    BY <2>2 DEF Request, Targets
  <2>4. RequestOK(q) /\ AdminsRequest(q, tenant) /\ q.op # "register"
    BY DEF RequestOK, AdminsRequest, AdminOps, TenantOps
  <2>5. request' = [request EXCEPT ![b] = q]
    BY <1>3, Zenon DEF githubReadFlow
  <2> QED
    BY <2>3, <2>4, <2>5, Zenon DEF NewRequest
<1>4. \A b : Answered(b) => \E q : NewRequest(b, q)
  BY AnsweredRequest, Zenon
<1>5. /\ \A b, t : register(b, t) => Answered(b)
      /\ \A b : RegisterRollback(b) \/ adminTenants(b) \/ adminTenantUpdate(b) \/ adminPassword(b) => Answered(b)
      /\ \A b : adminInvitations(b) \/ adminInvitationRevoke(b) \/ adminTenantDelete(b) => Answered(b)
      /\ \A b : changePassword(b) \/ keys(b) \/ keyUpdate(b) \/ keyDelete(b) => Answered(b)
      /\ \A b : githubBindStart(b) \/ githubUnbind(b) \/ githubCallback(b) => Answered(b)
  BY Zenon DEF register, RegisterRollback, adminTenants, adminTenantUpdate, adminPassword, adminInvitations,
     adminInvitationRevoke, adminTenantDelete, changePassword, keys, keyUpdate, keyDelete,
     githubBindStart, githubUnbind, githubCallback
<1>6. /\ \A b, t : tenantLogin(b, t) => request' = request
      /\ \A b : logout(b) \/ githubLoginStart(b) \/ githubFlowFails(b) => request' = request
      /\ \A i : InvitationExpires(i) => request' = request
  BY Zenon DEF tenantLogin, logout, githubLoginStart, githubFlowFails, InvitationExpires
<1> QED
  BY <1>1, <1>2, <1>3, <1>4, <1>5, <1>6, Zenon DEF AccountStep

\* The requests after a step, when no registration is under way or the
\* administrator stays.
LEMMA RequestsKept ==
    ASSUME AccountsInv, NEW b \in Browsers, NEW q, NewRequest(b, q),
           \A t \in Tenants : tenant[t].admin => tenant'[t].admin
    PROVE  /\ request' \in [Browsers -> Request]
           /\ \A c \in Browsers : RequestOK(request'[c]) /\ AdminsRequest(request'[c], tenant')
           /\ \A c \in Browsers : request'[c].op = "register" => c # b /\ request'[c] = request[c]
<1>1. request \in [Browsers -> Request]
  BY AccountTypes
<1>2. request'[b] = q /\ \A c \in Browsers \ {b} : request'[c] = request[c]
  BY <1>1, Zenon DEF NewRequest
<1>3. request' \in [Browsers -> Request]
  BY <1>1, Zenon DEF NewRequest
<1>4. \A c \in Browsers : RequestOK(request'[c]) /\ AdminsRequest(request'[c], tenant)
  BY <1>2, Zenon DEF NewRequest, AccountsInv
<1>5. \A c \in Browsers : AdminsRequest(request'[c], tenant')
  BY <1>4 DEF RequestOK, AdminsRequest
<1>6. \A c \in Browsers : request'[c].op = "register" => c # b /\ request'[c] = request[c]
  BY <1>2, Zenon DEF NewRequest
<1> QED
  BY <1>3, <1>4, <1>5, <1>6

-----------------------------------------------------------------------------
(* Cookies and flows *)

LEMMA CookieStep ==
    ASSUME AccountsInv, AccountStep \/ \E b \in Browsers : adminTenantDelete(b)
    PROVE  /\ cookie' \in [Browsers -> Session \cup {NoSession}]
           /\ flow' \in [Browsers -> Flow]
<1>1. cookie \in [Browsers -> Session \cup {NoSession}] /\ flow \in [Browsers -> Flow]
  BY AccountTypes
<1>2. ASSUME NEW b, NEW t \in Tenants, NEW version \in 0..MaxVersion, setSession(b, t, version)
      PROVE  /\ cookie' \in [Browsers -> Session \cup {NoSession}]
             /\ flow' \in [Browsers -> Flow]
  BY <1>1, <1>2 DEF Session, Flow, setSession
<1>3. ASSUME NEW b \in Browsers, NEW t \in Tenants, register(b, t)
      PROVE  /\ cookie' \in [Browsers -> Session \cup {NoSession}]
             /\ flow' \in [Browsers -> Flow]
  BY <1>2, <1>3, AccountFacts, Zenon DEF register
<1>4. ASSUME NEW b \in Browsers, NEW t \in Tenants, tenantLogin(b, t)
      PROVE  /\ cookie' \in [Browsers -> Session \cup {NoSession}]
             /\ flow' \in [Browsers -> Flow]
  BY <1>2, <1>4, AccountTypes, Zenon DEF tenantLogin
<1>5. ASSUME NEW b \in Browsers, logout(b) \/ githubLoginStart(b) \/ githubFlowFails(b)
                                 \/ \E g : githubReadFlow(b, g)
      PROVE  /\ cookie' \in [Browsers -> Session \cup {NoSession}]
             /\ flow' \in [Browsers -> Flow]
  <2>1. \A f \in Flow : [f EXCEPT !.sameCookie = FALSE] \in Flow
    BY Zenon DEF Flow
  <2>2. NoSession \in Session \cup {NoSession} /\ NoFlow \in Flow
    BY NewRows
  <2>3. [NoFlow EXCEPT !.open = TRUE] \in Flow
    BY <2>2, Zenon DEF Flow
  <2>4. CASE logout(b)
    BY <1>1, <2>1, <2>2, <2>4, Zenon DEF logout
  <2>5. CASE githubLoginStart(b) \/ githubFlowFails(b) \/ \E g : githubReadFlow(b, g)
    BY <1>1, <2>2, <2>3, <2>5 DEF githubLoginStart, githubFlowFails, githubReadFlow
  <2> QED
    BY <1>5, <2>4, <2>5
<1>6. ASSUME NEW b \in Browsers, githubBindStart(b)
      PROVE  /\ cookie' \in [Browsers -> Session \cup {NoSession}]
             /\ flow' \in [Browsers -> Flow]
  <2> DEFINE same == cookie[b] = [tenant |-> request[b].by, version |-> request[b].version]
             f == [open |-> TRUE, tenant |-> request[b].by, version |-> request[b].version, sameCookie |-> same]
  <2>1. request[b] \in Request
    BY AccountTypes
  <2>2. request[b].by \in Tenants \cup {None} /\ request[b].version \in 0..MaxVersion
    BY <2>1, Zenon DEF Request
  <2>3. same \in BOOLEAN
    OBVIOUS
  <2>4. (flow' = flow \/ flow' = [flow EXCEPT ![b] = f]) /\ cookie' = cookie
    BY <1>6, Zenon DEF githubBindStart
  <2> HIDE DEF same
  <2>5. f \in Flow
    BY <2>2, <2>3, Zenon DEF Flow
  <2> QED
    BY <1>1, <2>4, <2>5, Zenon
<1>7. ASSUME NEW b \in Browsers, githubCallback(b)
      PROVE  /\ cookie' \in [Browsers -> Session \cup {NoSession}]
             /\ flow' \in [Browsers -> Flow]
  BY <1>1, <1>2, <1>7, AccountTypes DEF githubCallback, GitHubTenant
<1>8. ASSUME NEW b \in Browsers, githubUnbind(b)
      PROVE  /\ cookie' \in [Browsers -> Session \cup {NoSession}]
             /\ flow' \in [Browsers -> Flow]
  <2>1. request[b].by \in Tenants
    BY <1>8 DEF githubUnbind, Serving, AccountsInv, RequestOK, TenantOps
  <2>2. \/ UNCHANGED <<cookie, flow>>
        \/ /\ setSession(b, request[b].by, tenant[request[b].by].version + 1)
           /\ tenant[request[b].by].version < MaxVersion
    BY <1>8, Zenon DEF githubUnbind
  <2>3. CASE /\ setSession(b, request[b].by, tenant[request[b].by].version + 1)
             /\ tenant[request[b].by].version < MaxVersion
    <3>1. tenant[request[b].by].version \in 0..MaxVersion
      BY <2>1, AccountTypes
    <3>2. tenant[request[b].by].version + 1 \in 0..MaxVersion
      BY <2>3, <3>1, AccountFacts
    <3> QED
      BY <1>2, <2>1, <2>3, <3>2
  <2> QED
    BY <1>1, <2>2, <2>3
<1>9. /\ \A b, i : RegisterRead(b, i) => UNCHANGED <<cookie, flow>>
      /\ \A b : RegisterRollback(b) => UNCHANGED <<cookie, flow>>
      /\ \A b, op, target : Authenticate(b, op, target) => UNCHANGED <<cookie, flow>>
      /\ \A b, op, t, target : AuthenticateFor(b, op, t, target) => UNCHANGED <<cookie, flow>>
      /\ \A b : adminTenants(b) \/ adminTenantUpdate(b) \/ adminPassword(b) => UNCHANGED <<cookie, flow>>
      /\ \A b : adminInvitations(b) \/ adminInvitationRevoke(b) => UNCHANGED <<cookie, flow>>
      /\ \A b : adminTenantDelete(b) \/ changePassword(b) => UNCHANGED <<cookie, flow>>
      /\ \A b : keys(b) \/ keyUpdate(b) \/ keyDelete(b) => UNCHANGED <<cookie, flow>>
      /\ \A i : InvitationExpires(i) => UNCHANGED <<cookie, flow>>
  BY Zenon DEF RegisterRead, RegisterRollback, Authenticate, AuthenticateFor, adminTenants, adminTenantUpdate,
     adminPassword, adminInvitations, adminInvitationRevoke, adminTenantDelete, changePassword, keys,
     keyUpdate, keyDelete, InvitationExpires
<1>10. UNCHANGED <<cookie, flow>> => /\ cookie' \in [Browsers -> Session \cup {NoSession}]
                                     /\ flow' \in [Browsers -> Flow]
  BY <1>1
<1> QED
  BY <1>3, <1>4, <1>5, <1>6, <1>7, <1>8, <1>9, <1>10, Zenon DEF AccountStep

-----------------------------------------------------------------------------
(* Registrations and invitations *)

\* What the invitations, the accounts' origins and the registrations under way
\* are after a step.
RegistrationsOK ==
    /\ invitation \in [Invitations -> Invitation]
    /\ joined \in [Tenants -> Invitations \cup {None}]
    /\ setup \in Browsers \cup {None}
    /\ JoinedOK(invitation, joined)
    /\ \A b \in Browsers : RegistrationOK(b, request[b], setup, tenant, invitation)

\* Registrations go on as long as nothing they have read changes.
LEMMA RegistrationsKept ==
    ASSUME AccountsInv, setup' = setup, joined' = joined,
           invitation' \in [Invitations -> Invitation], JoinedOK(invitation', joined),
           \A c \in Browsers : request'[c].op = "register" => request'[c] = request[c],
           (\A t \in Tenants : tenant[t].state # "live") <=> (\A t \in Tenants : tenant'[t].state # "live"),
           \A c \in Browsers : request[c].op = "register" /\ request[c].target # None =>
              /\ invitation'[request[c].target].used = invitation[request[c].target].used
              /\ invitation'[request[c].target].revoked = invitation[request[c].target].revoked
    PROVE  RegistrationsOK'
BY AccountTypes DEF AccountsInv, RegistrationOK, RegistrationsOK

\* Whoever registers holds the lock.
LEMMA OneRegistration ==
    ASSUME AccountsInv, NEW b \in Browsers, NEW c \in Browsers,
           request[b].op = "register", request[c].op = "register"
    PROVE  b = c
BY Zenon DEF AccountsInv, RegistrationOK

\* The end of a registration: the lock is free and nobody is registering.
LEMMA RegistrationEnds ==
    ASSUME AccountsInv, NEW b \in Browsers, request[b].op = "register", Answered(b), setup' = None,
           invitation' \in [Invitations -> Invitation], joined' \in [Tenants -> Invitations \cup {None}],
           JoinedOK(invitation', joined')
    PROVE  RegistrationsOK'
<1>1. request \in [Browsers -> Request] /\ NoRequest.op = "none"
  BY AccountTypes, NewRows
<1>2. \A c \in Browsers : request'[c].op # "register"
  BY <1>1, OneRegistration DEF Answered
<1>3. \A c \in Browsers : RegistrationOK(c, request'[c], setup', tenant', invitation')
  BY <1>2, Zenon DEF RegistrationOK
<1> QED
  BY <1>3 DEF RegistrationsOK

\* Register spends the invitation, which was good when it was locked.
LEMMA RegisterSpends ==
    ASSUME AccountsInv, NEW b \in Browsers, NEW t \in Tenants, register(b, t)
    PROVE  RegistrationsOK'
<1> DEFINE i == request[b].target
<1>1. /\ request[b].op = "register" /\ setup' = None /\ Answered(b)
      /\ joined' = [joined EXCEPT ![t] = i]
      /\ invitation' = IF i = None THEN invitation ELSE [invitation EXCEPT ![i].used = TRUE]
  BY Zenon DEF register
<1>2. /\ invitation \in [Invitations -> Invitation] /\ joined \in [Tenants -> Invitations \cup {None}]
      /\ JoinedOK(invitation, joined) /\ i \in Invitations \cup {None}
  BY <1>1, AccountTypes, Zenon DEF AccountsInv, RequestOK
<1>3. i # None => ~invitation[i].used /\ ~invitation[i].revoked
  BY <1>1, Zenon DEF AccountsInv, RegistrationOK
<1> HIDE DEF i
<1>4. /\ joined' \in [Tenants -> Invitations \cup {None}] /\ joined'[t] = i
      /\ \A u \in Tenants \ {t} : joined'[u] = joined[u]
  BY <1>1, <1>2, Zenon
<1>5. CASE i = None
  <2>1. invitation' = invitation
    BY <1>1, <1>5
  <2>2. \A j \in Invitations : j # i
    BY <1>5, AccountFacts
  <2>3. JoinedOK(invitation', joined')
    <3>1. ASSUME NEW j \in Invitations
          PROVE  \A u \in Tenants : joined'[u] = j => joined[u] = j
      BY <1>4, <2>2
    <3> QED
      BY <1>2, <2>1, <3>1, ZenonT(60) DEF JoinedOK
  <2> QED
    BY <1>1, <1>2, <1>4, <2>1, <2>3, RegistrationEnds
<1>6. CASE i # None
  <2>1. i \in Invitations /\ invitation[i] \in Invitation
    BY <1>2, <1>6
  <2>2. /\ [invitation[i] EXCEPT !.used = TRUE] \in Invitation
        /\ [invitation[i] EXCEPT !.used = TRUE].used
        /\ [invitation[i] EXCEPT !.used = TRUE].revoked = invitation[i].revoked
    BY <2>1, Zenon DEF Invitation
  <2>3. /\ invitation' \in [Invitations -> Invitation]
        /\ invitation'[i].used /\ invitation'[i].revoked = invitation[i].revoked
        /\ \A j \in Invitations \ {i} : invitation'[j] = invitation[j]
    BY <1>1, <1>2, <1>6, <2>1, <2>2, Zenon
  <2>4. \A u \in Tenants : joined[u] # i
    BY <1>2, <1>3, <1>6, <2>1, Zenon DEF JoinedOK
  <2>5. JoinedOK(invitation', joined')
    <3>1. ASSUME NEW j \in Invitations, j # i
          PROVE  /\ invitation'[j] = invitation[j]
                 /\ \A u \in Tenants : joined'[u] = j => joined[u] = j
      BY <1>4, <2>3, <3>1, Zenon
    <3>2. \A u \in Tenants : joined'[u] = i => u = t
      BY <1>4, <2>4, Zenon
    <3>3. invitation'[i].used /\ ~invitation'[i].revoked
      BY <1>3, <1>6, <2>3, Zenon
    <3>4. ASSUME NEW j \in Invitations
          PROVE  /\ ~(invitation'[j].used /\ invitation'[j].revoked)
                 /\ \A u \in Tenants : joined'[u] = j => invitation'[j].used
                 /\ \A u, v \in Tenants : joined'[u] = j /\ joined'[v] = j => u = v
      <4>1. CASE j = i
        BY <3>2, <3>3, <4>1
      <4>2. CASE j # i
        BY <1>2, <3>1, <4>2 DEF JoinedOK
      <4> QED
        BY <4>1, <4>2
    <3> QED
      BY <3>4, Zenon DEF JoinedOK
  <2> QED
    BY <1>1, <1>4, <2>3, <2>5, RegistrationEnds
<1> QED
  BY <1>5, <1>6

\* A registration begins: the lock was free, so nobody is registering.
LEMMA RegisterBegins ==
    ASSUME AccountsInv, NEW b \in Browsers, NEW i \in Invitations \cup {None}, RegisterRead(b, i)
    PROVE  /\ RegistrationsOK' /\ request' \in [Browsers -> Request]
           /\ \A c \in Browsers : RequestOK(request'[c]) /\ AdminsRequest(request'[c], tenant')
<1> DEFINE q == [NoRequest EXCEPT !.op = "register", !.target = i]
<1>1. /\ setup = None /\ setup' = b /\ request' = [request EXCEPT ![b] = q]
      /\ IF \A t \in Tenants : ~Live(t) THEN i = None ELSE i # None /\ Acceptable(i)
      /\ UNCHANGED <<tenant, invitation, joined>>
  BY Zenon DEF RegisterRead
<1>2. request \in [Browsers -> Request]
  BY AccountTypes
<1>3. q.op = "register" /\ q.target = i
  BY DEF NoRequest
<1>4. q \in Request
  BY AccountFacts DEF NoRequest, Request, Targets
<1> HIDE DEF q
<1>5. /\ request' \in [Browsers -> Request] /\ request'[b] = q
      /\ \A c \in Browsers \ {b} : request'[c] = request[c]
  BY <1>1, <1>2, <1>4, Zenon
<1>6. RequestOK(q) /\ AdminsRequest(q, tenant)
  BY <1>3 DEF RequestOK, AdminsRequest, AdminOps, TenantOps
<1>7. \A c \in Browsers : request[c].op # "register"
  BY <1>1, AccountFacts DEF AccountsInv, RegistrationOK
<1>8. RegistrationOK(b, q, b, tenant, invitation)
  BY <1>1, <1>3 DEF Live, Acceptable, RegistrationOK
<1>9. \A c \in Browsers : RegistrationOK(c, request'[c], setup', tenant', invitation')
  BY <1>1, <1>5, <1>7, <1>8, Zenon DEF RegistrationOK
<1>10. /\ invitation' \in [Invitations -> Invitation] /\ joined' \in [Tenants -> Invitations \cup {None}]
       /\ setup' \in Browsers \cup {None} /\ JoinedOK(invitation', joined')
  BY <1>1, AccountTypes, Zenon DEF AccountsInv
<1>11. RegistrationsOK'
  BY <1>9, <1>10 DEF RegistrationsOK
<1> QED
  BY <1>1, <1>5, <1>6, <1>11, Zenon DEF AccountsInv

\* Invitations are made, revoked and expire beside registrations.
LEMMA InvitationStep ==
    ASSUME AccountsInv,
           \/ \E b \in Browsers : adminInvitations(b) \/ adminInvitationRevoke(b)
           \/ \E i \in Invitations : InvitationExpires(i)
    PROVE  RegistrationsOK'
<1>1. /\ invitation \in [Invitations -> Invitation] /\ request \in [Browsers -> Request]
      /\ JoinedOK(invitation, joined) /\ NoRequest.op = "none"
  BY AccountTypes, NewRows DEF AccountsInv
<1>2. ASSUME NEW i \in Invitations, NEW row \in Invitation, invitation' = [invitation EXCEPT ![i] = row],
             row.used = invitation[i].used, row.revoked => ~row.used,
             row.revoked = invitation[i].revoked \/
                \A c \in Browsers : ~(request[c].op = "register" /\ request[c].target = i),
             UNCHANGED <<setup, joined, tenant>>,
             \A c \in Browsers : request'[c].op = "register" => request'[c] = request[c]
      PROVE  RegistrationsOK'
  <2>1. /\ invitation' \in [Invitations -> Invitation] /\ invitation'[i] = row
        /\ \A j \in Invitations \ {i} : invitation'[j] = invitation[j]
    BY <1>1, <1>2, Zenon
  <2>2. JoinedOK(invitation', joined)
    BY <1>1, <1>2, <2>1 DEF JoinedOK
  <2>3. \A c \in Browsers : request[c].op = "register" /\ request[c].target # None =>
           request[c].target \in Invitations
    BY Zenon DEF AccountsInv, RequestOK
  <2>4. \A c \in Browsers : request[c].op = "register" /\ request[c].target # None =>
              /\ invitation'[request[c].target].used = invitation[request[c].target].used
              /\ invitation'[request[c].target].revoked = invitation[request[c].target].revoked
    BY <1>2, <2>1, <2>3, Zenon
  <2> QED
    BY <1>2, <2>1, <2>2, <2>4, RegistrationsKept
<1>3. ASSUME NEW b \in Browsers, Answered(b)
      PROVE  \A c \in Browsers : request'[c].op = "register" => request'[c] = request[c]
  BY <1>1, <1>3 DEF Answered
<1>4. \A row \in Invitation :
         /\ [row EXCEPT !.exists = TRUE] \in Invitation /\ [row EXCEPT !.expired = TRUE] \in Invitation
         /\ [row EXCEPT !.exists = TRUE].used = row.used /\ [row EXCEPT !.expired = TRUE].used = row.used
         /\ [row EXCEPT !.exists = TRUE].revoked = row.revoked
         /\ [row EXCEPT !.expired = TRUE].revoked = row.revoked
         /\ [row EXCEPT !.revoked = TRUE] \in Invitation /\ [row EXCEPT !.revoked = TRUE].used = row.used
  BY Zenon DEF Invitation
<1>5. \A i \in Invitations : invitation[i] \in Invitation /\ (invitation[i].revoked => ~invitation[i].used)
  BY <1>1, Zenon DEF JoinedOK
<1>6. ASSUME NEW b \in Browsers, adminInvitations(b)
      PROVE  RegistrationsOK'
  <2> DEFINE i == request[b].target
             row == [invitation[i] EXCEPT !.exists = TRUE]
  <2>1. i \in Invitations
    BY <1>6 DEF adminInvitations, Serving, AccountsInv, RequestOK
  <2>2. invitation' = [invitation EXCEPT ![i] = row] /\ UNCHANGED <<setup, joined, tenant>> /\ Answered(b)
    BY <1>6, Zenon DEF adminInvitations, CreateInvitation
  <2>3. /\ row \in Invitation /\ row.used = invitation[i].used /\ row.revoked = invitation[i].revoked
        /\ row.revoked => ~row.used
    BY <1>4, <1>5, <2>1, Zenon
  <2> HIDE DEF row, i
  <2> QED
    BY <1>2, <1>3, <2>1, <2>2, <2>3
<1>7. ASSUME NEW i \in Invitations, InvitationExpires(i)
      PROVE  RegistrationsOK'
  <2> DEFINE row == [invitation[i] EXCEPT !.expired = TRUE]
  <2>1. invitation' = [invitation EXCEPT ![i] = row] /\ UNCHANGED <<setup, joined, tenant, request>>
    BY <1>7, Zenon DEF InvitationExpires
  <2>2. /\ row \in Invitation /\ row.used = invitation[i].used /\ row.revoked = invitation[i].revoked
        /\ row.revoked => ~row.used
    BY <1>4, <1>5, <1>7, Zenon
  <2> HIDE DEF row
  <2> QED
    BY <1>2, <1>7, <2>1, <2>2
<1>8. ASSUME NEW b \in Browsers, adminInvitationRevoke(b)
      PROVE  RegistrationsOK'
  <2> DEFINE i == request[b].target
             row == [invitation[i] EXCEPT !.revoked = TRUE]
  <2>1. i \in Invitations
    BY <1>8 DEF adminInvitationRevoke, Serving, AccountsInv, RequestOK
  <2>2. /\ \/ invitation' = invitation
           \/ invitation' = [invitation EXCEPT ![i] = row] /\ Acceptable(i)
        /\ UNCHANGED <<setup, joined, tenant>> /\ Answered(b)
        /\ \A c \in Browsers : ~(request[c].op = "register" /\ request[c].target = i)
    BY <1>8, Zenon DEF adminInvitationRevoke, RevokeInvitation, Serving
  <2>3. CASE invitation' = invitation
    BY <1>1, <1>3, <2>2, <2>3, RegistrationsKept
  <2>4. CASE invitation' = [invitation EXCEPT ![i] = row] /\ Acceptable(i)
    <3>1. /\ row \in Invitation /\ row.used = invitation[i].used /\ ~row.used
      BY <1>4, <1>5, <2>1, <2>4, Zenon DEF Acceptable
    <3> HIDE DEF row, i
    <3> QED
      BY <1>2, <1>3, <2>1, <2>2, <2>4, <3>1
  <2> QED
    BY <2>2, <2>3, <2>4
<1> QED
  BY <1>6, <1>7, <1>8

\* Nothing else touches invitations or the lock.
LEMMA RegistrationStep ==
    ASSUME AccountsInv, AccountStep
    PROVE  RegistrationsOK'
<1>2. \A t \in Tenants : (tenant[t].state = "live" => tenant'[t].state = "live") /\ (tenant[t].admin => tenant'[t].admin)
  BY AccountRowsKept
<1>3. ASSUME UNCHANGED <<invitation, joined, setup>>,
             \A b \in Browsers, t \in Tenants : ~register(b, t),
             \A b \in Browsers, i \in Invitations \cup {None} : ~RegisterRead(b, i)
      PROVE  RegistrationsOK'
  <2>1. \/ request' = request
        \/ \E b \in Browsers : \E q : NewRequest(b, q)
    BY <1>3, NewRequests
  <2>2. \A c \in Browsers : request'[c].op = "register" => request'[c] = request[c]
    BY <1>2, <2>1, RequestsKept
  <2>3. (\A t \in Tenants : tenant[t].state # "live") <=> (\A t \in Tenants : tenant'[t].state # "live")
    BY <1>2, <1>3, Founding
  <2>4. invitation' \in [Invitations -> Invitation] /\ JoinedOK(invitation', joined)
    BY <1>3, AccountTypes, Zenon DEF AccountsInv
  <2> QED
    BY <1>3, <2>2, <2>3, <2>4, RegistrationsKept
<1>4. CASE \E b \in Browsers, t \in Tenants : register(b, t)
  BY <1>4, RegisterSpends
<1>5. CASE \E b \in Browsers, i \in Invitations \cup {None} : RegisterRead(b, i)
  BY <1>5, RegisterBegins
<1>6. CASE \/ \E b \in Browsers : adminInvitations(b) \/ adminInvitationRevoke(b)
           \/ \E i \in Invitations : InvitationExpires(i)
  BY <1>6, InvitationStep
<1>7. ASSUME NEW b \in Browsers, RegisterRollback(b)
      PROVE  RegistrationsOK'
  BY <1>7, AccountTypes, RegistrationEnds DEF RegisterRollback, AccountsInv
<1>8. /\ \A b, t : tenantLogin(b, t) => UNCHANGED <<invitation, joined, setup>>
      /\ \A b : logout(b) => UNCHANGED <<invitation, joined, setup>>
      /\ \A b, op, target : Authenticate(b, op, target) => UNCHANGED <<invitation, joined, setup>>
      /\ \A b, op, t, target : AuthenticateFor(b, op, t, target) => UNCHANGED <<invitation, joined, setup>>
      /\ \A b : adminTenants(b) \/ adminTenantUpdate(b) \/ adminPassword(b) => UNCHANGED <<invitation, joined, setup>>
      /\ \A b : changePassword(b) \/ keys(b) \/ keyUpdate(b) \/ keyDelete(b) => UNCHANGED <<invitation, joined, setup>>
      /\ \A b : githubBindStart(b) \/ githubLoginStart(b) \/ githubFlowFails(b) => UNCHANGED <<invitation, joined, setup>>
      /\ \A b : githubUnbind(b) \/ githubCallback(b) => UNCHANGED <<invitation, joined, setup>>
      /\ \A b, g : githubReadFlow(b, g) => UNCHANGED <<invitation, joined, setup>>
  BY Zenon DEF tenantLogin, logout, Authenticate, AuthenticateFor, adminTenants, adminTenantUpdate,
     adminPassword, changePassword, keys, keyUpdate, keyDelete, githubBindStart, githubLoginStart,
     githubFlowFails, githubUnbind, githubCallback, githubReadFlow
<1> QED
  BY <1>3, <1>4, <1>5, <1>6, <1>7, <1>8, Zenon DEF AccountStep

-----------------------------------------------------------------------------
(* Keys *)

\* How the row of a key may change: it is made once, by hand only if it is
\* not a grant's, and a deleted one stays deleted; the key of a device is
\* switched off by its own operations only.
KeyAges(k, old, new) ==
    /\ new \in APIKey
    /\ old.state # "absent" => new.state # "absent" /\ new.tenant = old.tenant /\ new.source = old.source
    /\ old.state = "deleted" => new.state = "deleted"
    /\ k \in Grants => /\ old.state = "absent" => new = old
                       /\ old.state = "live" /\ old.source = "rai" => new.enabled = old.enabled

LEMMA KeyAgesSame ==
    ASSUME NEW k, NEW row \in APIKey
    PROVE  KeyAges(k, row, row)
BY Zenon DEF KeyAges

\* The keys after a step of a handler, and whose they are.
LEMMA KeyStep ==
    ASSUME AccountsInv, AccountStep
    PROVE  /\ key' \in [AllKeys -> APIKey]
           /\ \A k \in AllKeys : KeyAges(k, key[k], key'[k])
           /\ NoOrphanKeys'
<1>1. key \in [AllKeys -> APIKey] /\ \A k \in AllKeys : KeyAges(k, key[k], key[k])
  BY AccountTypes, KeyAgesSame
<1>2. NoOrphanKeys /\ \A t \in Tenants : tenant[t].state = "live" => tenant'[t].state = "live"
  BY AccountRowsKept DEF AccountsInv
<1>3. \A k \in AllKeys : key[k].state = "live" => key[k].tenant \in Tenants /\ tenant'[key[k].tenant].state = "live"
  BY <1>2, Zenon DEF NoOrphanKeys, Live
<1>4. ASSUME key' = key
      PROVE  /\ key' \in [AllKeys -> APIKey]
             /\ \A k \in AllKeys : KeyAges(k, key[k], key'[k])
             /\ NoOrphanKeys'
  BY <1>1, <1>3, <1>4, Zenon DEF NoOrphanKeys, Live
<1>5. ASSUME NEW k \in AllKeys, NEW row \in APIKey, key' = [key EXCEPT ![k] = row],
             KeyAges(k, key[k], row),
             row.state = "live" => row.tenant \in Tenants /\ tenant'[row.tenant].state = "live"
      PROVE  /\ key' \in [AllKeys -> APIKey]
             /\ \A l \in AllKeys : KeyAges(l, key[l], key'[l])
             /\ NoOrphanKeys'
  BY <1>1, <1>3, <1>5 DEF NoOrphanKeys, Live
<1>6. ASSUME NEW b \in Browsers, keys(b)
      PROVE  /\ key' \in [AllKeys -> APIKey]
             /\ \A k \in AllKeys : KeyAges(k, key[k], key'[k])
             /\ NoOrphanKeys'
  <2> DEFINE k == request[b].target
             t == request[b].by
             row == [state |-> "live", tenant |-> t, source |-> "manual", enabled |-> TRUE]
  <2>1. k \in Keys /\ t \in Tenants
    BY <1>6 DEF keys, Serving, AccountsInv, RequestOK, TenantOps
  <2>2. \/ key' = key
        \/ key' = [key EXCEPT ![k] = row] /\ key[k].state = "absent" /\ Live(t)
    BY <1>6, Zenon DEF keys, CreateKey
  <2>3. CASE key' = [key EXCEPT ![k] = row] /\ key[k].state = "absent" /\ Live(t)
    <3>1. row \in APIKey /\ row.state = "live" /\ row.tenant = t
      BY <2>1 DEF APIKey
    <3>2. k \in AllKeys /\ k \notin Grants /\ tenant[t].state = "live"
      BY <2>1, <2>3, AccountFacts DEF AllKeys, Live
    <3> HIDE DEF row, k, t
    <3>3. KeyAges(k, key[k], row)
      BY <2>3, <3>1, <3>2 DEF KeyAges
    <3>4. tenant'[t].state = "live"
      BY <1>2, <2>1, <3>2
    <3> QED
      BY <1>5, <2>1, <2>3, <3>1, <3>2, <3>3, <3>4
  <2> QED
    BY <1>4, <2>2, <2>3
<1>7. ASSUME NEW b \in Browsers, keyUpdate(b) \/ keyDelete(b)
      PROVE  /\ key' \in [AllKeys -> APIKey]
             /\ \A k \in AllKeys : KeyAges(k, key[k], key'[k])
             /\ NoOrphanKeys'
  <2> DEFINE k == request[b].target
             t == request[b].by
             enabled == Serving(b, "keyOn")
             switched == [key[k] EXCEPT !.enabled = enabled]
             dropped == [key[k] EXCEPT !.state = "deleted"]
  <2>1. k \in AllKeys
    BY <1>7 DEF keyUpdate, keyDelete, Serving, AccountsInv, RequestOK
  <2>2. \/ key' = key
        \/ key' = [key EXCEPT ![k] = switched] /\ key[k].state = "live" /\ key[k].source = "manual"
        \/ key' = [key EXCEPT ![k] = dropped] /\ key[k].state = "live"
    BY <1>7, Zenon DEF keyUpdate, keyDelete, UpdateKey, DeleteKey, Owned
  <2>3. enabled \in BOOLEAN /\ key[k] \in APIKey /\ "deleted" \in {"absent", "live", "deleted"}
    BY <1>1, <2>1 DEF Serving
  <2> HIDE DEF enabled
  <2>4. /\ switched \in APIKey /\ switched.state = key[k].state /\ switched.tenant = key[k].tenant
        /\ switched.source = key[k].source
    BY <2>3, Zenon DEF APIKey
  <2>5. /\ dropped \in APIKey /\ dropped.state = "deleted" /\ dropped.tenant = key[k].tenant
        /\ dropped.source = key[k].source /\ dropped.enabled = key[k].enabled
    BY <2>3, Zenon DEF APIKey
  <2> HIDE DEF switched, dropped, k
  <2>6. CASE key' = [key EXCEPT ![k] = switched] /\ key[k].state = "live" /\ key[k].source = "manual"
    BY <1>3, <1>5, <2>1, <2>4, <2>6 DEF KeyAges
  <2>7. CASE key' = [key EXCEPT ![k] = dropped] /\ key[k].state = "live"
    BY <1>5, <2>1, <2>5, <2>7 DEF KeyAges
  <2> QED
    BY <1>4, <2>2, <2>6, <2>7
<1>8. /\ \A b, i : RegisterRead(b, i) => key' = key
      /\ \A b, t : register(b, t) \/ tenantLogin(b, t) => key' = key
      /\ \A b : RegisterRollback(b) \/ logout(b) => key' = key
      /\ \A b, op, target : Authenticate(b, op, target) => key' = key
      /\ \A b, op, t, target : AuthenticateFor(b, op, t, target) => key' = key
      /\ \A b : adminTenants(b) \/ adminTenantUpdate(b) \/ adminPassword(b) => key' = key
      /\ \A b : adminInvitations(b) \/ adminInvitationRevoke(b) \/ changePassword(b) => key' = key
      /\ \A b : githubBindStart(b) \/ githubLoginStart(b) \/ githubFlowFails(b) => key' = key
      /\ \A b : githubUnbind(b) \/ githubCallback(b) => key' = key
      /\ \A b, g : githubReadFlow(b, g) => key' = key
      /\ \A i : InvitationExpires(i) => key' = key
  BY Zenon DEF RegisterRead, register, tenantLogin, RegisterRollback, logout, Authenticate, AuthenticateFor,
     adminTenants, adminTenantUpdate, adminPassword, adminInvitations, adminInvitationRevoke, changePassword,
     githubBindStart, githubLoginStart, githubFlowFails, githubUnbind, githubCallback, githubReadFlow,
     InvitationExpires
<1> QED
  BY <1>4, <1>6, <1>7, <1>8, Zenon DEF AccountStep

-----------------------------------------------------------------------------
(* The invariant of the accounts *)

\* Every step but a deletion keeps it.
LEMMA AccountsKept ==
    ASSUME AccountsInv, AccountStep
    PROVE  AccountsInv'
<1>1. /\ tenant' \in [Tenants -> Tenant] /\ AdministratorOK(tenant')
      /\ \A t \in Tenants : tenant[t].admin => tenant'[t].admin
  BY AccountRowsKept
<1>2. /\ request' \in [Browsers -> Request]
      /\ \A c \in Browsers : RequestOK(request'[c]) /\ AdminsRequest(request'[c], tenant')
  <2>1. CASE request' = request
    <3>1. \A c \in Browsers : RequestOK(request[c]) /\ AdminsRequest(request[c], tenant)
      BY DEF AccountsInv
    <3>2. \A c \in Browsers : AdminsRequest(request[c], tenant')
      BY <1>1, <3>1 DEF RequestOK, AdminsRequest
    <3> QED
      BY <2>1, <3>1, <3>2, AccountTypes
  <2>2. CASE \E b \in Browsers : \E q : NewRequest(b, q)
    BY <1>1, <2>2, RequestsKept
  <2>3. CASE \E b \in Browsers, i \in Invitations \cup {None} : RegisterRead(b, i)
    BY <2>3, RegisterBegins
  <2> QED
    BY <2>1, <2>2, <2>3, NewRequests
<1>3. cookie' \in [Browsers -> Session \cup {NoSession}] /\ flow' \in [Browsers -> Flow]
  BY CookieStep
<1>4. RegistrationsOK'
  BY RegistrationStep
<1>5. key' \in [AllKeys -> APIKey] /\ NoOrphanKeys'
  BY KeyStep
<1>6. /\ invitation' \in [Invitations -> Invitation] /\ joined' \in [Tenants -> Invitations \cup {None}]
      /\ setup' \in Browsers \cup {None} /\ JoinedOK(invitation', joined')
      /\ \A b \in Browsers : RegistrationOK(b, request'[b], setup', tenant', invitation')
  BY <1>4 DEF RegistrationsOK
<1>7. AccountsTypeOK'
  BY <1>1, <1>2, <1>3, <1>5, <1>6, Zenon DEF AccountsTypeOK
<1> QED
  BY <1>1, <1>2, <1>5, <1>6, <1>7, Zenon DEF AccountsInv

\* A deletion takes the account's keys with it, and is never the
\* administrator's.
LEMMA DeletionKept ==
    ASSUME AccountsInv, NEW b \in Browsers, adminTenantDelete(b)
    PROVE  /\ AccountsInv'
           /\ \A t \in Tenants : Ages(tenant[t], tenant'[t])
           /\ \A k \in AllKeys : KeyAges(k, key[k], key'[k])
<1> DEFINE t == request[b].target
           row == [tenant[t] EXCEPT !.state = "deleted", !.github = None]
           rest == [k \in AllKeys |-> IF key[k].state = "live" /\ key[k].tenant = t
                                      THEN [key[k] EXCEPT !.state = "deleted"] ELSE key[k]]
<1>1. request[b].op = "delete" /\ Answered(b) /\ UNCHANGED <<invitation, joined, cookie, flow, setup>>
  BY Zenon DEF adminTenantDelete, Serving
<1>2. \/ UNCHANGED <<tenant, key>>
      \/ /\ t # request[b].by /\ Live(t) /\ key' = rest
         /\ tenant' = [tenant EXCEPT ![t] = row]
  BY Zenon DEF adminTenantDelete
<1>3. t \in Tenants /\ request[b].op \in AdminOps
  BY <1>1 DEF AccountsInv, RequestOK, AdminOps
<1>4. tenant[t] \in Tenant /\ tenant[t].version \in 0..MaxVersion /\ tenant \in [Tenants -> Tenant]
  BY <1>3, AccountTypes
<1>5. t # request[b].by => ~tenant[t].admin
  BY <1>3, OtherAccount
<1>6. /\ row \in Tenant /\ row.state = "deleted" /\ row.admin = tenant[t].admin
      /\ row.version = tenant[t].version
  BY <1>4, DeletedUpdate, Zenon
<1> HIDE DEF row, t
<1>7. WrittenRow \/ tenant' = tenant
  <2>1. CASE t # request[b].by /\ Live(t) /\ tenant' = [tenant EXCEPT ![t] = row]
    <3>1. tenant[t].state = "live" /\ ~tenant[t].admin /\ tenant[t].version <= row.version
      BY <1>4, <1>5, <1>6, <2>1, AccountFacts DEF Live
    <3>2. Ages(tenant[t], row)
      BY <1>6, <3>1 DEF Ages
    <3>3. Writes(t, row)
      BY <3>1, <3>2 DEF Writes
    <3> QED
      BY <1>3, <1>6, <2>1, <3>3, Zenon DEF WrittenRow
  <2> QED
    BY <1>2, <2>1
<1>8. /\ tenant' \in [Tenants -> Tenant] /\ AdministratorOK(tenant')
      /\ \A u \in Tenants : tenant[u].admin => tenant'[u].admin
      /\ \A u \in Tenants : Ages(tenant[u], tenant'[u])
  BY <1>7, RowsKept
<1>9. NewRequest(b, NoRequest)
  BY <1>1, AnsweredRequest
<1>10. /\ request' \in [Browsers -> Request]
       /\ \A c \in Browsers : RequestOK(request'[c]) /\ AdminsRequest(request'[c], tenant')
       /\ \A c \in Browsers : request'[c].op = "register" => request'[c] = request[c]
  BY <1>8, <1>9, RequestsKept
<1>11. RegistrationsOK'
  BY <1>1, <1>3, <1>8, <1>10, AccountTypes, RegistrationsKept DEF AccountsInv, RequestOK,
     AdminsRequest, AdministratorOK
<1>12. /\ invitation' \in [Invitations -> Invitation] /\ joined' \in [Tenants -> Invitations \cup {None}]
       /\ setup' \in Browsers \cup {None} /\ JoinedOK(invitation', joined')
       /\ \A c \in Browsers : RegistrationOK(c, request'[c], setup', tenant', invitation')
  BY <1>11 DEF RegistrationsOK
<1>13. /\ key' \in [AllKeys -> APIKey] /\ NoOrphanKeys'
       /\ \A k \in AllKeys : KeyAges(k, key[k], key'[k])
  <2>1. key \in [AllKeys -> APIKey] /\ (\A k \in AllKeys : KeyAges(k, key[k], key[k])) /\ NoOrphanKeys
    BY AccountTypes, KeyAgesSame DEF AccountsInv
  <2>2. CASE UNCHANGED <<tenant, key>>
    BY <2>1, <2>2 DEF NoOrphanKeys, Live
  <2>3. CASE key' = rest /\ tenant' = [tenant EXCEPT ![t] = row]
    <3>1. ASSUME NEW k \in AllKeys
          PROVE  /\ key'[k] \in APIKey /\ KeyAges(k, key[k], key'[k])
                 /\ key'[k].state = "live" => key'[k].tenant \in Tenants /\ tenant'[key'[k].tenant].state = "live"
      <4>1. key[k] \in APIKey
        BY <2>1
      <4>2. CASE key[k].state = "live" /\ key[k].tenant = t
        <5> DEFINE dropped == [key[k] EXCEPT !.state = "deleted"]
        <5>1. key'[k] = dropped
          BY <2>3, <4>2
        <5>2. "deleted" \in {"absent", "live", "deleted"}
          OBVIOUS
        <5>3. /\ dropped \in APIKey /\ dropped.state = "deleted" /\ dropped.tenant = key[k].tenant
              /\ dropped.source = key[k].source /\ dropped.enabled = key[k].enabled
          BY <4>1, <5>2, Zenon DEF APIKey
        <5> HIDE DEF dropped
        <5>4. KeyAges(k, key[k], dropped)
          BY <4>2, <5>3 DEF KeyAges
        <5> QED
          BY <5>1, <5>3, <5>4
      <4>3. CASE ~(key[k].state = "live" /\ key[k].tenant = t)
        BY <1>4, <2>1, <2>3, <4>1, <4>3 DEF NoOrphanKeys, Live
      <4> QED
        BY <4>2, <4>3
    <3>2. key' \in [AllKeys -> APIKey]
      BY <2>3, <3>1
    <3> QED
      BY <3>1, <3>2, Zenon DEF NoOrphanKeys, Live
  <2> QED
    BY <1>2, <2>2, <2>3
<1>14. cookie' \in [Browsers -> Session \cup {NoSession}] /\ flow' \in [Browsers -> Flow]
  BY <1>1, AccountTypes
<1>15. AccountsTypeOK'
  BY <1>8, <1>10, <1>12, <1>13, <1>14, Zenon DEF AccountsTypeOK
<1>16. AccountsInv'
  BY <1>8, <1>10, <1>12, <1>13, <1>15, Zenon DEF AccountsInv
<1> QED
  BY <1>8, <1>13, <1>16

-----------------------------------------------------------------------------
(* The inductive invariant of the grants *)

Lock == [by : Browsers \cup {None}, tenant : Tenants \cup {None}, version : 0..MaxVersion]

\* A grant that has been cut off cannot be used again: its session or its
\* account is gone, the password has moved on, or its key is gone or off.
CutOff(row, held, own, rows) ==
    /\ held.state # "absent"
    /\ \/ held.state = "deleted"
       \/ rows[held.tenant].state = "deleted"
       \/ held.version < rows[held.tenant].version
       \/ row.purpose = "inference" /\ (own.state = "deleted" \/ ~own.enabled)

\* A session belongs to an account that existed, and to a password version of it.
HeldOK(row, held, own, rows) ==
    held.state # "absent" =>
        /\ held.tenant \in Tenants /\ rows[held.tenant].state # "absent"
        /\ held.version <= rows[held.tenant].version
        /\ row.purpose = "inference" => own.state # "absent"

\* An approval under way holds a pending row, and what it read of the account
\* was true.
LockOK(row, locking, rows) ==
    locking # NoLock =>
        /\ row.state = "live" /\ row.status = "pending"
        /\ locking.by \in Browsers /\ locking.tenant \in Tenants
        /\ rows[locking.tenant].state # "absent" /\ locking.version <= rows[locking.tenant].version

\* The rows of one grant: its authorisation, the lock, its session and its key.
GrantOK(row, locking, held, own, isCut, rows) ==
    /\ row \in Authorization /\ locking \in Lock /\ held \in OAuthSession
    /\ held.state = "absent" <=> row.status \in {"pending", "denied"}
    /\ row.state = "absent" => row.status = "pending"
    /\ row.status = "pending" => row.tenant = None
    /\ own.state # "absent" => held.state # "absent" /\ row.purpose = "inference" /\ own.source = "rai"
    /\ HeldOK(row, held, own, rows)
    /\ LockOK(row, locking, rows)
    /\ isCut => CutOff(row, held, own, rows)

GrantHere(a) == GrantOK(auth[a], locked[a], session[a], key[a], a \in cut, tenant)

DeviceTables ==
    /\ auth \in [Grants -> Authorization] /\ locked \in [Grants -> Lock]
    /\ session \in [Grants -> OAuthSession] /\ access \in SUBSET Grants /\ cut \in SUBSET Grants

\* CutStaysCut is not inductive: that a grant is cut off for good needs what
\* its rows say of the account, and what an approval under way has read.
DeviceInv ==
    /\ AccountsInv
    /\ DeviceTables
    /\ \A a \in Grants : GrantHere(a)

-----------------------------------------------------------------------------
(* How the rows of a grant may change *)

\* An authorisation that nobody decides.
RowAges(old, new) ==
    /\ new \in Authorization
    /\ new.status = old.status /\ new.purpose = old.purpose /\ new.tenant = old.tenant
    /\ new.state = "absent" <=> old.state = "absent"
    /\ old.state = "deleted" => new.state = "deleted"
    /\ old.expired => new.expired

\* A session, once it exists.
SessionAges(old, new) ==
    /\ new \in OAuthSession
    /\ new.tenant = old.tenant /\ new.version = old.version
    /\ new.state = "absent" <=> old.state = "absent"
    /\ old.state = "deleted" => new.state = "deleted"
    /\ old.expired => new.expired

\* The key of a device is never switched on again.
KeyWanes(old, new) ==
    /\ new \in APIKey
    /\ new.state = "absent" <=> old.state = "absent"
    /\ new.source = old.source
    /\ old.state = "deleted" => new.state = "deleted"
    /\ old.state = "live" /\ old.source = "rai" => (new.enabled => old.enabled)

LEMMA RowAgesSame ==
    ASSUME NEW row \in Authorization
    PROVE  RowAges(row, row)
BY Zenon DEF RowAges

LEMMA SessionAgesSame ==
    ASSUME NEW row \in OAuthSession
    PROVE  SessionAges(row, row)
BY Zenon DEF SessionAges

LEMMA KeyWanesSame ==
    ASSUME NEW row \in APIKey
    PROVE  KeyWanes(row, row)
BY Zenon DEF KeyWanes

\* The steps of the accounts let keys wane.
LEMMA KeyAgesWanes ==
    ASSUME NEW a \in Grants, NEW old, NEW new, KeyAges(a, old, new)
    PROVE  KeyWanes(old, new)
<1>1. CASE old.state = "absent"
  BY <1>1 DEF KeyAges, KeyWanes
<1>2. CASE old.state # "absent"
  BY <1>2, Zenon DEF KeyAges, KeyWanes
<1> QED
  BY <1>1, <1>2

\* An authorisation's time is up.
LEMMA RowExpires ==
    ASSUME NEW row \in Authorization
    PROVE  RowAges(row, [row EXCEPT !.expired = TRUE])
<1> DEFINE new == [row EXCEPT !.expired = TRUE]
<1>1. /\ new \in Authorization /\ new.status = row.status /\ new.purpose = row.purpose
      /\ new.tenant = row.tenant /\ new.state = row.state /\ new.expired
  BY Zenon DEF Authorization
<1> HIDE DEF new
<1>2. RowAges(row, new)
  BY <1>1, Zenon DEF RowAges
<1> QED
  BY <1>2 DEF new

\* It is swept, or goes with the account that decided it.
LEMMA RowGoes ==
    ASSUME NEW row \in Authorization, row.state = "live"
    PROVE  RowAges(row, [row EXCEPT !.state = "deleted"])
<1> DEFINE new == [row EXCEPT !.state = "deleted"]
<1>1. "deleted" \in {"absent", "live", "deleted"}
  OBVIOUS
<1>2. /\ new \in Authorization /\ new.status = row.status /\ new.purpose = row.purpose
      /\ new.tenant = row.tenant /\ new.state = "deleted" /\ new.expired = row.expired
  BY <1>1, Zenon DEF Authorization
<1> HIDE DEF new
<1>3. RowAges(row, new)
  BY <1>2 DEF RowAges
<1> QED
  BY <1>3 DEF new

\* Its tokens are handed out.
LEMMA RowConsumed ==
    ASSUME NEW row \in Authorization
    PROVE  LET new == [row EXCEPT !.status = "consumed"] IN
              /\ new \in Authorization /\ new.status = "consumed" /\ new.tenant = row.tenant
              /\ new.purpose = row.purpose /\ new.state = row.state /\ new.expired = row.expired
BY DEF Authorization

\* A session expires.
LEMMA SessionEnds ==
    ASSUME NEW row \in OAuthSession
    PROVE  SessionAges(row, [row EXCEPT !.expired = TRUE])
<1> DEFINE new == [row EXCEPT !.expired = TRUE]
<1>1. /\ new \in OAuthSession /\ new.version = row.version
      /\ new.tenant = row.tenant /\ new.state = row.state /\ new.expired
  BY Zenon DEF OAuthSession
<1> HIDE DEF new
<1>2. SessionAges(row, new)
  BY <1>1, Zenon DEF SessionAges
<1> QED
  BY <1>2 DEF new

\* It is revoked or swept.
LEMMA SessionGoes ==
    ASSUME NEW row \in OAuthSession, row.state = "live"
    PROVE  /\ SessionAges(row, [row EXCEPT !.state = "deleted"])
           /\ [row EXCEPT !.state = "deleted"].state = "deleted"
<1> DEFINE new == [row EXCEPT !.state = "deleted"]
<1>1. "deleted" \in {"absent", "live", "deleted"}
  OBVIOUS
<1>2. /\ new \in OAuthSession /\ new.version = row.version
      /\ new.tenant = row.tenant /\ new.state = "deleted" /\ new.expired = row.expired
  BY <1>1, Zenon DEF OAuthSession
<1> HIDE DEF new
<1>3. SessionAges(row, new)
  BY <1>2 DEF SessionAges
<1> QED
  BY <1>2, <1>3 DEF new

\* Its refresh token is rotated.
LEMMA SessionRotates ==
    ASSUME NEW row \in OAuthSession, NEW n \in 0..MaxRotation
    PROVE  SessionAges(row, [row EXCEPT !.refresh = n])
<1> DEFINE new == [row EXCEPT !.refresh = n]
<1>1. /\ new \in OAuthSession /\ new.version = row.version
      /\ new.tenant = row.tenant /\ new.state = row.state /\ new.expired = row.expired
  BY Zenon DEF OAuthSession
<1> HIDE DEF new
<1>2. SessionAges(row, new)
  BY <1>1, Zenon DEF SessionAges
<1> QED
  BY <1>2 DEF new

\* The key of a device is switched off.
LEMMA KeyOff ==
    ASSUME NEW row \in APIKey
    PROVE  /\ KeyWanes(row, [row EXCEPT !.enabled = FALSE])
           /\ ~[row EXCEPT !.enabled = FALSE].enabled
           /\ [row EXCEPT !.enabled = FALSE].state = row.state
           /\ [row EXCEPT !.enabled = FALSE].tenant = row.tenant
<1> DEFINE new == [row EXCEPT !.enabled = FALSE]
<1>1. /\ new \in APIKey /\ new.state = row.state /\ new.source = row.source
      /\ new.tenant = row.tenant /\ new.enabled = FALSE
  BY Zenon DEF APIKey
<1> HIDE DEF new
<1>2. KeyWanes(row, new) /\ ~new.enabled
  BY <1>1, Zenon DEF KeyWanes
<1> QED
  BY <1>1, <1>2 DEF new

-----------------------------------------------------------------------------
(* Grants that a step leaves undecided *)

\* The rows of grant a only age, and it is cut off only when it really is.
GrantAges(a) ==
    /\ RowAges(auth[a], auth'[a]) /\ SessionAges(session[a], session'[a]) /\ KeyWanes(key[a], key'[a])
    /\ locked'[a] = locked[a]
    /\ locked[a] # NoLock => auth'[a].state = "live"
    /\ a \in cut => a \in cut'
    /\ a \in cut' => a \in cut \/ CutOff(auth'[a], session'[a], key'[a], tenant')

\* What has been cut off stays cut off while accounts and rows age.
LEMMA CutOffAges ==
    ASSUME NEW row, NEW held, NEW own, NEW rows, NEW row2, NEW held2, NEW own2, NEW rows2,
           held \in OAuthSession, \A t \in Tenants : rows[t] \in Tenant /\ Ages(rows[t], rows2[t]),
           RowAges(row, row2), SessionAges(held, held2), KeyWanes(own, own2),
           HeldOK(row, held, own, rows), own.state # "absent" => own.source = "rai", own \in APIKey,
           CutOff(row, held, own, rows)
    PROVE  CutOff(row2, held2, own2, rows2)
<1> DEFINE t == held.tenant
<1>1. held.state # "absent" /\ held2.state # "absent" /\ held2.tenant = t /\ held2.version = held.version
  BY Zenon DEF CutOff, SessionAges
<1>2. t \in Tenants /\ rows[t].state # "absent" /\ (row.purpose = "inference" => own.state # "absent")
  BY <1>1, Zenon DEF HeldOK
<1>3. /\ rows[t].version <= rows2[t].version
      /\ rows[t].state = "deleted" => rows2[t].state = "deleted"
  BY <1>2, Zenon DEF Ages
<1>4. rows[t].version \in Nat /\ rows2[t].version \in Nat /\ held.version \in Nat
  BY <1>2, AccountFacts DEF Ages, Tenant, OAuthSession
<1>5. held.version < rows[t].version => held2.version < rows2[t].version
  BY <1>1, <1>3, <1>4
<1>6. row2.purpose = row.purpose
  BY Zenon DEF RowAges
<1>7. own.state = "deleted" => own2.state = "deleted"
  BY Zenon DEF KeyWanes
<1>8. own.state \in {"absent", "live", "deleted"}
  BY Zenon DEF APIKey
<1>9. row.purpose = "inference" /\ ~own.enabled => own2.state = "deleted" \/ ~own2.enabled
  BY <1>2, <1>7, <1>8 DEF KeyWanes
<1>10. held.state = "deleted" => held2.state = "deleted"
  BY Zenon DEF SessionAges
<1> HIDE DEF t
<1> QED
  BY <1>1, <1>3, <1>5, <1>6, <1>7, <1>9, <1>10, Zenon DEF CutOff, t

\* A lock keeps what it read.
LEMMA LockAges ==
    ASSUME NEW row, NEW locking \in Lock, NEW rows, NEW row2, NEW rows2,
           \A t \in Tenants : rows[t] \in Tenant /\ Ages(rows[t], rows2[t]),
           row2.status = row.status, locking # NoLock => row2.state = "live",
           LockOK(row, locking, rows)
    PROVE  LockOK(row2, locking, rows2)
<1> SUFFICES ASSUME locking # NoLock
             PROVE  LockOK(row2, locking, rows2)
  BY Zenon DEF LockOK
<1> DEFINE t == locking.tenant
<1>1. /\ row.status = "pending" /\ locking.by \in Browsers /\ t \in Tenants
      /\ rows[t].state # "absent" /\ locking.version <= rows[t].version
  BY Zenon DEF LockOK
<1>2. rows2[t].state # "absent" /\ rows[t].version <= rows2[t].version
  BY <1>1, Zenon DEF Ages
<1>3. rows[t].version \in 0..MaxVersion /\ rows2[t].version \in 0..MaxVersion /\ locking.version \in 0..MaxVersion
  BY <1>1, Zenon DEF Ages, Tenant, Lock
<1>4. locking.version <= rows2[t].version
  BY <1>1, <1>2, <1>3, AccountFacts
<1> QED
  BY <1>1, <1>2, <1>4, Zenon DEF LockOK

\* A session keeps its account.
LEMMA HeldAges ==
    ASSUME NEW row, NEW held \in OAuthSession, NEW own, NEW rows, NEW row2, NEW held2, NEW own2, NEW rows2,
           \A t \in Tenants : rows[t] \in Tenant /\ Ages(rows[t], rows2[t]),
           RowAges(row, row2), SessionAges(held, held2), KeyWanes(own, own2),
           HeldOK(row, held, own, rows)
    PROVE  HeldOK(row2, held2, own2, rows2)
<1> DEFINE t == held.tenant
<1> SUFFICES ASSUME held2.state # "absent"
             PROVE  HeldOK(row2, held2, own2, rows2)
  BY Zenon DEF HeldOK
<1>1. held.state # "absent" /\ held2.tenant = t /\ held2.version = held.version
  BY Zenon DEF SessionAges
<1>2. /\ t \in Tenants /\ rows[t].state # "absent" /\ held.version <= rows[t].version
      /\ row.purpose = "inference" => own.state # "absent"
  BY <1>1, Zenon DEF HeldOK
<1>3. rows2[t].state # "absent" /\ rows[t].version <= rows2[t].version
  BY <1>2, Zenon DEF Ages
<1>4. rows[t].version \in 0..MaxVersion /\ rows2[t].version \in 0..MaxVersion /\ held.version \in 0..MaxVersion
  BY <1>2, Zenon DEF Ages, Tenant, OAuthSession
<1>5. held.version <= rows2[t].version
  BY <1>2, <1>3, <1>4, AccountFacts
<1>6. row2.purpose = "inference" => own2.state # "absent"
  BY <1>2, Zenon DEF RowAges, KeyWanes
<1> HIDE DEF t
<1> QED
  BY <1>1, <1>2, <1>3, <1>5, <1>6, Zenon DEF HeldOK

\* A grant whose rows only age is still in order.
LEMMA GrantStays ==
    ASSUME AccountsInv, \A t \in Tenants : Ages(tenant[t], tenant'[t]),
           NEW a \in Grants, GrantHere(a), GrantAges(a)
    PROVE  GrantHere(a)'
<1>1. \A t \in Tenants : tenant[t] \in Tenant /\ Ages(tenant[t], tenant'[t])
  BY AccountTypes
<1>2. key[a] \in APIKey
  BY AccountTypes, Zenon DEF AllKeys
<1>3. /\ auth[a] \in Authorization /\ locked[a] \in Lock /\ session[a] \in OAuthSession
      /\ session[a].state = "absent" <=> auth[a].status \in {"pending", "denied"}
      /\ auth[a].state = "absent" => auth[a].status = "pending"
      /\ auth[a].status = "pending" => auth[a].tenant = None
      /\ key[a].state # "absent" => session[a].state # "absent" /\ auth[a].purpose = "inference" /\ key[a].source = "rai"
      /\ HeldOK(auth[a], session[a], key[a], tenant)
      /\ LockOK(auth[a], locked[a], tenant)
      /\ a \in cut => CutOff(auth[a], session[a], key[a], tenant)
  BY Zenon DEF GrantHere, GrantOK
<1>4. /\ RowAges(auth[a], auth'[a]) /\ SessionAges(session[a], session'[a]) /\ KeyWanes(key[a], key'[a])
      /\ locked'[a] = locked[a]
      /\ locked[a] # NoLock => auth'[a].state = "live"
      /\ a \in cut' => a \in cut \/ CutOff(auth'[a], session'[a], key'[a], tenant')
  BY Zenon DEF GrantAges
<1>5. auth'[a] \in Authorization /\ session'[a] \in OAuthSession /\ auth'[a].status = auth[a].status
  BY <1>4, Zenon DEF RowAges, SessionAges
<1>6. /\ session'[a].state = "absent" <=> auth'[a].status \in {"pending", "denied"}
      /\ auth'[a].state = "absent" => auth'[a].status = "pending"
      /\ auth'[a].status = "pending" => auth'[a].tenant = None
      /\ key'[a].state # "absent" => session'[a].state # "absent" /\ auth'[a].purpose = "inference" /\ key'[a].source = "rai"
  BY <1>3, <1>4, Zenon DEF RowAges, SessionAges, KeyWanes
<1>7. HeldOK(auth'[a], session'[a], key'[a], tenant')
  BY <1>1, <1>3, <1>4, HeldAges
<1>8. LockOK(auth'[a], locked'[a], tenant')
  BY <1>1, <1>3, <1>4, <1>5, LockAges
<1>9. a \in cut' => CutOff(auth'[a], session'[a], key'[a], tenant')
  BY <1>1, <1>2, <1>3, <1>4, CutOffAges
<1> QED
  BY <1>3, <1>4, <1>5, <1>6, <1>7, <1>8, <1>9, Zenon DEF GrantHere, GrantOK

\* GrantState, of the rows it reads.
Phase(row, held, isCut) ==
    IF row.state = "absent" THEN "none"
    ELSE IF \/ isCut \/ row.status = "denied"
            \/ /\ row.status \in {"pending", "approved"}
               /\ row.expired \/ row.state # "live"
            \/ /\ row.status \in {"approved", "consumed"}
               /\ held.expired \/ held.state = "deleted"
         THEN "over"
    ELSE CASE row.status = "pending" -> "asked"
           [] row.status = "approved" -> "ready"
           [] row.status = "consumed" -> "held"

LEMMA PhaseOf ==
    /\ \A a : GrantState(a) = Phase(auth[a], session[a], a \in cut)
    /\ \A a : GrantState(a)' = Phase(auth'[a], session'[a], a \in cut')
BY Zenon DEF GrantState, Phase, Row

\* Rows that age end a grant or leave it where it is.
LEMMA PhaseAges ==
    ASSUME NEW row \in Authorization, NEW held \in OAuthSession, NEW isCut \in BOOLEAN,
           NEW row2, NEW held2, NEW isCut2 \in BOOLEAN,
           RowAges(row, row2), SessionAges(held, held2), isCut => isCut2
    PROVE  \/ Phase(row2, held2, isCut2) = Phase(row, held, isCut)
           \/ Phase(row, held, isCut) # "none" /\ Phase(row2, held2, isCut2) = "over"
<1>1. row.status \in {"pending", "approved", "denied", "consumed"} /\ row.state \in {"absent", "live", "deleted"}
  BY Zenon DEF Authorization
<1>2. row2.state \in {"absent", "live", "deleted"}
  BY Zenon DEF RowAges, Authorization
<1>3. /\ row2.status = row.status /\ (row2.state = "absent" <=> row.state = "absent")
      /\ row.state = "deleted" => row2.state = "deleted"
      /\ row.expired => row2.expired
      /\ held.state = "deleted" => held2.state = "deleted"
      /\ held.expired => held2.expired
  BY Zenon DEF RowAges, SessionAges
<1> DEFINE over(r, h, c) == \/ c \/ r.status = "denied"
                            \/ /\ r.status \in {"pending", "approved"}
                               /\ r.expired \/ r.state # "live"
                            \/ /\ r.status \in {"approved", "consumed"}
                               /\ h.expired \/ h.state = "deleted"
<1>4. over(row, held, isCut) => over(row2, held2, isCut2)
  BY <1>1, <1>2, <1>3
<1>5. CASE row.state = "absent"
  BY <1>3, <1>5, Zenon DEF Phase
<1>6. CASE row.state # "absent" /\ over(row2, held2, isCut2)
  <2>1. Phase(row2, held2, isCut2) = "over"
    BY <1>3, <1>6, Zenon DEF Phase
  <2>2. Phase(row, held, isCut) \in {"over", "asked", "ready", "held"}
    BY <1>1, <1>6 DEF Phase
  <2> QED
    BY <2>1, <2>2
<1>7. CASE row.state # "absent" /\ ~over(row2, held2, isCut2)
  <2>1. ~over(row, held, isCut)
    BY <1>4, <1>7, Zenon
  <2> DEFINE then == CASE row.status = "pending" -> "asked"
                       [] row.status = "approved" -> "ready"
                       [] row.status = "consumed" -> "held"
  <2>2. Phase(row, held, isCut) = then
    BY <1>7, <2>1, Zenon DEF Phase
  <2>3. Phase(row2, held2, isCut2) = then
    BY <1>3, <1>7 DEF Phase
  <2> QED
    BY <2>2, <2>3, Zenon
<1> QED
  BY <1>5, <1>6, <1>7, Zenon

LEMMA GrantMoves ==
    ASSUME NEW a \in Grants, GrantHere(a), GrantAges(a)
    PROVE  GrantState(a)' = GrantState(a) \/ (GrantState(a) # "none" /\ GrantState(a)' = "over")
<1>1. auth[a] \in Authorization /\ session[a] \in OAuthSession
  BY Zenon DEF GrantHere, GrantOK
<1>2. /\ RowAges(auth[a], auth'[a]) /\ SessionAges(session[a], session'[a])
      /\ a \in cut => a \in cut'
  BY Zenon DEF GrantAges
<1>3. (a \in cut) \in BOOLEAN /\ (a \in cut') \in BOOLEAN
  OBVIOUS
<1>4. \/ Phase(auth'[a], session'[a], a \in cut') = Phase(auth[a], session[a], a \in cut)
      \/ /\ Phase(auth[a], session[a], a \in cut) # "none"
         /\ Phase(auth'[a], session'[a], a \in cut') = "over"
  BY <1>1, <1>2, <1>3, PhaseAges
<1> QED
  BY <1>4, PhaseOf, Zenon

-----------------------------------------------------------------------------
(* Steps that decide no grant *)

LEMMA GrantTypes ==
    ASSUME DeviceInv, NEW a \in Grants
    PROVE  /\ auth[a] \in Authorization /\ locked[a] \in Lock /\ session[a] \in OAuthSession /\ key[a] \in APIKey
           /\ RowAges(auth[a], auth[a]) /\ SessionAges(session[a], session[a]) /\ KeyWanes(key[a], key[a])
           /\ locked[a] # NoLock => auth[a].state = "live" /\ auth[a].status = "pending"
           /\ GrantHere(a) /\ a \in AllKeys /\ AccountsInv
BY AccountTypes, RowAgesSame, SessionAgesSame, KeyWanesSame DEF DeviceInv, AllKeys, GrantHere,
   GrantOK, LockOK

\* What such a step leaves.
Undecided ==
    /\ AccountsInv' /\ DeviceTables'
    /\ \A t \in Tenants : Ages(tenant[t], tenant'[t])
    /\ \A a \in Grants : GrantAges(a)

\* Accounts that do not change.
LEMMA AccountsSame ==
    ASSUME AccountsInv, UNCHANGED accountVars
    PROVE  AccountsInv' /\ \A t \in Tenants : Ages(tenant[t], tenant'[t])
BY AccountTypes, AgesSame DEF accountVars, AccountsInv, AccountsTypeOK, NoOrphanKeys, Live

\* A grant none of whose rows change.
LEMMA GrantSame ==
    ASSUME DeviceInv, NEW a \in Grants, auth'[a] = auth[a], session'[a] = session[a], key'[a] = key[a],
           locked'[a] = locked[a], a \in cut' <=> a \in cut
    PROVE  GrantAges(a)
BY GrantTypes, Zenon DEF GrantAges

\* A step of the accounts: a reset or an unbinding leaves the account's
\* sessions behind, a deletion of a device's key ends it.
LEMMA AccountsStepUndecided ==
    ASSUME DeviceInv, AccountStepHere
    PROVE  Undecided
<1>1. /\ AccountStep /\ auth' = auth /\ locked' = locked /\ session' = session /\ access' = access
      /\ cut' = cut \cup LeftBehind \cup {a \in Grants : key'[a].state = "deleted"}
  BY Zenon DEF AccountStepHere
<1>2. AccountsInv /\ AccountsInv' /\ (\A t \in Tenants : Ages(tenant[t], tenant'[t]))
      /\ (\A t \in Tenants : tenant[t] \in Tenant)
  BY <1>1, AccountsKept, AccountRowsKept, AccountTypes DEF DeviceInv
<1>3. \A k \in AllKeys : KeyAges(k, key[k], key'[k])
  BY <1>1, <1>2, KeyStep
<1>4. DeviceTables'
  BY <1>1 DEF DeviceInv, DeviceTables, LeftBehind
<1>5. ASSUME NEW a \in Grants
      PROVE  GrantAges(a)
  <2> DEFINE t == session[a].tenant
  <2>1. KeyWanes(key[a], key'[a])
    BY <1>3, GrantTypes, KeyAgesWanes
  <2>2. /\ key[a].state # "absent" => session[a].state # "absent" /\ auth[a].purpose = "inference"
        /\ HeldOK(auth[a], session[a], key[a], tenant)
    BY GrantTypes, Zenon DEF GrantHere, GrantOK
  <2>3. CASE a \in LeftBehind
    BY <1>1, <1>2, <2>1, <2>2, <2>3, GrantTypes, AccountFacts DEF LeftBehind, HeldOK, Tenant, Ages,
       OAuthSession, GrantAges, CutOff
  <2>4. CASE key'[a].state = "deleted"
    BY <1>1, <2>1, <2>2, <2>4, GrantTypes DEF KeyWanes, CutOff, GrantAges
  <2>5. CASE a \notin LeftBehind /\ key'[a].state # "deleted"
    BY <1>1, <2>1, <2>5, GrantTypes DEF GrantAges
  <2> QED
    BY <2>3, <2>4, <2>5
<1> QED
  BY <1>2, <1>4, <1>5, Zenon DEF Undecided

\* A deletion of an account.
LEMMA DeletionUndecided ==
    ASSUME DeviceInv, NEW b \in Browsers, TenantDeleted(b)
    PROVE  Undecided
<1>1. /\ adminTenantDelete(b) /\ locked' = locked /\ session' = session /\ access' = access
      /\ auth' = [a \in Grants |-> IF Row(a) /\ auth[a].tenant # None /\ tenant'[auth[a].tenant].state = "deleted"
                                   THEN [auth[a] EXCEPT !.state = "deleted"] ELSE auth[a]]
      /\ cut' = cut \cup {a \in Grants : session[a].state = "live" /\ tenant'[session[a].tenant].state = "deleted"}
  BY Zenon DEF TenantDeleted
<1>2. AccountsInv' /\ (\A t \in Tenants : Ages(tenant[t], tenant'[t])) /\ (\A k \in AllKeys : KeyAges(k, key[k], key'[k]))
  BY <1>1, DeletionKept DEF DeviceInv
<1>3. ASSUME NEW a \in Grants
      PROVE  GrantAges(a)
  <2>1. KeyWanes(key[a], key'[a])
    BY <1>2, GrantTypes, KeyAgesWanes
  <2>2. auth[a].status = "pending" => auth[a].tenant = None
    BY GrantTypes, Zenon DEF GrantHere, GrantOK
  <2>3. RowAges(auth[a], auth'[a]) /\ (auth[a].tenant = None => auth'[a] = auth[a])
    <3>1. CASE Row(a) /\ auth[a].tenant # None /\ tenant'[auth[a].tenant].state = "deleted"
      BY <1>1, <3>1, GrantTypes, RowGoes DEF Row
    <3>2. CASE ~(Row(a) /\ auth[a].tenant # None /\ tenant'[auth[a].tenant].state = "deleted")
      BY <1>1, <3>2, GrantTypes
    <3> QED
      BY <3>1, <3>2
  <2>4. locked[a] # NoLock => auth'[a].state = "live"
    BY <2>2, <2>3, GrantTypes
  <2>5. a \in cut' => a \in cut \/ (session[a].state = "live" /\ tenant'[session[a].tenant].state = "deleted")
    BY <1>1, Zenon
  <2>6. session[a].state = "live" => session[a].state # "absent"
    OBVIOUS
  <2>7. a \in cut' => a \in cut \/ CutOff(auth'[a], session'[a], key'[a], tenant')
    BY <1>1, <2>5, <2>6, Zenon DEF CutOff
  <2> QED
    BY <1>1, <2>1, <2>3, <2>4, <2>7, GrantTypes, Zenon DEF GrantAges
<1>4. DeviceTables'
  BY <1>1, <1>3 DEF GrantAges, RowAges, DeviceInv, DeviceTables
<1> QED
  BY <1>2, <1>3, <1>4, Zenon DEF Undecided

\* Time passes for an authorisation, an access token or a session.
LEMMA ExpiryUndecided ==
    ASSUME DeviceInv, NEW a \in Grants, AuthorizationExpires(a) \/ AccessExpires(a) \/ SessionExpires(a)
    PROVE  Undecided
<1>1. UNCHANGED accountVars /\ locked' = locked /\ cut' = cut
  BY Zenon DEF AuthorizationExpires, AccessExpires, SessionExpires
<1>2. AccountsInv' /\ (\A t \in Tenants : Ages(tenant[t], tenant'[t])) /\ key' = key
  BY <1>1, AccountsSame DEF DeviceInv, accountVars
<1>3. /\ auth \in [Grants -> Authorization] /\ locked \in [Grants -> Lock]
      /\ session \in [Grants -> OAuthSession] /\ access \in SUBSET Grants /\ cut \in SUBSET Grants
  BY Zenon DEF DeviceInv, DeviceTables
<1>4. CASE AuthorizationExpires(a)
  <2> DEFINE row == [auth[a] EXCEPT !.expired = TRUE]
  <2>1. auth' = [auth EXCEPT ![a] = row] /\ session' = session /\ access' = access /\ auth[a].state = "live"
    BY <1>4, Zenon DEF AuthorizationExpires, Row
  <2>2. RowAges(auth[a], row) /\ row \in Authorization /\ row.state = auth[a].state
    BY GrantTypes, RowExpires DEF RowAges, Authorization
  <2> HIDE DEF row
  <2>3. auth' \in [Grants -> Authorization] /\ auth'[a] = row /\ \A c \in Grants \ {a} : auth'[c] = auth[c]
    BY <1>3, <2>1, <2>2, Zenon
  <2>4. GrantAges(a)
    BY <1>1, <1>2, <2>1, <2>2, <2>3, GrantTypes, Zenon DEF GrantAges
  <2>5. \A c \in Grants \ {a} : GrantAges(c)
    BY <1>1, <1>2, <2>1, <2>3, GrantSame
  <2>6. DeviceTables'
    BY <1>1, <1>3, <2>1, <2>3 DEF DeviceTables
  <2> QED
    BY <1>2, <2>4, <2>5, <2>6, Zenon DEF Undecided
<1>5. CASE AccessExpires(a)
  BY <1>1, <1>2, <1>3, <1>5, GrantSame DEF AccessExpires, DeviceTables, Undecided
<1>6. CASE SessionExpires(a)
  <2> DEFINE row == [session[a] EXCEPT !.expired = TRUE]
  <2>1. session' = [session EXCEPT ![a] = row] /\ auth' = auth /\ access' = access \ {a}
    BY <1>6, Zenon DEF SessionExpires
  <2>2. SessionAges(session[a], row) /\ row \in OAuthSession
    BY GrantTypes, SessionEnds, Zenon DEF SessionAges
  <2> HIDE DEF row
  <2>3. session' \in [Grants -> OAuthSession] /\ session'[a] = row /\ \A c \in Grants \ {a} : session'[c] = session[c]
    BY <1>3, <2>1, <2>2, Zenon
  <2>4. GrantAges(a)
    BY <1>1, <1>2, <2>1, <2>2, <2>3, GrantTypes, Zenon DEF GrantAges
  <2>5. \A c \in Grants \ {a} : GrantAges(c)
    BY <1>1, <1>2, <2>1, <2>3, GrantSame
  <2>6. DeviceTables'
    BY <1>1, <1>3, <2>1, <2>3 DEF DeviceTables
  <2> QED
    BY <1>2, <2>4, <2>5, <2>6, Zenon DEF Undecided
<1> QED
  BY <1>4, <1>5, <1>6

\* A refresh: the session goes on as it was but for its tokens.
LEMMA RefreshUndecided ==
    ASSUME DeviceInv, NEW a \in Grants, NEW n \in 0..session[a].refresh, RefreshRAIOAuth(a, n)
    PROVE  Undecided
<1>1. UNCHANGED accountVars /\ locked' = locked /\ cut' = cut /\ auth' = auth
  BY Zenon DEF RefreshRAIOAuth, authorizationVars, deviceVars
<1>2. AccountsInv' /\ (\A t \in Tenants : Ages(tenant[t], tenant'[t])) /\ key' = key
  BY <1>1, AccountsSame DEF DeviceInv, accountVars
<1>3. /\ auth \in [Grants -> Authorization] /\ locked \in [Grants -> Lock]
      /\ session \in [Grants -> OAuthSession] /\ access \in SUBSET Grants /\ cut \in SUBSET Grants
  BY Zenon DEF DeviceInv, DeviceTables
<1> DEFINE row == [session[a] EXCEPT !.refresh = n + 1]
<1>4. \/ session' = session /\ access' = access
      \/ n < MaxRotation /\ session' = [session EXCEPT ![a] = row] /\ access' = access \cup {a}
  BY Zenon DEF RefreshRAIOAuth, authorizationVars, deviceVars
<1>5. CASE session' = session /\ access' = access
  BY <1>1, <1>2, <1>3, <1>5, GrantSame DEF DeviceTables, Undecided
<1>6. CASE n < MaxRotation /\ session' = [session EXCEPT ![a] = row] /\ access' = access \cup {a}
  <2>1. n + 1 \in 0..MaxRotation
    BY <1>6, DeviceAssumption, GrantTypes DEF OAuthSession
  <2>2. SessionAges(session[a], row) /\ row \in OAuthSession
    BY <2>1, GrantTypes, SessionRotates DEF SessionAges
  <2> HIDE DEF row
  <2>3. session' \in [Grants -> OAuthSession] /\ session'[a] = row /\ \A c \in Grants \ {a} : session'[c] = session[c]
    BY <1>3, <1>6, <2>2, Zenon
  <2>4. GrantAges(a)
    BY <1>1, <1>2, <2>2, <2>3, GrantTypes, Zenon DEF GrantAges
  <2>5. \A c \in Grants \ {a} : GrantAges(c)
    BY <1>1, <1>2, <2>3, GrantSame
  <2>6. DeviceTables'
    BY <1>1, <1>3, <1>6, <2>3 DEF DeviceTables
  <2> QED
    BY <1>2, <2>4, <2>5, <2>6, Zenon DEF Undecided
<1> QED
  BY <1>4, <1>5, <1>6

\* The sweep.
LEMMA SweepUndecided ==
    ASSUME DeviceInv, DeleteExpiredRAIAuthorizations
    PROVE  Undecided
<1>1. /\ UNCHANGED accountVars /\ locked' = locked /\ cut' = cut /\ access' = access
      /\ session' = [a \in Grants |-> IF session[a].state = "live" /\ session[a].expired
                                      THEN [session[a] EXCEPT !.state = "deleted"] ELSE session[a]]
      /\ auth' = [a \in Grants |-> IF Row(a) /\ auth[a].expired
                                   THEN [auth[a] EXCEPT !.state = "deleted"] ELSE auth[a]]
      /\ \A a \in Grants : Row(a) /\ auth[a].expired => Unlocked(a)
  BY Zenon DEF DeleteExpiredRAIAuthorizations
<1>2. AccountsInv' /\ (\A t \in Tenants : Ages(tenant[t], tenant'[t])) /\ key' = key
  BY <1>1, AccountsSame DEF DeviceInv, accountVars
<1>3. ASSUME NEW a \in Grants
      PROVE  GrantAges(a)
  <2>1. SessionAges(session[a], session'[a])
    <3>1. CASE session[a].state = "live" /\ session[a].expired
      BY <1>1, <3>1, GrantTypes, SessionGoes
    <3>2. CASE ~(session[a].state = "live" /\ session[a].expired)
      BY <1>1, <3>2, GrantTypes
    <3> QED
      BY <3>1, <3>2
  <2>2. RowAges(auth[a], auth'[a]) /\ (locked[a] # NoLock => auth'[a] = auth[a])
    <3>1. CASE Row(a) /\ auth[a].expired
      BY <1>1, <3>1, GrantTypes, RowGoes DEF Unlocked, Row
    <3>2. CASE ~(Row(a) /\ auth[a].expired)
      BY <1>1, <3>2, GrantTypes
    <3> QED
      BY <3>1, <3>2
  <2> QED
    BY <1>1, <1>2, <2>1, <2>2, GrantTypes, Zenon DEF GrantAges
<1>4. DeviceTables'
  BY <1>1, <1>3 DEF GrantAges, RowAges, SessionAges, DeviceInv, DeviceTables
<1> QED
  BY <1>2, <1>3, <1>4, Zenon DEF Undecided

\* Requests and keys that change while the accounts' rows do not.
LEMMA DeviceAccounts ==
    ASSUME AccountsInv, UNCHANGED <<tenant, invitation, joined, cookie, flow, setup>>,
           request' = request \/ \E b \in Browsers : \E q : NewRequest(b, q),
           key' \in [AllKeys -> APIKey],
           \A k \in AllKeys : key'[k].state = "live" => key'[k].tenant \in Tenants /\ Live(key'[k].tenant)
    PROVE  AccountsInv' /\ \A t \in Tenants : Ages(tenant[t], tenant'[t])
<1>1. /\ tenant' = tenant /\ invitation' = invitation /\ joined' = joined
      /\ cookie' = cookie /\ flow' = flow /\ setup' = setup
  OBVIOUS
<1>2. /\ request' \in [Browsers -> Request]
      /\ \A c \in Browsers : RequestOK(request'[c]) /\ AdminsRequest(request'[c], tenant')
      /\ \A c \in Browsers : request'[c].op = "register" => request'[c] = request[c]
  BY <1>1, AccountTypes, RequestsKept DEF AccountsInv
<1>3. NoOrphanKeys'
  BY <1>1, Zenon DEF NoOrphanKeys, Live
<1>4. \A b \in Browsers : RegistrationOK(b, request'[b], setup', tenant', invitation')
  BY <1>1, <1>2, Zenon DEF AccountsInv, RegistrationOK
<1>5. AccountsTypeOK'
  BY <1>1, <1>2, AccountTypes, Zenon DEF AccountsTypeOK
<1>6. AdministratorOK(tenant') /\ JoinedOK(invitation', joined')
  BY <1>1, Zenon DEF AccountsInv
<1>7. AccountsInv'
  BY <1>2, <1>3, <1>4, <1>5, <1>6, Zenon DEF AccountsInv
<1> QED
  BY <1>1, <1>7, AccountTypes, AgesSame

\* A key is written, for an account that exists.
LEMMA KeyWritten ==
    ASSUME AccountsInv, NEW k \in AllKeys, NEW row \in APIKey, key' = [key EXCEPT ![k] = row],
           row.state = "live" => row.tenant \in Tenants /\ Live(row.tenant)
    PROVE  /\ key' \in [AllKeys -> APIKey] /\ key'[k] = row /\ \A l \in AllKeys \ {k} : key'[l] = key[l]
           /\ \A l \in AllKeys : key'[l].state = "live" => key'[l].tenant \in Tenants /\ Live(key'[l].tenant)
BY AccountTypes DEF AccountsInv, NoOrphanKeys

\* Keys that are not written.
LEMMA KeysSame ==
    ASSUME AccountsInv, key' = key
    PROVE  /\ key' \in [AllKeys -> APIKey]
           /\ \A l \in AllKeys : key'[l].state = "live" => key'[l].tenant \in Tenants /\ Live(key'[l].tenant)
BY AccountTypes, Zenon DEF AccountsInv, NoOrphanKeys

\* withRAIManagement only lets a request through.
LEMMA ManagementUndecided ==
    ASSUME DeviceInv, NEW b \in Browsers, NEW a \in Grants, NEW op, NEW target, withRAIManagement(b, a, op, target)
    PROVE  Undecided
<1>1. /\ op \in {"newKey", "keyOn", "keyOff", "dropKey", "device"} /\ target \in TargetsOf(op)
      /\ CanAct(a) /\ auth' = auth /\ locked' = locked /\ session' = session /\ access' = access /\ cut' = cut
      /\ UNCHANGED <<tenant, invitation, joined, cookie, flow, setup>> /\ key' = key
      /\ request' = [request EXCEPT ![b] = [op |-> op, by |-> session[a].tenant,
                                            version |-> session[a].version, target |-> target]]
  BY Zenon DEF withRAIManagement, deviceVars
<1>2. AccountsInv
  BY DEF DeviceInv
<1>3. op \in TenantOps /\ op \notin AdminOps
  BY <1>1 DEF TenantOps, AdminOps
<1>4. session[a].tenant \in Tenants /\ session[a].version \in 0..MaxVersion
  BY <1>1, GrantTypes DEF CanAct, SessionStands, GrantHere, GrantOK, HeldOK, OAuthSession
<1>5. \E q : NewRequest(b, q)
  BY <1>1, <1>3, <1>4, LetThrough
<1>6. AccountsInv' /\ (\A t \in Tenants : Ages(tenant[t], tenant'[t]))
  BY <1>1, <1>2, <1>5, KeysSame, DeviceAccounts
<1>7. \A c \in Grants : GrantAges(c)
  BY <1>1, GrantSame
<1>8. DeviceTables'
  BY <1>1 DEF DeviceInv, DeviceTables
<1> QED
  BY <1>6, <1>7, <1>8, Zenon DEF Undecided

\* A revocation of grant a: its session goes, its key is switched off, or
\* both, and it is cut off.
LEMMA RevocationUndecided ==
    ASSUME DeviceInv, NEW a \in Grants, UNCHANGED <<tenant, invitation, joined, cookie, flow, setup>>,
           request' = request \/ \E b \in Browsers : \E q : NewRequest(b, q),
           auth' = auth, locked' = locked, access' = access, cut' = cut \cup {a},
           \/ session' = session
           \/ session[a].state = "live" /\ session' = [session EXCEPT ![a] = [session[a] EXCEPT !.state = "deleted"]],
           \/ key' = key
           \/ key[a].state = "live" /\ key' = [key EXCEPT ![a] = [key[a] EXCEPT !.enabled = FALSE]],
           \/ session' = [session EXCEPT ![a] = [session[a] EXCEPT !.state = "deleted"]]
           \/ key[a].state = "live" /\ key' = [key EXCEPT ![a] = [key[a] EXCEPT !.enabled = FALSE]]
    PROVE  Undecided
<1> DEFINE held == [session[a] EXCEPT !.state = "deleted"]
           own == [key[a] EXCEPT !.enabled = FALSE]
<1>1. AccountsInv /\ DeviceTables /\ a \in AllKeys
  BY GrantTypes DEF DeviceInv
<1>2. session[a].state = "live" => SessionAges(session[a], held) /\ held.state = "deleted" /\ held \in OAuthSession
  BY GrantTypes, SessionGoes, Zenon DEF SessionAges
<1>3. /\ KeyWanes(key[a], own) /\ own \in APIKey /\ ~own.enabled
      /\ own.state = key[a].state /\ own.tenant = key[a].tenant
  BY GrantTypes, KeyOff, Zenon DEF KeyWanes
<1>4. \/ session' = session
      \/ session[a].state = "live" /\ session' = [session EXCEPT ![a] = held]
  OBVIOUS
<1>5. \/ key' = key
      \/ key[a].state = "live" /\ key' = [key EXCEPT ![a] = own]
  OBVIOUS
<1>6. \/ session' = [session EXCEPT ![a] = held]
      \/ key[a].state = "live" /\ key' = [key EXCEPT ![a] = own]
  OBVIOUS
<1> HIDE DEF held, own
<1>7. session \in [Grants -> OAuthSession] /\ cut \in SUBSET Grants
  BY <1>1, Zenon DEF DeviceTables
<1>8. /\ session' \in [Grants -> OAuthSession] /\ SessionAges(session[a], session'[a])
      /\ \A c \in Grants \ {a} : session'[c] = session[c]
      /\ session' = [session EXCEPT ![a] = held] => session'[a] = held
  BY <1>2, <1>4, <1>7, GrantTypes, Zenon
<1>9. /\ key' \in [AllKeys -> APIKey] /\ KeyWanes(key[a], key'[a])
      /\ \A c \in Grants \ {a} : key'[c] = key[c]
      /\ \A l \in AllKeys : key'[l].state = "live" => key'[l].tenant \in Tenants /\ Live(key'[l].tenant)
      /\ key' = [key EXCEPT ![a] = own] => key'[a] = own
  <2>1. key \in [AllKeys -> APIKey] /\ Grants \subseteq AllKeys
    BY <1>1, AccountTypes DEF AllKeys
  <2>2. CASE key' = key
    BY <1>1, <2>1, <2>2, KeysSame, GrantTypes
  <2>3. CASE key[a].state = "live" /\ key' = [key EXCEPT ![a] = own]
    BY <1>1, <1>3, <2>1, <2>3, KeyWritten DEF AccountsInv, NoOrphanKeys
  <2> QED
    BY <1>5, <2>2, <2>3
<1>10. AccountsInv' /\ \A t \in Tenants : Ages(tenant[t], tenant'[t])
  BY <1>1, <1>9, DeviceAccounts
<1>11. CutOff(auth'[a], session'[a], key'[a], tenant')
  <2>1. GrantOK(auth[a], locked[a], session[a], key[a], a \in cut, tenant)
    BY GrantTypes DEF GrantHere
  <2>2. CASE session' = [session EXCEPT ![a] = held] /\ session[a].state = "live"
    BY <1>2, <1>8, <2>2 DEF CutOff
  <2>3. CASE key[a].state = "live" /\ key' = [key EXCEPT ![a] = own]
    BY <1>3, <1>8, <1>9, <2>1, <2>3 DEF GrantOK, SessionAges, CutOff
  <2>4. CASE session' = [session EXCEPT ![a] = held] /\ session[a].state # "live" /\ session' = session
    BY <1>8, <2>4, GrantTypes DEF held, OAuthSession, CutOff
  <2> QED
    BY <1>4, <1>6, <2>2, <2>3, <2>4
<1>12. GrantAges(a)
  BY <1>8, <1>9, <1>11, GrantTypes, Zenon DEF GrantAges
<1>13. \A c \in Grants \ {a} : GrantAges(c)
  BY <1>8, <1>9, GrantSame
<1>14. DeviceTables'
  BY <1>1, <1>8 DEF DeviceTables
<1> QED
  BY <1>10, <1>12, <1>13, <1>14, Zenon DEF Undecided

\* The three revocations, by its user and by the device.
LEMMA RevokeUndecided ==
    ASSUME DeviceInv, NEW b \in Browsers, RevokeRAIDevice(b)
    PROVE  Undecided
<1> DEFINE a == request[b].target
<1>1. /\ request[b].op = "device" /\ Answered(b) /\ auth' = auth /\ locked' = locked /\ access' = access
      /\ UNCHANGED <<tenant, invitation, joined, cookie, flow, setup>>
      /\ \/ /\ key[a].state = "live" /\ key' = [key EXCEPT ![a] = [key[a] EXCEPT !.enabled = FALSE]]
            /\ cut' = cut \cup {a} /\ session' = session
         \/ /\ session[a].state = "live" /\ session' = [session EXCEPT ![a] = [session[a] EXCEPT !.state = "deleted"]]
            /\ cut' = cut \cup {a} /\ key' = key
         \/ session' = session /\ key' = key /\ cut' = cut
  BY Zenon DEF RevokeRAIDevice, Serving
<1>2. a \in Grants
  BY <1>1, Zenon DEF DeviceInv, AccountsInv, RequestOK
<1>3. \E c \in Browsers : \E q : NewRequest(c, q)
  BY <1>1, AnsweredRequest, Zenon
<1> HIDE DEF a
<1>4. CASE session' = session /\ key' = key /\ cut' = cut
  BY <1>1, <1>3, <1>4, KeysSame, DeviceAccounts, GrantSame DEF DeviceInv, DeviceTables, Undecided
<1>5. CASE ~(session' = session /\ key' = key /\ cut' = cut)
  BY <1>1, <1>2, <1>3, <1>5, RevocationUndecided
<1> QED
  BY <1>4, <1>5

LEMMA SelfRevokeUndecided ==
    ASSUME DeviceInv, NEW a \in Grants, raiManagementSession(a)
    PROVE  Undecided
BY RevocationUndecided DEF raiManagementSession, CanAct, SessionStands, accountVars

LEMMA TokenRevokeUndecided ==
    ASSUME DeviceInv, NEW a \in Grants, NEW n, RevokeRAIOAuth(a, n),
           UNCHANGED <<tenant, invitation, joined, cookie, flow, request, setup, auth, locked, access>>
    PROVE  Undecided
<1>1. CASE session[a].state = "live" /\ session[a].refresh = n
  BY <1>1, RevocationUndecided DEF RevokeRAIOAuth, Revoked
<1>2. CASE ~(session[a].state = "live" /\ session[a].refresh = n)
  BY <1>2, AccountsSame, GrantSame DEF RevokeRAIOAuth, accountVars, DeviceInv, DeviceTables,
     Undecided
<1> QED
  BY <1>1, <1>2

-----------------------------------------------------------------------------
(* Steps that decide a grant *)

\* How far the abstract life of grant a goes in a step.
Moves(a) ==
    \/ GrantState(a)' = GrantState(a)
    \/ GrantState(a) # "none" /\ GrantState(a)' = "over"
    \/ GrantState(a) = "none" /\ GrantState(a)' = "asked"
    \/ GrantState(a) = "asked" /\ GrantState(a)' = "ready"
    \/ GrantState(a) = "ready" /\ GrantState(a)' = "held"

\* The rows of grant c do not change.
Untouched(c) ==
    /\ auth'[c] = auth[c] /\ session'[c] = session[c] /\ key'[c] = key[c] /\ locked'[c] = locked[c]
    /\ c \in cut' <=> c \in cut

\* What a step leaves that decides grant a and no other.
Decided(a) ==
    /\ AccountsInv' /\ DeviceTables'
    /\ \A t \in Tenants : Ages(tenant[t], tenant'[t])
    /\ \A c \in Grants \ {a} : Untouched(c)
    /\ GrantHere(a)' /\ Moves(a)

\* A device asks.
LEMMA AskDecided ==
    ASSUME DeviceInv, NEW a \in Grants, NEW purpose \in Purposes, createRAIAuthorization(a, purpose)
    PROVE  Decided(a)
<1> DEFINE row == [NoAuthorization EXCEPT !.state = "live", !.purpose = purpose]
<1>1. /\ auth[a].state = "absent" /\ auth' = [auth EXCEPT ![a] = row] /\ UNCHANGED accountVars
      /\ locked' = locked /\ session' = session /\ access' = access /\ cut' = cut
  BY Zenon DEF createRAIAuthorization
<1>2. purpose \in {"inference", "account"}
  BY DeviceAssumption
<1>3. NoAuthorization \in Authorization /\ NoAuthorization.status = "pending"
      /\ NoAuthorization.tenant = None /\ NoAuthorization.expired = FALSE
  BY DEF NoAuthorization, Authorization
<1>4. "live" \in {"absent", "live", "deleted"}
  OBVIOUS
<1>5. row \in Authorization /\ row.state = "live" /\ row.status = "pending" /\ row.tenant = None /\ row.expired = FALSE
  BY <1>2, <1>3, <1>4, Zenon DEF Authorization
<1> HIDE DEF row
<1>6. AccountsInv' /\ (\A t \in Tenants : Ages(tenant[t], tenant'[t])) /\ key' = key /\ tenant' = tenant
  BY <1>1, AccountsSame DEF DeviceInv, accountVars
<1>7. auth \in [Grants -> Authorization] /\ DeviceTables
  BY Zenon DEF DeviceInv, DeviceTables
<1>8. auth' \in [Grants -> Authorization] /\ auth'[a] = row /\ \A c \in Grants \ {a} : auth'[c] = auth[c]
  BY <1>1, <1>5, <1>7, Zenon
<1>9. DeviceTables'
  BY <1>1, <1>7, <1>8 DEF DeviceTables
<1>10. \A c \in Grants \ {a} : Untouched(c)
  BY <1>1, <1>6, <1>8 DEF Untouched
<1>11. locked[a] = NoLock
  BY <1>1, GrantTypes
<1>12. auth[a].status = "pending" /\ session[a].state = "absent" /\ key[a].state = "absent" /\ a \notin cut
  BY <1>1, GrantTypes DEF GrantHere, GrantOK, CutOff
<1>13. GrantHere(a)'
  BY <1>1, <1>5, <1>6, <1>8, <1>11, <1>12, GrantTypes DEF GrantOK, HeldOK, LockOK, GrantHere
<1>14. Moves(a)
  BY <1>1, <1>5, <1>8, <1>12, PhaseOf DEF Phase, Moves
<1> QED
  BY <1>6, <1>9, <1>10, <1>13, <1>14, Zenon DEF Decided

\* A device fetches its tokens.
LEMMA ConsumeDecided ==
    ASSUME DeviceInv, NEW a \in Grants, ConsumeRAIOAuthAuthorization(a)
    PROVE  Decided(a) \/ Undecided
<1> DEFINE row == [auth[a] EXCEPT !.status = "consumed"]
<1>1. /\ UNCHANGED accountVars /\ locked[a] = NoLock
      /\ locked' = locked /\ session' = session /\ access' = access /\ cut' = cut
      /\ auth' = IF Consumable(a) THEN [auth EXCEPT ![a] = row] ELSE auth
  BY Zenon DEF ConsumeRAIOAuthAuthorization, Unlocked
<1>2. AccountsInv' /\ (\A t \in Tenants : Ages(tenant[t], tenant'[t])) /\ key' = key /\ tenant' = tenant
  BY <1>1, AccountsSame DEF DeviceInv, accountVars
<1>3. auth \in [Grants -> Authorization] /\ DeviceTables
  BY Zenon DEF DeviceInv, DeviceTables
<1>4. CASE ~Consumable(a)
  BY <1>1, <1>2, <1>3, <1>4, GrantSame DEF DeviceTables, Undecided
<1>5. CASE Consumable(a)
  <2>1. /\ row \in Authorization /\ row.status = "consumed" /\ row.tenant = auth[a].tenant
        /\ row.purpose = auth[a].purpose /\ row.state = auth[a].state /\ row.expired = auth[a].expired
    BY GrantTypes, RowConsumed, Zenon
  <2>2. auth[a].state = "live" /\ auth[a].status = "approved" /\ ~auth[a].expired
    BY <1>5, Zenon DEF Consumable, Row
  <2>3. auth' = [auth EXCEPT ![a] = row]
    BY <1>1, <1>5, Zenon
  <2> HIDE DEF row
  <2>4. auth' \in [Grants -> Authorization] /\ auth'[a] = row /\ \A c \in Grants \ {a} : auth'[c] = auth[c]
    BY <1>3, <2>1, <2>3, Zenon
  <2>5. DeviceTables'
    BY <1>1, <1>3, <2>4 DEF DeviceTables
  <2>6. \A c \in Grants \ {a} : Untouched(c)
    BY <1>1, <1>2, <2>4 DEF Untouched
  <2>7. GrantHere(a)'
    BY <1>1, <1>2, <2>1, <2>2, <2>4, GrantTypes DEF GrantHere, GrantOK, HeldOK, CutOff, LockOK
  <2>8. Moves(a)
    <3>1. CASE a \in cut \/ session[a].expired \/ session[a].state = "deleted"
      BY <1>1, <2>1, <2>2, <2>4, <3>1, PhaseOf DEF Phase, Moves
    <3>2. CASE ~(a \in cut \/ session[a].expired \/ session[a].state = "deleted")
      BY <1>1, <2>1, <2>2, <2>4, <3>2, PhaseOf DEF Phase, Moves
    <3> QED
      BY <3>1, <3>2
  <2> QED
    BY <1>2, <2>5, <2>6, <2>7, <2>8, Zenon DEF Decided
<1> QED
  BY <1>4, <1>5

\* A user denies.
LEMMA DenyDecided ==
    ASSUME DeviceInv, NEW b \in Browsers, DenyRAIAuthorization(b)
    PROVE  Undecided \/ \E a \in Grants : Decided(a)
<1>1. request[b].target \in Grants /\ request[b].by \in Tenants
  BY DEF DenyRAIAuthorization, Serving, TenantOps, DeviceInv, AccountsInv, RequestOK
<1>2. PICK a \in Grants : a = request[b].target
  BY <1>1
<1> DEFINE t == request[b].by
           row == [auth[a] EXCEPT !.status = "denied", !.tenant = t]
<1>3. /\ request[b].op = "deny" /\ Answered(b) /\ locked[a] = NoLock
      /\ UNCHANGED <<tenant, invitation, joined, cookie, flow, setup>> /\ key' = key
      /\ locked' = locked /\ session' = session /\ access' = access /\ cut' = cut
      /\ auth' = IF Row(a) /\ auth[a].status = "pending" THEN [auth EXCEPT ![a] = row] ELSE auth
  BY <1>2, Zenon DEF DenyRAIAuthorization, Serving, Unlocked
<1>4. AccountsInv' /\ (\A u \in Tenants : Ages(tenant[u], tenant'[u]))
  BY <1>3, AnsweredRequest, KeysSame, DeviceAccounts DEF DeviceInv
<1>5. auth \in [Grants -> Authorization] /\ DeviceTables /\ tenant' = tenant
  BY <1>3, Zenon DEF DeviceInv, DeviceTables
<1>6. CASE ~(Row(a) /\ auth[a].status = "pending")
  BY <1>3, <1>4, <1>5, <1>6, GrantSame DEF DeviceTables, Undecided
<1>7. CASE Row(a) /\ auth[a].status = "pending"
  <2>1. /\ row \in Authorization /\ row.status = "denied" /\ row.tenant = t
        /\ row.purpose = auth[a].purpose /\ row.state = auth[a].state /\ row.expired = auth[a].expired
    BY <1>1, GrantTypes DEF Authorization
  <2>2. auth[a].state = "live" /\ auth[a].status = "pending" /\ auth' = [auth EXCEPT ![a] = row]
    BY <1>3, <1>7, Zenon DEF Row
  <2> HIDE DEF row, t
  <2>3. auth' \in [Grants -> Authorization] /\ auth'[a] = row /\ \A c \in Grants \ {a} : auth'[c] = auth[c]
    BY <1>2, <1>5, <2>1, <2>2, Zenon
  <2>4. DeviceTables'
    BY <1>3, <1>5, <2>3 DEF DeviceTables
  <2>5. \A c \in Grants \ {a} : Untouched(c)
    BY <1>3, <2>3 DEF Untouched
  <2>6. session[a].state = "absent" /\ key[a].state = "absent" /\ a \notin cut
    BY <1>2, <2>2, GrantTypes DEF GrantHere, GrantOK, CutOff
  <2>7. GrantHere(a)'
    BY <1>2, <1>3, <1>5, <2>1, <2>2, <2>3, <2>6, GrantTypes DEF GrantOK, HeldOK, LockOK, GrantHere
  <2>8. Moves(a)
    BY <1>3, <2>1, <2>2, <2>3, <2>6, PhaseOf DEF Phase, Moves
  <2> QED
    BY <1>2, <1>4, <2>4, <2>5, <2>7, <2>8, Zenon DEF Decided
<1> QED
  BY <1>6, <1>7

\* A user approves: the account is read.
LEMMA ReadDecided ==
    ASSUME DeviceInv, NEW b \in Browsers, ApproveRead(b)
    PROVE  Undecided \/ \E a \in Grants : Decided(a)
<1>1. request[b].target \in Grants /\ request[b].by \in Tenants
  BY DEF ApproveRead, Serving, TenantOps, DeviceInv, AccountsInv, RequestOK
<1>2. PICK a \in Grants : a = request[b].target
  BY <1>1
<1> DEFINE t == request[b].by
           locking == [by |-> b, tenant |-> t, version |-> tenant[t].version]
<1>3. /\ request[b].op = "approve" /\ locked[a] = NoLock
      /\ UNCHANGED <<tenant, invitation, joined, cookie, flow, setup>> /\ key' = key
      /\ auth' = auth /\ session' = session /\ access' = access /\ cut' = cut
      /\ \/ /\ auth[a].state = "live" /\ auth[a].status = "pending" /\ tenant[t].state = "live"
            /\ locked' = [locked EXCEPT ![a] = locking] /\ request' = request
         \/ Answered(b) /\ locked' = locked
  BY <1>2, Zenon DEF ApproveRead, Serving, Unlocked, Row, Live
<1>4. AccountsInv' /\ (\A u \in Tenants : Ages(tenant[u], tenant'[u]))
  BY <1>3, AnsweredRequest, KeysSame, DeviceAccounts DEF DeviceInv
<1>5. locked \in [Grants -> Lock] /\ DeviceTables /\ tenant' = tenant
  BY <1>3, Zenon DEF DeviceInv, DeviceTables
<1>6. CASE locked' = locked
  BY <1>3, <1>4, <1>5, <1>6, GrantSame DEF DeviceTables, Undecided
<1>7. CASE /\ auth[a].state = "live" /\ auth[a].status = "pending" /\ tenant[t].state = "live"
           /\ locked' = [locked EXCEPT ![a] = locking]
  <2>1. tenant[t] \in Tenant /\ tenant[t].version \in 0..MaxVersion
    BY <1>1, AccountTypes DEF DeviceInv
  <2>2. locking \in Lock /\ locking.by \in Browsers /\ locking.tenant = t /\ locking.version = tenant[t].version
    BY <1>1, <2>1 DEF Lock
  <2>3. locking.version <= tenant[locking.tenant].version /\ tenant[locking.tenant].state # "absent"
    BY <1>7, <2>1, <2>2, AccountFacts
  <2> HIDE DEF locking
  <2>4. locked' \in [Grants -> Lock] /\ locked'[a] = locking /\ \A c \in Grants \ {a} : locked'[c] = locked[c]
    BY <1>2, <1>5, <1>7, <2>2, Zenon
  <2>5. DeviceTables'
    BY <1>3, <1>5, <2>4 DEF DeviceTables
  <2>6. \A c \in Grants \ {a} : Untouched(c)
    BY <1>3, <2>4 DEF Untouched
  <2>7. GrantHere(a)'
    BY <1>1, <1>2, <1>3, <1>5, <1>7, <2>2, <2>3, <2>4, GrantTypes DEF LockOK, GrantHere, GrantOK
  <2>8. Moves(a)
    BY <1>3, PhaseOf, Zenon DEF Moves
  <2> QED
    BY <1>2, <1>4, <2>5, <2>6, <2>7, <2>8, Zenon DEF Decided
<1> QED
  BY <1>3, <1>6, <1>7

\* What an approval writes.
LEMMA ApprovedRows ==
    ASSUME NEW t \in Tenants, NEW version \in 0..MaxVersion
    PROVE  /\ LET held == [state |-> "live", tenant |-> t, version |-> version, refresh |-> 0, expired |-> FALSE] IN
              /\ held \in OAuthSession /\ held.state = "live" /\ held.tenant = t /\ held.version = version
              /\ ~held.expired
           /\ LET own == [state |-> "live", tenant |-> t, source |-> "rai", enabled |-> TRUE] IN
              own \in APIKey /\ own.state = "live" /\ own.tenant = t /\ own.source = "rai"
<1>1. 0 \in 0..MaxRotation
  BY DeviceAssumption
<1> QED
  BY <1>1 DEF OAuthSession, APIKey

\* An approval writes: what it read may be stale by now, and the grant is then
\* cut off from the start.
LEMMA ApproveDecided ==
    ASSUME DeviceInv, NEW b \in Browsers, ApproveRAIAuthorization(b)
    PROVE  Undecided \/ \E a \in Grants : Decided(a)
<1>1. PICK a \in Grants : /\ locked[a].by = b /\ Approved(a, locked[a].tenant, locked[a].version)
                          /\ locked' = [locked EXCEPT ![a] = NoLock] /\ Answered(b)
                          /\ UNCHANGED <<tenant, invitation, joined, cookie, flow, setup>>
  BY Zenon DEF ApproveRAIAuthorization
<1> DEFINE t == locked[a].tenant
           version == locked[a].version
           row == [auth[a] EXCEPT !.status = "approved", !.tenant = t]
           held == [state |-> "live", tenant |-> t, version |-> version, refresh |-> 0, expired |-> FALSE]
           own == [state |-> "live", tenant |-> t, source |-> "rai", enabled |-> TRUE]
<1>2. locked[a] # NoLock
  BY <1>1, AccountFacts DEF NoLock
<1>3. /\ auth[a].state = "live" /\ auth[a].status = "pending" /\ t \in Tenants
      /\ tenant[t].state # "absent" /\ version <= tenant[t].version
  BY <1>2, GrantTypes, Zenon DEF GrantHere, GrantOK, LockOK
<1>4. version \in 0..MaxVersion /\ tenant[t] \in Tenant /\ tenant[t].version \in 0..MaxVersion
  BY <1>3, GrantTypes, AccountTypes DEF Lock, DeviceInv
<1>5. session[a].state = "absent" /\ key[a].state = "absent" /\ a \notin cut
  BY <1>3, GrantTypes DEF GrantHere, GrantOK, CutOff
<1>6. /\ AccountsInv /\ DeviceTables /\ tenant' = tenant /\ (\E c \in Browsers : \E q : NewRequest(c, q))
      /\ auth \in [Grants -> Authorization] /\ locked \in [Grants -> Lock]
      /\ session \in [Grants -> OAuthSession] /\ access \in SUBSET Grants /\ cut \in SUBSET Grants
  BY <1>1, AnsweredRequest, Zenon DEF DeviceInv, DeviceTables
<1>7. NoLock \in Lock
  BY AccountFacts DEF NoLock, Lock
<1>8. locked' \in [Grants -> Lock] /\ locked'[a] = NoLock /\ \A c \in Grants \ {a} : locked'[c] = locked[c]
  BY <1>1, <1>6, <1>7, Zenon
<1>9. CASE auth[a].purpose = "inference" /\ ~Live(t)
  <2>1. auth' = auth /\ session' = session /\ access' = access /\ key' = key /\ cut' = cut
    BY <1>1, <1>9, Zenon DEF Approved
  <2>2. AccountsInv' /\ (\A u \in Tenants : Ages(tenant[u], tenant'[u]))
    BY <1>1, <1>6, <2>1, KeysSame, DeviceAccounts
  <2>3. DeviceTables'
    BY <1>6, <1>8, <2>1 DEF DeviceTables
  <2>4. \A c \in Grants \ {a} : Untouched(c)
    BY <1>8, <2>1 DEF Untouched
  <2>5. GrantHere(a)'
    BY <1>6, <1>7, <1>8, <2>1, GrantTypes DEF GrantHere, GrantOK, LockOK
  <2>6. Moves(a)
    BY <2>1, PhaseOf, Zenon DEF Moves
  <2> QED
    BY <2>2, <2>3, <2>4, <2>5, <2>6, Zenon DEF Decided
<1>10. CASE ~(auth[a].purpose = "inference" /\ ~Live(t))
  <2>1. /\ auth' = [auth EXCEPT ![a] = row] /\ session' = [session EXCEPT ![a] = held]
        /\ access' = access \cup {a}
        /\ key' = IF auth[a].purpose = "account" THEN key ELSE [key EXCEPT ![a] = own]
        /\ cut' = IF Live(t) /\ tenant[t].version = version THEN cut ELSE cut \cup {a}
    BY <1>1, <1>10, Zenon DEF Approved
  <2>2. /\ row \in Authorization /\ row.status = "approved" /\ row.tenant = t
        /\ row.purpose = auth[a].purpose /\ row.state = auth[a].state /\ row.expired = auth[a].expired
    BY <1>3, GrantTypes DEF Authorization
  <2>3. /\ held \in OAuthSession /\ held.state = "live" /\ held.tenant = t /\ held.version = version
        /\ ~held.expired
        /\ own \in APIKey /\ own.state = "live" /\ own.tenant = t /\ own.source = "rai"
    BY <1>3, <1>4, ApprovedRows, Zenon
  <2>4. auth[a].purpose \in {"inference", "account"}
    BY GrantTypes, Zenon DEF Authorization
  <2> HIDE DEF row, held, own
  <2>5. /\ auth' \in [Grants -> Authorization] /\ auth'[a] = row /\ \A c \in Grants \ {a} : auth'[c] = auth[c]
        /\ session' \in [Grants -> OAuthSession] /\ session'[a] = held /\ \A c \in Grants \ {a} : session'[c] = session[c]
    BY <1>6, <2>1, <2>2, <2>3, Zenon
  <2>6. /\ key' \in [AllKeys -> APIKey]
        /\ \A c \in Grants \ {a} : key'[c] = key[c]
        /\ \A l \in AllKeys : key'[l].state = "live" => key'[l].tenant \in Tenants /\ Live(key'[l].tenant)
        /\ auth[a].purpose = "inference" => key'[a] = own
        /\ auth[a].purpose = "account" => key'[a] = key[a]
    <3>1. a \in AllKeys /\ Grants \subseteq AllKeys
      BY DEF AllKeys
    <3>2. CASE auth[a].purpose = "account"
      BY <1>6, <2>1, <3>2, KeysSame
    <3>3. CASE auth[a].purpose = "inference"
      BY <1>3, <1>6, <1>10, <2>1, <2>3, <3>1, <3>3, KeyWritten
    <3> QED
      BY <2>4, <3>2, <3>3
  <2>7. AccountsInv' /\ (\A u \in Tenants : Ages(tenant[u], tenant'[u]))
    BY <1>1, <1>6, <2>6, DeviceAccounts
  <2>8. cut' \in SUBSET Grants /\ (\A c \in Grants \ {a} : c \in cut' <=> c \in cut)
        /\ (a \in cut' <=> ~(Live(t) /\ tenant[t].version = version))
    BY <1>5, <1>6, <2>1
  <2>9. DeviceTables'
    BY <1>6, <1>8, <2>1, <2>5, <2>8 DEF DeviceTables
  <2>10. \A c \in Grants \ {a} : Untouched(c)
    BY <1>8, <2>5, <2>6, <2>8 DEF Untouched
  <2>11. GrantHere(a)'
    <3>1. /\ row.status \notin {"pending", "denied"} /\ row.status # "pending" /\ row.state # "absent"
          /\ held.state # "absent"
      BY <1>3, <2>2, <2>3
    <3>2. key'[a].state # "absent" => row.purpose = "inference" /\ key'[a].source = "rai"
      BY <1>5, <2>2, <2>3, <2>4, <2>6
    <3>3. HeldOK(row, held, key'[a], tenant)
      BY <1>3, <2>2, <2>3, <2>6 DEF HeldOK
    <3>4. a \in cut' => CutOff(row, held, key'[a], tenant)
      <4>1. CASE ~Live(t)
        BY <1>3, <1>4, <2>3, <3>1, <4>1 DEF Tenant, Live, CutOff
      <4>2. CASE tenant[t].version # version
        BY <1>3, <1>4, <2>3, <3>1, <4>2, AccountFacts DEF CutOff
      <4> QED
        BY <2>8, <4>1, <4>2, Zenon
    <3>5. GrantOK(row, NoLock, held, key'[a], a \in cut', tenant)
      BY <1>7, <2>2, <2>3, <3>1, <3>2, <3>3, <3>4, Zenon DEF GrantOK, LockOK
    <3> QED
      BY <1>6, <1>8, <2>5, <3>5, Zenon DEF GrantHere
  <2>12. Moves(a)
    <3>1. Phase(auth[a], session[a], a \in cut) = IF auth[a].expired THEN "over" ELSE "asked"
      BY <1>3, <1>5 DEF Phase
    <3>2. Phase(row, held, a \in cut') = IF auth[a].expired \/ a \in cut' THEN "over" ELSE "ready"
      BY <1>3, <2>2, <2>3 DEF Phase
    <3>3. CASE auth[a].expired
      BY <2>5, <3>1, <3>2, <3>3, PhaseOf, Zenon DEF Moves
    <3>4. CASE ~auth[a].expired /\ a \in cut'
      BY <2>5, <3>1, <3>2, <3>4, PhaseOf DEF Moves
    <3>5. CASE ~auth[a].expired /\ a \notin cut'
      BY <2>5, <3>1, <3>2, <3>5, PhaseOf, Zenon DEF Moves
    <3> QED
      BY <3>3, <3>4, <3>5
  <2> QED
    BY <2>7, <2>9, <2>10, <2>11, <2>12, Zenon DEF Decided
<1> QED
  BY <1>9, <1>10

-----------------------------------------------------------------------------
(* Theorems *)

\* Every step decides one grant or none.
LEMMA DeviceSteps ==
    ASSUME DeviceInv, DeviceNext
    PROVE  Undecided \/ \E a \in Grants : Decided(a)
<1>1. /\ AccountStepHere => Undecided
      /\ \A b \in Browsers : TenantDeleted(b) \/ RevokeRAIDevice(b) => Undecided
      /\ \A b \in Browsers, a \in Grants : \A op, target : withRAIManagement(b, a, op, target) => Undecided
      /\ \A a \in Grants : AuthorizationExpires(a) \/ AccessExpires(a) \/ SessionExpires(a) => Undecided
      /\ \A a \in Grants : raiManagementSession(a) => Undecided
      /\ DeleteExpiredRAIAuthorizations => Undecided
      /\ \A a \in Grants : \A n \in 0..session[a].refresh : RefreshRAIOAuth(a, n) => Undecided
  BY AccountsStepUndecided, DeletionUndecided, RevokeUndecided, ManagementUndecided, ExpiryUndecided,
     SelfRevokeUndecided, SweepUndecided, RefreshUndecided
<1>2. \A a \in Grants : \A n :
         RevokeRAIOAuth(a, n) /\ UNCHANGED <<tenant, invitation, joined, cookie, flow, request, setup, auth, locked, access>>
         => Undecided
  BY TokenRevokeUndecided
<1>3. /\ \A b \in Browsers : ApproveRead(b) => Undecided \/ \E a \in Grants : Decided(a)
      /\ \A b \in Browsers : ApproveRAIAuthorization(b) => Undecided \/ \E a \in Grants : Decided(a)
      /\ \A b \in Browsers : DenyRAIAuthorization(b) => Undecided \/ \E a \in Grants : Decided(a)
      /\ \A a \in Grants, purpose \in Purposes : createRAIAuthorization(a, purpose) => Decided(a)
      /\ \A a \in Grants : ConsumeRAIOAuthAuthorization(a) => Undecided \/ Decided(a)
  BY ReadDecided, ApproveDecided, DenyDecided, AskDecided, ConsumeDecided
<1>4. CASE ServerStep
  BY <1>1, <1>3, <1>4, Zenon DEF ServerStep
<1>5. CASE AnyDevice
  BY <1>1, <1>2, <1>3, <1>5, Zenon DEF AnyDevice
<1> QED
  BY <1>4, <1>5 DEF DeviceNext

\* Either way the invariant is kept.
LEMMA DeviceKept ==
    ASSUME DeviceInv, DeviceNext \/ UNCHANGED authorizationVars
    PROVE  DeviceInv'
<1>1. AccountsInv /\ \A a \in Grants : GrantHere(a)
  BY DEF DeviceInv
<1>2. CASE Undecided
  BY <1>1, <1>2, GrantStays DEF Undecided, DeviceInv
<1>3. CASE \E a \in Grants : Decided(a)
  BY <1>1, <1>3, GrantSame, GrantStays DEF Decided, Untouched, DeviceInv
<1>4. CASE UNCHANGED authorizationVars
  BY <1>1, <1>4, AccountsSame DEF authorizationVars, deviceVars, accountVars, GrantHere, DeviceInv,
     DeviceTables
<1> QED
  BY <1>2, <1>3, <1>4, DeviceSteps

\* The first state.
LEMMA AccountsStart ==
    ASSUME AccountsInit
    PROVE  AccountsInv
<1> DEFINE d == deployment
<1>1. /\ tenant = [t \in Tenants |-> IF t = d.founder THEN NewTenant(TRUE)
                                     ELSE IF t \in d.gone THEN [NoTenant EXCEPT !.state = "deleted"]
                                     ELSE NoTenant]
      /\ key = [k \in AllKeys |-> NoKey] /\ invitation = [i \in Invitations |-> NoInvitation]
      /\ joined = [t \in Tenants |-> None] /\ cookie = [b \in Browsers |-> NoSession]
      /\ flow = [b \in Browsers |-> NoFlow] /\ request = [b \in Browsers |-> NoRequest] /\ setup = None
  BY Zenon DEF AccountsInit
<1> DEFINE gone == [NoTenant EXCEPT !.state = "deleted"]
<1>2. gone \in Tenant /\ gone.state = "deleted" /\ ~gone.admin
  BY NewRows DEF Tenant
<1> HIDE DEF gone
<1>3. /\ NewTenant(TRUE) \in Tenant /\ NewTenant(TRUE).state = "live" /\ NewTenant(TRUE).admin
      /\ NewTenant(TRUE).enabled /\ ~NewTenant(TRUE).mustChange
      /\ NoTenant \in Tenant /\ NoTenant.state = "absent" /\ ~NoTenant.admin
  BY NewRows
<1>4. \A t \in Tenants : /\ t = d.founder => tenant[t] = NewTenant(TRUE)
                         /\ t # d.founder => tenant[t] = gone \/ tenant[t] = NoTenant
  BY <1>1, Zenon DEF gone
<1>5. tenant \in [Tenants -> Tenant]
  BY <1>1, <1>2, <1>3, <1>4
<1>6. AccountsTypeOK
  BY <1>1, <1>5, NewRows DEF AccountsTypeOK
<1>7. \A b \in Browsers : /\ RequestOK(request[b]) /\ AdminsRequest(request[b], tenant)
                          /\ RegistrationOK(b, request[b], setup, tenant, invitation)
  BY <1>1, NewRows DEF RequestOK, AdminsRequest, RegistrationOK, AdminOps, TenantOps
<1>8. AdministratorOK(tenant)
  BY <1>2, <1>3, <1>4 DEF AdministratorOK
<1>9. JoinedOK(invitation, joined)
  BY <1>1, NewRows, AccountFacts DEF JoinedOK
<1>10. NoOrphanKeys
  BY <1>1, NewRows DEF NoOrphanKeys
<1> QED
  BY <1>6, <1>7, <1>8, <1>9, <1>10, Zenon DEF AccountsInv

LEMMA DeviceStart ==
    ASSUME DeviceInit
    PROVE  DeviceInv
<1> DEFINE over == [NoAuthorization EXCEPT !.state = "deleted", !.expired = TRUE]
<1>1. /\ AccountsInit /\ auth = [a \in Grants |-> IF a \in deployment.gone THEN over ELSE NoAuthorization]
      /\ locked = [a \in Grants |-> NoLock] /\ session = [a \in Grants |-> NoOAuthSession]
      /\ access = {} /\ cut = {}
  BY Zenon DEF DeviceInit
<1>2. AccountsInv /\ key = [k \in AllKeys |-> NoKey]
  BY <1>1, AccountsStart DEF AccountsInit
<1>3. /\ NoAuthorization \in Authorization /\ NoAuthorization.status = "pending"
      /\ NoAuthorization.tenant = None /\ NoAuthorization.state = "absent"
      /\ NoLock \in Lock
  BY AccountFacts DEF NoAuthorization, Authorization, NoLock, Lock
<1>4. NoOAuthSession \in OAuthSession /\ NoOAuthSession.state = "absent"
  <2>1. 0 \in 0..MaxRotation
    BY DeviceAssumption
  <2> QED
    BY <2>1, AccountFacts DEF NoOAuthSession, OAuthSession
<1>5. over \in Authorization /\ over.status = "pending" /\ over.tenant = None /\ over.state = "deleted" /\ over.expired
  BY <1>3 DEF Authorization
<1> HIDE DEF over
<1>6. \A a \in Grants : /\ auth[a] \in {over, NoAuthorization} /\ locked[a] = NoLock
                        /\ session[a] = NoOAuthSession /\ key[a].state = "absent"
  BY <1>1, <1>2, NewRows DEF AllKeys
<1>7. DeviceTables
  BY <1>1, <1>3, <1>4, <1>5 DEF DeviceTables
<1>8. ASSUME NEW a \in Grants
      PROVE  GrantHere(a)
  BY <1>1, <1>3, <1>4, <1>5, <1>6 DEF GrantHere, GrantOK, HeldOK, LockOK
<1> QED
  BY <1>2, <1>7, <1>8, Zenon DEF DeviceInv

THEOREM DeviceInvariant == DeviceAuthorization => []DeviceInv
<1>1. DeviceInit => DeviceInv
  BY DeviceStart
<1>2. DeviceInv /\ [DeviceNext]_authorizationVars => DeviceInv'
  BY DeviceKept
<1> QED
  BY <1>1, <1>2, PTL DEF DeviceAuthorization

\* For any number of accounts, browsers, invitations, keys and grants, and
\* whatever requests overlap: one administrator who can get in as soon as an
\* account exists, an invitation spent once or revoked, and no key without
\* its account (Register, RevokeInvitation, DeleteTenant, CreateKey and the
\* administrator's handlers).
THEOREM AccountsCorrect == DeviceAuthorization => []AccountsConsistent
<1>1. DeviceInv => AccountsConsistent
  <2> SUFFICES ASSUME DeviceInv
               PROVE  AccountsConsistent
    OBVIOUS
  <2>1. AccountsInv /\ DeviceTables
    BY DEF DeviceInv
  <2>2. DeviceTypeOK
    BY <2>1, Zenon DEF DeviceTypeOK, DeviceTables, AccountsInv, Lock
  <2>3. OneAdministrator
    BY <2>1, Zenon DEF AccountsInv, AdministratorOK, OneAdministrator, Live
  <2>4. InvitationSpentOnce
    BY <2>1, Zenon DEF AccountsInv, JoinedOK, InvitationSpentOnce
  <2> QED
    BY <2>1, <2>2, <2>3, <2>4 DEF AccountsConsistent, AccountsInv
<1> QED
  BY <1>1, DeviceInvariant, PTL

\* A grant that was revoked, whose key was deleted, or that existed or was
\* being approved when the password moved on, gives no access again
\* (RAIOAuthSession, ResolveKey, UpdateKey, ApproveRAIAuthorization).
THEOREM CutCorrect == DeviceAuthorization => []CutStaysCut
<1>1. DeviceInv => CutStaysCut
  <2> SUFFICES ASSUME DeviceInv, NEW a \in cut
               PROVE  ~CanInfer(a) /\ ~(CanAct(a) /\ auth[a].purpose = "account")
    BY DEF CutStaysCut
  <2>1. a \in Grants
    BY DEF DeviceInv, DeviceTables
  <2>2. CutOff(auth[a], session[a], key[a], tenant) /\ HeldOK(auth[a], session[a], key[a], tenant)
    BY <2>1, GrantTypes, Zenon DEF GrantHere, GrantOK
  <2> DEFINE t == session[a].tenant
  <2>3. /\ t \in Tenants
        /\ \/ session[a].state = "deleted" \/ tenant[t].state = "deleted"
           \/ session[a].version < tenant[t].version
           \/ auth[a].purpose = "inference" /\ (key[a].state = "deleted" \/ ~key[a].enabled)
    BY <2>2, Zenon DEF CutOff, HeldOK
  <2>4. tenant[t].version \in 0..MaxVersion /\ session[a].version \in 0..MaxVersion
    BY <2>1, <2>3, GrantTypes, AccountTypes, Zenon DEF OAuthSession
  <2>5. session[a].version < tenant[t].version => tenant[t].version # session[a].version
    BY <2>4, AccountFacts
  <2>6. CASE CanAct(a)
    BY <2>3, <2>5, <2>6 DEF CanAct, SessionStands, CanInfer
  <2> QED
    BY <2>6, Zenon DEF CanInfer
<1> QED
  BY <1>1, DeviceInvariant, PTL

\* The step of the abstract specification that a step of this one is.
LEMMA GrantStep ==
    ASSUME DeviceInv, DeviceNext \/ UNCHANGED authorizationVars
    PROVE  [Abstract!GrantNext]_([a \in Grants |-> GrantState(a)])
<1> DEFINE now == [a \in Grants |-> GrantState(a)]
           next == [a \in Grants |-> GrantState(a)']
<1>1. now' = next
  OBVIOUS
<1>2. CASE Undecided
  <2>1. \A a \in Grants : GrantState(a)' = GrantState(a) \/ (GrantState(a) # "none" /\ GrantState(a)' = "over")
    BY <1>2, GrantTypes, GrantMoves DEF Undecided
  <2> DEFINE A == {a \in Grants : GrantState(a)' # GrantState(a)}
  <2>2. CASE A = {}
    BY <1>1, <2>2
  <2>3. CASE A # {}
    <3>1. A \in SUBSET {a \in Grants : now[a] # "none"}
      BY <2>1
    <3>2. next = [a \in Grants |-> IF a \in A THEN "over" ELSE now[a]]
      BY <2>1
    <3>3. Abstract!End
      BY <1>1, <2>3, <3>1, <3>2, Zenon DEF Abstract!End
    <3> QED
      BY <3>3, Zenon DEF Abstract!GrantNext
  <2> QED
    BY <2>2, <2>3
<1>3. CASE \E a \in Grants : Decided(a)
  <2>1. PICK a \in Grants : Decided(a)
    BY <1>3
  <2>2. \A c \in Grants \ {a} : GrantState(c)' = GrantState(c)
    BY <2>1, PhaseOf DEF Decided, Untouched
  <2>3. next = [now EXCEPT ![a] = GrantState(a)']
    BY <2>2, Zenon
  <2>4. now[a] = GrantState(a)
    OBVIOUS
  <2>5. CASE GrantState(a)' = GrantState(a)
    BY <1>1, <2>2, <2>5
  <2>6. CASE GrantState(a) # "none" /\ GrantState(a)' = "over"
    BY <1>1, <2>2, <2>6 DEF Abstract!End, Abstract!GrantNext
  <2>7. CASE GrantState(a) = "none" /\ GrantState(a)' = "asked"
    BY <1>1, <2>3, <2>4, <2>7 DEF Abstract!Ask, Abstract!Becomes, Abstract!GrantNext
  <2>8. CASE GrantState(a) = "asked" /\ GrantState(a)' = "ready"
    BY <1>1, <2>3, <2>4, <2>8 DEF Abstract!Approve, Abstract!Becomes, Abstract!GrantNext
  <2>9. CASE GrantState(a) = "ready" /\ GrantState(a)' = "held"
    BY <1>1, <2>3, <2>4, <2>9 DEF Abstract!HandOver, Abstract!Becomes, Abstract!GrantNext
  <2>10. Moves(a)
    BY <2>1 DEF Decided
  <2> QED
    BY <2>5, <2>6, <2>7, <2>8, <2>9, <2>10, Zenon DEF Moves
<1>4. CASE UNCHANGED authorizationVars
  BY <1>1, <1>4, PhaseOf DEF authorizationVars, deviceVars
<1> QED
  BY <1>2, <1>3, <1>4, DeviceSteps

\* The gateway implements the abstract life of a grant, for any number of
\* accounts, browsers and devices: it is decided once, its tokens are handed
\* out once, and a grant that has ended stays ended.
THEOREM PromiseKept == DeviceAuthorization => GrantsKeepTheirPromise
<1>1. DeviceInit => Abstract!GrantInit
  <2> SUFFICES ASSUME DeviceInit
               PROVE  Abstract!GrantInit
    OBVIOUS
  <2>1. auth = [a \in Grants |-> IF a \in deployment.gone THEN [NoAuthorization EXCEPT !.state = "deleted", !.expired = TRUE]
                                 ELSE NoAuthorization]
    BY Zenon DEF DeviceInit
  <2>2. NoAuthorization \in Authorization /\ NoAuthorization.status = "pending" /\ NoAuthorization.state = "absent"
    BY DEF NoAuthorization, Authorization
  <2> DEFINE over == [NoAuthorization EXCEPT !.state = "deleted", !.expired = TRUE]
  <2>3. over.status = "pending" /\ over.state = "deleted" /\ over.expired
    BY <2>2, Zenon DEF Authorization
  <2> HIDE DEF over
  <2>4. \A a \in Grants : auth[a] = over \/ auth[a] = NoAuthorization
    BY <2>1, Zenon DEF over
  <2>5. /\ \A a : Phase(over, session[a], a \in cut) = "over"
        /\ \A a : Phase(NoAuthorization, session[a], a \in cut) = "none"
    BY <2>2, <2>3 DEF Phase
  <2>6. \A a \in Grants : GrantState(a) \in {"none", "over"}
    BY <2>4, <2>5, PhaseOf
  <2> QED
    BY <2>6 DEF Abstract!GrantInit
<1>2. DeviceInv /\ [DeviceNext]_authorizationVars => [Abstract!GrantNext]_([a \in Grants |-> GrantState(a)])
  BY GrantStep
<1> QED
  BY <1>1, <1>2, DeviceInvariant, PTL DEF DeviceAuthorization, GrantsKeepTheirPromise, Abstract!GrantSpec

-----------------------------------------------------------------------------
(* GitHub identities *)

\* No account has an identity that it did not have.
NoBinding == \A t \in Tenants : tenant'[t].github = None \/ tenant'[t].github = tenant[t].github

LEMMA OneRowNoBinding ==
    ASSUME AccountsInv, NEW u \in Tenants, NEW row, tenant' = [tenant EXCEPT ![u] = row],
           row.github = None \/ row.github = tenant[u].github
    PROVE  NoBinding
BY AccountTypes DEF NoBinding

\* Only the callback binds.
LEMMA OtherStepsBindNothing ==
    ASSUME AccountsInv, NEW b \in Browsers,
           \/ \E t \in Tenants : register(b, t)
           \/ adminTenants(b) \/ adminTenantUpdate(b) \/ adminPassword(b) \/ adminTenantDelete(b)
           \/ changePassword(b) \/ githubUnbind(b)
    PROVE  NoBinding
<1>1. ASSUME tenant' = tenant
      PROVE  NoBinding
  BY <1>1, Zenon DEF NoBinding
<1>2. \A t \in Tenants : tenant[t] \in Tenant /\ tenant[t].version \in 0..MaxVersion
  BY AccountTypes
<1>3. ASSUME NEW t \in Tenants, register(b, t)
      PROVE  NoBinding
  <2> DEFINE admin == request[b].target = None
  <2>1. tenant' = [tenant EXCEPT ![t] = NewTenant(admin)] /\ admin \in BOOLEAN
    BY <1>3, Zenon DEF register
  <2>2. NewTenant(admin).github = None
    BY <2>1, NewRows
  <2> QED
    BY <2>1, <2>2, OneRowNoBinding
<1> DEFINE u == request[b].target
<1>4. request[b].op \in {"enable", "disable", "delete", "reset", "create"} => u \in Tenants
  BY DEF AccountsInv, RequestOK
<1>5. CASE adminTenants(b)
  BY <1>1, <1>4, <1>5, NewRows, OneRowNoBinding DEF adminTenants, Serving, CreateTenant
<1>6. CASE adminTenantUpdate(b)
  <2> DEFINE enabled == Serving(b, "enable")
             row == [tenant[u] EXCEPT !.enabled = enabled]
  <2>1. u \in Tenants /\ enabled \in BOOLEAN
    BY <1>4, <1>6 DEF adminTenantUpdate, Serving
  <2>2. tenant' = tenant \/ tenant' = [tenant EXCEPT ![u] = row]
    BY <1>6, Zenon DEF adminTenantUpdate, UpdateTenant
  <2>3. row.github = tenant[u].github
    BY <1>2, <2>1, EnabledUpdate, Zenon
  <2> QED
    BY <1>1, <2>1, <2>2, <2>3, OneRowNoBinding
<1>7. CASE adminPassword(b)
  <2> DEFINE row == [tenant[u] EXCEPT !.mustChange = TRUE, !.version = tenant[u].version + 1]
  <2>1. u \in Tenants
    BY <1>4, <1>7 DEF adminPassword, Serving
  <2>2. tenant' = tenant \/ (tenant' = [tenant EXCEPT ![u] = row] /\ tenant[u].version < MaxVersion)
    BY <1>7, Zenon DEF adminPassword, ResetPassword
  <2>3. CASE tenant' = [tenant EXCEPT ![u] = row] /\ tenant[u].version < MaxVersion
    <3>1. tenant[u].version + 1 \in 0..MaxVersion
      BY <1>2, <2>1, <2>3, AccountFacts
    <3>2. row.github = tenant[u].github
      BY <1>2, <2>1, <3>1, ResetUpdate, Zenon
    <3> QED
      BY <2>1, <2>3, <3>2, OneRowNoBinding
  <2> QED
    BY <1>1, <2>2, <2>3
<1>8. CASE adminTenantDelete(b)
  <2> DEFINE row == [tenant[u] EXCEPT !.state = "deleted", !.github = None]
  <2>1. u \in Tenants
    BY <1>4, <1>8 DEF adminTenantDelete, Serving
  <2>2. tenant' = tenant \/ tenant' = [tenant EXCEPT ![u] = row]
    BY <1>8, Zenon DEF adminTenantDelete
  <2>3. row.github = None
    BY <1>2, <2>1, DeletedUpdate, Zenon
  <2> QED
    BY <1>1, <2>1, <2>2, <2>3, OneRowNoBinding
<1> DEFINE t == request[b].by
<1>9. request[b].op \in {"password", "unbind"} => t \in Tenants
  BY DEF AccountsInv, RequestOK, TenantOps
<1>10. CASE changePassword(b)
  <2> DEFINE row == [tenant[t] EXCEPT !.mustChange = FALSE]
  <2>1. t \in Tenants
    BY <1>9, <1>10 DEF changePassword, Serving
  <2>2. tenant' = tenant \/ tenant' = [tenant EXCEPT ![t] = row]
    BY <1>10, Zenon DEF changePassword, ChangePassword
  <2>3. row.github = tenant[t].github
    BY <1>2, <2>1, MustChangeUpdate, Zenon
  <2> QED
    BY <1>1, <2>1, <2>2, <2>3, OneRowNoBinding
<1>11. CASE githubUnbind(b)
  <2> DEFINE row == [tenant[t] EXCEPT !.github = None, !.version = tenant[t].version + 1]
  <2>1. t \in Tenants
    BY <1>9, <1>11 DEF githubUnbind, Serving
  <2>2. tenant' = tenant \/ (tenant' = [tenant EXCEPT ![t] = row] /\ tenant[t].version < MaxVersion)
    BY <1>11, Zenon DEF githubUnbind, UnbindGitHub
  <2>3. CASE tenant' = [tenant EXCEPT ![t] = row] /\ tenant[t].version < MaxVersion
    <3>1. tenant[t].version + 1 \in 0..MaxVersion
      BY <1>2, <2>1, <2>3, AccountFacts
    <3>2. row.github = None
      BY <1>2, <2>1, <3>1, UnboundUpdate, Zenon
    <3> QED
      BY <2>1, <2>3, <3>2, OneRowNoBinding
  <2> QED
    BY <1>1, <2>2, <2>3
<1> QED
  BY <1>3, <1>5, <1>6, <1>7, <1>8, <1>10, <1>11

\* Whoever is bound in a step.
BoundBy(t, b) ==
    /\ Serving(b, "github") /\ request'[b] = NoRequest
    /\ request[b].by = t /\ request[b].version = tenant[t].version

LEMMA CallbackBinds ==
    ASSUME AccountsInv, NEW b \in Browsers, githubCallback(b), NEW t \in Tenants,
           tenant[t].github = None, tenant'[t].github # None
    PROVE  BoundBy(t, b)
<1>1. tenant \in [Tenants -> Tenant] /\ request \in [Browsers -> Request]
  BY AccountTypes
<1>2. Serving(b, "github") /\ request' = [request EXCEPT ![b] = NoRequest]
  BY Zenon DEF githubCallback, Answered
<1>3. request'[b] = NoRequest
  BY <1>1, <1>2, Zenon
<1> DEFINE u == request[b].by
           row == [tenant[u] EXCEPT !.github = request[b].target]
<1>4. \/ tenant' = tenant
      \/ tenant' = [tenant EXCEPT ![u] = row] /\ tenant[u].version = request[b].version
  BY Zenon DEF githubCallback, BindGitHub
<1> HIDE DEF row
<1>5. tenant' # tenant
  BY Zenon
<1>6. t = u
  BY <1>1, <1>4, <1>5, Zenon
<1> QED
  BY <1>2, <1>3, <1>4, <1>5, <1>6, Zenon DEF BoundBy

\* Every step of the gateway.
LEMMA StepsBind ==
    ASSUME DeviceInv, DeviceNext
    PROVE  NoBinding \/ \E b \in Browsers : githubCallback(b)
<1>1. AccountsInv
  BY DEF DeviceInv
<1>2. tenant' = tenant => NoBinding
  BY Zenon DEF NoBinding
<1>3. /\ \A b \in Browsers, t \in Tenants : register(b, t) => NoBinding
      /\ \A b \in Browsers : adminTenants(b) \/ adminTenantUpdate(b) \/ adminPassword(b) => NoBinding
      /\ \A b \in Browsers : adminTenantDelete(b) \/ changePassword(b) \/ githubUnbind(b) => NoBinding
  BY <1>1, OtherStepsBindNothing
<1>4. /\ \A b, i : RegisterRead(b, i) => tenant' = tenant
      /\ \A b, t : tenantLogin(b, t) => tenant' = tenant
      /\ \A b : RegisterRollback(b) \/ logout(b) => tenant' = tenant
      /\ \A b, op, target : Authenticate(b, op, target) => tenant' = tenant
      /\ \A b, op, t, target : AuthenticateFor(b, op, t, target) => tenant' = tenant
      /\ \A b : adminInvitations(b) \/ adminInvitationRevoke(b) => tenant' = tenant
      /\ \A b : keys(b) \/ keyUpdate(b) \/ keyDelete(b) => tenant' = tenant
      /\ \A b : githubBindStart(b) \/ githubLoginStart(b) \/ githubFlowFails(b) => tenant' = tenant
      /\ \A b, g : githubReadFlow(b, g) => tenant' = tenant
      /\ \A i : InvitationExpires(i) => tenant' = tenant
  BY Zenon DEF RegisterRead, tenantLogin, RegisterRollback, logout, Authenticate, AuthenticateFor,
     adminInvitations, adminInvitationRevoke, keys, keyUpdate, keyDelete, githubBindStart,
     githubLoginStart, githubFlowFails, githubReadFlow, InvitationExpires
<1>5. AccountStep => NoBinding \/ \E b \in Browsers : githubCallback(b)
  BY <1>2, <1>3, <1>4, Zenon DEF AccountStep
<1>6. /\ \A b : ApproveRead(b) \/ ApproveRAIAuthorization(b) \/ DenyRAIAuthorization(b) => tenant' = tenant
      /\ \A b : RevokeRAIDevice(b) => tenant' = tenant
      /\ \A b, a, op, target : withRAIManagement(b, a, op, target) => tenant' = tenant
      /\ \A a : AuthorizationExpires(a) \/ AccessExpires(a) \/ SessionExpires(a) => tenant' = tenant
      /\ \A a : raiManagementSession(a) \/ ConsumeRAIOAuthAuthorization(a) => tenant' = tenant
      /\ \A a, purpose : createRAIAuthorization(a, purpose) => tenant' = tenant
      /\ \A a, n : RefreshRAIOAuth(a, n) => tenant' = tenant
      /\ DeleteExpiredRAIAuthorizations => tenant' = tenant
  BY Zenon DEF ApproveRead, ApproveRAIAuthorization, DenyRAIAuthorization, RevokeRAIDevice, withRAIManagement,
     AuthorizationExpires, AccessExpires, SessionExpires, raiManagementSession, ConsumeRAIOAuthAuthorization,
     createRAIAuthorization, RefreshRAIOAuth, DeleteExpiredRAIAuthorizations, authorizationVars, accountVars
<1>7. CASE ServerStep
  BY <1>2, <1>3, <1>5, <1>6, <1>7 DEF TenantDeleted, ServerStep, AccountStepHere
<1>8. CASE AnyDevice
  BY <1>2, <1>6, <1>8, Zenon DEF AnyDevice
<1> QED
  BY <1>7, <1>8 DEF DeviceNext

\* Whoever binds an identity holds a session of the account's password version
\* of that moment (githubCallback, BindGitHub).
THEOREM BindingCorrect == DeviceAuthorization => BindsWithCurrentPassword
<1>1. DeviceInv /\ [DeviceNext]_authorizationVars =>
        [\A t \in Tenants : tenant[t].github = None /\ tenant'[t].github # None =>
            \E b \in Browsers : /\ Serving(b, "github") /\ request'[b] = NoRequest
                                /\ request[b].by = t /\ request[b].version = tenant[t].version]_accountVars
  <2> SUFFICES ASSUME DeviceInv, DeviceNext, NEW t \in Tenants, tenant[t].github = None, tenant'[t].github # None
               PROVE  \E b \in Browsers : BoundBy(t, b)
    BY Zenon DEF authorizationVars, BoundBy
  <2>1. ~NoBinding
    BY Zenon DEF NoBinding
  <2>2. PICK b \in Browsers : githubCallback(b)
    BY <2>1, StepsBind
  <2>3. BoundBy(t, b)
    BY <2>2, CallbackBinds DEF DeviceInv
  <2> QED
    BY <2>3
<1> QED
  BY <1>1, DeviceInvariant, PTL DEF DeviceAuthorization, BindsWithCurrentPassword

-----------------------------------------------------------------------------
(* The commands: the inductive invariant *)

\* What each kind of command may be doing.
HelperSteps == {"start", "lock", "locked", "refresh", "put", "served", "refused", "failed", "killed"}
LoginSteps == {"start", "poll", "check", "replace", "save", "abort", "done", "failed", "killed"}
LogoutSteps == {"start", "revoke", "delete", "done", "failed", "killed"}

\* The steps of a helper under the lock, those in which it has a token it
\* read there, and those in which a login has a grant nobody else knows of.
Locking == {"locked", "refresh", "put"}
Refreshing == {"refresh", "put"}
Owning == {"poll", "check", "replace", "save", "abort"}

\* A credential that was saved, read or given: its tokens were handed out,
\* and its refresh token is the session's last one or an older one.
Issued(c, rows, sessions) ==
    /\ c \in Saved \cup {NoCredential}
    /\ c # NoCredential => /\ rows[c.grant].status = "consumed"
                           /\ c.refresh <= sessions[c.grant].refresh

\* What a login has asked for and not saved: no token of it was refreshed.
Asked(c, rows, sessions) ==
    /\ c \in Saved /\ c.refresh = 0
    /\ rows[c.grant].state # "absent" /\ sessions[c.grant].refresh = 0

\* What a process knows.
ProcessOK(p, row, rows, sessions) ==
    /\ row \in Process
    /\ p \in Helpers => row.pc \in HelperSteps
    /\ p \in Logins => row.pc \in LoginSteps
    /\ p \in Logouts => row.pc \in LogoutSteps
    /\ row.pc \notin {"poll", "killed"} => Issued(row.cred, rows, sessions)
    /\ Issued(row.old, rows, sessions)
    /\ row.pc \in Refreshing \cup {"revoke"} => row.cred # NoCredential
    /\ row.pc \in Owning => Asked(row.cred, rows, sessions)
    /\ p \in Logins /\ row.pc = "failed" /\ row.cred # NoCredential => sessions[row.cred.grant].state # "live"

\* A grant that a login has not saved is saved by nobody else, and neither
\* refreshed by a helper nor asked for by another login.
Unsaved(c, procs) == \A p \in Logins : procs[p].pc \in Owning => procs[p].cred.grant # c.grant

Exclusive(procs) ==
    \A p \in Logins : procs[p].pc \in Owning =>
        /\ \A q \in Helpers : procs[q].pc \in Refreshing => procs[q].cred.grant # procs[p].cred.grant
        /\ \A q \in Logins : q # p /\ procs[q].pc \in Owning => procs[q].cred.grant # procs[p].cred.grant

\* The lock file is held by the helper that is under it.
LockHeld(procs, holder) ==
    /\ holder \in Helpers \cup {None}
    /\ \A p \in Helpers : procs[p].pc \in Locking <=> holder = p

\* Without faults a saved refresh token is the session's last one, or the
\* helper that has the last one is about to save it.
Current(c, sessions) == c # NoCredential => sessions[c.grant].refresh = c.refresh

UpToDate(c, procs, sessions) ==
    \/ Current(c, sessions)
    \/ \E p \in Helpers : procs[p].pc = "put" /\ procs[p].cred.grant = c.grant

HelperCurrent(row, sessions) ==
    /\ ~row.stale
    /\ row.pc \in Refreshing => sessions[row.cred.grant].refresh = row.cred.refresh

Faultless(procs, first, second, sessions) ==
    /\ UpToDate(first, procs, sessions) /\ UpToDate(second, procs, sessions)
    /\ \A p \in Helpers : HelperCurrent(procs[p], sessions)

\* What holds on the machine whatever goes wrong.
MachineOK(procs, first, second, holder, rows, sessions) ==
    /\ Issued(first, rows, sessions) /\ Issued(second, rows, sessions)
    /\ ~KeyringEnabled => first = NoCredential
    /\ procs \in [Processes -> Process]
    /\ \A p \in Processes : ProcessOK(p, procs[p], rows, sessions)
    /\ Unsaved(first, procs) /\ Unsaved(second, procs)
    /\ Exclusive(procs)
    /\ LockHeld(procs, holder)

\* A grant whose tokens were not handed out was never refreshed.
Unrefreshed(row, held) == row.status # "consumed" => held.refresh = 0

\* NoGrantWasted needs that a refresh token is rotated under the lock only,
\* and that a grant is known to one login until it is saved.
ClientInv ==
    /\ DeviceInv
    /\ \A a \in Grants : Unrefreshed(auth[a], session[a])
    /\ MachineOK(proc, keyring, file, lock, auth, session)
    /\ faults \subseteq Faults
    /\ faults = {} => Faultless(proc, keyring, file, session)

-----------------------------------------------------------------------------
(* Constants and rows *)

\* What the assumptions say of the processes.
LEMMA ProcessFacts ==
    /\ None \notin Helpers /\ None \notin Grants /\ "inference" \in Purposes /\ MaxRotation \in Nat
    /\ Helpers \subseteq Processes /\ Logins \subseteq Processes /\ Logouts \subseteq Processes
    /\ \A p \in Helpers : p \notin Logins /\ p \notin Logouts
    /\ \A p \in Logins : p \notin Logouts
BY ClientAssumption, DeviceAssumption, AccountFacts DEF Processes

\* A process that does something else; that has another credential, replaces
\* one, or was refused.
Goes(row, pc) == [row EXCEPT !.pc = pc]
Given(row, pc, c) == [row EXCEPT !.pc = pc, !.cred = c]
Replaces(row, pc, c) == [row EXCEPT !.pc = pc, !.old = c]
Refused(row, stale) == [row EXCEPT !.pc = "refused", !.stale = stale]

LEMMA ProcessRows ==
    ASSUME NEW row \in Process, NEW pc \in Steps \cup Ends
    PROVE  /\ LET new == Goes(row, pc) IN
              /\ new \in Process /\ new.pc = pc /\ new.cred = row.cred /\ new.old = row.old /\ new.stale = row.stale
           /\ \A c \in Saved \cup {NoCredential} : LET new == Given(row, pc, c) IN
              /\ new \in Process /\ new.pc = pc /\ new.cred = c /\ new.old = row.old /\ new.stale = row.stale
           /\ \A c \in Saved \cup {NoCredential} : LET new == Replaces(row, pc, c) IN
              /\ new \in Process /\ new.pc = pc /\ new.cred = row.cred /\ new.old = c /\ new.stale = row.stale
           /\ \A stale \in BOOLEAN : LET new == Refused(row, stale) IN
              /\ new \in Process /\ new.pc = "refused" /\ new.cred = row.cred /\ new.old = row.old /\ new.stale = stale
BY DEF Ends, Process, Goes, Given, Replaces, Refused

\* A credential that was refreshed, or grows old.
LEMMA SavedRow ==
    ASSUME NEW c \in Saved, NEW n \in 0..MaxRotation
    PROVE  /\ LET new == [c EXCEPT !.refresh = n, !.fresh = TRUE] IN
              new \in Saved /\ new.grant = c.grant /\ new.refresh = n
           /\ LET new == [c EXCEPT !.fresh = FALSE] IN
              new \in Saved /\ new.grant = c.grant /\ new.refresh = c.refresh
BY Zenon DEF Saved

LEMMA CredentialFacts ==
    /\ NoCredential.grant = None /\ NoCredential.refresh = 0
    /\ [NoCredential EXCEPT !.fresh = FALSE] = NoCredential
    /\ \A c \in Saved : c # NoCredential /\ c.grant \in Grants /\ c.refresh \in 0..MaxRotation
<1>1. NoCredential.grant = None /\ NoCredential.refresh = 0
  BY DEF NoCredential
<1>3. [NoCredential EXCEPT !.fresh = FALSE] = NoCredential
  <2>1. \A n, b : [[grant |-> None, refresh |-> n, fresh |-> b] EXCEPT !.fresh = b]
                  = [grant |-> None, refresh |-> n, fresh |-> b]
    OBVIOUS
  <2> QED
    BY <2>1, Zenon DEF NoCredential
<1>2. \A c \in Saved : c.grant \in Grants /\ c.refresh \in 0..MaxRotation
  BY Zenon DEF Saved
<1> QED
  BY <1>1, <1>2, <1>3, ProcessFacts

-----------------------------------------------------------------------------
(* How the gateway's grants may change under the machine *)

\* A grant, as what was handed out of it relies on it: tokens stay handed
\* out, a session that is gone stays gone, and rotation goes up.
GrantGrows(row, new, held, newHeld) ==
    /\ held.refresh \in Nat /\ newHeld.refresh \in Nat /\ held.refresh <= newHeld.refresh
    /\ row.state # "absent" => new.state # "absent"
    /\ row.status = "consumed" =>
          new.status = "consumed" /\ (newHeld.state = "live" => held.state = "live")

Grow(rows, newRows, sessions, newSessions) ==
    \A a \in Grants : GrantGrows(rows[a], newRows[a], sessions[a], newSessions[a])

LEMMA IssuedGrows ==
    ASSUME NEW c, NEW rows, NEW newRows, NEW sessions, NEW newSessions,
           Issued(c, rows, sessions), Grow(rows, newRows, sessions, newSessions)
    PROVE  Issued(c, newRows, newSessions)
<1>1. CASE c \notin Saved
  BY <1>1 DEF Issued
<1>2. CASE c \in Saved
  <2>1. c # NoCredential /\ c.grant \in Grants /\ c.refresh \in 0..MaxRotation
    BY <1>2, CredentialFacts, Zenon
  <2> DEFINE g == c.grant
  <2>2. rows[g].status = "consumed" /\ c.refresh <= sessions[g].refresh
    BY <2>1, Zenon DEF Issued
  <2>3. /\ sessions[g].refresh \in Nat /\ newSessions[g].refresh \in Nat /\ sessions[g].refresh <= newSessions[g].refresh
        /\ newRows[g].status = "consumed"
    BY <2>1, <2>2, Zenon DEF Grow, GrantGrows
  <2>4. c.refresh \in Nat
    BY <2>1, ProcessFacts
  <2>5. \A i, j, k \in Nat : i <= j /\ j <= k => i <= k
    OBVIOUS
  <2>6. c.refresh <= newSessions[g].refresh
    BY <2>2, <2>3, <2>4, <2>5, Zenon
  <2> QED
    BY <2>3, <2>6, Zenon DEF Issued
<1> QED
  BY <1>1, <1>2

\* A process keeps what it knows, as long as nobody refreshes the grant that
\* it alone knows of.
LEMMA ProcessGrows ==
    ASSUME NEW p, NEW row, NEW rows, NEW newRows, NEW sessions, NEW newSessions,
           ProcessOK(p, row, rows, sessions), Grow(rows, newRows, sessions, newSessions),
           row.pc \in Owning => newSessions[row.cred.grant].refresh = sessions[row.cred.grant].refresh
    PROVE  ProcessOK(p, row, newRows, newSessions)
<1>1. /\ row \in Process
      /\ p \in Helpers => row.pc \in HelperSteps
      /\ p \in Logins => row.pc \in LoginSteps
      /\ p \in Logouts => row.pc \in LogoutSteps
      /\ row.pc \in Refreshing \cup {"revoke"} => row.cred # NoCredential
  BY Zenon DEF ProcessOK
<1>2. row.pc \notin {"poll", "killed"} => Issued(row.cred, newRows, newSessions)
  BY IssuedGrows, Zenon DEF ProcessOK
<1>3. Issued(row.old, newRows, newSessions)
  BY IssuedGrows, Zenon DEF ProcessOK
<1>4. row.pc \in Owning => Asked(row.cred, newRows, newSessions)
  BY CredentialFacts DEF ProcessOK, Asked, Grow, GrantGrows
<1>5. p \in Logins /\ row.pc = "failed" /\ row.cred # NoCredential => newSessions[row.cred.grant].state # "live"
  <2> SUFFICES ASSUME p \in Logins, row.pc = "failed", row.cred # NoCredential
               PROVE  newSessions[row.cred.grant].state # "live"
    OBVIOUS
  <2>1. row.pc \notin {"poll", "killed"}
    OBVIOUS
  <2>2. Issued(row.cred, rows, sessions) /\ sessions[row.cred.grant].state # "live"
    BY <2>1, Zenon DEF ProcessOK
  <2>3. row.cred.grant \in Grants /\ rows[row.cred.grant].status = "consumed"
    BY <2>2, CredentialFacts DEF Issued
  <2> QED
    BY <2>2, <2>3, Zenon DEF Grow, GrantGrows
<1> QED
  BY <1>1, <1>2, <1>3, <1>4, <1>5, Zenon DEF ProcessOK

\* The machine, when only the gateway moves.
LEMMA MachineGrows ==
    ASSUME NEW procs, NEW first, NEW second, NEW holder, NEW rows, NEW newRows, NEW sessions, NEW newSessions,
           MachineOK(procs, first, second, holder, rows, sessions), Grow(rows, newRows, sessions, newSessions),
           \A p \in Logins : procs[p].pc \in Owning =>
               newSessions[procs[p].cred.grant].refresh = sessions[procs[p].cred.grant].refresh
    PROVE  MachineOK(procs, first, second, holder, newRows, newSessions)
<1>1. Issued(first, newRows, newSessions) /\ Issued(second, newRows, newSessions)
  BY IssuedGrows, Zenon DEF MachineOK
<1>2. ASSUME NEW p \in Processes
      PROVE  ProcessOK(p, procs[p], newRows, newSessions)
  <2>1. ProcessOK(p, procs[p], rows, sessions)
    BY Zenon DEF MachineOK
  <2>2. procs[p].pc \in Owning => p \in Logins
    BY <2>1 DEF Processes, ProcessOK, HelperSteps, LogoutSteps, Owning
  <2> QED
    BY <2>1, <2>2, ProcessGrows
<1> QED
  BY <1>1, <1>2, Zenon DEF MachineOK

-----------------------------------------------------------------------------
(* How one process may move on the machine *)

\* Only logins own a grant, and only helpers are under the lock.
LEMMA Kinds ==
    ASSUME NEW p \in Processes, NEW row, NEW rows, NEW sessions, ProcessOK(p, row, rows, sessions)
    PROVE  /\ row.pc \in Owning => p \in Logins
           /\ row.pc \in Locking => p \in Helpers
           /\ row.pc \in Refreshing => p \in Helpers
BY DEF Processes, ProcessOK, HelperSteps, LoginSteps, LogoutSteps, Owning, Locking, Refreshing

\* Grant g is asked for by no login but p; nor does a helper refresh it.
Foreign(p, g, procs) == \A q \in Logins : q # p /\ procs[q].pc \in Owning => procs[q].cred.grant # g
Private(p, g, procs) ==
    Foreign(p, g, procs) /\ \A q \in Helpers : procs[q].pc \in Refreshing => procs[q].cred.grant # g

\* A saved credential stays apart from what logins own.
LEMMA UnsavedMoves ==
    ASSUME NEW procs \in [Processes -> Process], NEW p \in Processes, NEW row, NEW c, Foreign(p, c.grant, procs),
           p \in Logins /\ row.pc \in Owning => row.cred.grant # c.grant
    PROVE  Unsaved(c, [procs EXCEPT ![p] = row])
<1> DEFINE new == [procs EXCEPT ![p] = row]
<1>1. Logins \subseteq Processes
  BY ProcessFacts
<1>2. new[p] = row /\ \A q \in Processes : q # p => new[q] = procs[q]
  BY Zenon
<1> HIDE DEF new
<1>3. Unsaved(c, new)
  BY <1>1, <1>2, Zenon DEF Unsaved, Foreign
<1> QED
  BY <1>3 DEF new

\* The lock, when a process neither takes nor leaves it; when one takes it;
\* and when one ends or leaves it.
LEMMA LockStays ==
    ASSUME NEW procs \in [Processes -> Process], NEW p \in Processes, NEW row, NEW holder, LockHeld(procs, holder),
           p \in Helpers => (row.pc \in Locking <=> procs[p].pc \in Locking)
    PROVE  LockHeld([procs EXCEPT ![p] = row], holder)
<1> DEFINE new == [procs EXCEPT ![p] = row]
<1>1. Helpers \subseteq Processes
  BY ProcessFacts
<1>2. new[p] = row /\ \A q \in Processes : q # p => new[q] = procs[q]
  BY Zenon
<1> HIDE DEF new
<1>3. LockHeld(new, holder)
  BY <1>1, <1>2, Zenon DEF LockHeld
<1> QED
  BY <1>3 DEF new

LEMMA LockTaken ==
    ASSUME NEW procs \in [Processes -> Process], NEW p \in Helpers, NEW row, LockHeld(procs, None),
           row.pc \in Locking
    PROVE  LockHeld([procs EXCEPT ![p] = row], p)
<1> DEFINE new == [procs EXCEPT ![p] = row]
<1>1. Helpers \subseteq Processes /\ None \notin Helpers
  BY ProcessFacts
<1>2. new[p] = row /\ \A q \in Processes : q # p => new[q] = procs[q]
  BY <1>1, Zenon
<1>3. \A q \in Helpers : q # None /\ procs[q].pc \notin Locking
  BY <1>1, Zenon DEF LockHeld
<1> HIDE DEF new
<1>4. LockHeld(new, p)
  BY <1>1, <1>2, <1>3, Zenon DEF LockHeld
<1> QED
  BY <1>4 DEF new

LEMMA LockLeft ==
    ASSUME NEW procs \in [Processes -> Process], NEW p \in Processes, NEW row, NEW holder, LockHeld(procs, holder),
           row.pc \notin Locking
    PROVE  LockHeld([procs EXCEPT ![p] = row], IF holder = p THEN None ELSE holder)
<1> DEFINE new == [procs EXCEPT ![p] = row]
           free == IF holder = p THEN None ELSE holder
<1>1. Helpers \subseteq Processes /\ None \notin Helpers
  BY ProcessFacts
<1>2. new[p] = row /\ \A q \in Processes : q # p => new[q] = procs[q]
  BY Zenon
<1>3. free \in Helpers \cup {None}
  BY Zenon DEF LockHeld
<1>4. \A q \in Helpers : q # p => (free = q <=> holder = q)
  BY <1>1
<1>5. p \in Helpers => free # p
  BY <1>1
<1> HIDE DEF new, free
<1>6. LockHeld(new, free)
  BY <1>1, <1>2, <1>3, <1>4, <1>5, Zenon DEF LockHeld
<1> QED
  BY <1>6 DEF new, free

\* A process moves: the machine is as it should be, if the process is, and
\* the credentials and the lock are.
LEMMA MachineMoves ==
    ASSUME NEW procs, NEW first, NEW second, NEW holder, NEW rows, NEW sessions,
           MachineOK(procs, first, second, holder, rows, sessions),
           NEW p \in Processes, NEW row, ProcessOK(p, row, rows, sessions), NEW newFirst, NEW newSecond, NEW newHolder,
           Issued(newFirst, rows, sessions), Issued(newSecond, rows, sessions),
           ~KeyringEnabled => newFirst = NoCredential,
           Unsaved(newFirst, [procs EXCEPT ![p] = row]), Unsaved(newSecond, [procs EXCEPT ![p] = row]),
           LockHeld([procs EXCEPT ![p] = row], newHolder),
           row.pc \in Refreshing => Foreign(p, row.cred.grant, procs),
           row.pc \in Owning => Private(p, row.cred.grant, procs)
    PROVE  MachineOK([procs EXCEPT ![p] = row], newFirst, newSecond, newHolder, rows, sessions)
<1> DEFINE new == [procs EXCEPT ![p] = row]
<1>1. procs \in [Processes -> Process] /\ row \in Process
  BY Zenon DEF MachineOK, ProcessOK
<1>2. new \in [Processes -> Process] /\ new[p] = row /\ \A q \in Processes : q # p => new[q] = procs[q]
  BY <1>1, Zenon
<1>3. /\ Unsaved(newFirst, new) /\ Unsaved(newSecond, new) /\ LockHeld(new, newHolder)
  OBVIOUS
<1> HIDE DEF new
<1>4. \A q \in Processes : ProcessOK(q, new[q], rows, sessions)
  BY <1>2, Zenon DEF MachineOK
<1>5. Exclusive(new)
  <2>1. Helpers \subseteq Processes /\ Logins \subseteq Processes /\ \A q \in Helpers : q \notin Logins
    BY ProcessFacts
  <2>2. ASSUME NEW q \in Logins, new[q].pc \in Owning, NEW r \in Helpers, new[r].pc \in Refreshing
        PROVE  new[r].cred.grant # new[q].cred.grant
    BY <1>2, <2>1, <2>2 DEF Private, Foreign, MachineOK, Exclusive
  <2>3. ASSUME NEW q \in Logins, new[q].pc \in Owning, NEW r \in Logins, r # q, new[r].pc \in Owning
        PROVE  new[r].cred.grant # new[q].cred.grant
    BY <1>2, <2>1, <2>3 DEF Private, Foreign, MachineOK, Exclusive
  <2> QED
    BY <2>2, <2>3, Zenon DEF Exclusive
<1>6. MachineOK(new, newFirst, newSecond, newHolder, rows, sessions)
  BY <1>2, <1>3, <1>4, <1>5, Zenon DEF MachineOK
<1> QED
  BY <1>6 DEF new

\* The same without faults: who has just refreshed saves what it was given.
LEMMA FaultlessMoves ==
    ASSUME NEW procs \in [Processes -> Process], NEW first, NEW second, NEW sessions,
           Faultless(procs, first, second, sessions),
           NEW p \in Processes, NEW row, p \in Helpers => HelperCurrent(row, sessions), NEW newFirst, NEW newSecond,
           (newFirst = first /\ procs[p].pc # "put") \/ Current(newFirst, sessions),
           (newSecond = second /\ procs[p].pc # "put") \/ Current(newSecond, sessions)
    PROVE  Faultless([procs EXCEPT ![p] = row], newFirst, newSecond, sessions)
<1> DEFINE new == [procs EXCEPT ![p] = row]
<1>1. new[p] = row /\ \A q \in Processes : q # p => new[q] = procs[q]
  BY Zenon
<1>2. Helpers \subseteq Processes
  BY ProcessFacts
<1> HIDE DEF new
<1>3. UpToDate(newFirst, new, sessions)
  BY <1>1, <1>2, Zenon DEF Faultless, UpToDate
<1>4. UpToDate(newSecond, new, sessions)
  BY <1>1, <1>2, Zenon DEF Faultless, UpToDate
<1>5. \A q \in Helpers : HelperCurrent(new[q], sessions)
  BY <1>1, <1>2, Zenon DEF Faultless
<1>6. Faultless(new, newFirst, newSecond, sessions)
  BY <1>3, <1>4, <1>5 DEF Faultless
<1> QED
  BY <1>6 DEF new

-----------------------------------------------------------------------------
(* What the gateway does by itself, and for commands that do not refresh *)

SameRefresh == \A a \in Grants : session'[a].refresh = session[a].refresh
Quiet == SameRefresh /\ Grow(auth, auth', session, session')

LEMMA RefreshTypes ==
    ASSUME DeviceInv, NEW a \in Grants
    PROVE  session[a] \in OAuthSession /\ session[a].refresh \in Nat /\ session[a].refresh \in 0..MaxRotation
BY GrantTypes, ProcessFacts DEF OAuthSession

\* A grant that changes as follows, while its rotation stays.
LEMMA GrowsQuietly ==
    ASSUME DeviceInv, NEW a \in Grants, session'[a].refresh = session[a].refresh,
           auth[a].state # "absent" => auth'[a].state # "absent",
           auth[a].status = "consumed" =>
              auth'[a].status = "consumed" /\ (session'[a].state = "live" => session[a].state = "live")
    PROVE  GrantGrows(auth[a], auth'[a], session[a], session'[a])
BY RefreshTypes DEF GrantGrows

\* Nothing of the grants changes.
LEMMA SameQuiet ==
    ASSUME DeviceInv, auth' = auth, session' = session
    PROVE  Quiet
BY GrowsQuietly DEF Quiet, SameRefresh, Grow

\* Nobody decides anything.
LEMMA UndecidedQuiet ==
    ASSUME DeviceInv, Undecided, SameRefresh
    PROVE  Quiet
<1>1. ASSUME NEW a \in Grants
      PROVE  GrantGrows(auth[a], auth'[a], session[a], session'[a])
  BY RefreshTypes, GrowsQuietly DEF Undecided, GrantAges, RowAges, SessionAges, OAuthSession,
     SameRefresh
<1> QED
  BY <1>1 DEF Quiet, Grow

\* Steps that end or revoke sessions leave the rotation alone.
LEMMA EndsKeepRefresh ==
    ASSUME DeviceInv, NEW a \in Grants, NEW x,
           \/ session' = session
           \/ session' = [session EXCEPT ![a].state = x]
           \/ session' = [session EXCEPT ![a].expired = x]
    PROVE  SameRefresh
<1>1. \A c \in Grants : session[c] \in OAuthSession
  BY RefreshTypes
<1>2. session \in [Grants -> OAuthSession]
  BY Zenon DEF DeviceInv, DeviceTables
<1>3. ASSUME NEW c \in Grants
      PROVE  session'[c].refresh = session[c].refresh
  BY <1>1, <1>2 DEF OAuthSession
<1> QED
  BY <1>3 DEF SameRefresh

LEMMA ServerQuiet ==
    ASSUME DeviceInv, ServerStep, \A a \in Grants : Unrefreshed(auth[a], session[a])
    PROVE  Quiet
<1>1. CASE AccountStepHere
  BY <1>1, SameQuiet DEF AccountStepHere
<1>2. ASSUME NEW b \in Browsers, TenantDeleted(b)
      PROVE  Quiet
  BY <1>2, DeletionUndecided, UndecidedQuiet DEF TenantDeleted, SameRefresh
<1>3. ASSUME NEW b \in Browsers, ApproveRead(b)
      PROVE  Quiet
  BY <1>3, SameQuiet DEF ApproveRead
<1>4. ASSUME NEW b \in Browsers, ApproveRAIAuthorization(b)
      PROVE  Quiet
  <2>1. PICK a \in Grants : locked[a].by = b /\ Approved(a, locked[a].tenant, locked[a].version)
    BY <1>4, Zenon DEF ApproveRAIAuthorization
  <2>2. locked[a] # NoLock
    BY <2>1, AccountFacts DEF NoLock
  <2>3. auth[a].state = "live" /\ auth[a].status = "pending" /\ auth[a] \in Authorization
    BY <2>2, GrantTypes
  <2>4. session[a].refresh = 0 /\ auth[a].status # "consumed"
    BY <2>3 DEF Unrefreshed
  <2> DEFINE held == [state |-> "live", tenant |-> locked[a].tenant, version |-> locked[a].version,
                      refresh |-> 0, expired |-> FALSE]
             row == [auth[a] EXCEPT !.status = "approved", !.tenant = locked[a].tenant]
  <2>5. \/ auth' = auth /\ session' = session
        \/ auth' = [auth EXCEPT ![a] = row] /\ session' = [session EXCEPT ![a] = held]
    BY <2>1, Zenon DEF Approved
  <2>6. held.refresh = 0
    OBVIOUS
  <2>7. row.state = auth[a].state
    BY <2>3, Zenon DEF Authorization
  <2> HIDE DEF held, row
  <2>8. CASE auth' = [auth EXCEPT ![a] = row] /\ session' = [session EXCEPT ![a] = held]
    BY <2>3, <2>4, <2>6, <2>7, <2>8, GrowsQuietly DEF DeviceInv, DeviceTables, SameRefresh, Quiet,
       Grow
  <2> QED
    BY <2>5, <2>8, SameQuiet
<1>5. ASSUME NEW b \in Browsers, DenyRAIAuthorization(b)
      PROVE  Quiet
  <2> DEFINE a == request[b].target
             row == [auth[a] EXCEPT !.status = "denied", !.tenant = request[b].by]
  <2>1. /\ session' = session
        /\ \/ auth' = auth
           \/ auth[a].state = "live" /\ auth[a].status = "pending" /\ auth' = [auth EXCEPT ![a] = row]
    BY <1>5, Zenon DEF DenyRAIAuthorization, Row
  <2>2. CASE auth[a].state = "live" /\ auth[a].status = "pending" /\ auth' = [auth EXCEPT ![a] = row]
    <3>1. auth \in [Grants -> Authorization]
      BY Zenon DEF DeviceInv, DeviceTables
    <3>2. ASSUME NEW c \in Grants
          PROVE  GrantGrows(auth[c], auth'[c], session[c], session'[c])
      <4>1. CASE c = a
        BY <2>1, <2>2, <3>1, <4>1, GrowsQuietly DEF Authorization
      <4>2. CASE c # a
        BY <2>1, <2>2, <3>1, <4>2, GrowsQuietly
      <4> QED
        BY <4>1, <4>2
    <3> QED
      BY <2>1, <3>2 DEF Quiet, SameRefresh, Grow
  <2> QED
    BY <2>1, <2>2, SameQuiet
<1>6. ASSUME NEW b \in Browsers, RevokeRAIDevice(b)
      PROVE  Quiet
  <2> DEFINE a == request[b].target
  <2>1. session' = session \/ session' = [session EXCEPT ![a].state = "deleted"]
    BY <1>6, Zenon DEF RevokeRAIDevice
  <2>2. a \in Grants
    BY <1>6, GrantTypes, Zenon DEF RevokeRAIDevice, Serving, DeviceInv, AccountsInv, RequestOK
  <2>3. SameRefresh
    BY <2>1, <2>2, EndsKeepRefresh
  <2> QED
    BY <1>6, <2>3, RevokeUndecided, UndecidedQuiet
<1>7. ASSUME NEW b \in Browsers, NEW a \in Grants, NEW op, NEW target, withRAIManagement(b, a, op, target)
      PROVE  Quiet
  BY <1>7, SameQuiet DEF withRAIManagement, deviceVars
<1>8. ASSUME NEW a \in Grants, AuthorizationExpires(a) \/ AccessExpires(a) \/ SessionExpires(a)
      PROVE  Quiet
  BY <1>8, EndsKeepRefresh, ExpiryUndecided, UndecidedQuiet DEF AuthorizationExpires, AccessExpires,
     SessionExpires
<1>9. ASSUME NEW a \in Grants, raiManagementSession(a)
      PROVE  Quiet
  BY <1>9, EndsKeepRefresh, SelfRevokeUndecided, UndecidedQuiet DEF raiManagementSession
<1>10. CASE DeleteExpiredRAIAuthorizations
  <2>1. session' = [a \in Grants |-> IF session[a].state = "live" /\ session[a].expired
                                     THEN [session[a] EXCEPT !.state = "deleted"] ELSE session[a]]
    BY <1>10, Zenon DEF DeleteExpiredRAIAuthorizations
  <2>2. ASSUME NEW a \in Grants
        PROVE  session'[a].refresh = session[a].refresh
    BY <2>1, RefreshTypes DEF OAuthSession
  <2> QED
    BY <1>10, <2>2, SweepUndecided, UndecidedQuiet DEF SameRefresh
<1> QED
  BY <1>1, <1>2, <1>3, <1>4, <1>5, <1>6, <1>7, <1>8, <1>9, <1>10, Zenon DEF ServerStep

\* A device asks: a grant that nobody has heard of.
LEMMA AskQuiet ==
    ASSUME DeviceInv, NEW a \in Grants, NEW purpose, createRAIAuthorization(a, purpose)
    PROVE  Quiet /\ auth[a].status = "pending" /\ auth'[a].state # "absent"
<1> DEFINE row == [NoAuthorization EXCEPT !.state = "live", !.purpose = purpose]
<1>1. auth[a].state = "absent" /\ auth' = [auth EXCEPT ![a] = row] /\ session' = session
  BY Zenon DEF createRAIAuthorization
<1>2. auth[a].status = "pending"
  BY <1>1, GrantTypes, Zenon DEF GrantHere, GrantOK
<1>3. row.state = "live"
  BY DEF NoAuthorization
<1> HIDE DEF row
<1>4. auth \in [Grants -> Authorization]
  BY Zenon DEF DeviceInv, DeviceTables
<1>5. auth'[a] = row /\ \A c \in Grants : c # a => auth'[c] = auth[c]
  BY <1>1, <1>4, Zenon
<1>6. auth'[a].state # "absent" /\ auth[a].status # "consumed"
  BY <1>2, <1>3, <1>5
<1>7. \A c \in Grants : GrantGrows(auth[c], auth'[c], session[c], session'[c])
  BY <1>1, <1>5, <1>6, GrowsQuietly
<1> QED
  BY <1>1, <1>2, <1>6, <1>7 DEF Quiet, SameRefresh, Grow

\* A device fetches its tokens, or is told why there are none.
LEMMA ConsumeQuiet ==
    ASSUME DeviceInv, NEW a \in Grants, ConsumeRAIOAuthAuthorization(a)
    PROVE  Quiet /\ (ExchangeAnswer(a) = "tokens" => auth'[a].status = "consumed")
<1> DEFINE row == [auth[a] EXCEPT !.status = "consumed"]
<1>1. session' = session /\ auth' = IF Consumable(a) THEN [auth EXCEPT ![a] = row] ELSE auth
  BY Zenon DEF ConsumeRAIOAuthAuthorization
<1>2. auth[a] \in Authorization /\ auth[a].status \in {"pending", "approved", "denied", "consumed"}
  BY GrantTypes DEF Authorization
<1>3. row.state = auth[a].state /\ row.status = "consumed"
  BY <1>2, RowConsumed
<1> HIDE DEF row
<1>4. ExchangeAnswer(a) = "tokens" => Consumable(a)
  BY <1>2 DEF ExchangeAnswer, Consumable
<1>5. CASE Consumable(a)
  <2>1. session[a].state # "absent" /\ auth[a].status = "approved"
    BY <1>5, GrantTypes DEF Consumable, GrantHere, GrantOK
  <2>2. auth \in [Grants -> Authorization]
    BY Zenon DEF DeviceInv, DeviceTables
  <2>3. auth'[a] = row /\ \A c \in Grants : c # a => auth'[c] = auth[c]
    BY <1>1, <1>5, <2>2, Zenon
  <2>4. \A c \in Grants : GrantGrows(auth[c], auth'[c], session[c], session'[c])
    BY <1>1, <1>3, <2>3, GrowsQuietly
  <2> QED
    BY <1>1, <1>3, <2>3, <2>4 DEF Quiet, SameRefresh, Grow
<1>6. CASE ~Consumable(a)
  BY <1>1, <1>4, <1>6, SameQuiet
<1> QED
  BY <1>5, <1>6

\* A token is revoked, or is not the session's last one.
LEMMA RevokeQuiet ==
    ASSUME DeviceInv, NEW a \in Grants, NEW n, RevokeRAIOAuth(a, n), GatewayKept, auth' = auth, access' = access
    PROVE  Quiet /\ (session[a].refresh = n => session'[a].state # "live")
<1>1. session' = session \/ session' = [session EXCEPT ![a].state = "deleted"]
  BY Zenon DEF RevokeRAIOAuth, Revoked
<1>2. UNCHANGED <<tenant, invitation, joined, cookie, flow, request, setup, auth, locked, access>>
  BY DEF GatewayKept
<1>3. Undecided
  BY <1>2, TokenRevokeUndecided
<1>4. Quiet
  BY <1>1, <1>3, EndsKeepRefresh, UndecidedQuiet
<1>5. ASSUME session[a].refresh = n
      PROVE  session'[a].state # "live"
  <2>1. CASE session[a].state = "live"
    BY <1>5, <2>1, SessionGoes DEF RevokeRAIOAuth, Revoked, DeviceInv, DeviceTables
  <2>2. CASE session[a].state # "live"
    BY <2>2, Zenon DEF RevokeRAIOAuth
  <2> QED
    BY <2>1, <2>2
<1> QED
  BY <1>4, <1>5

-----------------------------------------------------------------------------
(* Steps of the machine *)

\* What a step is to leave.
MachineKept ==
    /\ \A a \in Grants : Unrefreshed(auth'[a], session'[a])
    /\ MachineOK(proc', keyring', file', lock', auth', session')
    /\ faults' \subseteq Faults
    /\ faults' = {} => Faultless(proc', keyring', file', session')

\* What is known of a process.
LEMMA KnownOf ==
    ASSUME ClientInv, NEW p \in Processes
    PROVE  /\ MachineOK(proc, keyring, file, lock, auth, session) /\ proc \in [Processes -> Process]
           /\ ProcessOK(p, proc[p], auth, session) /\ proc[p] \in Process /\ faults \subseteq Faults
           /\ proc[p].cred \in Saved \cup {NoCredential} /\ proc[p].old \in Saved \cup {NoCredential}
           /\ proc[p].pc \in Steps \cup Ends /\ proc[p].stale \in BOOLEAN
BY DEF ClientInv, MachineOK, Process

\* Where credentials that are saved or read lie.
LEMMA IssuedGrant ==
    ASSUME NEW c, NEW rows, NEW sessions, Issued(c, rows, sessions)
    PROVE  c # NoCredential => c \in Saved /\ c.grant \in Grants
BY CredentialFacts, Zenon DEF Issued

\* The gateway's part of a step that rotates nothing.
LEMMA AfterCall ==
    ASSUME ClientInv, Quiet
    PROVE  /\ \A a \in Grants : Unrefreshed(auth'[a], session'[a])
           /\ MachineOK(proc, keyring, file, lock, auth', session')
           /\ faults = {} => Faultless(proc, keyring, file, session')
<1>1. MachineOK(proc, keyring, file, lock, auth, session)
  BY DEF ClientInv
<1>2. ASSUME NEW p \in Processes, proc[p].pc \in Owning \/ proc[p].pc \in Refreshing
      PROVE  proc[p].cred.grant \in Grants
  <2>1. CASE proc[p].pc \in Owning
    BY <2>1, KnownOf, CredentialFacts, Zenon DEF ProcessOK, Asked
  <2>2. CASE proc[p].pc \in Refreshing
    BY <2>2, KnownOf, CredentialFacts DEF ProcessOK
  <2> QED
    BY <1>2, <2>1, <2>2
<1>3. Helpers \subseteq Processes /\ Logins \subseteq Processes
  BY ProcessFacts
<1>4. MachineOK(proc, keyring, file, lock, auth', session')
  BY <1>1, <1>2, <1>3, MachineGrows DEF Quiet, SameRefresh
<1>5. \A a \in Grants : Unrefreshed(auth'[a], session'[a])
  BY Zenon DEF ClientInv, Quiet, SameRefresh, Grow, GrantGrows, Unrefreshed
<1>6. ASSUME faults = {}
      PROVE  Faultless(proc, keyring, file, session')
  BY <1>1, <1>2, <1>3, <1>6, IssuedGrant DEF ClientInv, MachineOK, UpToDate, Current, Quiet,
     SameRefresh, Faultless, HelperCurrent
<1> QED
  BY <1>4, <1>5, <1>6

\* Then a process moves, and may save or delete credentials.
LEMMA ThenMoves ==
    ASSUME ClientInv, Quiet, NEW p \in Processes, NEW row, proc' = [proc EXCEPT ![p] = row],
           ProcessOK(p, row, auth', session'),
           Issued(keyring', auth', session'), Issued(file', auth', session'),
           ~KeyringEnabled => keyring' = NoCredential,
           Unsaved(keyring', proc'), Unsaved(file', proc'), LockHeld(proc', lock'),
           row.pc \in Refreshing => Foreign(p, row.cred.grant, proc),
           row.pc \in Owning => Private(p, row.cred.grant, proc),
           faults' \subseteq Faults,
           faults' = {} =>
              /\ faults = {}
              /\ p \in Helpers => HelperCurrent(row, session')
              /\ (keyring' = keyring /\ proc[p].pc # "put") \/ Current(keyring', session')
              /\ (file' = file /\ proc[p].pc # "put") \/ Current(file', session')
    PROVE  MachineKept
BY AfterCall, MachineMoves, KnownOf, FaultlessMoves DEF MachineKept

\* The same for a process that leaves the credentials alone: it owns the
\* grant that it owned before, or none.
LEMMA OnlyMoves ==
    ASSUME ClientInv, Quiet, NEW p \in Processes, NEW row, proc' = [proc EXCEPT ![p] = row],
           ProcessOK(p, row, auth', session'), keyring' = keyring, file' = file, LockHeld(proc', lock'),
           row.pc \in Refreshing => Foreign(p, row.cred.grant, proc),
           row.pc \in Owning => proc[p].pc \in Owning /\ row.cred.grant = proc[p].cred.grant,
           faults' \subseteq Faults,
           faults' = {} => faults = {} /\ (p \in Helpers => HelperCurrent(row, session')) /\ proc[p].pc # "put"
    PROVE  MachineKept
<1>1. MachineOK(proc, keyring, file, lock, auth', session') /\ proc \in [Processes -> Process]
  BY AfterCall, KnownOf
<1>2. /\ Issued(keyring, auth', session') /\ Issued(file, auth', session') /\ Unsaved(keyring, proc)
      /\ Unsaved(file, proc) /\ Exclusive(proc) /\ (~KeyringEnabled => keyring = NoCredential)
  BY <1>1, Zenon DEF MachineOK
<1>3. row.pc \in Owning => p \in Logins
  BY Kinds
<1>4. row.pc \in Owning => Private(p, row.cred.grant, proc)
  BY <1>2, <1>3, Zenon DEF Exclusive, Private, Foreign
<1>5. Foreign(p, keyring.grant, proc) /\ Foreign(p, file.grant, proc)
  BY <1>2, Zenon DEF Unsaved, Foreign
<1>6. row.pc \in Owning => row.cred.grant # keyring.grant /\ row.cred.grant # file.grant
  BY <1>2, <1>3, Zenon DEF Unsaved
<1>7. Unsaved(keyring, proc') /\ Unsaved(file, proc')
  BY <1>1, <1>5, <1>6, UnsavedMoves
<1> QED
  BY <1>2, <1>4, <1>7, ThenMoves

\* What each kind of process is to know.
LEMMA HelperRow ==
    ASSUME NEW p \in Helpers, NEW row \in Process, row.pc \in HelperSteps, NEW rows, NEW sessions,
           row.pc = "killed" \/ Issued(row.cred, rows, sessions), Issued(row.old, rows, sessions),
           row.pc \in Refreshing => row.cred # NoCredential
    PROVE  ProcessOK(p, row, rows, sessions)
BY ProcessFacts DEF HelperSteps, Owning, ProcessOK

LEMMA LogoutRow ==
    ASSUME NEW p \in Logouts, NEW row \in Process, row.pc \in LogoutSteps, NEW rows, NEW sessions,
           row.pc = "killed" \/ Issued(row.cred, rows, sessions), Issued(row.old, rows, sessions),
           row.pc = "revoke" => row.cred # NoCredential
    PROVE  ProcessOK(p, row, rows, sessions)
BY ProcessFacts DEF LogoutSteps, Owning, Refreshing, ProcessOK

LEMMA LoginRow ==
    ASSUME NEW p \in Logins, NEW row \in Process, row.pc \in LoginSteps, NEW rows, NEW sessions,
           row.pc \in {"poll", "killed"} \/ Issued(row.cred, rows, sessions), Issued(row.old, rows, sessions),
           row.pc \in Owning => Asked(row.cred, rows, sessions),
           row.pc = "failed" /\ row.cred # NoCredential => sessions[row.cred.grant].state # "live"
    PROVE  ProcessOK(p, row, rows, sessions)
BY ProcessFacts DEF LoginSteps, Refreshing, ProcessOK

\* What the machine has saved is what it was given.
LEMMA CredentialIssued ==
    ASSUME ClientInv
    PROVE  /\ Issued(Credential, auth, session) /\ Unsaved(Credential, proc)
           /\ Credential = keyring \/ Credential = file
BY Zenon DEF ClientInv, MachineOK, Credential

LEMMA NothingIssued ==
    ASSUME NEW rows, NEW sessions
    PROVE  Issued(NoCredential, rows, sessions)
BY Zenon DEF Issued

-----------------------------------------------------------------------------
(* Helpers *)

LEMMA HelperReadKept ==
    ASSUME ClientInv, NEW p \in Helpers, HelperRead(p)
    PROVE  MachineKept
<1> DEFINE pc == IF Credential = NoCredential THEN "failed" ELSE IF Credential.fresh THEN "served" ELSE "lock"
           row == Goes(proc[p], pc)
<1>1. /\ proc[p].pc = "start" /\ proc' = [proc EXCEPT ![p] = row] /\ auth' = auth /\ session' = session
      /\ keyring' = keyring /\ file' = file /\ lock' = lock /\ faults' = faults
  BY Zenon DEF HelperRead, At, Goto, Goes, authorizationVars, deviceVars
<1>2. p \in Processes /\ DeviceInv
  BY ProcessFacts DEF ClientInv
<1>3. pc \in {"failed", "served", "lock"}
  OBVIOUS
<1> HIDE DEF pc
<1>4. pc \in HelperSteps /\ pc \in Steps \cup Ends /\ pc \notin Locking /\ pc \notin Refreshing /\ pc \notin Owning
  BY <1>3 DEF HelperSteps, Steps, Ends, Locking, Refreshing, Owning
<1>5. /\ row \in Process /\ row.pc = pc /\ row.cred = proc[p].cred /\ row.old = proc[p].old
      /\ row.stale = proc[p].stale
  BY <1>2, <1>4, KnownOf, ProcessRows
<1> HIDE DEF row
<1>6. proc[p].pc \notin {"poll", "killed"} /\ proc[p].pc \notin Locking /\ proc[p].pc # "put"
  BY <1>1 DEF Locking
<1>7. Issued(proc[p].cred, auth, session) /\ Issued(proc[p].old, auth, session)
  BY <1>2, <1>6, KnownOf, Zenon DEF ProcessOK
<1>8. ProcessOK(p, row, auth', session')
  BY <1>1, <1>4, <1>5, <1>7, HelperRow, Zenon
<1>9. LockHeld(proc', lock')
  BY <1>1, <1>2, <1>4, <1>5, <1>6, KnownOf, LockStays DEF ClientInv, MachineOK
<1>10. faults = {} => HelperCurrent(row, session)
  BY <1>4, <1>5, Zenon DEF ClientInv, Faultless, HelperCurrent
<1> QED
  BY <1>1, <1>2, <1>4, <1>5, <1>6, <1>8, <1>9, <1>10, KnownOf, SameQuiet, OnlyMoves

LEMMA LockKept ==
    ASSUME ClientInv, NEW p \in Helpers, lockOAuthCredential(p)
    PROVE  MachineKept
<1> DEFINE row == Goes(proc[p], "locked")
<1>1. /\ proc[p].pc = "lock" /\ proc' = [proc EXCEPT ![p] = row] /\ auth' = auth /\ session' = session
      /\ keyring' = keyring /\ file' = file /\ lock = None /\ lock' = p /\ faults' = faults
  BY Zenon DEF lockOAuthCredential, At, Goto, Goes, authorizationVars, deviceVars
<1>2. p \in Processes /\ DeviceInv
  BY ProcessFacts DEF ClientInv
<1>4. /\ "locked" \in HelperSteps /\ "locked" \in Steps \cup Ends /\ "locked" \in Locking
      /\ "locked" \notin Refreshing /\ "locked" \notin Owning
  BY DEF HelperSteps, Steps, Ends, Locking, Refreshing, Owning
<1>5. /\ row \in Process /\ row.pc = "locked" /\ row.cred = proc[p].cred /\ row.old = proc[p].old
      /\ row.stale = proc[p].stale
  BY <1>2, <1>4, KnownOf, ProcessRows
<1> HIDE DEF row
<1>6. proc[p].pc \notin {"poll", "killed"} /\ proc[p].pc # "put"
  BY <1>1
<1>7. Issued(proc[p].cred, auth, session) /\ Issued(proc[p].old, auth, session)
  BY <1>2, <1>6, KnownOf, Zenon DEF ProcessOK
<1>8. ProcessOK(p, row, auth', session')
  BY <1>1, <1>4, <1>5, <1>7, HelperRow, Zenon
<1>9. LockHeld(proc', lock')
  BY <1>1, <1>2, <1>4, <1>5, KnownOf, LockTaken DEF ClientInv, MachineOK
<1>10. faults = {} => HelperCurrent(row, session)
  BY <1>4, <1>5, Zenon DEF ClientInv, Faultless, HelperCurrent
<1> QED
  BY <1>1, <1>2, <1>4, <1>5, <1>6, <1>8, <1>9, <1>10, KnownOf, SameQuiet, OnlyMoves

\* Under the lock no other helper is about to save, so what is saved is the
\* session's last token.
LEMMA RereadKept ==
    ASSUME ClientInv, NEW p \in Helpers, HelperReread(p)
    PROVE  MachineKept
<1> DEFINE c == Credential
           pc == IF c = NoCredential THEN "failed" ELSE IF c.fresh THEN "served" ELSE "refresh"
           row == Given(proc[p], pc, c)
<1>1. /\ proc[p].pc = "locked" /\ proc' = [proc EXCEPT ![p] = row] /\ auth' = auth /\ session' = session
      /\ keyring' = keyring /\ file' = file /\ faults' = faults
      /\ IF pc = "refresh" THEN lock' = lock ELSE lock' = IF lock = p THEN None ELSE lock
  BY Zenon DEF HelperReread, At, Unlock, Given, authorizationVars, deviceVars
<1>2. p \in Processes /\ DeviceInv
  BY ProcessFacts DEF ClientInv
<1>3. pc \in {"failed", "served", "refresh"} /\ (pc = "refresh" => c # NoCredential)
  OBVIOUS
<1>4. Issued(c, auth, session) /\ Unsaved(c, proc) /\ (c = keyring \/ c = file)
  BY CredentialIssued
<1> HIDE DEF c, pc
<1>5. /\ pc \in HelperSteps /\ pc \in Steps \cup Ends /\ pc \notin Owning
      /\ pc \in Refreshing => pc = "refresh"
      /\ pc # "refresh" => pc \notin Locking
      /\ pc = "refresh" => pc \in Locking
  BY <1>3 DEF HelperSteps, Steps, Ends, Locking, Refreshing, Owning
<1>6. c \in Saved \cup {NoCredential}
  BY <1>4, Zenon DEF Issued
<1>7. row \in Process /\ row.pc = pc /\ row.cred = c /\ row.old = proc[p].old /\ row.stale = proc[p].stale
  BY <1>2, <1>5, <1>6, KnownOf, ProcessRows
<1> HIDE DEF row
<1>8. proc[p].pc \in Locking /\ proc[p].pc # "put"
  BY <1>1 DEF Locking
<1>9. Issued(proc[p].old, auth, session) /\ LockHeld(proc, lock)
  BY <1>2, KnownOf, Zenon DEF ProcessOK, MachineOK
<1>10. ProcessOK(p, row, auth', session')
  BY <1>1, <1>3, <1>4, <1>5, <1>7, <1>9, HelperRow, Zenon
<1>11. LockHeld(proc', lock')
  <2>1. CASE pc = "refresh"
    <3>1. (row.pc \in Locking <=> proc[p].pc \in Locking) /\ lock' = lock
      BY <1>1, <1>5, <1>7, <1>8, <2>1
    <3> QED
      BY <1>1, <1>2, <1>9, <3>1, KnownOf, LockStays, Zenon
  <2>2. CASE pc # "refresh"
    BY <1>1, <1>2, <1>5, <1>7, <1>9, <2>2, KnownOf, LockLeft
  <2> QED
    BY <2>1, <2>2
<1>12. Foreign(p, row.cred.grant, proc)
  BY <1>4, <1>7, Zenon DEF Unsaved, Foreign
<1>13. ASSUME faults = {}
       PROVE  HelperCurrent(row, session)
  <2>1. Faultless(proc, keyring, file, session)
    BY <1>13, Zenon DEF ClientInv
  <2>2. \A q \in Helpers : proc[q].pc # "put"
    BY <1>8, <1>9 DEF LockHeld, Locking
  <2>3. Current(c, session)
    BY <1>4, <2>1, <2>2, Zenon DEF Faultless, UpToDate
  <2> QED
    BY <1>3, <1>5, <1>7, <2>1, <2>3, Zenon DEF Faultless, HelperCurrent, Current
<1> QED
  BY <1>1, <1>2, <1>5, <1>7, <1>8, <1>10, <1>11, <1>12, <1>13, KnownOf, SameQuiet, OnlyMoves

\* Without faults the helper's token is the session's last one, so a grant
\* that refuses it would have refused any.
LEMMA RefusedKept ==
    ASSUME ClientInv, NEW p \in Helpers, refreshOAuth(p),
           ~(Refreshable(proc[p].cred.grant) /\ session[proc[p].cred.grant].refresh = proc[p].cred.refresh)
    PROVE  MachineKept
<1> DEFINE c == proc[p].cred
           stale == Refreshable(c.grant)
           row == Refused(proc[p], stale)
<1>1. /\ proc[p].pc = "refresh" /\ proc' = [proc EXCEPT ![p] = row] /\ auth' = auth /\ session' = session
      /\ keyring' = keyring /\ file' = file /\ faults' = faults /\ lock' = IF lock = p THEN None ELSE lock
  BY Zenon DEF refreshOAuth, RefreshRAIOAuth, At, Unlock, Refused, authorizationVars, deviceVars
<1>2. p \in Processes /\ DeviceInv
  BY ProcessFacts DEF ClientInv
<1>3. stale \in BOOLEAN
  BY Zenon DEF Refreshable, SessionStands
<1>4. faults = {} => ~stale
  BY <1>1 DEF Refreshing, ClientInv, Faultless, HelperCurrent
<1> HIDE DEF stale
<1>5. /\ row \in Process /\ row.pc = "refused" /\ row.cred = c /\ row.old = proc[p].old
      /\ row.stale = stale
  BY <1>2, <1>3, KnownOf, ProcessRows
<1> HIDE DEF row
<1>6. /\ proc[p].pc \notin {"poll", "killed"} /\ proc[p].pc # "put" /\ row.pc \in HelperSteps
      /\ row.pc \notin Locking /\ row.pc \notin Refreshing /\ row.pc \notin Owning
  BY <1>1, <1>5 DEF HelperSteps, Locking, Refreshing, Owning
<1>7. Issued(c, auth, session) /\ Issued(proc[p].old, auth, session) /\ LockHeld(proc, lock)
  BY <1>2, <1>6, KnownOf, Zenon DEF ProcessOK, MachineOK
<1>8. ProcessOK(p, row, auth', session')
  BY <1>1, <1>5, <1>6, <1>7, HelperRow, Zenon
<1>9. LockHeld(proc', lock')
  BY <1>1, <1>2, <1>6, <1>7, KnownOf, LockLeft
<1>10. faults = {} => HelperCurrent(row, session)
  BY <1>4, <1>5, <1>6, Zenon DEF HelperCurrent
<1> QED
  BY <1>1, <1>2, <1>6, <1>8, <1>9, <1>10, KnownOf, SameQuiet, OnlyMoves

\* A refresh that is accepted rotates the token of a grant that no login
\* owns; whatever is saved of that grant is behind until the helper saves.
LEMMA AcceptedKept ==
    ASSUME ClientInv, NEW p \in Helpers, refreshOAuth(p),
           Refreshable(proc[p].cred.grant) /\ session[proc[p].cred.grant].refresh = proc[p].cred.refresh
    PROVE  MachineKept
<1> DEFINE c == proc[p].cred
           g == c.grant
           n == c.refresh
           new == [c EXCEPT !.refresh = n + 1, !.fresh = TRUE]
           row == Given(proc[p], "put", new)
           held == [session[g] EXCEPT !.refresh = n + 1]
<1>1. /\ proc[p].pc = "refresh" /\ proc' = [proc EXCEPT ![p] = row] /\ auth' = auth
      /\ n < MaxRotation /\ session' = [session EXCEPT ![g] = held]
      /\ keyring' = keyring /\ file' = file /\ faults' = faults /\ lock' = lock
  BY DEF refreshOAuth, At, Given, RefreshRAIOAuth
<1>2. p \in Processes /\ DeviceInv /\ MachineOK(proc, keyring, file, lock, auth, session)
  BY ProcessFacts DEF ClientInv
<1>3. /\ proc[p].pc \notin {"poll", "killed"} /\ proc[p].pc \in Refreshing /\ proc[p].pc \in Locking
      /\ proc[p].pc # "put"
  BY <1>1 DEF Refreshing, Locking
<1>4. /\ c \in Saved /\ g \in Grants /\ n \in 0..MaxRotation /\ c # NoCredential
      /\ Issued(c, auth, session) /\ Issued(proc[p].old, auth, session)
  BY <1>2, <1>3, KnownOf, IssuedGrant, CredentialFacts DEF ProcessOK
<1>5. n + 1 \in 0..MaxRotation /\ n \in Nat /\ n + 1 \in Nat /\ n <= n + 1
  BY <1>1, <1>4, ProcessFacts
<1>6. new \in Saved /\ new.grant = g /\ new.refresh = n + 1
  BY <1>4, <1>5, SavedRow, Zenon
<1>7. held.refresh = n + 1 /\ held.state = session[g].state
  BY <1>2, <1>4, RefreshTypes, Zenon DEF OAuthSession
<1> HIDE DEF new
<1>8. row \in Process /\ row.pc = "put" /\ row.cred = new /\ row.old = proc[p].old /\ row.stale = proc[p].stale
  <2>1. proc[p] \in Process /\ "put" \in Steps \cup Ends /\ new \in Saved \cup {NoCredential}
    BY <1>2, <1>6, KnownOf DEF Steps
  <2> QED
    BY <2>1, ProcessRows
<1> HIDE DEF row, held
<1>9. session'[g] = held /\ \A a \in Grants : a # g => session'[a] = session[a]
  BY <1>1, <1>2, <1>4 DEF DeviceInv, DeviceTables
<1>10. session[g].refresh = n /\ auth[g].status = "consumed"
  BY <1>4, Zenon DEF Issued
<1>11. Grow(auth, auth', session, session')
  BY <1>1, <1>2, <1>5, <1>7, <1>9, <1>10, GrowsQuietly DEF GrantGrows, Grow
<1>12. Logins \subseteq Processes /\ Helpers \subseteq Processes
  BY ProcessFacts
<1>13. Foreign(p, g, proc)
  BY <1>2, <1>3, Zenon DEF MachineOK, Exclusive, Foreign
<1>14. MachineOK(proc, keyring, file, lock, auth', session')
  <2>1. \A q \in Logins : proc[q].pc \in Owning => proc[q].cred.grant # g /\ proc[q].cred.grant \in Grants
    BY <1>12, <1>13, KnownOf, CredentialFacts, ProcessFacts DEF ProcessOK, Asked, Foreign
  <2>2. \A q \in Logins : proc[q].pc \in Owning =>
           session'[proc[q].cred.grant].refresh = session[proc[q].cred.grant].refresh
    BY <1>9, <2>1, Zenon
  <2> QED
    BY <1>2, <1>11, <2>2, MachineGrows
<1>15. /\ Issued(keyring, auth', session') /\ Issued(file, auth', session') /\ LockHeld(proc, lock)
       /\ Unsaved(keyring, proc) /\ Unsaved(file, proc) /\ (~KeyringEnabled => keyring = NoCredential)
  BY <1>14, Zenon DEF MachineOK
<1>16. row.pc \in HelperSteps /\ row.pc \in Locking /\ row.pc \notin Owning
  BY <1>8 DEF HelperSteps, Locking, Owning
<1>17. ProcessOK(p, row, auth', session')
  <2>1. Issued(new, auth', session')
    BY <1>1, <1>5, <1>6, <1>7, <1>9, <1>10 DEF Issued
  <2>2. Issued(proc[p].old, auth', session')
    BY <1>4, <1>11, IssuedGrows
  <2>3. row.cred # NoCredential
    BY <1>6, <1>8, CredentialFacts, Zenon
  <2> QED
    BY <1>8, <1>16, <2>1, <2>2, <2>3, HelperRow, Zenon
<1>18. LockHeld(proc', lock')
  BY <1>1, <1>2, <1>3, <1>15, <1>16, KnownOf, LockStays
<1>19. Unsaved(keyring, proc') /\ Unsaved(file, proc')
  BY <1>1, <1>2, <1>15, <1>16, KnownOf, UnsavedMoves DEF Unsaved, Foreign
<1>20. MachineOK(proc', keyring', file', lock', auth', session')
  <2>1. Foreign(p, row.cred.grant, proc)
    BY <1>6, <1>8, <1>13
  <2> QED
    BY <1>1, <1>2, <1>14, <1>15, <1>16, <1>17, <1>18, <1>19, <2>1, MachineMoves
<1>21. proc'[p] = row /\ \A q \in Processes : q # p => proc'[q] = proc[q]
  BY <1>1, <1>2, KnownOf, Zenon
<1>22. ASSUME faults = {}
       PROVE  Faultless(proc', keyring, file, session')
  <2>1. Faultless(proc, keyring, file, session)
    BY <1>22, Zenon DEF ClientInv
  <2>2. ASSUME NEW k, k # NoCredential => k.grant \in Grants, UpToDate(k, proc, session)
        PROVE  UpToDate(k, proc', session')
    BY <1>3, <1>6, <1>8, <1>9, <1>12, <1>21, <2>2 DEF UpToDate, Current
  <2>3. /\ keyring # NoCredential => keyring.grant \in Grants
        /\ file # NoCredential => file.grant \in Grants
    BY <1>15, IssuedGrant, Zenon
  <2>4. HelperCurrent(row, session')
    BY <1>6, <1>7, <1>8, <1>9, <2>1, Zenon DEF HelperCurrent, Faultless
  <2>5. ASSUME NEW q \in Helpers, q # p
        PROVE  HelperCurrent(proc[q], session')
    BY <1>3, <1>15, <2>1, <2>5 DEF LockHeld, Locking, Refreshing, Faultless, HelperCurrent
  <2> QED
    BY <1>12, <1>21, <2>1, <2>2, <2>3, <2>4, <2>5, Zenon DEF Faultless
<1>23. \A a \in Grants : Unrefreshed(auth'[a], session'[a])
  BY <1>1, <1>9, <1>10, Zenon DEF ClientInv, Unrefreshed
<1>24. faults' \subseteq Faults
  BY <1>1 DEF ClientInv
<1> QED
  BY <1>1, <1>20, <1>22, <1>23, <1>24, Zenon DEF MachineKept

\* What PutCredential leaves: the new credential, or nothing, or in the
\* keyring what was there.
LEMMA PutFacts ==
    ASSUME ClientInv, NEW c, PutCredential(c)
    PROVE  /\ keyring' \in {keyring, c} /\ file' \in {c, NoCredential}
           /\ ~KeyringEnabled => keyring' = NoCredential
           /\ faults' \subseteq Faults
           /\ faults' = {} => faults = {} /\ keyring' \in {c, NoCredential}
BY DEF ClientInv, MachineOK, PutCredential

\* A helper or a login saves the credential that it alone has.
LEMMA SaveKept ==
    ASSUME ClientInv, auth' = auth, session' = session, NEW p \in Processes, NEW row, proc' = [proc EXCEPT ![p] = row],
           ProcessOK(p, row, auth', session'), PutCredential(proc[p].cred), LockHeld(proc', lock'),
           row.pc \notin Refreshing, row.pc \notin Owning,
           Issued(proc[p].cred, auth, session), Foreign(p, proc[p].cred.grant, proc),
           faults = {} => Current(proc[p].cred, session) /\ (p \in Helpers => HelperCurrent(row, session))
    PROVE  MachineKept
<1> DEFINE c == proc[p].cred
<1>1. /\ MachineOK(proc, keyring, file, lock, auth, session) /\ proc \in [Processes -> Process] /\ DeviceInv
  BY KnownOf DEF ClientInv
<1>2. Issued(keyring, auth, session) /\ Unsaved(keyring, proc)
  BY <1>1, Zenon DEF MachineOK
<1>3. /\ keyring' \in {keyring, c} /\ file' \in {c, NoCredential}
      /\ ~KeyringEnabled => keyring' = NoCredential
      /\ faults' \subseteq Faults
      /\ faults' = {} => faults = {} /\ keyring' \in {c, NoCredential}
  BY PutFacts
<1>4. Issued(keyring', auth', session') /\ Issued(file', auth', session')
  BY <1>2, <1>3, NothingIssued
<1>5. Foreign(p, keyring.grant, proc) /\ Foreign(p, NoCredential.grant, proc)
  BY <1>2, ProcessFacts, KnownOf, CredentialFacts DEF Unsaved, Foreign, ProcessOK, Asked
<1>6. Unsaved(keyring, proc') /\ Unsaved(NoCredential, proc') /\ Unsaved(c, proc')
  BY <1>1, <1>5, UnsavedMoves
<1>7. Unsaved(keyring', proc') /\ Unsaved(file', proc')
  BY <1>3, <1>6
<1>8. Current(NoCredential, session)
  BY DEF Current
<1>9. faults' = {} => /\ faults = {}
                      /\ Current(keyring', session') /\ Current(file', session')
                      /\ p \in Helpers => HelperCurrent(row, session')
  BY <1>3, <1>8
<1> QED
  BY <1>1, <1>3, <1>4, <1>7, <1>9, SameQuiet, ThenMoves

LEMMA HelperPutKept ==
    ASSUME ClientInv, NEW p \in Helpers, HelperPut(p)
    PROVE  MachineKept
<1> DEFINE c == proc[p].cred
           row == Goes(proc[p], "served")
<1>1. /\ proc[p].pc = "put" /\ proc' = [proc EXCEPT ![p] = row] /\ auth' = auth /\ session' = session
      /\ PutCredential(c) /\ lock' = IF lock = p THEN None ELSE lock
  BY Zenon DEF HelperPut, At, Goto, Goes, Unlock, authorizationVars, deviceVars
<1>2. p \in Processes /\ DeviceInv
  BY ProcessFacts DEF ClientInv
<1>3. /\ row \in Process /\ row.pc = "served" /\ row.cred = c /\ row.old = proc[p].old
      /\ row.stale = proc[p].stale
  BY <1>2, KnownOf, ProcessRows DEF Ends
<1> HIDE DEF row
<1>4. /\ proc[p].pc \notin {"poll", "killed"} /\ proc[p].pc \in Refreshing /\ row.pc \in HelperSteps
      /\ row.pc \notin Locking /\ row.pc \notin Refreshing /\ row.pc \notin Owning
  BY <1>1, <1>3 DEF HelperSteps, Locking, Refreshing, Owning
<1>5. /\ Issued(c, auth, session) /\ Issued(proc[p].old, auth, session) /\ LockHeld(proc, lock)
      /\ Foreign(p, c.grant, proc)
  BY <1>2, <1>4, KnownOf DEF ProcessOK, MachineOK, Exclusive, Foreign
<1>6. ProcessOK(p, row, auth', session')
  BY <1>1, <1>3, <1>4, <1>5, HelperRow, Zenon
<1>7. LockHeld(proc', lock')
  BY <1>1, <1>2, <1>4, <1>5, KnownOf, LockLeft
<1>8. faults = {} => Current(c, session) /\ HelperCurrent(row, session)
  BY <1>3, <1>4, Zenon DEF ClientInv, Faultless, HelperCurrent, Current
<1> QED
  BY <1>1, <1>2, <1>4, <1>5, <1>6, <1>7, <1>8, SaveKept

-----------------------------------------------------------------------------
(* Logins *)

\* A login goes on with its grant, or ends.
LEMMA LoginKept ==
    ASSUME ClientInv, Quiet, NEW p \in Logins, NEW row \in Process, proc' = [proc EXCEPT ![p] = row],
           keyring' = keyring, file' = file, lock' = lock, faults' = faults, row.pc \in LoginSteps,
           row.pc \in Owning => proc[p].pc \in Owning /\ row.cred = proc[p].cred,
           row.pc \in {"poll", "killed"} \/ Issued(row.cred, auth', session'),
           Issued(row.old, auth', session'),
           row.pc = "failed" /\ row.cred # NoCredential => session'[row.cred.grant].state # "live"
    PROVE  MachineKept
<1>1. p \in Processes /\ p \notin Helpers
  BY ProcessFacts
<1>2. /\ MachineOK(proc, keyring, file, lock, auth', session') /\ proc \in [Processes -> Process]
      /\ ProcessOK(p, proc[p], auth', session') /\ faults \subseteq Faults
  BY <1>1, AfterCall, KnownOf, Zenon DEF MachineOK
<1>3. row.pc \in Owning => Asked(row.cred, auth', session')
  BY <1>2, Zenon DEF ProcessOK
<1>4. ProcessOK(p, row, auth', session')
  BY <1>3, LoginRow
<1>5. LockHeld(proc', lock')
  BY <1>1, <1>2, LockStays DEF MachineOK
<1>6. row.pc \notin Refreshing /\ proc[p].pc # "put"
  BY <1>2 DEF ProcessOK, LoginSteps, Refreshing
<1> QED
  BY <1>1, <1>2, <1>4, <1>5, <1>6, OnlyMoves

\* Nobody has heard of the grant that a login asks for.
LEMMA StartKept ==
    ASSUME ClientInv, NEW p \in Logins, StartAuthorization(p)
    PROVE  MachineKept
<1>1. PICK a \in Grants :
         /\ createRAIAuthorization(a, "inference")
         /\ proc' = [proc EXCEPT ![p].pc = "poll", ![p].cred = [grant |-> a, refresh |-> 0, fresh |-> TRUE]]
  BY Zenon DEF StartAuthorization
<1> DEFINE c == [grant |-> a, refresh |-> 0, fresh |-> TRUE]
           row == Given(proc[p], "poll", c)
<1>2. /\ proc[p].pc = "start" /\ proc' = [proc EXCEPT ![p] = row] /\ createRAIAuthorization(a, "inference")
      /\ keyring' = keyring /\ file' = file /\ lock' = lock /\ faults' = faults
  BY <1>1, Zenon DEF StartAuthorization, At, Given
<1>3. p \in Processes /\ p \notin Helpers /\ DeviceInv /\ 0 \in 0..MaxRotation
  BY ProcessFacts DEF ClientInv
<1>4. c \in Saved
  BY <1>3, Zenon DEF Saved
<1>5. c.grant = a /\ c.refresh = 0
  OBVIOUS
<1> HIDE DEF c
<1>6. row \in Process /\ row.pc = "poll" /\ row.cred = c /\ row.old = proc[p].old /\ row.stale = proc[p].stale
  <2>1. proc[p] \in Process /\ "poll" \in Steps \cup Ends /\ c \in Saved \cup {NoCredential}
    BY <1>3, <1>4, KnownOf DEF Steps
  <2> QED
    BY <2>1, ProcessRows
<1> HIDE DEF row
<1>7. Quiet /\ auth[a].status # "consumed" /\ auth'[a].state # "absent" /\ auth[a].state = "absent"
  BY <1>2, <1>3, AskQuiet DEF createRAIAuthorization
<1>8. session'[a].refresh = 0
  BY <1>7, Zenon DEF ClientInv, Unrefreshed, Quiet, SameRefresh
<1>9. /\ MachineOK(proc, keyring, file, lock, auth', session') /\ proc \in [Processes -> Process]
      /\ ProcessOK(p, proc[p], auth', session') /\ faults \subseteq Faults
      /\ MachineOK(proc, keyring, file, lock, auth, session)
  BY <1>3, <1>7, AfterCall, KnownOf, Zenon DEF MachineOK
<1>10. ProcessOK(p, row, auth', session')
  BY <1>4, <1>5, <1>6, <1>7, <1>8, <1>9, LoginRow DEF Asked, ProcessOK, LoginSteps
<1>11. LockHeld(proc', lock')
  BY <1>2, <1>3, <1>9, LockStays DEF MachineOK
<1>12. /\ Issued(keyring, auth', session') /\ Issued(file, auth', session')
       /\ Issued(keyring, auth, session) /\ Issued(file, auth, session)
       /\ Unsaved(keyring, proc) /\ Unsaved(file, proc) /\ (~KeyringEnabled => keyring = NoCredential)
  BY <1>9, Zenon DEF MachineOK
<1>13. \A k : Issued(k, auth, session) => k.grant # a
  BY <1>7, CredentialFacts, ProcessFacts DEF Issued
<1>14. Private(p, a, proc)
  <2>1. ASSUME NEW q \in Helpers, proc[q].pc \in Refreshing
        PROVE  proc[q].cred.grant # a
    BY <1>13, <2>1, ProcessFacts, KnownOf DEF Refreshing, ProcessOK
  <2>2. ASSUME NEW q \in Logins, proc[q].pc \in Owning
        PROVE  proc[q].cred.grant # a
    BY <1>7, <2>2, ProcessFacts, KnownOf DEF ProcessOK, Asked
  <2> QED
    BY <2>1, <2>2, Zenon DEF Private, Foreign
<1>15. Unsaved(keyring, proc') /\ Unsaved(file, proc')
  BY <1>2, <1>3, <1>5, <1>6, <1>9, <1>12, <1>13, UnsavedMoves DEF Unsaved, Foreign
<1>16. row.pc \notin Refreshing /\ proc[p].pc # "put" /\ row.cred.grant = a
  BY <1>2, <1>5, <1>6 DEF Refreshing
<1> QED
  BY <1>2, <1>3, <1>7, <1>9, <1>10, <1>11, <1>12, <1>14, <1>15, <1>16, ThenMoves

\* What a login that owns a grant has.
LEMMA LoginHas ==
    ASSUME ClientInv, NEW p \in Logins, proc[p].pc \in Owning
    PROVE  /\ p \in Processes /\ DeviceInv /\ proc[p] \in Process
           /\ proc[p].cred \in Saved /\ proc[p].cred.grant \in Grants
           /\ proc[p].cred.refresh = 0 /\ session[proc[p].cred.grant].refresh = 0
           /\ Issued(proc[p].old, auth, session)
           /\ proc[p].pc # "poll" => Issued(proc[p].cred, auth, session)
BY ProcessFacts, KnownOf, CredentialFacts DEF ClientInv, Owning, ProcessOK, Asked

LEMMA ExchangeKept ==
    ASSUME ClientInv, NEW p \in Logins, ExchangeToken(p)
    PROVE  MachineKept
<1> DEFINE c == proc[p].cred
           a == c.grant
<1>1. /\ proc[p].pc = "poll" /\ ConsumeRAIOAuthAuthorization(a)
      /\ keyring' = keyring /\ file' = file /\ lock' = lock /\ faults' = faults
      /\ \/ ExchangeAnswer(a) = "tokens" /\ proc' = [proc EXCEPT ![p] = Goes(proc[p], "check")]
         \/ proc' = proc
         \/ proc' = [proc EXCEPT ![p] = Given(proc[p], "failed", NoCredential)]
  BY Zenon DEF ExchangeToken, At, Goto, Goes, Given
<1>2. proc[p].pc \in Owning
  BY <1>1 DEF Owning
<1>3. /\ p \in Processes /\ DeviceInv /\ proc[p] \in Process /\ c \in Saved /\ a \in Grants
      /\ c.refresh = 0 /\ session[a].refresh = 0 /\ Issued(proc[p].old, auth, session)
  BY <1>2, LoginHas
<1>4. Quiet /\ (ExchangeAnswer(a) = "tokens" => auth'[a].status = "consumed")
  BY <1>1, <1>3, ConsumeQuiet
<1>5. Issued(proc[p].old, auth', session')
  BY <1>3, <1>4, IssuedGrows DEF Quiet
<1>6. CASE ExchangeAnswer(a) = "tokens" /\ proc' = [proc EXCEPT ![p] = Goes(proc[p], "check")]
  <2> DEFINE row == Goes(proc[p], "check")
  <2>1. row \in Process /\ row.pc = "check" /\ row.cred = c /\ row.old = proc[p].old
    <3>1. "check" \in Steps \cup Ends
      BY DEF Steps
    <3> QED
      BY <1>3, <3>1, ProcessRows
  <2> HIDE DEF row
  <2>2. session'[a].refresh = 0 /\ c.refresh <= session'[a].refresh
    BY <1>3, <1>4 DEF Quiet, SameRefresh
  <2>3. Issued(row.cred, auth', session')
    BY <1>3, <1>4, <1>6, <2>1, <2>2, Zenon DEF Issued
  <2>4. row.pc \in LoginSteps /\ row.pc # "failed"
    BY <2>1 DEF LoginSteps
  <2>5. proc' = [proc EXCEPT ![p] = row]
    BY <1>6 DEF row
  <2> QED
    BY <1>1, <1>2, <1>4, <1>5, <2>1, <2>3, <2>4, <2>5, LoginKept
<1>7. CASE proc' = proc
  BY <1>1, <1>2, <1>3, <1>4, <1>5, <1>7, KnownOf, LoginKept DEF LoginSteps
<1>8. CASE proc' = [proc EXCEPT ![p] = Given(proc[p], "failed", NoCredential)]
  <2> DEFINE row == Given(proc[p], "failed", NoCredential)
  <2>1. row \in Process /\ row.pc = "failed" /\ row.cred = NoCredential /\ row.old = proc[p].old
    BY <1>3, ProcessRows DEF Ends
  <2> HIDE DEF row
  <2>2. Issued(row.cred, auth', session')
    BY <2>1, NothingIssued
  <2>3. row.pc \in LoginSteps /\ row.pc \notin Owning
    BY <2>1 DEF LoginSteps, Owning
  <2>4. proc' = [proc EXCEPT ![p] = row]
    BY <1>8 DEF row
  <2> QED
    BY <1>1, <1>4, <1>5, <2>1, <2>2, <2>3, <2>4, LoginKept
<1> QED
  BY <1>1, <1>6, <1>7, <1>8

LEMMA CheckKept ==
    ASSUME ClientInv, NEW p \in Logins, LoginCheck(p)
    PROVE  MachineKept
<1>1. /\ proc[p].pc = "check" /\ auth' = auth /\ session' = session
      /\ keyring' = keyring /\ file' = file /\ lock' = lock /\ faults' = faults
      /\ \/ proc' = [proc EXCEPT ![p] = Replaces(proc[p], "replace", Credential)]
         \/ proc' = [proc EXCEPT ![p] = Goes(proc[p], "abort")]
  BY Zenon DEF LoginCheck, At, Goto, Goes, Replaces, authorizationVars, deviceVars
<1>2. proc[p].pc \in Owning /\ proc[p].pc # "poll"
  BY <1>1 DEF Owning
<1>3. /\ p \in Processes /\ DeviceInv /\ proc[p] \in Process /\ Issued(proc[p].cred, auth, session)
      /\ Issued(proc[p].old, auth, session)
  BY <1>2, LoginHas
<1>4. PICK row \in Process : /\ proc' = [proc EXCEPT ![p] = row] /\ row.pc \in {"replace", "abort"}
                             /\ row.cred = proc[p].cred /\ Issued(row.old, auth, session)
  <2>1. "replace" \in Steps \cup Ends /\ "abort" \in Steps \cup Ends
    BY DEF Steps
  <2> DEFINE saved == Credential
             tried == Replaces(proc[p], "replace", saved)
             given == Goes(proc[p], "abort")
  <2>2. Issued(saved, auth, session) /\ saved \in Saved \cup {NoCredential}
    BY CredentialIssued, Zenon DEF Issued
  <2>5. proc' = [proc EXCEPT ![p] = tried] \/ proc' = [proc EXCEPT ![p] = given]
    BY <1>1
  <2> HIDE DEF saved
  <2>3. tried \in Process /\ tried.pc = "replace" /\ tried.cred = proc[p].cred /\ tried.old = saved
    <3>1. proc[p] \in Process /\ "replace" \in Steps \cup Ends /\ saved \in Saved \cup {NoCredential}
      BY <1>3, <2>1, <2>2
    <3> QED
      BY <3>1, ProcessRows
  <2>4. given \in Process /\ given.pc = "abort" /\ given.cred = proc[p].cred /\ given.old = proc[p].old
    BY <1>3, <2>1, ProcessRows
  <2> HIDE DEF tried, given
  <2>6. /\ tried.pc \in {"replace", "abort"} /\ Issued(tried.old, auth, session)
        /\ given.pc \in {"replace", "abort"} /\ Issued(given.old, auth, session)
    BY <1>3, <2>2, <2>3, <2>4, Zenon
  <2> QED
    BY <2>3, <2>4, <2>5, <2>6, Zenon
<1>5. row.pc \in LoginSteps /\ row.pc # "failed"
  BY <1>4 DEF LoginSteps
<1>6. Issued(row.cred, auth', session') /\ Issued(row.old, auth', session')
  BY <1>1, <1>3, <1>4
<1> QED
  BY <1>1, <1>2, <1>3, <1>4, <1>5, <1>6, SameQuiet, LoginKept

LEMMA ReplaceKept ==
    ASSUME ClientInv, NEW p \in Logins, LoginReplace(p)
    PROVE  MachineKept
<1> DEFINE old == proc[p].old
           row == Goes(proc[p], "save")
<1>1. /\ proc[p].pc = "replace" /\ proc' = [proc EXCEPT ![p] = row] /\ GatewayKept /\ auth' = auth /\ access' = access
      /\ keyring' = keyring /\ file' = file /\ lock' = lock /\ faults' = faults
      /\ \/ old = NoCredential /\ session' = session
         \/ old # NoCredential /\ RevokeRAIOAuth(old.grant, old.refresh)
  BY Zenon DEF LoginReplace, At, Goto, Goes
<1>2. proc[p].pc \in Owning /\ proc[p].pc # "poll"
  BY <1>1 DEF Owning
<1>3. /\ p \in Processes /\ DeviceInv /\ proc[p] \in Process /\ Issued(proc[p].cred, auth, session)
      /\ Issued(old, auth, session)
  BY <1>2, LoginHas
<1>4. Quiet
  BY <1>1, <1>3, IssuedGrant, SameQuiet, RevokeQuiet
<1>5. Issued(proc[p].cred, auth', session') /\ Issued(old, auth', session')
  BY <1>3, <1>4, IssuedGrows DEF Quiet
<1>6. row \in Process /\ row.pc = "save" /\ row.cred = proc[p].cred /\ row.old = old
  BY <1>3, ProcessRows DEF Steps
<1> HIDE DEF row
<1>7. row.pc \in LoginSteps /\ row.pc # "failed"
  BY <1>6 DEF LoginSteps
<1> QED
  BY <1>1, <1>2, <1>4, <1>5, <1>6, <1>7, LoginKept

\* The deferred revocation: the grant was never refreshed, so the token is
\* the session's last one and the session goes.
LEMMA AbortKept ==
    ASSUME ClientInv, NEW p \in Logins, LoginAbort(p)
    PROVE  MachineKept
<1> DEFINE c == proc[p].cred
           row == Goes(proc[p], "failed")
<1>1. /\ proc[p].pc = "abort" /\ proc' = [proc EXCEPT ![p] = row] /\ GatewayKept /\ auth' = auth /\ access' = access
      /\ keyring' = keyring /\ file' = file /\ lock' = lock /\ faults' = faults
      /\ RevokeRAIOAuth(c.grant, c.refresh)
  BY Zenon DEF LoginAbort, At, Goto, Goes
<1>2. proc[p].pc \in Owning /\ proc[p].pc # "poll"
  BY <1>1 DEF Owning
<1>3. /\ p \in Processes /\ DeviceInv /\ proc[p] \in Process /\ Issued(c, auth, session)
      /\ Issued(proc[p].old, auth, session) /\ c.grant \in Grants /\ session[c.grant].refresh = c.refresh
  BY <1>2, LoginHas
<1>4. Quiet /\ session'[c.grant].state # "live"
  BY <1>1, <1>3, RevokeQuiet
<1>5. Issued(c, auth', session') /\ Issued(proc[p].old, auth', session')
  BY <1>3, <1>4, IssuedGrows DEF Quiet
<1>6. row \in Process /\ row.pc = "failed" /\ row.cred = c /\ row.old = proc[p].old
  BY <1>3, ProcessRows DEF Ends
<1> HIDE DEF row
<1>7. row.pc \in LoginSteps /\ row.pc \notin Owning
  BY <1>6 DEF LoginSteps, Owning
<1> QED
  BY <1>1, <1>4, <1>5, <1>6, <1>7, LoginKept

LEMMA LoginSaveKept ==
    ASSUME ClientInv, NEW p \in Logins, LoginSave(p)
    PROVE  MachineKept
<1> DEFINE c == proc[p].cred
           row == Goes(proc[p], "done")
<1>1. /\ proc[p].pc = "save" /\ proc' = [proc EXCEPT ![p] = row] /\ auth' = auth /\ session' = session
      /\ PutCredential(c) /\ lock' = lock
  BY Zenon DEF LoginSave, At, Goto, Goes, authorizationVars, deviceVars
<1>2. proc[p].pc \in Owning /\ proc[p].pc # "poll"
  BY <1>1 DEF Owning
<1>3. /\ p \in Processes /\ p \notin Helpers /\ proc[p] \in Process /\ Issued(c, auth, session)
      /\ Issued(proc[p].old, auth, session) /\ c.grant \in Grants /\ session[c.grant].refresh = c.refresh
  BY <1>2, LoginHas, ProcessFacts
<1>4. row \in Process /\ row.pc = "done" /\ row.cred = c /\ row.old = proc[p].old
  BY <1>3, ProcessRows DEF Ends
<1> HIDE DEF row
<1>5. row.pc \in LoginSteps /\ row.pc \notin Owning /\ row.pc \notin Refreshing /\ row.pc # "failed"
  BY <1>4 DEF LoginSteps, Owning, Refreshing
<1>6. ProcessOK(p, row, auth', session')
  BY <1>1, <1>3, <1>4, <1>5, LoginRow, Zenon
<1>7. LockHeld(proc, lock) /\ Exclusive(proc)
  BY <1>3, KnownOf, Zenon DEF MachineOK
<1>8. LockHeld(proc', lock')
  BY <1>1, <1>3, <1>7, KnownOf, LockStays
<1>9. Foreign(p, c.grant, proc)
  BY <1>2, <1>7, Zenon DEF Exclusive, Foreign
<1>10. Current(c, session)
  BY <1>3 DEF Current
<1> QED
  BY <1>1, <1>3, <1>5, <1>6, <1>8, <1>9, <1>10, SaveKept

-----------------------------------------------------------------------------
(* Logouts *)

LEMMA LogoutKept ==
    ASSUME ClientInv, Quiet, NEW p \in Logouts, NEW row \in Process, proc' = [proc EXCEPT ![p] = row],
           keyring' = keyring, file' = file, lock' = lock, faults' = faults, row.pc \in LogoutSteps,
           Issued(row.cred, auth', session'), Issued(row.old, auth', session'),
           row.pc = "revoke" => row.cred # NoCredential
    PROVE  MachineKept
<1>1. p \in Processes /\ p \notin Helpers
  BY ProcessFacts
<1>2. /\ proc \in [Processes -> Process] /\ ProcessOK(p, proc[p], auth, session) /\ faults \subseteq Faults
      /\ LockHeld(proc, lock)
  BY <1>1, KnownOf, Zenon DEF MachineOK
<1>3. ProcessOK(p, row, auth', session')
  BY LogoutRow
<1>4. LockHeld(proc', lock')
  BY <1>1, <1>2, LockStays
<1>5. row.pc \notin Refreshing /\ row.pc \notin Owning /\ proc[p].pc # "put"
  BY <1>2 DEF ProcessOK, LogoutSteps, Refreshing, Owning
<1> QED
  BY <1>1, <1>2, <1>3, <1>4, <1>5, OnlyMoves

LEMMA LogoutHas ==
    ASSUME ClientInv, NEW p \in Logouts, proc[p].pc # "killed"
    PROVE  /\ p \in Processes /\ DeviceInv /\ proc[p] \in Process
           /\ Issued(proc[p].cred, auth, session) /\ Issued(proc[p].old, auth, session)
BY ProcessFacts, KnownOf DEF ClientInv, ProcessOK, LogoutSteps

LEMMA LogoutReadKept ==
    ASSUME ClientInv, NEW p \in Logouts, LogoutRead(p)
    PROVE  MachineKept
<1> DEFINE c == Credential
           pc == IF c = NoCredential THEN "failed" ELSE "revoke"
           row == Given(proc[p], pc, c)
<1>1. /\ proc[p].pc = "start" /\ proc' = [proc EXCEPT ![p] = row] /\ auth' = auth /\ session' = session
      /\ keyring' = keyring /\ file' = file /\ lock' = lock /\ faults' = faults
  BY Zenon DEF LogoutRead, At, Given, authorizationVars, deviceVars
<1>2. /\ p \in Processes /\ DeviceInv /\ proc[p] \in Process /\ Issued(proc[p].old, auth, session)
  BY <1>1, LogoutHas
<1>3. Issued(c, auth, session) /\ c \in Saved \cup {NoCredential}
  BY CredentialIssued, Zenon DEF Issued
<1>4. pc \in {"failed", "revoke"} /\ (pc = "revoke" => c # NoCredential)
  OBVIOUS
<1> HIDE DEF c, pc
<1>5. row \in Process /\ row.pc = pc /\ row.cred = c /\ row.old = proc[p].old
  BY <1>2, <1>3, <1>4, ProcessRows DEF Steps, Ends
<1> HIDE DEF row
<1>6. row.pc \in LogoutSteps
  BY <1>4, <1>5 DEF LogoutSteps
<1>7. Issued(row.cred, auth', session') /\ Issued(row.old, auth', session')
  BY <1>1, <1>2, <1>3, <1>5
<1>8. row.pc = "revoke" => row.cred # NoCredential
  BY <1>4, <1>5
<1> QED
  BY <1>1, <1>2, <1>5, <1>6, <1>7, <1>8, SameQuiet, LogoutKept

LEMMA RevokeKept ==
    ASSUME ClientInv, NEW p \in Logouts, revokeOAuth(p)
    PROVE  MachineKept
<1> DEFINE c == proc[p].cred
           row == Goes(proc[p], "delete")
<1>1. /\ proc[p].pc = "revoke" /\ proc' = [proc EXCEPT ![p] = row] /\ GatewayKept /\ auth' = auth /\ access' = access
      /\ keyring' = keyring /\ file' = file /\ lock' = lock /\ faults' = faults
      /\ RevokeRAIOAuth(c.grant, c.refresh)
  BY Zenon DEF revokeOAuth, At, Goto, Goes
<1>2. /\ p \in Processes /\ DeviceInv /\ proc[p] \in Process
      /\ Issued(c, auth, session) /\ Issued(proc[p].old, auth, session)
  BY <1>1, LogoutHas
<1>3. c.grant \in Grants
  BY <1>1, <1>2, KnownOf, IssuedGrant DEF ProcessOK
<1>4. Quiet
  BY <1>1, <1>2, <1>3, RevokeQuiet
<1>5. Issued(c, auth', session') /\ Issued(proc[p].old, auth', session')
  BY <1>2, <1>4, IssuedGrows DEF Quiet
<1>6. row \in Process /\ row.pc = "delete" /\ row.cred = c /\ row.old = proc[p].old
  BY <1>2, ProcessRows DEF Steps
<1> HIDE DEF row
<1>7. row.pc \in LogoutSteps /\ row.pc # "revoke"
  BY <1>6 DEF LogoutSteps
<1> QED
  BY <1>1, <1>4, <1>5, <1>6, <1>7, LogoutKept

LEMMA DeleteKept ==
    ASSUME ClientInv, NEW p \in Logouts, DeleteCredential(p)
    PROVE  MachineKept
<1> DEFINE row == Goes(proc[p], "done")
<1>1. /\ proc[p].pc = "delete" /\ proc' = [proc EXCEPT ![p] = row] /\ auth' = auth /\ session' = session
      /\ keyring' = NoCredential /\ file' = NoCredential /\ lock' = lock /\ faults' = faults
  BY Zenon DEF DeleteCredential, At, Goto, Goes, authorizationVars, deviceVars
<1>2. /\ p \in Processes /\ DeviceInv /\ proc[p] \in Process /\ p \notin Helpers
      /\ Issued(proc[p].cred, auth, session) /\ Issued(proc[p].old, auth, session)
  BY <1>1, LogoutHas, ProcessFacts
<1>3. row \in Process /\ row.pc = "done" /\ row.cred = proc[p].cred /\ row.old = proc[p].old
  BY <1>2, ProcessRows DEF Ends
<1> HIDE DEF row
<1>4. row.pc \in LogoutSteps /\ row.pc # "revoke" /\ row.pc \notin Owning /\ row.pc \notin Refreshing
  BY <1>3 DEF LogoutSteps, Owning, Refreshing
<1>5. ProcessOK(p, row, auth', session')
  BY <1>1, <1>2, <1>3, <1>4, LogoutRow, Zenon
<1>6. /\ proc \in [Processes -> Process] /\ LockHeld(proc, lock) /\ faults \subseteq Faults
  BY <1>2, KnownOf, Zenon DEF MachineOK
<1>7. LockHeld(proc', lock')
  BY <1>1, <1>2, <1>6, LockStays
<1>8. Issued(keyring', auth', session') /\ Issued(file', auth', session')
  BY <1>1, NothingIssued
<1>9. Unsaved(NoCredential, proc')
  BY <1>1, <1>2, <1>4, <1>6, CredentialFacts, ProcessFacts, KnownOf, UnsavedMoves DEF ProcessOK,
     Asked, Foreign
<1>10. Current(NoCredential, session')
  BY DEF Current
<1> QED
  BY <1>1, <1>2, <1>4, <1>5, <1>6, <1>7, <1>8, <1>9, <1>10, SameQuiet, ThenMoves

-----------------------------------------------------------------------------
(* Faults and the clock *)

\* Whatever a process was doing, it may be killed, or fail empty-handed.
LEMMA EndedRow ==
    ASSUME NEW p \in Processes, NEW row \in Process, NEW rows, NEW sessions, Issued(row.old, rows, sessions),
           row.pc = "killed" \/ (row.pc = "failed" /\ row.cred = NoCredential)
    PROVE  /\ ProcessOK(p, row, rows, sessions)
           /\ row.pc \notin Locking /\ row.pc \notin Refreshing /\ row.pc \notin Owning
BY NothingIssued DEF HelperSteps, LoginSteps, LogoutSteps, Refreshing, Owning, Locking, ProcessOK

LEMMA CrashKept ==
    ASSUME ClientInv, NEW p \in Processes, Crash(p)
    PROVE  MachineKept
<1> DEFINE row == Goes(proc[p], "killed")
<1>1. /\ proc' = [proc EXCEPT ![p] = row] /\ auth' = auth /\ session' = session
      /\ keyring' = keyring /\ file' = file /\ lock' = IF lock = p THEN None ELSE lock
      /\ "crash" \in Faults /\ faults' = faults \cup {"crash"}
  BY Zenon DEF Crash, Goto, Goes, Unlock, authorizationVars, deviceVars
<1>2. /\ proc \in [Processes -> Process] /\ proc[p] \in Process /\ faults \subseteq Faults /\ LockHeld(proc, lock)
      /\ Issued(proc[p].old, auth, session) /\ DeviceInv
  BY KnownOf, Zenon DEF MachineOK, ProcessOK, ClientInv
<1>3. row \in Process /\ row.pc = "killed" /\ row.old = proc[p].old
  BY <1>2, ProcessRows DEF Ends
<1> HIDE DEF row
<1>4. ProcessOK(p, row, auth', session') /\ row.pc \notin Locking /\ row.pc \notin Refreshing /\ row.pc \notin Owning
  BY <1>1, <1>2, <1>3, EndedRow
<1>5. LockHeld(proc', lock')
  BY <1>1, <1>2, <1>4, LockLeft
<1>6. faults' \subseteq Faults /\ faults' # {}
  BY <1>1, <1>2
<1> QED
  BY <1>1, <1>2, <1>4, <1>5, <1>6, SameQuiet, OnlyMoves

LEMMA LostKept ==
    ASSUME ClientInv, NEW p \in Processes, ResponseLost(p)
    PROVE  MachineKept
<1>1. /\ auth' = auth /\ session' = session
      /\ keyring' = keyring /\ file' = file /\ lock' = IF lock = p THEN None ELSE lock
      /\ "lost" \in Faults /\ faults' = faults \cup {"lost"}
      /\ \/ proc' = [proc EXCEPT ![p] = Given(proc[p], "failed", NoCredential)]
         \/ p \in Logins /\ proc[p].pc = "save" /\ proc' = [proc EXCEPT ![p] = Goes(proc[p], "abort")]
  BY Zenon DEF ResponseLost, At, Goto, Goes, Given, Unlock, authorizationVars, deviceVars
<1>2. /\ proc \in [Processes -> Process] /\ proc[p] \in Process /\ faults \subseteq Faults /\ LockHeld(proc, lock)
      /\ Issued(proc[p].old, auth, session) /\ DeviceInv
  BY KnownOf, Zenon DEF MachineOK, ProcessOK, ClientInv
<1>3. faults' \subseteq Faults /\ faults' # {} /\ Quiet
  BY <1>1, <1>2, SameQuiet
<1>4. CASE proc' = [proc EXCEPT ![p] = Given(proc[p], "failed", NoCredential)]
  <2> DEFINE row == Given(proc[p], "failed", NoCredential)
  <2>1. row \in Process /\ row.pc = "failed" /\ row.cred = NoCredential /\ row.old = proc[p].old
    <3>1. "failed" \in Steps \cup Ends /\ NoCredential \in Saved \cup {NoCredential}
      BY DEF Ends
    <3> QED
      BY <1>2, <3>1, ProcessRows
  <2>2. proc' = [proc EXCEPT ![p] = row]
    BY <1>4
  <2> HIDE DEF row
  <2>3. ProcessOK(p, row, auth', session') /\ row.pc \notin Locking /\ row.pc \notin Refreshing /\ row.pc \notin Owning
    BY <1>1, <1>2, <2>1, EndedRow
  <2>4. LockHeld(proc', lock')
    BY <1>1, <1>2, <2>2, <2>3, LockLeft
  <2> QED
    BY <1>1, <1>3, <2>2, <2>3, <2>4, OnlyMoves
<1>5. CASE p \in Logins /\ proc[p].pc = "save" /\ proc' = [proc EXCEPT ![p] = Goes(proc[p], "abort")]
  <2> DEFINE row == Goes(proc[p], "abort")
  <2>1. row \in Process /\ row.pc = "abort" /\ row.cred = proc[p].cred /\ row.old = proc[p].old
    BY <1>2, ProcessRows DEF Steps
  <2>2. proc' = [proc EXCEPT ![p] = row]
    BY <1>5
  <2> HIDE DEF row
  <2>3. proc[p].pc \in Owning /\ proc[p].pc \notin {"poll", "killed"}
    BY <1>5 DEF Owning
  <2>4. Issued(row.cred, auth', session') /\ Asked(row.cred, auth', session')
    BY <1>1, <2>1, <2>3, KnownOf, Zenon DEF ProcessOK
  <2>5. /\ row.pc \in LoginSteps /\ row.pc \notin Locking /\ row.pc \notin Refreshing /\ row.pc # "failed"
    BY <2>1 DEF LoginSteps, Locking, Refreshing
  <2>6. ProcessOK(p, row, auth', session')
    BY <1>1, <1>2, <1>5, <2>1, <2>4, <2>5, LoginRow, Zenon
  <2>7. LockHeld(proc', lock')
    BY <1>1, <1>2, <2>2, <2>5, LockLeft
  <2> QED
    BY <1>1, <1>3, <2>1, <2>2, <2>3, <2>5, <2>6, <2>7, OnlyMoves
<1> QED
  BY <1>1, <1>4, <1>5

\* An access token that is no longer fresh is the same credential.
LEMMA StaleCredential ==
    ASSUME NEW c, NEW rows, NEW sessions, NEW procs, Issued(c, rows, sessions), Unsaved(c, procs)
    PROVE  LET old == [c EXCEPT !.fresh = FALSE] IN
              /\ Issued(old, rows, sessions) /\ Unsaved(old, procs)
              /\ c = NoCredential => old = NoCredential
              /\ UpToDate(c, procs, sessions) => UpToDate(old, procs, sessions)
<1> DEFINE old == [c EXCEPT !.fresh = FALSE]
<1>1. CASE c = NoCredential
  BY <1>1, CredentialFacts
<1>2. CASE c # NoCredential
  <2>1. c \in Saved /\ 0 \in 0..MaxRotation
    BY <1>2, IssuedGrant, ProcessFacts
  <2>2. old \in Saved /\ old.grant = c.grant /\ old.refresh = c.refresh
    BY <2>1, SavedRow, Zenon
  <2> HIDE DEF old
  <2>3. old # NoCredential
    BY <2>2, CredentialFacts
  <2>4. Issued(old, rows, sessions)
    BY <1>2, <2>2, Zenon DEF Issued
  <2>5. Unsaved(old, procs)
    BY <2>2 DEF Unsaved
  <2>6. UpToDate(c, procs, sessions) => UpToDate(old, procs, sessions)
    BY <1>2, <2>2, Zenon DEF UpToDate, Current
  <2> QED
    BY <1>2, <2>4, <2>5, <2>6 DEF old
<1> QED
  BY <1>1, <1>2

LEMMA AgesKept ==
    ASSUME ClientInv, AccessAges
    PROVE  MachineKept
BY StaleCredential DEF AccessAges, authorizationVars, deviceVars, ClientInv, MachineOK, Faultless,
   MachineKept

LEMMA ServerKept ==
    ASSUME ClientInv, ServerStep, UNCHANGED localVars
    PROVE  MachineKept
BY ServerQuiet, AfterCall DEF localVars, ClientInv, MachineKept

-----------------------------------------------------------------------------
(* Theorems *)

\* A command calls the gateway only as a device may: with a purpose, and with
\* tokens of a grant that were handed out to it.
LEMMA ClientCalls ==
    ASSUME ClientInv, ClientNext
    PROVE  DeviceNext \/ UNCHANGED authorizationVars
<1>1. UNCHANGED deployment
  BY DEF ClientNext
<1>2. \A c : Issued(c, auth, session) /\ c # NoCredential =>
          /\ c.grant \in Grants /\ auth[c.grant].status = "consumed" /\ c.refresh \in 0..session[c.grant].refresh
  <2> SUFFICES ASSUME NEW c, Issued(c, auth, session), c # NoCredential
               PROVE  /\ c.grant \in Grants /\ auth[c.grant].status = "consumed"
                      /\ c.refresh \in 0..session[c.grant].refresh
    OBVIOUS
  <2>1. c \in Saved /\ c.grant \in Grants /\ auth[c.grant].status = "consumed" /\ c.refresh <= session[c.grant].refresh
    BY IssuedGrant, Zenon DEF Issued
  <2>2. c.refresh \in 0..MaxRotation
    BY <2>1, CredentialFacts
  <2>3. session[c.grant].refresh \in Nat
    BY <2>1, RefreshTypes DEF ClientInv
  <2>4. \A m \in Nat : \A n \in 0..MaxRotation : n <= m => n \in 0..m
    BY ProcessFacts
  <2> QED
    BY <2>1, <2>2, <2>3, <2>4, Zenon
<1>3. ASSUME NEW c, Issued(c, auth, session), c # NoCredential, RevokeRAIOAuth(c.grant, c.refresh),
             GatewayKept, auth' = auth, access' = access
      PROVE  DeviceNext
  BY <1>1, <1>2, <1>3 DEF GatewayKept, AnyDevice, DeviceNext
<1>4. ASSUME NEW p \in Helpers, HelperStep(p)
      PROVE  DeviceNext \/ UNCHANGED authorizationVars
  <2>1. CASE refreshOAuth(p)
    <3> DEFINE c == proc[p].cred
    <3>1. proc[p].pc = "refresh" /\ RefreshRAIOAuth(c.grant, c.refresh)
      BY <2>1, Zenon DEF refreshOAuth, At
    <3>2. p \in Processes /\ proc[p].pc \notin {"poll", "killed"} /\ proc[p].pc \in Refreshing \cup {"revoke"}
      BY <3>1, ProcessFacts DEF Refreshing
    <3>3. Issued(c, auth, session) /\ c # NoCredential
      BY <3>2, KnownOf, Zenon DEF ProcessOK
    <3>4. AnyDevice
      BY <1>2, <3>1, <3>3, Zenon DEF AnyDevice
    <3> QED
      BY <1>1, <3>4 DEF DeviceNext
  <2>2. CASE HelperRead(p) \/ lockOAuthCredential(p) \/ HelperReread(p) \/ HelperPut(p)
    BY <2>2, Zenon DEF HelperRead, lockOAuthCredential, HelperReread, HelperPut
  <2> QED
    BY <1>4, <2>1, <2>2 DEF HelperStep
<1>5. ASSUME NEW p \in Logins, LoginStep(p)
      PROVE  DeviceNext \/ UNCHANGED authorizationVars
  <2>1. CASE StartAuthorization(p)
    BY <1>1, <2>1, ProcessFacts DEF StartAuthorization, AnyDevice, DeviceNext
  <2>2. CASE ExchangeToken(p)
    BY <1>1, <2>2, LoginHas DEF ExchangeToken, At, Owning, AnyDevice, DeviceNext
  <2>3. CASE LoginReplace(p)
    <3> DEFINE c == proc[p].old
    <3>1. /\ proc[p].pc = "replace" /\ GatewayKept /\ auth' = auth /\ access' = access
          /\ \/ c = NoCredential /\ UNCHANGED <<session, key, cut>>
             \/ c # NoCredential /\ RevokeRAIOAuth(c.grant, c.refresh)
      BY <2>3, Zenon DEF LoginReplace, At
    <3>2. proc[p].pc \in Owning
      BY <3>1 DEF Owning
    <3>3. Issued(c, auth, session)
      BY <3>2, LoginHas
    <3>4. CASE c = NoCredential /\ UNCHANGED <<session, key, cut>>
      BY <3>1, <3>4 DEF GatewayKept, authorizationVars, accountVars, deviceVars
    <3> QED
      BY <1>3, <3>1, <3>3, <3>4
  <2>4. CASE LoginAbort(p)
    <3> DEFINE c == proc[p].cred
    <3>1. /\ proc[p].pc = "abort" /\ GatewayKept /\ auth' = auth /\ access' = access
          /\ RevokeRAIOAuth(c.grant, c.refresh)
      BY <2>4, Zenon DEF LoginAbort, At
    <3>2. proc[p].pc \in Owning /\ proc[p].pc # "poll"
      BY <3>1 DEF Owning
    <3>3. Issued(c, auth, session) /\ c # NoCredential
      BY <3>2, LoginHas, CredentialFacts
    <3> QED
      BY <1>3, <3>1, <3>3
  <2>5. CASE LoginCheck(p) \/ LoginSave(p)
    BY <2>5, Zenon DEF LoginCheck, LoginSave
  <2> QED
    BY <1>5, <2>1, <2>2, <2>3, <2>4, <2>5 DEF LoginStep
<1>6. ASSUME NEW p \in Logouts, LogoutStep(p)
      PROVE  DeviceNext \/ UNCHANGED authorizationVars
  <2>1. CASE revokeOAuth(p)
    <3> DEFINE c == proc[p].cred
    <3>1. /\ proc[p].pc = "revoke" /\ GatewayKept /\ auth' = auth /\ access' = access
          /\ RevokeRAIOAuth(c.grant, c.refresh)
      BY <2>1, Zenon DEF revokeOAuth, At
    <3>2. p \in Processes /\ Issued(c, auth, session)
      BY <3>1, LogoutHas
    <3>3. proc[p].pc \in Refreshing \cup {"revoke"}
      BY <3>1
    <3>4. c # NoCredential
      BY <3>2, <3>3, KnownOf, Zenon DEF ProcessOK
    <3> QED
      BY <1>3, <3>1, <3>2, <3>4
  <2>2. CASE LogoutRead(p) \/ DeleteCredential(p)
    BY <2>2, Zenon DEF LogoutRead, DeleteCredential
  <2> QED
    BY <1>6, <2>1, <2>2 DEF LogoutStep
<1>7. ASSUME NEW p \in Processes, ResponseLost(p) \/ Crash(p)
      PROVE  UNCHANGED authorizationVars
  BY <1>7, Zenon DEF ResponseLost, Crash
<1>8. CASE AccessAges
  BY <1>8, Zenon DEF AccessAges
<1>9. CASE ServerStep
  BY <1>1, <1>9 DEF DeviceNext
<1> QED
  BY <1>4, <1>5, <1>6, <1>7, <1>8, <1>9, Zenon DEF ClientNext

\* The first state.
LEMMA ClientStart ==
    ASSUME ClientInit
    PROVE  ClientInv
<1>1. /\ DeviceInit /\ keyring = NoCredential /\ file = NoCredential /\ lock = None /\ faults = {}
      /\ proc = [p \in Processes |-> [pc |-> "start", cred |-> NoCredential, old |-> NoCredential, stale |-> FALSE]]
  BY Zenon DEF ClientInit
<1>2. DeviceInv
  BY <1>1, DeviceStart
<1>3. \A a \in Grants : Unrefreshed(auth[a], session[a])
  BY <1>1 DEF DeviceInit, NoOAuthSession, Unrefreshed
<1> DEFINE row == [pc |-> "start", cred |-> NoCredential, old |-> NoCredential, stale |-> FALSE]
<1>4. row \in Process /\ row.pc = "start" /\ row.cred = NoCredential /\ row.old = NoCredential /\ ~row.stale
  BY DEF Steps, Process
<1>5. \A p \in Processes : proc[p] = row
  BY <1>1, Zenon
<1>6. proc \in [Processes -> Process]
  BY <1>1, <1>4, Zenon
<1> HIDE DEF row
<1>7. /\ row.pc \in HelperSteps /\ row.pc \in LoginSteps /\ row.pc \in LogoutSteps
      /\ row.pc \notin Refreshing \cup {"revoke"} /\ row.pc \notin Refreshing /\ row.pc \notin Owning
      /\ row.pc \notin Locking /\ row.pc # "failed"
  BY <1>4 DEF HelperSteps, LoginSteps, LogoutSteps, Refreshing, Owning, Locking
<1>8. \A p \in Processes : ProcessOK(p, proc[p], auth, session)
  BY <1>4, <1>5, <1>7, NothingIssued DEF ProcessOK
<1>9. Helpers \subseteq Processes /\ Logins \subseteq Processes /\ None \notin Helpers
  BY ProcessFacts
<1>10. Unsaved(NoCredential, proc) /\ Exclusive(proc)
  BY <1>5, <1>7, <1>9, Zenon DEF Unsaved, Exclusive
<1>11. LockHeld(proc, None)
  BY <1>5, <1>7, <1>9, Zenon DEF LockHeld
<1>12. MachineOK(proc, keyring, file, lock, auth, session)
  BY <1>1, <1>6, <1>8, <1>10, <1>11, NothingIssued, Zenon DEF MachineOK
<1>13. Faultless(proc, keyring, file, session)
  BY <1>1, <1>4, <1>5, <1>7, <1>9, Zenon DEF Faultless, UpToDate, Current, HelperCurrent
<1>14. faults \subseteq Faults
  BY <1>1
<1> QED
  BY <1>2, <1>3, <1>12, <1>13, <1>14 DEF ClientInv

\* Every step of a command, of the gateway or of nobody.
LEMMA ClientKept ==
    ASSUME ClientInv, [ClientNext]_clientVars
    PROVE  ClientInv'
<1>1. ASSUME ClientNext
      PROVE  MachineKept
  <2>1. ASSUME NEW p \in Helpers, HelperStep(p)
        PROVE  MachineKept
    BY <2>1, HelperReadKept, LockKept, RereadKept, RefusedKept, AcceptedKept, HelperPutKept, Zenon DEF HelperStep
  <2>2. ASSUME NEW p \in Logins, LoginStep(p)
        PROVE  MachineKept
    BY <2>2, StartKept, ExchangeKept, CheckKept, ReplaceKept, LoginSaveKept, AbortKept, Zenon DEF LoginStep
  <2>3. ASSUME NEW p \in Logouts, LogoutStep(p)
        PROVE  MachineKept
    BY <2>3, LogoutReadKept, RevokeKept, DeleteKept, Zenon DEF LogoutStep
  <2>4. ASSUME NEW p \in Processes, ResponseLost(p) \/ Crash(p)
        PROVE  MachineKept
    BY <2>4, LostKept, CrashKept
  <2> QED
    BY <1>1, <2>1, <2>2, <2>3, <2>4, AgesKept, ServerKept, Zenon DEF ClientNext
<1>2. CASE ClientNext
  BY <1>1, <1>2, ClientCalls, DeviceKept DEF ClientInv, MachineKept
<1>3. CASE UNCHANGED clientVars
  BY <1>3, DeviceKept DEF clientVars, authorizationVars, deviceVars, localVars, ClientInv
<1> QED
  BY <1>2, <1>3

\* Whatever commands run on a machine, are killed or lose answers: what is
\* saved was handed out, a grant is known to one login until it is saved, the
\* lock is the helper's that is under it, and without faults the saved refresh
\* token is the session's last one or about to be replaced by it.
THEOREM ClientInvariant == RaiClient => []ClientInv
<1>1. ClientInit => ClientInv
  BY ClientStart
<1>2. ClientInv /\ [ClientNext]_clientVars => ClientInv'
  BY ClientKept
<1> QED
  BY <1>1, <1>2, PTL DEF RaiClient

\* finishLogin, oauthAccessToken, revokeOAuth: the commands use the gateway as
\* devices that were handed tokens, so what holds of device grants, that what
\* was cut off stays cut off included, holds while rai runs.
THEOREM CommandsAreDevices == RaiClient => DeviceAuthorization
<1>1. ClientInit => DeviceInit
  BY DEF ClientInit
<1>2. ClientInv /\ [ClientNext]_clientVars => [DeviceNext]_authorizationVars
  <2> SUFFICES ASSUME ClientInv, [ClientNext]_clientVars
               PROVE  DeviceNext \/ UNCHANGED authorizationVars
    OBVIOUS
  <2>1. CASE ClientNext
    BY <2>1, ClientCalls
  <2>2. CASE UNCHANGED clientVars
    BY <2>2 DEF clientVars
  <2> QED
    BY <2>1, <2>2
<1> QED
  BY <1>1, <1>2, ClientInvariant, PTL DEF RaiClient, DeviceAuthorization

\* oauthAccessToken under lockOAuthCredential, and finishLogin's deferred
\* revocation: however many helpers, logins and logouts run at once, no helper
\* is refused because another one has refreshed, and no login that fails
\* leaves a grant that could be refreshed, unless something went wrong.
THEOREM GrantsNotWasted == RaiClient => []NoGrantWasted
<1>1. ClientInv => NoGrantWasted
  <2> SUFFICES ASSUME ClientInv
               PROVE  NoGrantWasted
    OBVIOUS
  <2>1. DeviceTypeOK
    BY Zenon DEF ClientInv, DeviceInv, DeviceTypeOK, DeviceTables, AccountsInv, Lock
  <2>2. ClientTypeOK
    <3>1. {keyring, file} \subseteq Saved \cup {NoCredential}
      BY DEF ClientInv, MachineOK, Issued
    <3>2. lock \in Processes \cup {None}
      BY ProcessFacts DEF ClientInv, MachineOK, LockHeld
    <3> QED
      BY <2>1, <3>1, <3>2, Zenon DEF ClientInv, MachineOK, ClientTypeOK
  <2>3. HelpersShareTheRefresh
    BY Zenon DEF ClientInv, Faultless, HelperCurrent, HelpersShareTheRefresh
  <2>4. FailedLoginLeavesNothing
    <3>1. ASSUME NEW p \in Logins, proc[p].pc = "failed", proc[p].cred # NoCredential
          PROVE  ~Refreshable(proc[p].cred.grant)
      BY <3>1, ProcessFacts, KnownOf DEF ProcessOK, Refreshable, SessionStands
    <3> QED
      BY <3>1, Zenon DEF FailedLoginLeavesNothing, At
  <2> QED
    BY <2>2, <2>3, <2>4 DEF NoGrantWasted
<1> QED
  BY <1>1, ClientInvariant, PTL

=============================================================================
