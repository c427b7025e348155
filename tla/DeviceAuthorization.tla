------------------------ MODULE DeviceAuthorization ------------------------
(***************************************************************************)
(* Device authorisation on the gateway: internal/store/rai_authorizations, *)
(* rai_oauth.go and rai_devices.go, and the handlers of internal/app       *)
(* (rai_auth.go, rai_management.go, rai_devices.go, app.go's sweep), on    *)
(* top of the accounts.  A device asks for a grant and polls for its       *)
(* tokens; a signed-in user approves or denies it; the tokens are handed   *)
(* out once; the refresh token rotates; the grant ends by expiry, by       *)
(* revocation, by a new password version or with the account.              *)
(*                                                                         *)
(* Approval is a transaction that locks the authorisation, reads the       *)
(* account without locking it and then writes; it is split after the read. *)
(* The other transactions are one step, and wait for the lock.  A grant    *)
(* makes at most one session and one key, which bear its name here.        *)
(* Abstractions: the PKCE verifier is held by the device that asked, user  *)
(* codes are the grant, rotation is a number.                              *)
(***************************************************************************)
EXTENDS Accounts

CONSTANTS
    Purposes,      \* purposes asked for: "inference", "account"
    MaxRotation    \* bound on refreshes of a session

ASSUME DeviceAssumption == Purposes \subseteq {"inference", "account"} /\ MaxRotation \in Nat

VARIABLES
    auth,       \* rows of rai_authorizations
    locked,     \* the approval that holds a row's lock, and what it read
    session,    \* rows of rai_oauth_sessions
    access,     \* grants with an access token that has not expired
    cut         \* history: grants that were revoked or left behind by a reset

deviceVars == <<auth, locked, session, access, cut>>
authorizationVars == <<accountVars, deviceVars>>

Authorization == [state : {"absent", "live", "deleted"},
                  status : {"pending", "approved", "denied", "consumed"},
                  purpose : {"inference", "account"}, tenant : Tenants \cup {None}, expired : BOOLEAN]
OAuthSession == [state : {"absent", "live", "deleted"}, tenant : Tenants \cup {None},
                 version : 0..MaxVersion, refresh : 0..MaxRotation, expired : BOOLEAN]

NoAuthorization == [state |-> "absent", status |-> "pending", purpose |-> "inference", tenant |-> None, expired |-> FALSE]
NoOAuthSession == [state |-> "absent", tenant |-> None, version |-> 0, refresh |-> 0, expired |-> FALSE]
NoLock == [by |-> None, tenant |-> None, version |-> 0]

DeviceInit ==
    /\ AccountsInit
    /\ auth = [a \in Grants |-> IF a \in deployment.gone THEN [NoAuthorization EXCEPT !.state = "deleted", !.expired = TRUE]
                               ELSE NoAuthorization]
    /\ locked = [a \in Grants |-> NoLock]
    /\ session = [a \in Grants |-> NoOAuthSession]
    /\ access = {}
    /\ cut = {}

-----------------------------------------------------------------------------
(* Asking and deciding.                                                    *)

Row(a) == auth[a].state = "live"
Unlocked(a) == locked[a] = NoLock

createRAIAuthorization(a, purpose) ==
    /\ auth[a].state = "absent"
    /\ auth' = [auth EXCEPT ![a] = [NoAuthorization EXCEPT !.state = "live", !.purpose = purpose]]
    /\ UNCHANGED <<accountVars, locked, session, access, cut>>

AuthorizationExpires(a) ==
    /\ Row(a) /\ ~auth[a].expired
    /\ auth' = [auth EXCEPT ![a].expired = TRUE]
    /\ UNCHANGED <<accountVars, locked, session, access, cut>>

\* The first half of ApproveRAIAuthorization: the row is locked and pending,
\* and the account that is read, and not locked, may approve.
ApproveRead(b) ==
    /\ Serving(b, "approve")
    /\ LET a == request[b].target
           t == request[b].by
       IN  /\ Unlocked(a)
           /\ IF /\ Row(a) /\ ~auth[a].expired /\ auth[a].status = "pending"
                 /\ Live(t) /\ tenant[t].enabled /\ ~tenant[t].mustChange
              THEN /\ locked' = [locked EXCEPT ![a] = [by |-> b, tenant |-> t, version |-> tenant[t].version]]
                   /\ UNCHANGED request
              ELSE Answered(b) /\ UNCHANGED locked
    /\ UNCHANGED <<tenant, key, invitation, joined, cookie, flow, setup, auth, session, access, cut>>

\* The grant that a writes: an inference grant has a key, whose foreign key
\* asks for the account again (the transaction fails when it is gone).
Approved(a, t, version) ==
    IF auth[a].purpose = "inference" /\ ~Live(t) THEN UNCHANGED <<auth, session, access, key, cut>>
    ELSE /\ auth' = [auth EXCEPT ![a].status = "approved", ![a].tenant = t]
         /\ session' = [session EXCEPT ![a] = [state |-> "live", tenant |-> t, version |-> version,
                                               refresh |-> 0, expired |-> FALSE]]
         /\ access' = access \cup {a}
         /\ key' = IF auth[a].purpose = "account" THEN key
                   ELSE [key EXCEPT ![a] = [state |-> "live", tenant |-> t, source |-> "rai", enabled |-> TRUE]]
         /\ cut' = IF Live(t) /\ tenant[t].version = locked[a].version THEN cut ELSE cut \cup {a}

\* Its second half: the key, the session and the sealed tokens are written.
ApproveRAIAuthorization(b) ==
    \E a \in Grants :
        /\ locked[a].by = b
        /\ Approved(a, locked[a].tenant, locked[a].version)
        /\ locked' = [locked EXCEPT ![a] = NoLock]
        /\ Answered(b)
        /\ UNCHANGED <<tenant, invitation, joined, cookie, flow, setup>>

\* Deny does not look at the expiry.
DenyRAIAuthorization(b) ==
    /\ Serving(b, "deny")
    /\ LET a == request[b].target IN
       /\ Unlocked(a)
       /\ auth' = IF Row(a) /\ auth[a].status = "pending"
                  THEN [auth EXCEPT ![a].status = "denied", ![a].tenant = request[b].by] ELSE auth
    /\ Answered(b)
    /\ UNCHANGED <<tenant, key, invitation, joined, cookie, flow, setup, locked, session, access, cut>>

-----------------------------------------------------------------------------
(* The tokens: raiToken.                                                   *)

\* Mutant of Consumable: the tokens are handed out after the grant's time.
LateConsumable(a) == Row(a) /\ auth[a].status = "approved"

Consumable(a) == Row(a) /\ auth[a].status = "approved" /\ ~auth[a].expired

\* What the exchange answers a device that asked for a and has the verifier.
ExchangeAnswer(a) ==
    IF ~Row(a) \/ auth[a].status = "consumed" THEN "invalid_grant"
    ELSE IF auth[a].expired THEN "expired_token"
    ELSE CASE auth[a].status = "pending" -> "authorization_pending"
           [] auth[a].status = "denied" -> "access_denied"
           [] OTHER -> "tokens"

ConsumeRAIOAuthAuthorization(a) ==
    /\ Unlocked(a)
    /\ auth' = IF Consumable(a) THEN [auth EXCEPT ![a].status = "consumed"] ELSE auth
    /\ UNCHANGED <<accountVars, locked, session, access, cut>>

\* The session's account as RAIOAuthSession and RefreshRAIOAuth want it.
\* Mutant of SessionStands: the password version is not compared.
AnyVersionStands(a) ==
    /\ session[a].state = "live" /\ ~session[a].expired
    /\ LET t == tenant[session[a].tenant] IN t.state = "live" /\ t.enabled /\ ~t.mustChange

SessionStands(a) ==
    /\ session[a].state = "live" /\ ~session[a].expired
    /\ LET t == tenant[session[a].tenant] IN
       t.state = "live" /\ t.enabled /\ ~t.mustChange /\ t.version = session[a].version

\* RefreshRAIOAuth accepts the session's last refresh token, and asks for
\* the key of an inference grant.
Refreshable(a) ==
    SessionStands(a) /\ (auth[a].purpose = "inference" => key[a].state = "live" /\ key[a].enabled)

RefreshRAIOAuth(a, n) ==
    IF Refreshable(a) /\ session[a].refresh = n
    THEN /\ n < MaxRotation
         /\ session' = [session EXCEPT ![a].refresh = n + 1]
         /\ access' = access \cup {a}
         /\ UNCHANGED <<accountVars, auth, locked, cut>>
    ELSE UNCHANGED authorizationVars

AccessExpires(a) ==
    /\ a \in access
    /\ access' = access \ {a}
    /\ UNCHANGED <<accountVars, auth, locked, session, cut>>

SessionExpires(a) ==
    /\ session[a].state = "live" /\ ~session[a].expired
    /\ session' = [session EXCEPT ![a].expired = TRUE]
    /\ access' = access \ {a}
    /\ UNCHANGED <<accountVars, auth, locked, cut>>

\* RAIOAuthSession: an access token speaks for its session.
CanAct(a) == a \in access /\ SessionStands(a)

\* ResolveKey and handlePublic: it speaks for the session's key.
CanInfer(a) == CanAct(a) /\ auth[a].purpose = "inference" /\ key[a].state = "live" /\ key[a].enabled

\* withRAIManagement: an account grant may call the handlers of its tenant's
\* keys and devices; only manual keys are changed this way.
withRAIManagement(b, a, op, target) ==
    /\ op \in Operations(b) \cap {"newKey", "keyOn", "keyOff", "dropKey", "device"} /\ target \in TargetsOf(op)
    /\ Idle(b) /\ auth[a].status = "consumed"
    /\ CanAct(a) /\ auth[a].purpose = "account"
    /\ op \in {"keyOn", "keyOff", "dropKey"} =>
          Owned(target, session[a].tenant) /\ key[target].source = "manual"
    /\ request' = [request EXCEPT ![b] = [op |-> op, by |-> session[a].tenant,
                                          version |-> session[a].version, target |-> target]]
    /\ UNCHANGED <<tenant, key, invitation, joined, cookie, flow, setup, deviceVars>>

-----------------------------------------------------------------------------
(* Revocation.                                                             *)

\* The session of a goes, and the key it has.
Revoked(a) ==
    /\ session' = [session EXCEPT ![a].state = "deleted"]
    /\ key' = IF key[a].state = "live" THEN [key EXCEPT ![a].enabled = FALSE] ELSE key
    /\ cut' = cut \cup {a}

\* The session is found by its last refresh token; an unknown token is no error.
RevokeRAIOAuth(a, n) ==
    IF session[a].state = "live" /\ session[a].refresh = n THEN Revoked(a) ELSE UNCHANGED <<session, key, cut>>

\* DELETE /api/rai/devices/{id}: a device is listed by its key, which is
\* disabled, or by its session, when the grant is for the account.
RevokeRAIDevice(b) ==
    /\ Serving(b, "device")
    /\ LET a == request[b].target IN
       IF key[a].state = "live" /\ key[a].tenant = request[b].by
       THEN key' = [key EXCEPT ![a].enabled = FALSE] /\ cut' = cut \cup {a} /\ UNCHANGED session
       ELSE IF session[a].state = "live" /\ session[a].tenant = request[b].by /\ auth[a].purpose = "account"
       THEN session' = [session EXCEPT ![a].state = "deleted"] /\ cut' = cut \cup {a} /\ UNCHANGED key
       ELSE UNCHANGED <<session, key, cut>>
    /\ Answered(b)
    /\ UNCHANGED <<tenant, invitation, joined, cookie, flow, setup, auth, locked, access>>

\* DELETE /api/rai/manage/session: an account grant ends itself.
raiManagementSession(a) ==
    /\ CanAct(a) /\ auth[a].purpose = "account" /\ auth[a].status = "consumed"
    /\ session' = [session EXCEPT ![a].state = "deleted"]
    /\ cut' = cut \cup {a}
    /\ UNCHANGED <<accountVars, auth, locked, access>>

\* The sweep of app.maintenance; it waits for locks like any DELETE.
DeleteExpiredRAIAuthorizations ==
    /\ \E a \in Grants : (session[a].state = "live" /\ session[a].expired) \/ (Row(a) /\ auth[a].expired)
    /\ \A a \in Grants : Row(a) /\ auth[a].expired => Unlocked(a)
    /\ session' = [a \in Grants |-> IF session[a].state = "live" /\ session[a].expired
                                    THEN [session[a] EXCEPT !.state = "deleted"] ELSE session[a]]
    /\ auth' = [a \in Grants |-> IF Row(a) /\ auth[a].expired
                                 THEN [auth[a] EXCEPT !.state = "deleted"] ELSE auth[a]]
    /\ UNCHANGED <<accountVars, locked, access, cut>>

-----------------------------------------------------------------------------
(* Steps of the accounts, and what they do to grants.                      *)

\* Grants of the accounts whose password version a step raises.
LeftBehind ==
    {a \in Grants : /\ session[a].state = "live"
                    /\ tenant'[session[a].tenant].version > tenant[session[a].tenant].version}

AccountStepHere ==
    /\ AccountStep
    /\ cut' = cut \cup LeftBehind \cup {a \in Grants : key'[a].state = "deleted"}
    /\ UNCHANGED <<auth, locked, session, access>>

\* DeleteTenant also deletes the authorisations the account decided; its
\* sessions stay behind, and stand for nobody.
TenantDeleted(b) ==
    /\ adminTenantDelete(b)
    /\ auth' = [a \in Grants |-> IF Row(a) /\ auth[a].tenant # None /\ tenant'[auth[a].tenant].state = "deleted"
                                 THEN [auth[a] EXCEPT !.state = "deleted"] ELSE auth[a]]
    /\ cut' = cut \cup {a \in Grants : session[a].state = "live" /\ tenant'[session[a].tenant].state = "deleted"}
    /\ UNCHANGED <<locked, session, access>>

ServerStep ==
    \/ AccountStepHere
    \/ \E b \in Browsers :
         \/ TenantDeleted(b) \/ ApproveRead(b) \/ ApproveRAIAuthorization(b) \/ DenyRAIAuthorization(b)
         \/ RevokeRAIDevice(b)
         \/ \E a \in Grants : \E op \in Operations(b) : \E target \in TargetsOf(op) : withRAIManagement(b, a, op, target)
    \/ \E a \in Grants :
         AuthorizationExpires(a) \/ AccessExpires(a) \/ SessionExpires(a) \/ raiManagementSession(a)
    \/ DeleteExpiredRAIAuthorizations

\* Devices that call the gateway at will, with any token they ever had.
AnyDevice ==
    \E a \in Grants :
        \/ \E purpose \in Purposes : createRAIAuthorization(a, purpose)
        \/ ConsumeRAIOAuthAuthorization(a)
        \/ auth[a].status = "consumed" /\ \E n \in 0..session[a].refresh :
              \/ RefreshRAIOAuth(a, n)
              \/ RevokeRAIOAuth(a, n) /\ UNCHANGED <<tenant, invitation, joined, cookie, flow, request, setup, auth, locked, access>>

DeviceNext == (ServerStep \/ AnyDevice) /\ UNCHANGED deployment

DeviceAuthorization == DeviceInit /\ [][DeviceNext]_authorizationVars

-----------------------------------------------------------------------------
DeviceTypeOK ==
    /\ AccountsTypeOK
    /\ auth \in [Grants -> Authorization]
    /\ locked \in [Grants -> [by : Browsers \cup {None}, tenant : Tenants \cup {None}, version : 0..MaxVersion]]
    /\ session \in [Grants -> OAuthSession]
    /\ access \in SUBSET Grants
    /\ cut \in SUBSET Grants

\* RAIOAuthSession, ResolveKey and UpdateKey: a grant that its user revoked,
\* whose key was deleted, or that existed or was being approved when the
\* password was reset, gives no access again, whatever is enabled, signed in
\* or approved later.
CutStaysCut == \A a \in cut : ~CanInfer(a) /\ ~(CanAct(a) /\ auth[a].purpose = "account")

\* ApproveRAIAuthorization, ConsumeRAIOAuthAuthorization, RefreshRAIOAuth and
\* DeleteExpiredRAIAuthorizations: what a grant has come to.  An approved
\* grant whose tokens nobody fetched in time is over, though its session and
\* its key stay; so is one whose session has expired or was deleted.
GrantState(a) ==
    IF auth[a].state = "absent" THEN "none"
    ELSE IF \/ a \in cut \/ auth[a].status = "denied"
            \/ /\ auth[a].status \in {"pending", "approved"}
               /\ auth[a].expired \/ ~Row(a)
            \/ /\ auth[a].status \in {"approved", "consumed"}
               /\ session[a].expired \/ session[a].state = "deleted"
         THEN "over"
    ELSE CASE auth[a].status = "pending" -> "asked"
           [] auth[a].status = "approved" -> "ready"
           [] auth[a].status = "consumed" -> "held"

Abstract == INSTANCE DeviceGrant WITH grant <- [a \in Grants |-> GrantState(a)]

\* The gateway implements the abstract life of a grant: it is decided once,
\* handed out once, and over for good.
GrantsKeepTheirPromise == Abstract!GrantSpec

\* Register, RevokeInvitation, DeleteTenant and the administrator's handlers
\* together: whatever requests overlap, there is one administrator once there
\* is an account, an invitation is spent once or revoked, never both, and no
\* key is left without its account.
AccountsConsistent == DeviceTypeOK /\ OneAdministrator /\ InvitationSpentOnce /\ NoOrphanKeys
=============================================================================
