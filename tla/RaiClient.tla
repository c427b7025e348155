----------------------------- MODULE RaiClient -----------------------------
(***************************************************************************)
(* The rai command line client's login on one machine and profile:         *)
(* internal/rai/oauth.go, credential.go, and the login and logout of       *)
(* app.go and management.go, against the gateway of DeviceAuthorization.   *)
(* Commands are processes that share the saved credential: credential      *)
(* helpers that refresh it under a file lock, logins that replace it and   *)
(* logouts that revoke and delete it, each run once.                       *)
(*                                                                         *)
(* A call of the gateway is the step of its transaction; its answer is on  *)
(* the way until the process's next step, and may be lost.  A process may  *)
(* be killed between any two steps, which frees its lock.  The keyring may *)
(* fail to store a value and so send it to the file, which is read after   *)
(* the keyring.  Names, URLs and texts are left out; the saved access      *)
(* token is only fresh (two minutes or more to live) or not.               *)
(***************************************************************************)
EXTENDS DeviceAuthorization

CONSTANTS
    Helpers, Logins, Logouts,   \* processes, by what they run
    KeyringEnabled,             \* RAI_DISABLE_KEYRING is not set
    Faults                      \* what may go wrong: "crash", "lost", "keyring"

ASSUME ClientAssumption ==
    /\ KeyringEnabled \in BOOLEAN
    /\ Faults \subseteq {"crash", "lost", "keyring"}
    /\ Helpers \cap Logins = {} /\ Helpers \cap Logouts = {} /\ Logins \cap Logouts = {}
    /\ None \notin Helpers \cup Logins \cup Logouts
    /\ "inference" \in Purposes

VARIABLES
    keyring, file,   \* where the credential is saved
    lock,            \* holder of the credential's lock file
    proc,            \* what each process does and knows
    faults           \* history: what has gone wrong

localVars == <<keyring, file, lock, proc, faults>>
clientVars == <<authorizationVars, localVars>>

Processes == Helpers \cup Logins \cup Logouts

Saved == [grant : Grants, refresh : 0..MaxRotation, fresh : BOOLEAN]
NoCredential == [grant |-> None, refresh |-> 0, fresh |-> FALSE]

Steps == {"start", "lock", "locked", "refresh", "put", "poll", "check", "replace", "save", "abort", "revoke", "delete"}
Ends == {"served", "refused", "done", "failed", "killed"}

\* cred is what a process has read or been given, old what a login replaces;
\* stale: the gateway refused a refresh token of a grant it would refresh.
Process == [pc : Steps \cup Ends, cred : Saved \cup {NoCredential}, old : Saved \cup {NoCredential}, stale : BOOLEAN]

ClientInit ==
    /\ DeviceInit
    /\ keyring = NoCredential /\ file = NoCredential
    /\ lock = None
    /\ proc = [p \in Processes |-> [pc |-> "start", cred |-> NoCredential, old |-> NoCredential, stale |-> FALSE]]
    /\ faults = {}

At(p, pc) == proc[p].pc = pc
Goto(p, pc) == proc' = [proc EXCEPT ![p].pc = pc]

\* Mutant of Unlock: a lock file that stays when its holder ends.
LockFileStays(p) == UNCHANGED lock

\* The lock goes with the open file of its holder, also when that is killed.
Unlock(p) == lock' = IF lock = p THEN None ELSE lock
\* The gateway's rows that no call of a client changes.
GatewayKept == UNCHANGED <<tenant, invitation, joined, cookie, flow, request, setup, locked>>

\* Credential: the keyring first, then the file.
Credential == IF KeyringEnabled /\ keyring # NoCredential THEN keyring ELSE file

\* PutCredential: the keyring, and the file's copy goes; or, when the keyring
\* fails (having stored the value or not), the file.
PutCredential(c) ==
    \/ KeyringEnabled /\ keyring' = c /\ file' = NoCredential /\ UNCHANGED faults
    \/ ~KeyringEnabled /\ file' = c /\ UNCHANGED <<keyring, faults>>
    \/ /\ KeyringEnabled /\ "keyring" \in Faults /\ faults' = faults \cup {"keyring"}
       /\ file' = c /\ keyring' \in {keyring, c}

-----------------------------------------------------------------------------
(* A credential helper: oauthAccessToken.                                  *)

HelperRead(p) ==
    /\ At(p, "start")
    /\ Goto(p, IF Credential = NoCredential THEN "failed" ELSE IF Credential.fresh THEN "served" ELSE "lock")
    /\ UNCHANGED <<authorizationVars, keyring, file, lock, faults>>

\* Mutant of lockOAuthCredential: the lock is not exclusive.
SharedLock(p) ==
    /\ At(p, "lock")
    /\ lock' = p /\ Goto(p, "locked")
    /\ UNCHANGED <<authorizationVars, keyring, file, faults>>

lockOAuthCredential(p) ==
    /\ At(p, "lock") /\ lock = None
    /\ lock' = p /\ Goto(p, "locked")
    /\ UNCHANGED <<authorizationVars, keyring, file, faults>>

\* Under the lock the credential is read again.
HelperReread(p) ==
    /\ At(p, "locked")
    /\ LET pc == IF Credential = NoCredential THEN "failed" ELSE IF Credential.fresh THEN "served" ELSE "refresh" IN
       /\ proc' = [proc EXCEPT ![p].pc = pc, ![p].cred = Credential]
       /\ IF pc = "refresh" THEN UNCHANGED lock ELSE Unlock(p)
    /\ UNCHANGED <<authorizationVars, keyring, file, faults>>

refreshOAuth(p) ==
    /\ At(p, "refresh")
    /\ LET c == proc[p].cred
           accepted == Refreshable(c.grant) /\ session[c.grant].refresh = c.refresh
       IN  /\ RefreshRAIOAuth(c.grant, c.refresh)
           /\ IF accepted
              THEN /\ proc' = [proc EXCEPT ![p].pc = "put", ![p].cred = [c EXCEPT !.refresh = @ + 1, !.fresh = TRUE]]
                   /\ UNCHANGED lock
              ELSE /\ proc' = [proc EXCEPT ![p].pc = "refused", ![p].stale = Refreshable(c.grant)]
                   /\ Unlock(p)
    /\ UNCHANGED <<keyring, file, faults>>

HelperPut(p) ==
    /\ At(p, "put")
    /\ PutCredential(proc[p].cred)
    /\ Unlock(p) /\ Goto(p, "served")
    /\ UNCHANGED authorizationVars

-----------------------------------------------------------------------------
(* A login: loginWithBrowser and finishLogin.                              *)

StartAuthorization(p) ==
    /\ At(p, "start")
    /\ \E a \in Grants :
         /\ createRAIAuthorization(a, "inference")
         /\ proc' = [proc EXCEPT ![p].pc = "poll", ![p].cred = [grant |-> a, refresh |-> 0, fresh |-> TRUE]]
    /\ UNCHANGED <<keyring, file, lock, faults>>

\* A poll that is refused ends a login that has been given nothing.
ExchangeToken(p) ==
    /\ At(p, "poll")
    /\ LET a == proc[p].cred.grant IN
       /\ ConsumeRAIOAuthAuthorization(a)
       /\ CASE ExchangeAnswer(a) = "tokens" -> Goto(p, "check")
            [] ExchangeAnswer(a) = "authorization_pending" -> UNCHANGED proc
            [] OTHER -> proc' = [proc EXCEPT ![p].pc = "failed", ![p].cred = NoCredential]
    /\ UNCHANGED <<keyring, file, lock, faults>>

\* The new token is tried; a model it cannot use, or a profile that is not
\* valid, also ends the login here.
LoginCheck(p) ==
    /\ At(p, "check")
    /\ \/ CanInfer(proc[p].cred.grant) /\ proc' = [proc EXCEPT ![p].pc = "replace", ![p].old = Credential]
       \/ Goto(p, "abort")
    /\ UNCHANGED <<authorizationVars, keyring, file, lock, faults>>

\* The old credential's session is revoked before it is overwritten.
LoginReplace(p) ==
    /\ At(p, "replace")
    /\ LET old == proc[p].old IN
       IF old = NoCredential THEN UNCHANGED <<session, key, cut>> ELSE RevokeRAIOAuth(old.grant, old.refresh)
    /\ Goto(p, "save")
    /\ GatewayKept /\ UNCHANGED <<auth, access, keyring, file, lock, faults>>

LoginSave(p) ==
    /\ At(p, "save")
    /\ PutCredential(proc[p].cred)
    /\ Goto(p, "done")
    /\ UNCHANGED <<authorizationVars, lock>>

\* The deferred revocation of a login that is not committed.
LoginAbort(p) ==
    /\ At(p, "abort")
    /\ RevokeRAIOAuth(proc[p].cred.grant, proc[p].cred.refresh)
    /\ Goto(p, "failed")
    /\ GatewayKept /\ UNCHANGED <<auth, access, keyring, file, lock, faults>>

-----------------------------------------------------------------------------
(* A logout, which takes no lock: revokeSavedCredential, then the copies.  *)

LogoutRead(p) ==
    /\ At(p, "start")
    /\ proc' = [proc EXCEPT ![p].pc = IF Credential = NoCredential THEN "failed" ELSE "revoke", ![p].cred = Credential]
    /\ UNCHANGED <<authorizationVars, keyring, file, lock, faults>>

revokeOAuth(p) ==
    /\ At(p, "revoke")
    /\ RevokeRAIOAuth(proc[p].cred.grant, proc[p].cred.refresh)
    /\ Goto(p, "delete")
    /\ GatewayKept /\ UNCHANGED <<auth, access, keyring, file, lock, faults>>

DeleteCredential(p) ==
    /\ At(p, "delete")
    /\ keyring' = NoCredential /\ file' = NoCredential
    /\ Goto(p, "done")
    /\ UNCHANGED <<authorizationVars, lock, faults>>

-----------------------------------------------------------------------------
(* Faults and the clock.                                                   *)

\* An answer that does not arrive: the helper and the logout end, and so does
\* a login, after the revocation that finishLogin defers.
ResponseLost(p) ==
    /\ "lost" \in Faults
    /\ \/ proc[p].pc \in {"put", "check", "delete"} /\ proc' = [proc EXCEPT ![p].pc = "failed", ![p].cred = NoCredential]
       \/ p \in Logins /\ At(p, "save") /\ Goto(p, "abort")
    /\ Unlock(p)
    /\ faults' = faults \cup {"lost"}
    /\ UNCHANGED <<authorizationVars, keyring, file>>

Crash(p) ==
    /\ "crash" \in Faults /\ proc[p].pc \notin Ends \cup {"start"}
    /\ Unlock(p) /\ Goto(p, "killed")
    /\ faults' = faults \cup {"crash"}
    /\ UNCHANGED <<authorizationVars, keyring, file>>

AccessAges ==
    /\ keyring.fresh \/ file.fresh
    /\ keyring' = [keyring EXCEPT !.fresh = FALSE]
    /\ file' = [file EXCEPT !.fresh = FALSE]
    /\ UNCHANGED <<authorizationVars, lock, proc, faults>>

-----------------------------------------------------------------------------
HelperStep(p) == HelperRead(p) \/ lockOAuthCredential(p) \/ HelperReread(p) \/ refreshOAuth(p) \/ HelperPut(p)
LoginStep(p) == \/ StartAuthorization(p) \/ ExchangeToken(p) \/ LoginCheck(p)
                \/ LoginReplace(p) \/ LoginSave(p) \/ LoginAbort(p)
LogoutStep(p) == LogoutRead(p) \/ revokeOAuth(p) \/ DeleteCredential(p)

ClientNext ==
    /\ \/ \E p \in Helpers : HelperStep(p)
       \/ \E p \in Logins : LoginStep(p)
       \/ \E p \in Logouts : LogoutStep(p)
       \/ \E p \in Processes : ResponseLost(p) \/ Crash(p)
       \/ AccessAges
       \/ ServerStep /\ UNCHANGED localVars
    /\ UNCHANGED deployment

\* Processes run, transactions end, and the ten minutes of an authorisation
\* pass.  Nobody has to approve anything.
RaiClient ==
    /\ ClientInit /\ [][ClientNext]_clientVars
    /\ \A p \in Helpers : WF_clientVars(HelperStep(p))
    /\ \A p \in Logins : WF_clientVars(LoginStep(p))
    /\ \A p \in Logouts : WF_clientVars(LogoutStep(p))
    /\ \A b \in Browsers : WF_clientVars(ApproveRAIAuthorization(b) /\ UNCHANGED localVars)
    /\ \A a \in Grants : WF_clientVars(AuthorizationExpires(a) /\ UNCHANGED localVars)

-----------------------------------------------------------------------------
ClientTypeOK ==
    /\ DeviceTypeOK
    /\ {keyring, file} \subseteq Saved \cup {NoCredential}
    /\ lock \in Processes \cup {None}
    /\ proc \in [Processes -> Process]
    /\ faults \subseteq Faults

\* oauthAccessToken and lockOAuthCredential: unless an answer was lost, a
\* process was killed while it refreshed or the keyring failed, no helper is
\* ever sent to log in again because another one has spent its refresh token.
HelpersShareTheRefresh == faults = {} => \A p \in Helpers : ~proc[p].stale

\* finishLogin: a login that ends without being saved leaves no grant behind
\* that could be refreshed, unless it was killed or an answer was lost.
FailedLoginLeavesNothing ==
    faults = {} => \A p \in Logins : At(p, "failed") /\ proc[p].cred # NoCredential => ~Refreshable(proc[p].cred.grant)

\* lockOAuthCredential and loginWithBrowser: every command ends; helpers do
\* not wait for a lock for ever, not even that of a process that was killed,
\* and a login that nobody decides ends when its authorisation expires.
CommandsEnd == \A p \in Processes : <>(proc[p].pc \in Ends)

\* A grant is neither lost nor left over: helpers that run at once share one
\* refresh (oauthAccessToken under lockOAuthCredential), and a login that is
\* not committed revokes what it was given (finishLogin).
NoGrantWasted == ClientTypeOK /\ HelpersShareTheRefresh /\ FailedLoginLeavesNothing
=============================================================================
