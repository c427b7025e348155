---------------------------- MODULE Credentials ----------------------------
(***************************************************************************)
(* The upstream credentials of the embedded runtime: the sealed rows the   *)
(* administrators edit (store/credentials.go), the copy the runtime works  *)
(* with (app/native_runtime_start.go, app/embedded_cpa.go), the parent     *)
(* subscriptions derived from them and the provider OAuth sessions that    *)
(* create or reauthorise them (app/native_providers.go,                    *)
(* app/provider_oauth.go).                                                 *)
(*                                                                         *)
(* Every handler is a sequence of separate statements: it reads the row,   *)
(* writes it back whole, lists all rows, replaces the runtime's copy and   *)
(* synchronises the parents, and rolls its write back when a later step    *)
(* fails. No lock and no revision check spans two of them. Meanwhile the   *)
(* runtime refreshes OAuth documents and its update hook writes them back  *)
(* (persistEmbeddedCredential): get the row, upsert it with the document.  *)
(* Replacing the runtime's copy runs the same hook for every credential    *)
(* that stays installed.                                                   *)
(*                                                                         *)
(* A document is the number of the refresh token it holds; 0 is an API     *)
(* key, which never rotates. A model list is 0 when empty, otherwise the   *)
(* catalogue version it was taken from. Names, headers, base URLs and      *)
(* proxies are rewritten with the row and not told apart.                  *)
(***************************************************************************)
EXTENDS Naturals, FiniteSets

CONSTANTS
    Creds,        \* credential ids
    Stored,       \* those that exist at first: an OAuth account, or none
    Compatible,   \* those of OpenAI-compatible providers, whose models are probed
    Admins,       \* the administration requests, each served once
    Operations,   \* what they do: "add", "update", "delete", "oauth", "catalog"
    MaxToken,     \* bound: tokens the provider issues
    MaxCatalog,   \* bound: versions of the model catalogue
    MaxFaults     \* bound: failing statements, disconnects and restarts

ASSUME CredentialsAssumption ==
    /\ IsFiniteSet(Creds) /\ IsFiniteSet(Admins) /\ Compatible \subseteq Creds
    /\ Stored \subseteq Creds \ Compatible /\ Cardinality(Stored) <= 1
    /\ MaxToken \in Nat \ {0} /\ MaxCatalog \in Nat \ {0} /\ MaxFaults \in Nat

VARIABLES
    row,        \* upstream_credentials, by id
    rt,         \* the runtime's installed credentials
    valid,      \* refresh tokens the provider still accepts
    issued,     \* tokens the provider has issued
    catalog,    \* version of the runtime's model catalogue
    parents,    \* status of the parent subscription of each credential
    session,    \* the provider OAuth session; tried are the requests that finalize it
    req,        \* administration requests in flight
    refresher,  \* the update hook of a refresh in flight, by credential
    faults,
    disturbed,  \* a write was based on a row another write had changed, or was cut off
    repeated,   \* a finalize stored a document again, or overlapped another one
    diverged,   \* the last replacement did not see the current rows
    unsynced    \* nor the last parent synchronisation, or a rollback came after it

vars == <<row, rt, valid, issued, catalog, parents, session, req, refresher,
          faults, disturbed, repeated, diverged, unsynced>>

RowType == [there: BOOLEAN, enabled: BOOLEAN, models: 0..MaxCatalog, token: 0..MaxToken]
NoRow == [there |-> FALSE, enabled |-> FALSE, models |-> 0, token |-> 0]
NoRows == [c \in Creds |-> NoRow]
NoSession == [st |-> "none", targets |-> {}, token |-> 0, tried |-> {}]

(* A request: the step it takes next, the row it read (what a rollback     *)
(* restores) and the one it wrote, the rows its reload or synchronisation  *)
(* listed, the credentials whose update hook that reload still runs, the   *)
(* row such a hook read, and where it goes after the reload.               *)
NoReq == [op |-> "none", cred |-> {}, pc |-> "new", prev |-> NoRow, new |-> NoRow,
          list |-> NoRows, todo |-> {}, seen |-> NoRow, then |-> "end"]

CredentialsInit ==
    /\ row = [c \in Creds |-> IF c \in Stored
                              THEN [there |-> TRUE, enabled |-> TRUE, models |-> 1, token |-> 1]
                              ELSE NoRow]
    /\ rt = row
    /\ valid = {1} /\ issued = 1 /\ catalog = 1
    /\ parents = [c \in Creds |-> IF row[c].there THEN "available" ELSE "none"]
    /\ session = NoSession
    /\ req = [a \in Admins |-> NoReq]
    /\ refresher = [c \in Creds |-> [pc |-> "idle", seen |-> NoRow, token |-> 0]]
    /\ faults = 0 /\ disturbed = FALSE /\ repeated = FALSE /\ diverged = FALSE /\ unsynced = FALSE

-----------------------------------------------------------------------------
(* What the runtime makes of a row: nothing of a disabled one, otherwise   *)
(* the stored models, united with the catalogue of the provider.           *)
Installed(c, r, v) ==
    IF r.there /\ r.enabled
    THEN [r EXCEPT !.models = IF c \in Compatible \/ r.models > v THEN @ ELSE v]
    ELSE NoRow

Only(a) == CHOOSE c \in req[a].cred : TRUE

Fault == faults < MaxFaults /\ faults' = faults + 1

(* UpsertUpstreamCredential writes all columns, whatever the row holds by  *)
(* then; base is the row the writer last saw.                              *)
UpsertUpstreamCredential(c, r, base) ==
    /\ row' = [row EXCEPT ![c] = r]
    /\ disturbed' = (disturbed \/ row[c] # base)

(* DeleteUpstreamCredential, as the rollback of an activation uses it.     *)
RemoveRow(c, base) ==
    /\ row' = [row EXCEPT ![c] = NoRow]
    /\ disturbed' = (disturbed \/ row[c] # base)

(* The next step; a step that no rollback follows forgets the rows.        *)
At(r, pc) == IF pc \in {"sync", "expand", "end"}
             THEN [NoReq EXCEPT !.op = r.op, !.cred = r.cred, !.pc = pc]
             ELSE [r EXCEPT !.pc = pc]
Go(a, pc) == req' = [req EXCEPT ![a] = At(@, pc)]
Reload(a, then) == req' = [req EXCEPT ![a] = [@ EXCEPT !.pc = "list", !.then = then]]
Done == [NoReq EXCEPT !.pc = "done"]
End(a) == req' = [req EXCEPT ![a] = Done]
Idle(a) == req[a].pc \in {"new", "done"}

Begin(a, o, cred, prev, new, pc, then) ==
    /\ req[a].pc = "new" /\ o \in Operations
    /\ req' = [req EXCEPT ![a] = [NoReq EXCEPT !.op = o, !.cred = cred, !.pc = pc,
                                  !.prev = prev, !.new = new, !.then = then]]

-----------------------------------------------------------------------------
(* The handlers' first steps.                                              *)

(* POST: the id must be free; models are always derived by activation.     *)
nativeProviderAccounts(a, c) ==
    /\ ~row[c].there
    /\ \E enabled \in BOOLEAN :
         Begin(a, "add", {c}, NoRow,
               [there |-> TRUE, enabled |-> enabled, models |-> 0, token |-> 0],
               "save", "discover")
    /\ UNCHANGED <<row, rt, valid, issued, catalog, parents, session, refresher,
                   faults, disturbed, repeated, diverged, unsynced>>

(* PATCH: a rename (or header, proxy, base URL), a switch of enabled, or a *)
(* choice of models, which is refused on a disabled account unless it      *)
(* changes nothing and is validated against the runtime on an enabled one. *)
nativeProviderAccountUpdate(a, c) ==
    /\ row[c].there
    /\ \/ \E enabled \in BOOLEAN :
            Begin(a, "update", {c}, row[c], [row[c] EXCEPT !.enabled = enabled], "save", "sync")
       \/ /\ row[c].enabled
          /\ \E v \in 1..MaxCatalog :
               Begin(a, "update", {c}, row[c], [row[c] EXCEPT !.models = v], "save", "validate")
    /\ UNCHANGED <<row, rt, valid, issued, catalog, parents, session, refresher,
                   faults, disturbed, repeated, diverged, unsynced>>

(* DELETE removes the row at once, then reloads and synchronises.          *)
nativeProviderAccountDelete(a, c) ==
    /\ row[c].there
    /\ Begin(a, "delete", {c}, row[c], NoRow, "list", "sync")
    /\ row' = [row EXCEPT ![c] = NoRow]
    /\ UNCHANGED <<rt, valid, issued, catalog, parents, session, refresher,
                   faults, disturbed, repeated, diverged, unsynced>>

(* The provider publishes models; onEmbeddedModelCatalogUpdate reloads,    *)
(* persists the expanded lists and synchronises.                           *)
onEmbeddedModelCatalogUpdate(a) ==
    /\ catalog < MaxCatalog /\ catalog' = catalog + 1
    /\ Begin(a, "catalog", {}, NoRow, NoRow, "list", "expand")
    /\ UNCHANGED <<row, rt, valid, issued, parents, session, refresher,
                   faults, disturbed, repeated, diverged, unsynced>>

(* An OAuth session for a new account or to reauthorise one; a failing     *)
(* StartOAuth removes it again.                                            *)
adminProviderOAuthStart ==
    /\ "oauth" \in Operations /\ session.st = "none"
    /\ \E targets \in {{}} \cup {{c} : c \in {d \in Creds : row[d].there /\ row[d].token > 0}} :
         session' = [NoSession EXCEPT !.st = "open", !.targets = targets]
    /\ UNCHANGED <<row, rt, valid, issued, catalog, parents, req, refresher,
                   faults, disturbed, repeated, diverged, unsynced>>

(* The runtime hands over the document the provider issued; a session that *)
(* expired or was cancelled meanwhile refuses it.                          *)
capture ==
    /\ session.st = "open" /\ issued < MaxToken
    /\ issued' = issued + 1 /\ valid' = valid \cup {issued'}
    /\ session' = [session EXCEPT !.st = "captured", !.token = issued']
    /\ UNCHANGED <<row, rt, catalog, parents, req, refresher,
                   faults, disturbed, repeated, diverged, unsynced>>

(* Cancelled, expired (purgeLocked) or failed (setError): no finalize.     *)
adminProviderOAuthCancel ==
    /\ session.st # "none"
    /\ session' = NoSession
    /\ UNCHANGED <<row, rt, valid, issued, catalog, parents, req, refresher,
                   faults, disturbed, repeated, diverged, unsynced>>

(* Finalize copies the captured document. For a new account it takes a     *)
(* fresh id; reauthorising keeps enabled and models of the row it reads.   *)
(* The session is removed only at the end: a second finalize meanwhile, or *)
(* a retry after one that failed, stores the same document again.          *)
adminProviderOAuthFinalize(a) ==
    /\ session.st = "captured"
    /\ \/ /\ session.targets = {}
          /\ \E c \in Creds \ Compatible :
               /\ ~row[c].there
               /\ \A b \in Admins : c \notin req[b].cred
               /\ Begin(a, "oauth", {c}, NoRow,
                        [there |-> TRUE, enabled |-> TRUE, models |-> 0, token |-> session.token],
                        "save", "discover")
       \/ \E c \in session.targets :
            /\ row[c].there
            /\ Begin(a, "oauth", {c}, row[c], [row[c] EXCEPT !.token = session.token], "save",
                     IF row[c].models = 0 THEN "discover" ELSE "sync")
    /\ session' = [session EXCEPT !.tried = @ \cup {a}]
    /\ repeated' = (repeated \/ session.tried # {} \/ \E b \in Admins : req[b].op = "oauth")
    /\ UNCHANGED <<row, rt, valid, issued, catalog, parents, refresher,
                   faults, disturbed, diverged, unsynced>>

-----------------------------------------------------------------------------
(* The steps the handlers share.                                           *)

Save(a) ==
    /\ req[a].pc = "save"
    /\ UpsertUpstreamCredential(Only(a), req[a].new, req[a].prev)
    /\ Go(a, "list")
    /\ UNCHANGED <<rt, valid, issued, catalog, parents, session, refresher,
                   faults, repeated, diverged, unsynced>>

(* Where a handler goes when a step after its write fails: activation and  *)
(* update roll back, the others stop and report it.                        *)
Failed(a) ==
    IF req[a].op \in {"add", "update", "oauth"} /\ req[a].then # "end"
    THEN Go(a, "undo") ELSE End(a)

(* reloadNativeCredentials, first half: list the rows.                     *)
ListUpstreamCredentials(a) ==
    /\ req[a].pc = "list"
    /\ req' = [req EXCEPT ![a] = [@ EXCEPT !.pc = "replace", !.list = row]]
    /\ UNCHANGED <<row, rt, valid, issued, catalog, parents, session, refresher,
                   faults, disturbed, repeated, diverged, unsynced>>

ReloadFails(a) ==
    /\ req[a].pc \in {"list", "replace"} /\ Fault
    /\ Failed(a)
    /\ diverged' = TRUE
    /\ unsynced' = (unsynced \/ req'[a] = Done)
    /\ UNCHANGED <<row, rt, valid, issued, catalog, parents, session, refresher,
                   disturbed, repeated>>

Reloaded(r) == At([r EXCEPT !.list = NoRows], r.then)
Hooked(r, c) == IF r.todo = {c} THEN Reloaded([r EXCEPT !.todo = {}, !.seen = NoRow])
                ELSE [r EXCEPT !.pc = "get", !.todo = @ \ {c}, !.seen = NoRow]
Replacing == \E b \in Admins : req[b].pc \in {"get", "put"}

(* reloadNativeCredentials, second half: the runtime takes the listed      *)
(* rows; those that stay installed go through the update hook.             *)
ReplaceCredentials(a) ==
    /\ req[a].pc = "replace" /\ ~Replacing
    /\ rt' = [c \in Creds |-> Installed(c, req[a].list[c], catalog)]
    /\ LET kept == {c \in Creds : rt[c].there /\ rt'[c].there}
           late == \E c \in Creds : refresher[c].pc # "idle"
       IN /\ req' = [req EXCEPT ![a] = IF kept = {} THEN Reloaded(@)
                                       ELSE [@ EXCEPT !.pc = "get", !.todo = kept]]
          /\ diverged' = (req[a].list # row \/ late)
          /\ disturbed' = (disturbed \/ late)
    /\ UNCHANGED <<row, valid, issued, catalog, parents, session, refresher,
                   faults, repeated, unsynced>>

(* persistEmbeddedCredential, run by the replacement for one credential.   *)
HookGet(a) ==
    /\ req[a].pc = "get"
    /\ LET c == CHOOSE d \in req[a].todo : TRUE
       IN IF row[c].there
          THEN req' = [req EXCEPT ![a] = [@ EXCEPT !.pc = "put", !.seen = row[c]]]
          ELSE req' = [req EXCEPT ![a] = Hooked(@, c)]
    /\ UNCHANGED <<row, rt, valid, issued, catalog, parents, session, refresher,
                   faults, disturbed, repeated, diverged, unsynced>>

HookPut(a) ==
    /\ req[a].pc = "put"
    /\ LET c == CHOOSE d \in req[a].todo : TRUE
           late == row[c] # req[a].seen \/ row[c].token # req[a].list[c].token
       IN /\ row' = [row EXCEPT ![c] = [req[a].seen EXCEPT !.token = req[a].list[c].token]]
          /\ disturbed' = (disturbed \/ late)
          /\ diverged' = (diverged \/ late)
          /\ req' = [req EXCEPT ![a] = Hooked(@, c)]
    /\ UNCHANGED <<rt, valid, issued, catalog, parents, session, refresher,
                   faults, repeated, unsynced>>

(* activateNativeCredential after its first reload: the models found for   *)
(* the installed credential are stored with the row and reloaded.          *)
Discover(a) ==
    /\ req[a].pc = "discover" /\ rt[Only(a)].there
    /\ LET found == [req[a].new EXCEPT !.models = catalog]
       IN /\ UpsertUpstreamCredential(Only(a), found, req[a].new)
          /\ req' = [req EXCEPT ![a] = [@ EXCEPT !.pc = "list", !.then = "sync", !.new = found]]
    /\ UNCHANGED <<rt, valid, issued, catalog, parents, session, refresher,
                   faults, repeated, diverged, unsynced>>

(* Not installed (a credential added disabled), or the probe failed.       *)
DiscoverFails(a) ==
    /\ req[a].pc = "discover"
    /\ \/ ~rt[Only(a)].there /\ UNCHANGED faults
       \/ rt[Only(a)].there /\ Only(a) \in Compatible /\ Fault
    /\ Go(a, "undo")
    /\ UNCHANGED <<row, rt, valid, issued, catalog, parents, session, refresher,
                   disturbed, repeated, diverged, unsynced>>

(* The chosen models must be among the runtime's candidates.               *)
validateNativeCredentialModels(a) ==
    /\ req[a].pc = "validate"
    /\ Go(a, IF rt[Only(a)].there /\ req[a].new.models <= catalog THEN "sync" ELSE "undo")
    /\ UNCHANGED <<row, rt, valid, issued, catalog, parents, session, refresher,
                   faults, disturbed, repeated, diverged, unsynced>>

Status(r) == IF r.enabled THEN "available" ELSE "disabled"

(* Mutant of Synced: parents of vanished credentials are left as they are. *)
SyncedOnlyListed(list) ==
    [c \in Creds |-> IF list[c].there THEN Status(list[c]) ELSE parents[c]]

Synced(list) ==
    [c \in Creds |-> IF list[c].there THEN Status(list[c])
                     ELSE IF parents[c] = "none" THEN "none" ELSE "missing"]

(* Mutant of Rollback: the previous row is restored, the runtime is not.   *)
RollbackRowOnly(a) ==
    /\ req[a].pc = "undo"
    /\ IF req[a].prev.there
       THEN UpsertUpstreamCredential(Only(a), req[a].prev, req[a].new)
       ELSE RemoveRow(Only(a), req[a].new)
    /\ End(a)
    /\ unsynced' = (unsynced \/ Synced(row') # parents)
    /\ UNCHANGED <<rt, valid, issued, catalog, parents, session, refresher,
                   faults, repeated, diverged>>

Rollback(a) ==
    /\ req[a].pc = "undo"
    /\ IF req[a].prev.there
       THEN UpsertUpstreamCredential(Only(a), req[a].prev, req[a].new)
       ELSE RemoveRow(Only(a), req[a].new)
    /\ Reload(a, "end")
    /\ unsynced' = (unsynced \/ Synced(row') # parents)
    /\ UNCHANGED <<rt, valid, issued, catalog, parents, session, refresher,
                   faults, repeated, diverged>>

Finish(a) ==
    /\ req[a].pc = "end" /\ End(a)
    /\ UNCHANGED <<row, rt, valid, issued, catalog, parents, session, refresher,
                   faults, disturbed, repeated, diverged, unsynced>>

(* persistExpandedCredentialModels: the runtime's model lists are written  *)
(* to the listed rows that differ.                                         *)
Expanded(list, live) ==
    [c \in Creds |-> IF list[c].there /\ live[c].models > 0
                     THEN [list[c] EXCEPT !.models = live[c].models] ELSE list[c]]

ExpandList(a) ==
    /\ req[a].pc = "expand"
    /\ req' = [req EXCEPT ![a] = [@ EXCEPT !.pc = "persist", !.list = row]]
    /\ UNCHANGED <<row, rt, valid, issued, catalog, parents, session, refresher,
                   faults, disturbed, repeated, diverged, unsynced>>

persistExpandedCredentialModels(a) ==
    /\ req[a].pc = "persist"
    /\ LET new == Expanded(req[a].list, rt)
           written == {c \in Creds : new[c] # req[a].list[c]}
       IN /\ row' = [c \in Creds |-> IF c \in written THEN new[c] ELSE row[c]]
          /\ disturbed' = (disturbed \/ \E c \in written : row[c] # req[a].list[c])
          /\ diverged' = (diverged \/ \E c \in written : row[c] # req[a].list[c])
    /\ Go(a, "sync")
    /\ UNCHANGED <<rt, valid, issued, catalog, parents, session, refresher,
                   faults, repeated, unsynced>>

(* syncNativeParentSubscriptionRows: the listed credentials set the status *)
(* of their parents, and the parents of all others are marked missing.     *)
SyncList(a) ==
    /\ req[a].pc = "sync"
    /\ req' = [req EXCEPT ![a] = [@ EXCEPT !.pc = "mark", !.list = row]]
    /\ UNCHANGED <<row, rt, valid, issued, catalog, parents, session, refresher,
                   faults, disturbed, repeated, diverged, unsynced>>

syncNativeParentSubscriptionRows(a) ==
    /\ req[a].pc = "mark"
    /\ parents' = Synced(req[a].list)
    /\ unsynced' = (req[a].list # row)
    /\ session' = IF a \in session.tried THEN NoSession ELSE session
    /\ End(a)
    /\ UNCHANGED <<row, rt, valid, issued, catalog, refresher, faults,
                   disturbed, repeated, diverged>>

(* A statement fails with the account already saved, or the client goes    *)
(* away: its context ends, and with it every later statement of the        *)
(* request, the rollback's included.                                       *)
Disconnect(a) ==
    /\ req[a].pc \in {"save", "list", "discover", "validate", "undo", "expand", "persist", "sync", "mark"}
    /\ Fault
    /\ End(a)
    /\ disturbed' = TRUE /\ diverged' = TRUE /\ unsynced' = TRUE
    /\ UNCHANGED <<row, rt, valid, issued, catalog, parents, session, refresher, repeated>>

-----------------------------------------------------------------------------
(* The runtime refreshes an OAuth document: the provider replaces the      *)
(* token, the runtime installs the new document and runs the update hook.  *)
RefreshCredential(c) ==
    /\ rt[c].there /\ rt[c].token \in valid /\ issued < MaxToken
    /\ refresher[c].pc = "idle"
    /\ issued' = issued + 1
    /\ valid' = (valid \ {rt[c].token}) \cup {issued'}
    /\ rt' = [rt EXCEPT ![c] = [@ EXCEPT !.token = issued']]
    /\ refresher' = [refresher EXCEPT ![c] = [pc |-> "get", seen |-> NoRow, token |-> issued']]
    /\ UNCHANGED <<row, catalog, parents, session, req, faults, disturbed, repeated, diverged, unsynced>>

PersistGet(c) ==
    /\ refresher[c].pc = "get"
    /\ refresher' = [refresher EXCEPT ![c] =
                       IF row[c].there THEN [@ EXCEPT !.pc = "put", !.seen = row[c]]
                       ELSE [pc |-> "idle", seen |-> NoRow, token |-> 0]]
    /\ UNCHANGED <<row, rt, valid, issued, catalog, parents, session, req,
                   faults, disturbed, repeated, diverged, unsynced>>

(* Mutant of PersistPut: the hook stores the document it read.             *)
PersistOldDocument(c) ==
    /\ refresher[c].pc = "put"
    /\ UpsertUpstreamCredential(c, refresher[c].seen, refresher[c].seen)
    /\ diverged' = (diverged \/ row[c] # refresher[c].seen)
    /\ refresher' = [refresher EXCEPT ![c] = [pc |-> "idle", seen |-> NoRow, token |-> 0]]
    /\ UNCHANGED <<rt, valid, issued, catalog, parents, session, req, faults, repeated, unsynced>>

(* The hook writes every column it read with the new document; the row     *)
(* may have been edited or deleted since.                                  *)
PersistPut(c) ==
    /\ refresher[c].pc = "put"
    /\ UpsertUpstreamCredential(c, [refresher[c].seen EXCEPT !.token = refresher[c].token],
                                refresher[c].seen)
    /\ diverged' = (diverged \/ row[c] # refresher[c].seen)
    /\ refresher' = [refresher EXCEPT ![c] = [pc |-> "idle", seen |-> NoRow, token |-> 0]]
    /\ UNCHANGED <<rt, valid, issued, catalog, parents, session, req, faults, repeated, unsynced>>

(* closeEmbeddedCPA and startEmbeddedCPA: requests, hooks and OAuth        *)
(* sessions are gone; the runtime is built from the rows, the expanded     *)
(* model lists are persisted and the parents synchronised before anything  *)
(* is served.                                                              *)
Restart ==
    /\ Fault
    /\ LET live == [c \in Creds |-> Installed(c, row[c], catalog)]
           rows == Expanded(row, live)
       IN row' = rows /\ rt' = live /\ parents' = Synced(rows)
    /\ req' = [a \in Admins |-> IF req[a].pc = "new" THEN NoReq ELSE Done]
    /\ refresher' = [c \in Creds |-> [pc |-> "idle", seen |-> NoRow, token |-> 0]]
    /\ session' = NoSession
    /\ disturbed' = (disturbed \/ (\E a \in Admins : ~Idle(a))
                               \/ (\E c \in Creds : refresher[c].pc # "idle"))
    /\ diverged' = FALSE /\ unsynced' = FALSE
    /\ UNCHANGED <<valid, issued, catalog, repeated>>

CredentialsNext ==
    \/ \E a \in Admins :
         \/ \E c \in Creds : \/ nativeProviderAccounts(a, c)
                             \/ nativeProviderAccountUpdate(a, c)
                             \/ nativeProviderAccountDelete(a, c)
         \/ onEmbeddedModelCatalogUpdate(a) \/ adminProviderOAuthFinalize(a)
         \/ Save(a) \/ ListUpstreamCredentials(a) \/ ReloadFails(a) \/ ReplaceCredentials(a)
         \/ HookGet(a) \/ HookPut(a) \/ Discover(a) \/ DiscoverFails(a)
         \/ validateNativeCredentialModels(a) \/ Rollback(a) \/ Finish(a)
         \/ ExpandList(a) \/ persistExpandedCredentialModels(a)
         \/ SyncList(a) \/ syncNativeParentSubscriptionRows(a) \/ Disconnect(a)
    \/ adminProviderOAuthStart \/ capture \/ adminProviderOAuthCancel
    \/ \E c \in Creds : RefreshCredential(c) \/ PersistGet(c) \/ PersistPut(c)
    \/ Restart

Credentials == CredentialsInit /\ [][CredentialsNext]_vars

-----------------------------------------------------------------------------
CredentialsTypeOK ==
    /\ row \in [Creds -> RowType] /\ rt \in [Creds -> RowType]
    /\ valid \subseteq 1..MaxToken /\ issued \in 1..MaxToken /\ catalog \in 1..MaxCatalog
    /\ parents \in [Creds -> {"none", "available", "disabled", "missing"}]
    /\ session.st \in {"none", "open", "captured"} /\ session.targets \subseteq Creds
    /\ \A a \in Admins : /\ req[a].prev \in RowType /\ req[a].new \in RowType
                         /\ Cardinality(req[a].cred) <= 1
                         /\ ~Idle(a) /\ req[a].op # "catalog" => req[a].cred # {}
    /\ \A c \in Creds : refresher[c].pc \in {"idle", "get", "put"}

Quiet == /\ \A a \in Admins : Idle(a)
         /\ \A c \in Creds : refresher[c].pc = "idle"

(* Once no request and no hook is under way, the runtime serves exactly    *)
(* the enabled rows, with their documents, provided the last replacement   *)
(* had listed the current rows: no early return, failed activation or      *)
(* rollback leaves the two apart.                                          *)
RuntimeFollowsStore ==
    Quiet /\ ~diverged => \A c \in Creds : rt[c] = Installed(c, row[c], catalog)

(* Unless two writers overlapped on a row or a document was finalized      *)
(* twice, the token of every stored OAuth document is one the provider     *)
(* still accepts: refreshes, reloads, reauthorisations and rollbacks never *)
(* put a spent token back. (The runtime may have spent the token of a      *)
(* document whose finalize failed; a retry stores it all the same.)        *)
StoredTokenUsable ==
    ~disturbed /\ ~repeated /\ (\A c \in Creds : refresher[c].pc = "idle")
        => \A c \in Creds : row[c].token > 0 => row[c].token \in valid

(* A credential whose activation failed is gone: every row that stays has  *)
(* a model list, whichever step failed.                                    *)
ActivatedOrGone ==
    Quiet /\ ~disturbed => \A c \in Creds : row[c].there => row[c].models > 0

(* The parent subscriptions show the credentials: available or disabled    *)
(* with them, missing without.                                             *)
ParentsFollowCredentials ==
    Quiet /\ ~unsynced /\ ~disturbed =>
        \A c \in Creds : IF row[c].there THEN parents[c] = Status(row[c])
                         ELSE parents[c] \in {"none", "missing"}

(* Whatever step of an activation, a reload or a rollback failed, rows and *)
(* runtime agree once everything is quiet, and no half-activated           *)
(* credential stays.                                                       *)
RuntimeAndRowsAgree == CredentialsTypeOK /\ RuntimeFollowsStore /\ ActivatedOrGone
=============================================================================
