-------------------------- MODULE RuntimeSettings --------------------------
(***************************************************************************)
(* The runtime settings and the outbound proxies of the server: the sealed *)
(* settings row, the copy in memory, the admission controller and the      *)
(* embedded runtime built from it (app/native_settings.go), the proxies    *)
(* that settings and accounts refer to (app/proxies.go, store/proxies.go)  *)
(* and the start of the process, which imports the accounts of an older    *)
(* program's files (cpaimport/import.go), completes the settings, turns    *)
(* the proxy addresses of older versions into proxy rows and builds        *)
(* everything from what is stored (app/embedded_cpa.go).                   *)
(*                                                                         *)
(* An administration request is a sequence of separate statements on the   *)
(* store, the memory and the runtime; no lock spans two of them, and a     *)
(* request undoes what it did when a later statement fails. A fault is a   *)
(* failing statement or a crash.                                           *)
(*                                                                         *)
(* The settings are five fields: the system proxy, the proxy of the GitHub *)
(* login, whether upstream WebSockets are used, the largest request and    *)
(* the memory budget of the requests in flight. The others are validated   *)
(* and carried along in the same way. A proxy address is a member of Urls; *)
(* sealing and opening it gives it back. Models, documents and tokens of   *)
(* an account are the business of Credentials.                             *)
(***************************************************************************)
EXTENDS Naturals, FiniteSets

CONSTANTS
    Proxies,    \* ids of outbound proxies
    Urls,       \* their addresses
    Accounts,   \* upstream credentials
    Admins,     \* administration requests, each served once
    Histories,  \* what the database may hold at first, the files to import, what
                \* will be asked, and bound: how many statements fail or crashes occur
    MaxServed   \* bound: requests in flight at a time

NoProxy == "none"
System == "system"
Direct == "direct"

Fields == {"sys", "gh", "ws", "max", "budget"}

(* defaultNativeRuntimeSettings, of a process configured with WebSockets.  *)
Defaults == [sys |-> NoProxy, gh |-> NoProxy, ws |-> TRUE, max |-> 1, budget |-> 2]

ASSUME RuntimeSettingsAssumption ==
    /\ IsFiniteSet(Proxies) /\ IsFiniteSet(Accounts) /\ MaxServed \in Nat \ {0}
    /\ {NoProxy, System} \cap Proxies = {} /\ {NoProxy, Direct, "absent"} \cap Urls = {}

VARIABLES
    rows,       \* outbound_proxies: the address of each proxy, or NoProxy
    accounts,   \* upstream_credentials: the proxy, and the address in the document, or Absent
    stored,     \* the settings row; legacy is the proxy_url of an older version
    memory,     \* nativeSettings.value
    admission,  \* byte budget of the admission controller in use
    runtime,    \* the embedded runtime
    phase,      \* "down", the next step of the start, or "up"
    boot,       \* what the start has read and decided so far
    req,        \* the administration requests
    faults,
    origin,     \* history: the member of Histories it began with
    taints,     \* history: requests that overlapped, and undoing that failed
    stale       \* history: the runtime's accounts were built from outdated rows

vars == <<rows, accounts, stored, memory, admission, runtime, phase, boot, req,
          faults, origin, taints, stale>>

Settings == [sys: Proxies \cup {NoProxy}, gh: Proxies \cup {NoProxy, System},
             ws: BOOLEAN, max: Nat, budget: Nat]

NoRows == [p \in Proxies |-> NoProxy]
Absent == [proxy |-> NoProxy, doc |-> "absent"]
NoList == [c \in Accounts |-> [proxy |-> NoProxy, doc |-> NoProxy]]
NoBoot == [set |-> Defaults, legacy |-> NoProxy, todo |-> {}, list |-> NoList,
           known |-> NoRows, changed |-> FALSE, wrote |-> FALSE]

(* A request: its next step, the proxy or account it names and what it     *)
(* sets it to, the settings it stores, those the handler and               *)
(* applyNativeRuntimeSettings saw before, the addresses it applies and     *)
(* goes back to, and what its reload has read; back says that the reload   *)
(* belongs to the undoing.                                                 *)
NoReq == [op |-> "none", pc |-> "new", id |-> NoProxy, to |-> NoProxy, from |-> NoProxy,
          set |-> Defaults, prev |-> Defaults, prior |-> Defaults, url |-> Direct,
          was |-> Direct, list |-> NoList, urls |-> NoRows, back |-> FALSE]

-----------------------------------------------------------------------------
(* proxyURL, and the address a selection stands for: none is a direct      *)
(* connection, and so is a proxy whose row is not there.                   *)
proxyURL(r, p) == IF p \in Proxies /\ r[p] # NoProxy THEN r[p] ELSE Direct
Present(r, p) == p \in Proxies => r[p] # NoProxy
Exists(p) == Present(rows, p)

githubSelectedProxyID(s) == IF s.gh = System THEN s.sys ELSE s.gh

(* The largest request must fit the budget of the requests in flight.      *)
validateNativeRuntimeSettings(s) == s.max >= 1 /\ s.budget >= s.max

(* The fields a document has, over those of a base. A stored document may  *)
(* lack fields that came later: normalizeNativeRuntimeSettings gives them  *)
(* their defaults. A request lacks those that it leaves alone.             *)
Over(document, base) ==
    [f \in Fields |-> IF f \in DOMAIN document THEN document[f] ELSE base[f]]
normalizeNativeRuntimeSettings(document) == Over(document, Defaults)

(* runtimeCredentials: an account goes through its own proxy or directly,  *)
(* with the WebSocket switch of the settings.                              *)
runtimeCredentials(list, urls, ws) ==
    [c \in {x \in Accounts : list[x] # Absent} |-> [url |-> proxyURL(urls, list[c].proxy), ws |-> ws]]

(* The runtime a start builds.                                             *)
NewRuntime(s, r, list) ==
    [conf |-> s, url |-> proxyURL(r, s.sys), creds |-> runtimeCredentials(list, r, s.ws)]

(* What an administrator may ask: settings of their types, a proxy, an     *)
(* address or an account.                                                  *)
Askable(q) ==
    \/ q.op = "put" /\ Over(q.patch, Defaults) \in Settings
    \/ q.op = "create" /\ q.to \in Urls
    \/ q.op = "patch" /\ q.id \in Proxies /\ q.to \in Urls
    \/ q.op = "delete" /\ q.id \in Proxies
    \/ q.op = "assign" /\ q.id \in Accounts /\ q.to \in Proxies \cup {NoProxy}
    \/ q.op = "catalog"

(* A database at first: every proxy that an account or the settings select *)
(* is there. Where the server is up, the settings are valid, the addresses *)
(* of older versions are proxies already and every file is imported.       *)
ASSUME HistoriesAssumption ==
    \A h \in Histories :
        /\ h.rows \in [Proxies -> Urls \cup {NoProxy}]
        /\ h.accounts \in [Accounts -> [proxy: Proxies \cup {NoProxy}, doc: Urls \cup {NoProxy, Direct}]
                                          \cup {Absent}]
        /\ \A c \in Accounts : Present(h.rows, h.accounts[c].proxy)
        /\ h.stored.found \in BOOLEAN /\ h.stored.legacy \in Urls \cup {NoProxy}
        /\ LET s == normalizeNativeRuntimeSettings(h.stored.set) IN
           /\ s \in Settings /\ Present(h.rows, s.sys) /\ Present(h.rows, githubSelectedProxyID(s))
           /\ h.up => validateNativeRuntimeSettings(s)
        /\ DOMAIN h.files \subseteq Accounts
        /\ \A c \in DOMAIN h.files : h.files[c] \in Urls \cup {NoProxy, Direct}
        /\ h.config \in Urls \cup {NoProxy} /\ h.faults \in Nat /\ h.up \in BOOLEAN
        /\ h.up => /\ h.stored.found /\ h.stored.legacy = NoProxy
                   /\ \A c \in Accounts : h.accounts[c] = Absent \/ h.accounts[c].doc = NoProxy
                   /\ \A c \in DOMAIN h.files : h.accounts[c] # Absent
        /\ \A q \in h.requests : Askable(q)

SettingsInit ==
    /\ \E h \in Histories :
          /\ rows = h.rows /\ accounts = h.accounts /\ stored = h.stored
          /\ phase = (IF h.up THEN "up" ELSE "down")
          /\ origin = h
    /\ memory = (IF phase = "up" THEN normalizeNativeRuntimeSettings(stored.set) ELSE Defaults)
    /\ admission = memory.budget
    /\ runtime = NewRuntime(memory, rows, accounts)
    /\ boot = NoBoot /\ req = [a \in Admins |-> NoReq]
    /\ faults = 0 /\ taints = {} /\ stale = FALSE

-----------------------------------------------------------------------------
(* How a request goes on.                                                  *)
Fault == faults < origin.faults /\ faults' = faults + 1
Done == [NoReq EXCEPT !.pc = "done"]
End(a) == req' = [req EXCEPT ![a] = Done]
Go(a, pc) == req' = [req EXCEPT ![a] = [@ EXCEPT !.pc = pc]]
At(a, pc) == phase = "up" /\ req[a].pc = pc
Idle(a) == req[a].pc \in {"new", "done"}
Taint(t) == taints' = taints \cup {t}

database == <<rows, accounts, stored>>
process == <<memory, admission, runtime>>
start == <<phase, boot, origin>>

(* A request begins: history records what it overlaps.                     *)
Begin(a, q) ==
    /\ At(a, "new") /\ q \in origin.requests
    /\ LET others == {b \in Admins : ~Idle(b)} IN
       /\ Cardinality(others) < MaxServed
       /\ taints' = taints \cup {{q.op, req[b].op} : b \in others}
    /\ UNCHANGED <<start, process, faults, stale>>

-----------------------------------------------------------------------------
(* PATCH /api/admin/runtime/settings. The document is laid over the        *)
(* settings in memory and validated.                                       *)
adminNativeSettings(a, q) ==
    /\ Begin(a, q) /\ q.op = "put"
    /\ LET input == Over(q.patch, memory) IN
       IF validateNativeRuntimeSettings(input)
       THEN req' = [req EXCEPT ![a] = [NoReq EXCEPT !.op = "put", !.pc = "system", !.set = input]]
       ELSE End(a)
    /\ UNCHANGED database

(* The selected proxies must be there, one read each.                      *)
ResolveSystem(a) ==
    /\ At(a, "system")
    /\ IF Exists(req[a].set.sys)
       THEN req' = [req EXCEPT ![a] = [@ EXCEPT !.pc = "github", !.url = proxyURL(rows, req[a].set.sys)]]
       ELSE End(a)
    /\ UNCHANGED <<database, process, start, faults, taints, stale>>

ResolveGitHub(a) ==
    /\ At(a, "github")
    /\ IF Exists(req[a].set.gh) THEN Go(a, "store") ELSE End(a)
    /\ UNCHANGED <<database, process, start, faults, taints, stale>>

PutRuntimeSetting(a) ==
    /\ At(a, "store")
    /\ stored' = [found |-> TRUE, set |-> req[a].set, legacy |-> NoProxy]
    /\ req' = [req EXCEPT ![a] = [@ EXCEPT !.pc = "prior", !.prev = memory]]
    /\ UNCHANGED <<rows, accounts, process, start, faults, taints, stale>>

PutFails(a) ==
    /\ At(a, "store") /\ Fault /\ End(a)
    /\ UNCHANGED <<database, process, start, taints, stale>>

(* applyNativeRuntimeSettings notes what it may have to go back to.        *)
Prior(a) ==
    /\ At(a, "prior")
    /\ req' = [req EXCEPT ![a] = [@ EXCEPT !.pc = "apply", !.prior = memory,
                                           !.was = proxyURL(rows, memory.sys)]]
    /\ UNCHANGED <<database, process, start, faults, taints, stale>>

(* ApplySettings of the embedded runtime takes the new configuration       *)
(* before the last of its steps can fail.                                  *)
Configured(s, url) == runtime' = [runtime EXCEPT !.conf = s, !.url = url]

ApplySettings(a) ==
    /\ At(a, "apply") /\ Configured(req[a].set, req[a].url) /\ Go(a, "memory")
    /\ UNCHANGED <<database, memory, admission, start, faults, taints, stale>>

ApplyFails(a) ==
    /\ At(a, "apply") /\ Fault /\ Configured(req[a].set, req[a].url)
    /\ Go(a, "restore") /\ Taint({"apply"})
    /\ UNCHANGED <<database, memory, admission, start, stale>>

SetMemory(a) ==
    /\ At(a, "memory") /\ memory' = req[a].set /\ Go(a, "admission")
    /\ UNCHANGED <<database, admission, runtime, start, faults, taints, stale>>

(* A new controller for the new budget; the accounts are reloaded when the *)
(* WebSocket switch changed.                                               *)
replaceAdmission(a) ==
    /\ At(a, "admission") /\ admission' = req[a].set.budget
    /\ IF req[a].prior.ws # req[a].set.ws THEN Go(a, "list") ELSE End(a)
    /\ UNCHANGED <<database, memory, runtime, start, faults, taints, stale>>

(* Mutant of UndoRuntime: the runtime keeps the refused settings.          *)
KeepRuntime(a) ==
    /\ At(a, "undo runtime") /\ Go(a, "undo memory")
    /\ UNCHANGED <<database, process, start, faults, taints, stale>>

(* The reload failed: the runtime, the memory and the controller go back   *)
(* to what applyNativeRuntimeSettings saw.                                 *)
UndoRuntime(a) ==
    /\ At(a, "undo runtime") /\ Configured(req[a].prior, req[a].was) /\ Go(a, "undo memory")
    /\ UNCHANGED <<database, memory, admission, start, faults, taints, stale>>

UndoMemory(a) ==
    /\ At(a, "undo memory") /\ memory' = req[a].prior /\ Go(a, "undo admission")
    /\ stale' = (stale \/ \E c \in DOMAIN runtime.creds : runtime.creds[c].ws # req[a].prior.ws)
    /\ UNCHANGED <<database, admission, runtime, start, faults, taints>>

UndoAdmission(a) ==
    /\ At(a, "undo admission") /\ admission' = req[a].prior.budget /\ Go(a, "restore")
    /\ UNCHANGED <<database, memory, runtime, start, faults, taints, stale>>

(* The row goes back to what the handler saw, if that write succeeds.      *)
RestoreSetting(a) ==
    /\ At(a, "restore") /\ req[a].op = "put"
    /\ stored' = [found |-> TRUE, set |-> req[a].prev, legacy |-> NoProxy]
    /\ End(a)
    /\ UNCHANGED <<rows, accounts, process, start, faults, taints, stale>>

-----------------------------------------------------------------------------
(* Proxies. POST adds one under a new id.                                  *)
CreateOutboundProxy(a, q) ==
    /\ Begin(a, q) /\ q.op = "create"
    /\ \E p \in Proxies : /\ rows[p] = NoProxy
                          /\ rows' = [rows EXCEPT ![p] = q.to]
    /\ End(a) /\ UNCHANGED <<accounts, stored>>

(* PATCH reads the row and later writes it, if it is still there.          *)
adminProxy(a, q) ==
    /\ Begin(a, q) /\ q.op = "patch"
    /\ IF Exists(q.id)
       THEN req' = [req EXCEPT ![a] = [NoReq EXCEPT !.op = "patch", !.pc = "update", !.id = q.id,
                                                    !.url = q.to, !.was = rows[q.id]]]
       ELSE End(a)
    /\ UNCHANGED database

UpdateOutboundProxy(a) ==
    /\ At(a, "update")
    /\ IF Exists(req[a].id)
       THEN rows' = [rows EXCEPT ![req[a].id] = req[a].url] /\ Go(a, "selected")
       ELSE End(a) /\ UNCHANGED rows
    /\ UNCHANGED <<accounts, stored, process, start, faults, taints, stale>>

(* The runtime is told when this is the system proxy; embeddedCPAAdapter   *)
(* takes the rest of the settings from memory.                             *)
Selected(a) ==
    /\ At(a, "selected")
    /\ req' = [req EXCEPT ![a] = [@ EXCEPT !.prior = memory,
                                           !.pc = IF memory.sys = req[a].id THEN "reapply" ELSE "list"]]
    /\ UNCHANGED <<database, process, start, faults, taints, stale>>

Reapply(a) ==
    /\ At(a, "reapply") /\ Configured(memory, req[a].url) /\ Go(a, "list")
    /\ UNCHANGED <<database, memory, admission, start, faults, taints, stale>>

ReapplyFails(a) ==
    /\ At(a, "reapply") /\ Fault /\ Configured(memory, req[a].url) /\ Go(a, "restore")
    /\ UNCHANGED <<database, memory, admission, start, taints, stale>>

(* Any failure takes the former address back, in the row, in the runtime   *)
(* and, with a second reload, in the accounts.                             *)
RestoreProxy(a) ==
    /\ At(a, "restore") /\ req[a].op = "patch"
    /\ rows' = IF Exists(req[a].id) THEN [rows EXCEPT ![req[a].id] = req[a].was] ELSE rows
    /\ req' = [req EXCEPT ![a] = [@ EXCEPT !.back = TRUE,
                                           !.pc = IF req[a].prior.sys = req[a].id THEN "unapply" ELSE "list"]]
    /\ UNCHANGED <<accounts, stored, process, start, faults, taints, stale>>

Unapply(a) ==
    /\ At(a, "unapply") /\ Configured(memory, req[a].was) /\ Go(a, "list")
    /\ UNCHANGED <<database, memory, admission, start, faults, taints, stale>>

(* DELETE is refused for a proxy the settings use ...                      *)
adminProxyDelete(a, q) ==
    /\ Begin(a, q) /\ q.op = "delete"
    /\ IF q.id \in {memory.sys, githubSelectedProxyID(memory)} THEN End(a)
       ELSE req' = [req EXCEPT ![a] = [NoReq EXCEPT !.op = "delete", !.pc = "count", !.id = q.id]]
    /\ UNCHANGED database

(* ... or an account does; the foreign key restricts the last statement.   *)
Referenced(p) == \E c \in Accounts : accounts[c].proxy = p

CountOutboundProxyReferences(a) ==
    /\ At(a, "count")
    /\ IF Referenced(req[a].id) THEN End(a) ELSE Go(a, "remove")
    /\ UNCHANGED <<database, process, start, faults, taints, stale>>

DeleteOutboundProxy(a) ==
    /\ At(a, "remove")
    /\ rows' = IF Referenced(req[a].id) THEN rows ELSE [rows EXCEPT ![req[a].id] = NoProxy]
    /\ End(a)
    /\ UNCHANGED <<accounts, stored, process, start, faults, taints, stale>>

-----------------------------------------------------------------------------
(* PATCH of an account that selects a proxy: an account that is not there  *)
(* is not found, validProxyID, then the upsert under the foreign key, then *)
(* a reload; a failing reload is undone.                                   *)
validProxyID(a, q) ==
    /\ Begin(a, q) /\ q.op = "assign"
    /\ IF accounts[q.id] # Absent /\ Exists(q.to)
       THEN req' = [req EXCEPT ![a] = [NoReq EXCEPT !.op = "assign", !.pc = "save", !.id = q.id,
                                                    !.to = q.to, !.from = accounts[q.id].proxy]]
       ELSE End(a)
    /\ UNCHANGED database

Assigned(c, p) == accounts' = IF Exists(p) THEN [accounts EXCEPT ![c] = [@ EXCEPT !.proxy = p]] ELSE accounts

SaveAccount(a) ==
    /\ At(a, "save") /\ Assigned(req[a].id, req[a].to)
    /\ IF Exists(req[a].to) THEN Go(a, "list") ELSE End(a)
    /\ UNCHANGED <<rows, stored, process, start, faults, taints, stale>>

RestoreAccount(a) ==
    /\ At(a, "restore") /\ req[a].op = "assign" /\ Assigned(req[a].id, req[a].from)
    /\ req' = [req EXCEPT ![a] = [@ EXCEPT !.back = TRUE, !.pc = "list"]]
    /\ UNCHANGED <<rows, stored, process, start, faults, taints, stale>>

(* A model catalogue update reloads the accounts.                          *)
CatalogUpdate(a, q) ==
    /\ Begin(a, q) /\ q.op = "catalog"
    /\ req' = [req EXCEPT ![a] = [NoReq EXCEPT !.op = "catalog", !.pc = "list"]]
    /\ UNCHANGED database

(* reloadNativeCredentials: list the accounts, list the proxies, replace   *)
(* the runtime's copy.                                                     *)
ListUpstreamCredentials(a) ==
    /\ At(a, "list") /\ req' = [req EXCEPT ![a] = [@ EXCEPT !.pc = "urls", !.list = accounts]]
    /\ UNCHANGED <<database, process, start, faults, taints, stale>>

ListOutboundProxies(a) ==
    /\ At(a, "urls") /\ req' = [req EXCEPT ![a] = [@ EXCEPT !.pc = "replace", !.urls = rows]]
    /\ UNCHANGED <<database, process, start, faults, taints, stale>>

ReplaceCredentials(a) ==
    /\ At(a, "replace")
    /\ runtime' = [runtime EXCEPT !.creds = runtimeCredentials(req[a].list, req[a].urls, memory.ws)]
    /\ stale' = (req[a].list # accounts \/ req[a].urls # rows)
    /\ End(a)
    /\ UNCHANGED <<database, memory, admission, start, faults, taints>>

(* A reload that fails is undone by its request; that of an undoing or of  *)
(* a catalogue update is given up.                                         *)
ReloadFails(a) ==
    /\ At(a, "replace") /\ Fault
    /\ IF req[a].back \/ req[a].op = "catalog" THEN End(a) /\ Taint({"reload"})
       ELSE /\ req' = [req EXCEPT ![a] = [@ EXCEPT !.pc = IF req[a].op = "put" THEN "undo runtime" ELSE "restore",
                                                   !.list = NoList, !.urls = NoRows]]
            /\ UNCHANGED taints
    /\ UNCHANGED <<database, process, start, stale>>

(* What an undoing does is not checked: a step of it may fail.             *)
UndoFails(a) ==
    /\ phase = "up" /\ req[a].pc \in {"restore", "undo runtime", "unapply"} /\ Fault
    /\ IF req[a].pc = "restore" /\ req[a].op = "put" THEN End(a)
       ELSE req' = [req EXCEPT ![a] = [@ EXCEPT !.back = TRUE,
                          !.pc = IF req[a].pc = "undo runtime" THEN "undo memory" ELSE "list"]]
    /\ Taint({"undo"})
    /\ UNCHANGED <<database, process, start, stale>>

-----------------------------------------------------------------------------
(* The start of the process. Import adds an account for every credential   *)
(* file that has none yet, one statement each; a file without an address   *)
(* gets that of the imported configuration. An account that is there stays *)
(* as it is.                                                               *)
ImportDone == \A c \in DOMAIN origin.files : accounts[c] # Absent
Import(c) ==
    /\ phase = "down" /\ c \in DOMAIN origin.files /\ accounts[c] = Absent
    /\ accounts' = [accounts EXCEPT ![c] =
          [proxy |-> NoProxy, doc |-> IF origin.files[c] # NoProxy THEN origin.files[c] ELSE origin.config]]
    /\ UNCHANGED <<rows, stored, process, start, req, faults, taints, stale>>

(* The global address of an older version: its setting's, or that of the   *)
(* imported configuration while no settings are stored.                    *)
LegacyProxy == IF stored.legacy # NoProxy \/ stored.found THEN stored.legacy ELSE origin.config

(* startEmbeddedCPA reads the accounts, the settings and the proxies, and  *)
(* completes the settings.                                                 *)
loadNativeRuntimeSettings ==
    /\ phase = "down" /\ ImportDone /\ phase' = "migrate"
    /\ boot' = [set |-> normalizeNativeRuntimeSettings(stored.set), legacy |-> LegacyProxy,
                todo |-> {c \in Accounts : accounts[c] # Absent}, list |-> accounts, known |-> rows, wrote |-> FALSE,
                changed |-> ~stored.found \/ DOMAIN stored.set # Fields \/ LegacyProxy # NoProxy]
    /\ UNCHANGED <<database, process, req, faults, origin, taints, stale>>

(* migrateLegacyProxies. The former global address becomes the system      *)
(* proxy; an account's own address, or the global one when it has neither  *)
(* address nor proxy, becomes its proxy.                                   *)
SystemWants == IF boot.set.sys = NoProxy THEN boot.legacy ELSE NoProxy
AccountWants(c) ==
    LET item == boot.list[c] IN
    IF item.proxy # NoProxy \/ item.doc = Direct THEN NoProxy
    ELSE IF item.doc # NoProxy THEN item.doc ELSE boot.legacy
Known(u) == \E p \in Proxies : boot.known[p] = u
ProxyOf(u) == IF u = NoProxy THEN NoProxy ELSE CHOOSE p \in Proxies : boot.known[p] = u

(* ensure creates the proxy of an address that no row has yet.             *)
ensure(p, u) ==
    /\ phase = "migrate" /\ u # NoProxy /\ ~Known(u) /\ rows[p] = NoProxy
    /\ u = SystemWants \/ (SystemWants = NoProxy /\ \E c \in boot.todo : u = AccountWants(c))
    /\ rows' = [rows EXCEPT ![p] = u] /\ boot' = [boot EXCEPT !.known = [@ EXCEPT ![p] = u]]
    /\ UNCHANGED <<accounts, stored, process, phase, req, faults, origin, taints, stale>>

MigrateSystem ==
    /\ phase = "migrate" /\ SystemWants # NoProxy /\ Known(SystemWants)
    /\ boot' = [boot EXCEPT !.set = [@ EXCEPT !.sys = ProxyOf(SystemWants)], !.changed = TRUE]
    /\ UNCHANGED <<database, process, phase, req, faults, origin, taints, stale>>

(* Mutant of MigrateAccount: the account follows the system proxy.         *)
MigrateToSystem(c) ==
    /\ phase = "migrate" /\ SystemWants = NoProxy /\ c \in boot.todo
    /\ LET u == AccountWants(c)
           new == [proxy |-> IF boot.list[c].proxy # NoProxy THEN boot.list[c].proxy ELSE boot.set.sys,
                   doc |-> NoProxy]
       IN /\ u = NoProxy \/ Known(u)
          /\ accounts' = [accounts EXCEPT ![c] = new]
          /\ boot' = [boot EXCEPT !.todo = @ \ {c}, !.changed = @ \/ new # boot.list[c],
                                  !.wrote = @ \/ new # boot.list[c]]
    /\ UNCHANGED <<rows, stored, process, phase, req, faults, origin, taints, stale>>

MigrateAccount(c) ==
    /\ phase = "migrate" /\ SystemWants = NoProxy /\ c \in boot.todo
    /\ LET u == AccountWants(c)
           new == [proxy |-> IF boot.list[c].proxy # NoProxy THEN boot.list[c].proxy ELSE ProxyOf(u),
                   doc |-> NoProxy]
       IN /\ u = NoProxy \/ Known(u)
          /\ accounts' = [accounts EXCEPT ![c] = new]
          /\ boot' = [boot EXCEPT !.todo = @ \ {c}, !.changed = @ \/ new # boot.list[c],
                                  !.wrote = @ \/ new # boot.list[c]]
    /\ UNCHANGED <<rows, stored, process, phase, req, faults, origin, taints, stale>>

(* The settings are stored when anything about them changed.               *)
PersistSettings ==
    /\ phase = "migrate" /\ SystemWants = NoProxy /\ boot.todo = {}
    /\ phase' = "build"
    /\ stored' = IF boot.changed THEN [found |-> TRUE, set |-> boot.set, legacy |-> NoProxy] ELSE stored
    /\ UNCHANGED <<rows, accounts, process, boot, req, faults, origin, taints, stale>>

(* A start whose system proxy is gone, or whose settings are invalid, ends *)
(* the process; otherwise everything is built from what is stored.         *)
startEmbeddedCPA ==
    /\ phase = "build" /\ boot' = NoBoot
    /\ IF Exists(boot.set.sys) /\ validateNativeRuntimeSettings(boot.set)
       THEN /\ phase' = "up" /\ memory' = boot.set /\ admission' = boot.set.budget
            /\ runtime' = NewRuntime(boot.set, rows, accounts)
       ELSE phase' = "down" /\ UNCHANGED process
    /\ UNCHANGED <<database, req, faults, origin, taints, stale>>

(* What may leave the stored settings without a proxy they select.         *)
Without(ts) == taints \cap ts = {}
Unsafe == {{"put", "delete"}, {"put"}, {"undo"}, {"lost"}}

(* A crash ends every request and forgets what only memory held.           *)
Crash ==
    /\ phase # "down" /\ Fault
    /\ phase' = "down" /\ boot' = NoBoot
    /\ memory' = Defaults /\ admission' = Defaults.budget
    /\ runtime' = NewRuntime(Defaults, NoRows, NoList)
    /\ req' = [a \in Admins |-> IF req[a].pc = "new" THEN NoReq ELSE Done]
    /\ taints' = (taints \cap {{"migration"}})
                   \cup (IF Without(Unsafe) THEN {} ELSE {{"lost"}})
                   \cup (IF phase = "migrate" /\ boot.wrote THEN {{"migration"}} ELSE {})
    /\ stale' = FALSE
    /\ UNCHANGED <<database, origin>>

SettingsNext ==
    \/ \E a \in Admins :
          \/ At(a, "new") /\ \E q \in origin.requests :
                \/ adminNativeSettings(a, q) \/ CreateOutboundProxy(a, q) \/ adminProxy(a, q)
                \/ adminProxyDelete(a, q) \/ validProxyID(a, q) \/ CatalogUpdate(a, q)
          \/ ResolveSystem(a) \/ ResolveGitHub(a) \/ PutRuntimeSetting(a) \/ PutFails(a)
          \/ Prior(a) \/ ApplySettings(a) \/ ApplyFails(a) \/ SetMemory(a) \/ replaceAdmission(a)
          \/ UndoRuntime(a) \/ UndoMemory(a) \/ UndoAdmission(a) \/ RestoreSetting(a)
          \/ UpdateOutboundProxy(a) \/ Selected(a) \/ Reapply(a) \/ ReapplyFails(a)
          \/ RestoreProxy(a) \/ Unapply(a) \/ CountOutboundProxyReferences(a) \/ DeleteOutboundProxy(a)
          \/ SaveAccount(a) \/ RestoreAccount(a)
          \/ ListUpstreamCredentials(a) \/ ListOutboundProxies(a) \/ ReplaceCredentials(a)
          \/ ReloadFails(a) \/ UndoFails(a)
    \/ loadNativeRuntimeSettings \/ MigrateSystem \/ PersistSettings \/ startEmbeddedCPA \/ Crash
    \/ \E p \in Proxies, u \in Urls : ensure(p, u)
    \/ \E c \in Accounts : Import(c) \/ MigrateAccount(c)

RuntimeSettings == SettingsInit /\ [][SettingsNext]_vars

-----------------------------------------------------------------------------
(* Every address, reference and setting is one the program can hold, and   *)
(* the process is in use only when it is up.                               *)
SettingsTypeOK ==
    /\ rows \in [Proxies -> Urls \cup {NoProxy}]
    /\ \A c \in Accounts : /\ accounts[c].proxy \in Proxies \cup {NoProxy}
                           /\ accounts[c].doc \in Urls \cup {NoProxy, Direct, Absent.doc}
    /\ memory \in Settings /\ memory.max \in 1..memory.budget
    /\ runtime.conf \in Settings /\ runtime.url \in Urls \cup {Direct}
    /\ phase \in {"down", "migrate", "build", "up"}
    /\ phase # "up" => \A a \in Admins : Idle(a)

Quiet == phase = "up" /\ \A a \in Admins : Idle(a)

(* When no request is in flight, the stored settings, those in memory and  *)
(* the budget of the admission controller are the same, whatever failed or *)
(* crashed before: adminNativeSettings stores before it applies and undoes *)
(* every part when a later one fails. Two overlapping updates may leave    *)
(* one stored and the other in force, and a failed undoing is not repaired *)
(* before the next start.                                                  *)
SettingsAgree ==
    Quiet /\ Without({{"put"}, {"undo"}})
        => /\ normalizeNativeRuntimeSettings(stored.set) = memory
           /\ admission = memory.budget

(* When no request is in flight, the runtime has the settings in memory    *)
(* and goes out through the present address of the system proxy, although  *)
(* a change of that address and a change of the selection reach it through *)
(* different handlers. (adminProxy, applyNativeRuntimeSettings)            *)
RuntimeFollowsSettings ==
    Quiet /\ Without({{"put"}, {"patch"}, {"put", "patch"}, {"put", "delete"}, {"apply"}, {"undo"}})
        => runtime.conf = memory /\ runtime.url = proxyURL(rows, memory.sys)

(* When no request is in flight and the last reload read the current rows, *)
(* every account goes out through the present address of its own proxy and *)
(* with the WebSocket switch in force. (reloadNativeCredentials)           *)
AccountsFollowProxies ==
    Quiet /\ ~stale /\ Without({{"put"}, {"undo"}, {"reload"}})
        => runtime.creds = runtimeCredentials(accounts, rows, memory.ws)

(* A proxy that the stored settings select as the system proxy or for the  *)
(* GitHub login is there: a deletion is refused while the settings in      *)
(* memory use it, and a start would not come up without the system proxy.  *)
(* An update of the settings that overlaps a deletion is not protected. A  *)
(* proxy of an account is there in any case.                               *)
ProxiesInUseExist ==
    /\ Without(Unsafe) =>
          LET s == normalizeNativeRuntimeSettings(stored.set) IN
          Exists(s.sys) /\ Exists(githubSelectedProxyID(s))
    /\ \A c \in Accounts : Exists(accounts[c].proxy)

(* How an account went out before: its proxy, or the first address given   *)
(* for it: in its document or file, then the global ones.                  *)
Or(u, v) == IF u # NoProxy THEN u ELSE v
FormerGlobal == Or(origin.stored.legacy, IF origin.stored.found THEN NoProxy ELSE origin.config)
FormerRoute(c) ==
    LET o == origin.accounts[c]
        own == IF o = Absent THEN Or(origin.files[c], origin.config) ELSE o.doc
    IN IF o.proxy # NoProxy THEN proxyURL(origin.rows, o.proxy)
       ELSE Or(own, Or(FormerGlobal, Direct))

(* However often a start is cut off, once the server is up every account,  *)
(* imported or not, goes out the way the older version or program had it:  *)
(* through its own proxy or address, directly when it said so, otherwise   *)
(* through the global address. The exception is a start that is cut off    *)
(* after it has rewritten a direct account and before it has stored the    *)
(* settings.                                                               *)
(* (migrateLegacyProxies, Import)                                          *)
MigrationKeepsRoutes ==
    (phase = "up" /\ \A a \in Admins : req[a].pc = "new") =>
        \A c \in DOMAIN runtime.creds :
            \/ runtime.creds[c].url = FormerRoute(c)
            \/ FormerRoute(c) = Direct /\ {"migration"} \in taints

(* The migration adds one proxy per address, also when a start that had    *)
(* added it was cut off. (ensure in migrateLegacyProxies)                  *)
OneProxyPerAddress ==
    (\A a \in Admins : req[a].pc = "new") =>
        \A p, q \in Proxies :
            (p # q /\ rows[p] = rows[q] /\ rows[p] # NoProxy) => origin.rows[p] = origin.rows[q]

(* Once no handler is under way the stored settings, their copy in memory,  *)
(* the admission controller, the runtime and its accounts show the same.    *)
SettingsConsistent ==
    SettingsTypeOK /\ SettingsAgree /\ RuntimeFollowsSettings /\ AccountsFollowProxies

(* No proxy that is used is missing, none is there twice, and an upgrade    *)
(* leaves every account on the route it had.                                *)
ProxiesKept == ProxiesInUseExist /\ OneProxyPerAddress /\ MigrationKeepsRoutes
=============================================================================
