-------------------------- MODULE OperationsProofs --------------------------
(***************************************************************************)
(* What the process does beside serving requests.                          *)
(*                                                                         *)
(* The runtime settings and the outbound proxies, for any number of        *)
(* proxies, addresses, accounts and administration requests and whatever   *)
(* the database holds at first: when no request is in flight everything    *)
(* shows the same settings, no proxy in use is missing, and an upgrade     *)
(* keeps the route of every account, however often it is cut off.          *)
(*                                                                         *)
(* Quota synchronisation, for any number of probers, windows and waits:    *)
(* one probe at a time, no provider asked again before the time it asked   *)
(* for, usage clocks that only advance, and no row that claims samples     *)
(* which were not stored.                                                  *)
(***************************************************************************)
EXTENDS RuntimeSettings, QuotaSync, FiniteSetTheorems, TLAPS

-----------------------------------------------------------------------------
(* Settings and proxies *)


Rows == [Proxies -> Urls \cup {NoProxy}]
ProxyChoices == Proxies \cup {NoProxy}
Routes == Urls \cup {Direct}
Lists == [Accounts -> [proxy: ProxyChoices, doc: Urls \cup {NoProxy, Direct, "absent"}]]
Valid == {s \in Settings : validateNativeRuntimeSettings(s)}

Ops == {"none", "put", "patch", "delete", "assign", "catalog"}
PutSteps == {"system", "github", "store", "prior", "apply", "memory", "admission",
             "undo runtime", "undo memory", "undo admission"}
PatchSteps == {"update", "selected", "reapply", "unapply"}
Reloading == {"list", "urls", "replace"}
Steps == {"new", "done"} \cup PutSteps \cup PatchSteps \cup {"count", "remove", "save", "restore"} \cup Reloading

Request == [op: Ops, pc: Steps, id: Proxies \cup Accounts \cup {NoProxy}, to: ProxyChoices, from: ProxyChoices,
            set: Valid, prev: Valid, prior: Valid, url: Routes, was: Routes,
            list: Lists, urls: Rows, back: BOOLEAN]
Boot == [set: Settings, legacy: Urls \cup {NoProxy}, todo: SUBSET Accounts, list: Lists,
         known: Rows, changed: BOOLEAN, wrote: BOOLEAN]

(* Which request is at which step, and what it carries there.              *)
Control(r) ==
    /\ r.op = "none" <=> r.pc \in {"new", "done"}
    /\ r.pc \in PutSteps => r.op = "put"
    /\ r.pc \in PatchSteps => r.op = "patch"
    /\ r.pc \in {"count", "remove"} <=> r.op = "delete"
    /\ r.pc = "save" => r.op = "assign"
    /\ r.pc = "restore" => r.op # "catalog"
    /\ r.op \in {"patch", "delete"} => r.id \in Proxies
    /\ r.op = "patch" => r.url \in Urls /\ r.was \in Urls
    /\ r.op = "assign" => r.id \in Accounts

Typed ==
    /\ rows \in Rows /\ accounts \in Lists
    /\ stored.found \in BOOLEAN /\ stored.legacy \in Urls \cup {NoProxy}
    /\ normalizeNativeRuntimeSettings(stored.set) \in Settings
    /\ memory \in Valid
    /\ DOMAIN runtime = {"conf", "url", "creds"} /\ runtime.conf \in Valid /\ runtime.url \in Routes
    /\ phase \in {"down", "migrate", "build", "up"}
    /\ boot \in Boot
    /\ req \in [Admins -> Request]
    /\ \A a \in Admins : Control(req[a]) /\ (phase # "up" => Idle(a))
    /\ origin \in Histories

-----------------------------------------------------------------------------
(* Constants and records *)

LEMMA Names ==
    /\ NoProxy \notin Proxies /\ System \notin Proxies
    /\ NoProxy \notin Urls /\ Direct \notin Urls /\ "absent" \notin Urls
BY RuntimeSettingsAssumption, Zenon

LEMMA DefaultsValid == Defaults \in Valid
BY DEF Defaults, Valid, Settings, validateNativeRuntimeSettings

LEMMA ValidIsSettings == \A s \in Valid : s \in Settings /\ s.max \in 1..s.budget
BY DEF Valid, Settings, validateNativeRuntimeSettings

LEMMA OverItself ==
    ASSUME NEW s \in Settings
    PROVE  normalizeNativeRuntimeSettings(s) = s
<1>1. DOMAIN s = Fields /\ s = [f \in DOMAIN s |-> s[f]]
  BY DEF Settings, Fields
<1> QED
  BY <1>1, Zenon DEF Over, normalizeNativeRuntimeSettings

\* A request that fits the types over the defaults fits them over any settings.
LEMMA OverTypes ==
    ASSUME NEW d, Over(d, Defaults) \in Settings, NEW s \in Settings
    PROVE  Over(d, s) \in Settings
<1>1. /\ "sys" \in DOMAIN d => d["sys"] \in ProxyChoices
      /\ "gh" \in DOMAIN d => d["gh"] \in Proxies \cup {NoProxy, System}
      /\ "ws" \in DOMAIN d => d["ws"] \in BOOLEAN
      /\ "max" \in DOMAIN d => d["max"] \in Nat
      /\ "budget" \in DOMAIN d => d["budget"] \in Nat
  BY DEF Over, Fields, Settings, ProxyChoices
<1> QED
  BY <1>1 DEF Over, Fields, Settings, ProxyChoices

LEMMA NoListType == NoList \in Lists
BY DEF NoList, Lists, ProxyChoices
LEMMA NoRowsType == NoRows \in Rows
BY DEF NoRows, Rows

LEMMA NoReqType == NoReq \in Request /\ NoReq.op = "none" /\ NoReq.pc = "new" /\ Control(NoReq)
<1>1. /\ NoProxy \in Proxies \cup Accounts \cup {NoProxy} /\ NoProxy \in ProxyChoices /\ Direct \in Routes
      /\ "none" \in Ops /\ "new" \in Steps /\ FALSE \in BOOLEAN
  BY DEF ProxyChoices, Routes, Ops, Steps
<1>2. NoReq \in Request
  BY <1>1, DefaultsValid, NoListType, NoRowsType, Zenon DEF NoReq, Request
<1>3. NoReq.op = "none" /\ NoReq.pc = "new"
  BY DEF NoReq
<1>4. Control(NoReq)
  BY <1>3 DEF Control, PutSteps, PatchSteps
<1> QED
  BY <1>2, <1>3, <1>4

LEMMA DoneType ==
    Done \in Request /\ Done.op = "none" /\ Done.pc = "done" /\ Control(Done)
<1>1. "done" \in Steps
  BY DEF Steps
<1>2. Done \in Request
  BY <1>1, NoReqType, Zenon DEF Done, Request
<1>3. Done.op = "none" /\ Done.pc = "done"
  BY DEF Done, NoReq
<1>4. Control(Done)
  BY <1>3 DEF Control, PutSteps, PatchSteps
<1> QED
  BY <1>2, <1>3, <1>4

LEMMA NoBootType == NoBoot \in Boot
<1>1. Defaults \in Settings
  BY DefaultsValid DEF Valid
<1> QED
  BY <1>1, NoListType, NoRowsType DEF NoBoot, Boot

-----------------------------------------------------------------------------
(* What a step does to its request *)

Others(a) == req' \in [Admins -> Request] /\ \A b \in Admins : b # a => req'[b] = req[b]
SameTask(q, r) == q.op = r.op /\ q.id = r.id /\ q.to = r.to /\ q.from = r.from /\ q.set = r.set
SameUndo(q, r) == q.prev = r.prev /\ q.prior = r.prior /\ q.url = r.url /\ q.was = r.was
SameRead(q, r) == q.list = r.list /\ q.urls = r.urls /\ q.back = r.back

LEMMA ReqUpdated ==
    ASSUME req \in [Admins -> Request], NEW a \in Admins, NEW q \in Request,
           req' = [req EXCEPT ![a] = q]
    PROVE  Others(a) /\ req'[a] = q
BY Zenon DEF Others

LEMMA EndEffect ==
    ASSUME req \in [Admins -> Request], NEW a \in Admins, End(a)
    PROVE  Others(a) /\ req'[a] = Done
BY DoneType, ReqUpdated, Zenon DEF End

(* One record update for each way a step changes its request.              *)
SetUrl(q, r, x, y) ==
    /\ q \in Request /\ q.pc = x /\ q.url = y /\ SameTask(q, r) /\ SameRead(q, r) /\ q.prev = r.prev
    /\ q.prior = r.prior /\ q.was = r.was
SetPrev(q, r, x, y) ==
    /\ q \in Request /\ q.pc = x /\ q.prev = y /\ SameTask(q, r) /\ SameRead(q, r)
    /\ q.prior = r.prior /\ q.url = r.url /\ q.was = r.was
SetWas(q, r, x, y, z) ==
    /\ q \in Request /\ q.pc = x /\ q.prior = y /\ q.was = z /\ SameTask(q, r) /\ SameRead(q, r)
    /\ q.prev = r.prev /\ q.url = r.url
SetPrior(q, r, x, y) ==
    /\ q \in Request /\ q.pc = x /\ q.prior = y /\ SameTask(q, r) /\ SameRead(q, r)
    /\ q.prev = r.prev /\ q.url = r.url /\ q.was = r.was
SetStep(q, r, x) ==
    q \in Request /\ q.pc = x /\ SameTask(q, r) /\ SameUndo(q, r) /\ SameRead(q, r)
SetBack(q, r, x) ==
    /\ q \in Request /\ q.pc = x /\ q.back = TRUE /\ SameTask(q, r) /\ SameUndo(q, r)
    /\ q.list = r.list /\ q.urls = r.urls
SetList(q, r, x, y) ==
    q \in Request /\ q.pc = x /\ q.list = y /\ SameTask(q, r) /\ SameUndo(q, r) /\ q.urls = r.urls /\ q.back = r.back
SetUrls(q, r, x, y) ==
    q \in Request /\ q.pc = x /\ q.urls = y /\ SameTask(q, r) /\ SameUndo(q, r) /\ q.list = r.list /\ q.back = r.back
SetRead(q, r, x, y, z) ==
    q \in Request /\ q.pc = x /\ q.list = y /\ q.urls = z /\ SameTask(q, r) /\ SameUndo(q, r) /\ q.back = r.back

LEMMA StepNames ==
    /\ "admission" \in Steps /\ "apply" \in Steps /\ "github" \in Steps /\ "list" \in Steps
    /\ "memory" \in Steps /\ "prior" \in Steps /\ "reapply" \in Steps /\ "remove" \in Steps
    /\ "replace" \in Steps /\ "restore" \in Steps /\ "selected" \in Steps /\ "store" \in Steps
    /\ "unapply" \in Steps /\ "undo admission" \in Steps /\ "undo memory" \in Steps /\ "undo runtime" \in Steps
    /\ "urls" \in Steps
BY DEF Steps, PutSteps, PatchSteps, Reloading

LEMMA UrlUpdated ==
    ASSUME req \in [Admins -> Request], NEW a \in Admins, NEW x \in Steps, NEW y \in Routes,
           req' = [req EXCEPT ![a] = [req[a] EXCEPT !.pc = x, !.url = y]]
    PROVE  Others(a) /\ SetUrl(req'[a], req[a], x, y)
<1> DEFINE q == [req[a] EXCEPT !.pc = x, !.url = y]
<1>1. q \in Request
  BY Zenon DEF Request
<1>2. SetUrl(q, req[a], x, y)
  BY <1>1 DEF Request, SameTask, SameUndo, SameRead, SetUrl
<1> HIDE DEF q
<1> QED
  BY <1>1, <1>2, ReqUpdated DEF q

LEMMA PrevUpdated ==
    ASSUME req \in [Admins -> Request], NEW a \in Admins, NEW x \in Steps, NEW y \in Valid,
           req' = [req EXCEPT ![a] = [req[a] EXCEPT !.pc = x, !.prev = y]]
    PROVE  Others(a) /\ SetPrev(req'[a], req[a], x, y)
<1> DEFINE q == [req[a] EXCEPT !.pc = x, !.prev = y]
<1>1. q \in Request
  BY Zenon DEF Request
<1>2. SetPrev(q, req[a], x, y)
  BY <1>1 DEF Request, SameTask, SameUndo, SameRead, SetPrev
<1> HIDE DEF q
<1> QED
  BY <1>1, <1>2, ReqUpdated DEF q

LEMMA WasUpdated ==
    ASSUME req \in [Admins -> Request], NEW a \in Admins, NEW x \in Steps, NEW y \in Valid, NEW z \in Routes,
           req' = [req EXCEPT ![a] = [req[a] EXCEPT !.pc = x, !.prior = y, !.was = z]]
    PROVE  Others(a) /\ SetWas(req'[a], req[a], x, y, z)
<1> DEFINE q == [req[a] EXCEPT !.pc = x, !.prior = y, !.was = z]
<1>1. q \in Request
  BY Zenon DEF Request
<1>2. SetWas(q, req[a], x, y, z)
  BY <1>1 DEF Request, SameTask, SameUndo, SameRead, SetWas
<1> HIDE DEF q
<1> QED
  BY <1>1, <1>2, ReqUpdated DEF q

LEMMA PriorUpdated ==
    ASSUME req \in [Admins -> Request], NEW a \in Admins, NEW x \in Steps, NEW y \in Valid,
           req' = [req EXCEPT ![a] = [req[a] EXCEPT !.prior = y, !.pc = x]]
    PROVE  Others(a) /\ SetPrior(req'[a], req[a], x, y)
<1> DEFINE q == [req[a] EXCEPT !.prior = y, !.pc = x]
<1>1. q \in Request
  BY Zenon DEF Request
<1>2. SetPrior(q, req[a], x, y)
  BY <1>1 DEF Request, SameTask, SameUndo, SameRead, SetPrior
<1> HIDE DEF q
<1> QED
  BY <1>1, <1>2, ReqUpdated DEF q

LEMMA StepUpdated ==
    ASSUME req \in [Admins -> Request], NEW a \in Admins, NEW x \in Steps,
           req' = [req EXCEPT ![a] = [req[a] EXCEPT !.pc = x]]
    PROVE  Others(a) /\ SetStep(req'[a], req[a], x)
<1> DEFINE q == [req[a] EXCEPT !.pc = x]
<1>1. q \in Request
  BY Zenon DEF Request
<1>2. SetStep(q, req[a], x)
  BY <1>1 DEF Request, SameTask, SameUndo, SameRead, SetStep
<1> HIDE DEF q
<1> QED
  BY <1>1, <1>2, ReqUpdated DEF q

LEMMA BackUpdated ==
    ASSUME req \in [Admins -> Request], NEW a \in Admins, NEW x \in Steps,
           req' = [req EXCEPT ![a] = [req[a] EXCEPT !.back = TRUE, !.pc = x]]
    PROVE  Others(a) /\ SetBack(req'[a], req[a], x)
<1> DEFINE q == [req[a] EXCEPT !.back = TRUE, !.pc = x]
<1>1. q \in Request
  BY Zenon DEF Request
<1>2. SetBack(q, req[a], x)
  BY <1>1 DEF Request, SameTask, SameUndo, SameRead, SetBack
<1> HIDE DEF q
<1> QED
  BY <1>1, <1>2, ReqUpdated DEF q

LEMMA ListUpdated ==
    ASSUME req \in [Admins -> Request], NEW a \in Admins, NEW x \in Steps, NEW y \in Lists,
           req' = [req EXCEPT ![a] = [req[a] EXCEPT !.pc = x, !.list = y]]
    PROVE  Others(a) /\ SetList(req'[a], req[a], x, y)
<1> DEFINE q == [req[a] EXCEPT !.pc = x, !.list = y]
<1>1. q \in Request
  BY Zenon DEF Request
<1>2. SetList(q, req[a], x, y)
  BY <1>1 DEF Request, SameTask, SameUndo, SameRead, SetList
<1> HIDE DEF q
<1> QED
  BY <1>1, <1>2, ReqUpdated DEF q

LEMMA UrlsUpdated ==
    ASSUME req \in [Admins -> Request], NEW a \in Admins, NEW x \in Steps, NEW y \in Rows,
           req' = [req EXCEPT ![a] = [req[a] EXCEPT !.pc = x, !.urls = y]]
    PROVE  Others(a) /\ SetUrls(req'[a], req[a], x, y)
<1> DEFINE q == [req[a] EXCEPT !.pc = x, !.urls = y]
<1>1. q \in Request
  BY Zenon DEF Request
<1>2. SetUrls(q, req[a], x, y)
  BY <1>1 DEF Request, SameTask, SameUndo, SameRead, SetUrls
<1> HIDE DEF q
<1> QED
  BY <1>1, <1>2, ReqUpdated DEF q

LEMMA ReadUpdated ==
    ASSUME req \in [Admins -> Request], NEW a \in Admins, NEW x \in Steps, NEW y \in Lists, NEW z \in Rows,
           req' = [req EXCEPT ![a] = [req[a] EXCEPT !.pc = x, !.list = y, !.urls = z]]
    PROVE  Others(a) /\ SetRead(req'[a], req[a], x, y, z)
<1> DEFINE q == [req[a] EXCEPT !.pc = x, !.list = y, !.urls = z]
<1>1. q \in Request
  BY Zenon DEF Request
<1>2. SetRead(q, req[a], x, y, z)
  BY <1>1 DEF Request, SameTask, SameUndo, SameRead, SetRead
<1> HIDE DEF q
<1> QED
  BY <1>1, <1>2, ReqUpdated DEF q

LEMMA RouteType ==
    ASSUME NEW r \in Rows, NEW p
    PROVE  proxyURL(r, p) \in Routes
BY DEF proxyURL, Rows, Routes

-----------------------------------------------------------------------------
(* The steps of a request, action by action *)

LEMMA ResolveSystemStep ==
    ASSUME Typed, NEW a \in Admins, ResolveSystem(a)
    PROVE  /\ phase = "up" /\ req[a].pc = "system" /\ Others(a)
           /\ \/ /\ Exists(req[a].set.sys) /\ req'[a].pc = "github"
                 /\ req'[a].url = proxyURL(rows, req[a].set.sys) /\ SameTask(req'[a], req[a])
                 /\ SameRead(req'[a], req[a]) /\ req'[a].prev = req[a].prev
                 /\ req'[a].prior = req[a].prior /\ req'[a].was = req[a].was
              \/ ~Exists(req[a].set.sys) /\ req'[a] = Done
           /\ rows' = rows /\ accounts' = accounts /\ stored' = stored /\ memory' = memory
           /\ admission' = admission /\ runtime' = runtime
           /\ phase' = phase /\ boot' = boot /\ origin' = origin /\ faults' = faults
           /\ taints' = taints /\ stale' = stale
<1>1. /\ phase = "up" /\ req[a].pc = "system"
      /\ rows' = rows /\ accounts' = accounts /\ stored' = stored /\ memory' = memory
      /\ admission' = admission /\ runtime' = runtime
      /\ phase' = phase /\ boot' = boot /\ origin' = origin /\ faults' = faults /\ taints' = taints /\ stale' = stale
  BY Zenon DEF ResolveSystem, At, database, process, start
<1>2. \/ /\ Exists(req[a].set.sys)
         /\ req' = [req EXCEPT ![a] = [req[a] EXCEPT !.pc = "github", !.url = proxyURL(rows, req[a].set.sys)]]
      \/ ~Exists(req[a].set.sys) /\ End(a)
  BY Zenon DEF ResolveSystem, At, database, process, start
<1>3. req \in [Admins -> Request] /\ req[a] \in Request /\ memory \in Valid /\ rows \in Rows /\ accounts \in Lists
  BY Zenon DEF Typed
<1>4. CASE /\ Exists(req[a].set.sys)
           /\ req' = [req EXCEPT ![a] = [req[a] EXCEPT !.pc = "github", !.url = proxyURL(rows, req[a].set.sys)]]
  <2>1. proxyURL(rows, req[a].set.sys) \in Routes
    BY <1>3, RouteType, ValidIsSettings
  <2>2. Others(a) /\ SetUrl(req'[a], req[a], "github", proxyURL(rows, req[a].set.sys))
    BY <1>3, <1>4, <2>1, StepNames, UrlUpdated, Zenon
  <2> QED
    BY <1>1, <1>4, <2>2, Zenon DEF SetUrl
<1>5. CASE ~Exists(req[a].set.sys) /\ End(a)
  <2>1. Others(a) /\ ~Exists(req[a].set.sys) /\ req'[a] = Done
    BY <1>5, <1>3, EndEffect, Zenon
  <2> QED
    BY <1>1, <2>1, Zenon
<1> QED
  BY <1>2, <1>4, <1>5

LEMMA ResolveGitHubStep ==
    ASSUME Typed, NEW a \in Admins, ResolveGitHub(a)
    PROVE  /\ phase = "up" /\ req[a].pc = "github" /\ Others(a)
           /\ \/ /\ Exists(req[a].set.gh) /\ req'[a].pc = "store" /\ SameTask(req'[a], req[a])
                 /\ SameUndo(req'[a], req[a]) /\ SameRead(req'[a], req[a])
              \/ ~Exists(req[a].set.gh) /\ req'[a] = Done
           /\ rows' = rows /\ accounts' = accounts /\ stored' = stored /\ memory' = memory
           /\ admission' = admission /\ runtime' = runtime
           /\ phase' = phase /\ boot' = boot /\ origin' = origin /\ faults' = faults
           /\ taints' = taints /\ stale' = stale
<1>1. /\ phase = "up" /\ req[a].pc = "github"
      /\ rows' = rows /\ accounts' = accounts /\ stored' = stored /\ memory' = memory
      /\ admission' = admission /\ runtime' = runtime
      /\ phase' = phase /\ boot' = boot /\ origin' = origin /\ faults' = faults /\ taints' = taints /\ stale' = stale
  BY Zenon DEF ResolveGitHub, At, database, process, start, Go
<1>2. \/ Exists(req[a].set.gh) /\ req' = [req EXCEPT ![a] = [req[a] EXCEPT !.pc = "store"]]
      \/ ~Exists(req[a].set.gh) /\ End(a)
  BY Zenon DEF ResolveGitHub, At, database, process, start, Go
<1>3. req \in [Admins -> Request] /\ req[a] \in Request /\ memory \in Valid /\ rows \in Rows /\ accounts \in Lists
  BY Zenon DEF Typed
<1>4. CASE Exists(req[a].set.gh) /\ req' = [req EXCEPT ![a] = [req[a] EXCEPT !.pc = "store"]]
  <2>1. Others(a) /\ SetStep(req'[a], req[a], "store")
    BY <1>3, <1>4, StepNames, StepUpdated, Zenon
  <2> QED
    BY <1>1, <1>4, <2>1, Zenon DEF SetStep
<1>5. CASE ~Exists(req[a].set.gh) /\ End(a)
  <2>1. Others(a) /\ ~Exists(req[a].set.gh) /\ req'[a] = Done
    BY <1>5, <1>3, EndEffect, Zenon
  <2> QED
    BY <1>1, <2>1, Zenon
<1> QED
  BY <1>2, <1>4, <1>5

LEMMA PutRuntimeSettingStep ==
    ASSUME Typed, NEW a \in Admins, PutRuntimeSetting(a)
    PROVE  /\ phase = "up" /\ req[a].pc = "store" /\ Others(a)
           /\ stored' = [found |-> TRUE, set |-> req[a].set, legacy |-> NoProxy]
           /\ req'[a].pc = "prior" /\ req'[a].prev = memory /\ SameTask(req'[a], req[a])
           /\ SameRead(req'[a], req[a]) /\ req'[a].prior = req[a].prior /\ req'[a].url = req[a].url
           /\ req'[a].was = req[a].was
           /\ rows' = rows /\ accounts' = accounts /\ memory' = memory /\ admission' = admission
           /\ runtime' = runtime /\ phase' = phase
           /\ boot' = boot /\ origin' = origin /\ faults' = faults /\ taints' = taints /\ stale' = stale
<1>1. /\ phase = "up" /\ req[a].pc = "store"
      /\ stored' = [found |-> TRUE, set |-> req[a].set, legacy |-> NoProxy]
      /\ rows' = rows /\ accounts' = accounts /\ memory' = memory /\ admission' = admission
      /\ runtime' = runtime /\ phase' = phase
      /\ boot' = boot /\ origin' = origin /\ faults' = faults /\ taints' = taints /\ stale' = stale
  BY Zenon DEF PutRuntimeSetting, At, database, process, start
<1>2. req' = [req EXCEPT ![a] = [req[a] EXCEPT !.pc = "prior", !.prev = memory]]
  BY Zenon DEF PutRuntimeSetting, At, database, process, start
<1>3. req \in [Admins -> Request] /\ req[a] \in Request /\ memory \in Valid /\ rows \in Rows /\ accounts \in Lists
  BY Zenon DEF Typed
<1>4. /\ Others(a) /\ req'[a].pc = "prior" /\ req'[a].prev = memory /\ SameTask(req'[a], req[a])
      /\ SameRead(req'[a], req[a]) /\ req'[a].prior = req[a].prior /\ req'[a].url = req[a].url
      /\ req'[a].was = req[a].was
  <2>1. memory \in Valid
    BY <1>3
  <2>2. Others(a) /\ SetPrev(req'[a], req[a], "prior", memory)
    BY <1>3, <1>2, <2>1, StepNames, PrevUpdated, Zenon
  <2> QED
    BY <1>2, <2>2, Zenon DEF SetPrev
<1> QED
  BY <1>1, <1>4, Zenon

LEMMA PutFailsStep ==
    ASSUME Typed, NEW a \in Admins, PutFails(a)
    PROVE  /\ phase = "up" /\ req[a].pc = "store" /\ Others(a)
           /\ req'[a] = Done
           /\ rows' = rows /\ accounts' = accounts /\ stored' = stored /\ memory' = memory
           /\ admission' = admission /\ runtime' = runtime
           /\ phase' = phase /\ boot' = boot /\ origin' = origin /\ taints' = taints /\ stale' = stale
<1>1. /\ phase = "up" /\ req[a].pc = "store"
      /\ rows' = rows /\ accounts' = accounts /\ stored' = stored /\ memory' = memory
      /\ admission' = admission /\ runtime' = runtime
      /\ phase' = phase /\ boot' = boot /\ origin' = origin /\ taints' = taints /\ stale' = stale
  BY Zenon DEF PutFails, At, database, process, start, Fault
<1>2. End(a)
  BY Zenon DEF PutFails, At, database, process, start, Fault
<1>3. req \in [Admins -> Request] /\ req[a] \in Request /\ memory \in Valid /\ rows \in Rows /\ accounts \in Lists
  BY Zenon DEF Typed
<1>4. Others(a) /\ req'[a] = Done
  BY <1>2, <1>3, EndEffect, Zenon
<1> QED
  BY <1>1, <1>4, Zenon

LEMMA PriorStep ==
    ASSUME Typed, NEW a \in Admins, Prior(a)
    PROVE  /\ phase = "up" /\ req[a].pc = "prior" /\ Others(a)
           /\ req'[a].pc = "apply" /\ req'[a].prior = memory
           /\ req'[a].was = proxyURL(rows, memory.sys) /\ SameTask(req'[a], req[a])
           /\ SameRead(req'[a], req[a]) /\ req'[a].prev = req[a].prev /\ req'[a].url = req[a].url
           /\ rows' = rows /\ accounts' = accounts /\ stored' = stored /\ memory' = memory
           /\ admission' = admission /\ runtime' = runtime
           /\ phase' = phase /\ boot' = boot /\ origin' = origin /\ faults' = faults
           /\ taints' = taints /\ stale' = stale
<1>1. /\ phase = "up" /\ req[a].pc = "prior"
      /\ rows' = rows /\ accounts' = accounts /\ stored' = stored /\ memory' = memory
      /\ admission' = admission /\ runtime' = runtime
      /\ phase' = phase /\ boot' = boot /\ origin' = origin /\ faults' = faults /\ taints' = taints /\ stale' = stale
  BY Zenon DEF Prior, At, database, process, start
<1>2. req' = [req EXCEPT ![a] = [req[a] EXCEPT !.pc = "apply", !.prior = memory, !.was = proxyURL(rows, memory.sys)]]
  BY Zenon DEF Prior, At, database, process, start
<1>3. req \in [Admins -> Request] /\ req[a] \in Request /\ memory \in Valid /\ rows \in Rows /\ accounts \in Lists
  BY Zenon DEF Typed
<1>4. /\ Others(a) /\ req'[a].pc = "apply" /\ req'[a].prior = memory
      /\ req'[a].was = proxyURL(rows, memory.sys) /\ SameTask(req'[a], req[a])
      /\ SameRead(req'[a], req[a]) /\ req'[a].prev = req[a].prev /\ req'[a].url = req[a].url
  <2>1. memory \in Valid
    BY <1>3
  <2>2. proxyURL(rows, memory.sys) \in Routes
    BY <1>3, RouteType
  <2>3. Others(a) /\ SetWas(req'[a], req[a], "apply", memory, proxyURL(rows, memory.sys))
    BY <1>3, <1>2, <2>1, <2>2, StepNames, WasUpdated, Zenon
  <2> QED
    BY <1>2, <2>3, Zenon DEF SetWas
<1> QED
  BY <1>1, <1>4, Zenon

LEMMA ApplySettingsStep ==
    ASSUME Typed, NEW a \in Admins, ApplySettings(a)
    PROVE  /\ phase = "up" /\ req[a].pc = "apply" /\ Others(a)
           /\ runtime' = [runtime EXCEPT !.conf = req[a].set, !.url = req[a].url]
           /\ req'[a].pc = "memory" /\ SameTask(req'[a], req[a]) /\ SameUndo(req'[a], req[a])
           /\ SameRead(req'[a], req[a])
           /\ rows' = rows /\ accounts' = accounts /\ stored' = stored /\ memory' = memory
           /\ admission' = admission /\ phase' = phase
           /\ boot' = boot /\ origin' = origin /\ faults' = faults /\ taints' = taints /\ stale' = stale
<1>1. /\ phase = "up" /\ req[a].pc = "apply"
      /\ runtime' = [runtime EXCEPT !.conf = req[a].set, !.url = req[a].url]
      /\ rows' = rows /\ accounts' = accounts /\ stored' = stored /\ memory' = memory
      /\ admission' = admission /\ phase' = phase
      /\ boot' = boot /\ origin' = origin /\ faults' = faults /\ taints' = taints /\ stale' = stale
  BY Zenon DEF ApplySettings, At, database, process, start, Go, Configured
<1>2. req' = [req EXCEPT ![a] = [req[a] EXCEPT !.pc = "memory"]]
  BY Zenon DEF ApplySettings, At, database, process, start, Go, Configured
<1>3. req \in [Admins -> Request] /\ req[a] \in Request /\ memory \in Valid /\ rows \in Rows /\ accounts \in Lists
  BY Zenon DEF Typed
<1>4. /\ Others(a) /\ req'[a].pc = "memory" /\ SameTask(req'[a], req[a])
      /\ SameUndo(req'[a], req[a]) /\ SameRead(req'[a], req[a])
  <2>1. Others(a) /\ SetStep(req'[a], req[a], "memory")
    BY <1>3, <1>2, StepNames, StepUpdated, Zenon
  <2> QED
    BY <1>2, <2>1, Zenon DEF SetStep
<1> QED
  BY <1>1, <1>4, Zenon

LEMMA ApplyFailsStep ==
    ASSUME Typed, NEW a \in Admins, ApplyFails(a)
    PROVE  /\ phase = "up" /\ req[a].pc = "apply" /\ Others(a)
           /\ runtime' = [runtime EXCEPT !.conf = req[a].set, !.url = req[a].url]
           /\ taints' = taints \cup {{"apply"}}
           /\ req'[a].pc = "restore" /\ SameTask(req'[a], req[a]) /\ SameUndo(req'[a], req[a])
           /\ SameRead(req'[a], req[a])
           /\ rows' = rows /\ accounts' = accounts /\ stored' = stored /\ memory' = memory
           /\ admission' = admission /\ phase' = phase
           /\ boot' = boot /\ origin' = origin /\ stale' = stale
<1>1. /\ phase = "up" /\ req[a].pc = "apply"
      /\ runtime' = [runtime EXCEPT !.conf = req[a].set, !.url = req[a].url]
      /\ taints' = taints \cup {{"apply"}}
      /\ rows' = rows /\ accounts' = accounts /\ stored' = stored /\ memory' = memory
      /\ admission' = admission /\ phase' = phase
      /\ boot' = boot /\ origin' = origin /\ stale' = stale
  BY Zenon DEF ApplyFails, At, database, process, start, Go, Configured, Fault, Taint
<1>2. req' = [req EXCEPT ![a] = [req[a] EXCEPT !.pc = "restore"]]
  BY Zenon DEF ApplyFails, At, database, process, start, Go, Configured, Fault, Taint
<1>3. req \in [Admins -> Request] /\ req[a] \in Request /\ memory \in Valid /\ rows \in Rows /\ accounts \in Lists
  BY Zenon DEF Typed
<1>4. /\ Others(a) /\ req'[a].pc = "restore" /\ SameTask(req'[a], req[a])
      /\ SameUndo(req'[a], req[a]) /\ SameRead(req'[a], req[a])
  <2>1. Others(a) /\ SetStep(req'[a], req[a], "restore")
    BY <1>3, <1>2, StepNames, StepUpdated, Zenon
  <2> QED
    BY <1>2, <2>1, Zenon DEF SetStep
<1> QED
  BY <1>1, <1>4, Zenon

LEMMA SetMemoryStep ==
    ASSUME Typed, NEW a \in Admins, SetMemory(a)
    PROVE  /\ phase = "up" /\ req[a].pc = "memory" /\ Others(a)
           /\ memory' = req[a].set
           /\ req'[a].pc = "admission" /\ SameTask(req'[a], req[a]) /\ SameUndo(req'[a], req[a])
           /\ SameRead(req'[a], req[a])
           /\ rows' = rows /\ accounts' = accounts /\ stored' = stored /\ admission' = admission
           /\ runtime' = runtime /\ phase' = phase
           /\ boot' = boot /\ origin' = origin /\ faults' = faults /\ taints' = taints /\ stale' = stale
<1>1. /\ phase = "up" /\ req[a].pc = "memory"
      /\ memory' = req[a].set
      /\ rows' = rows /\ accounts' = accounts /\ stored' = stored /\ admission' = admission
      /\ runtime' = runtime /\ phase' = phase
      /\ boot' = boot /\ origin' = origin /\ faults' = faults /\ taints' = taints /\ stale' = stale
  BY Zenon DEF SetMemory, At, database, process, start, Go
<1>2. req' = [req EXCEPT ![a] = [req[a] EXCEPT !.pc = "admission"]]
  BY Zenon DEF SetMemory, At, database, process, start, Go
<1>3. req \in [Admins -> Request] /\ req[a] \in Request /\ memory \in Valid /\ rows \in Rows /\ accounts \in Lists
  BY Zenon DEF Typed
<1>4. /\ Others(a) /\ req'[a].pc = "admission" /\ SameTask(req'[a], req[a])
      /\ SameUndo(req'[a], req[a]) /\ SameRead(req'[a], req[a])
  <2>1. Others(a) /\ SetStep(req'[a], req[a], "admission")
    BY <1>3, <1>2, StepNames, StepUpdated, Zenon
  <2> QED
    BY <1>2, <2>1, Zenon DEF SetStep
<1> QED
  BY <1>1, <1>4, Zenon

LEMMA replaceAdmissionStep ==
    ASSUME Typed, NEW a \in Admins, replaceAdmission(a)
    PROVE  /\ phase = "up" /\ req[a].pc = "admission" /\ Others(a)
           /\ admission' = req[a].set.budget
           /\ \/ /\ req[a].prior.ws # req[a].set.ws /\ req'[a].pc = "list"
                 /\ SameTask(req'[a], req[a]) /\ SameUndo(req'[a], req[a])
                 /\ SameRead(req'[a], req[a])
              \/ req[a].prior.ws = req[a].set.ws /\ req'[a] = Done
           /\ rows' = rows /\ accounts' = accounts /\ stored' = stored /\ memory' = memory
           /\ runtime' = runtime /\ phase' = phase
           /\ boot' = boot /\ origin' = origin /\ faults' = faults /\ taints' = taints /\ stale' = stale
<1>1. /\ phase = "up" /\ req[a].pc = "admission"
      /\ admission' = req[a].set.budget
      /\ rows' = rows /\ accounts' = accounts /\ stored' = stored /\ memory' = memory
      /\ runtime' = runtime /\ phase' = phase
      /\ boot' = boot /\ origin' = origin /\ faults' = faults /\ taints' = taints /\ stale' = stale
  BY Zenon DEF replaceAdmission, At, database, process, start, Go
<1>2. \/ req[a].prior.ws # req[a].set.ws /\ req' = [req EXCEPT ![a] = [req[a] EXCEPT !.pc = "list"]]
      \/ req[a].prior.ws = req[a].set.ws /\ End(a)
  BY Zenon DEF replaceAdmission, At, database, process, start, Go
<1>3. req \in [Admins -> Request] /\ req[a] \in Request /\ memory \in Valid /\ rows \in Rows /\ accounts \in Lists
  BY Zenon DEF Typed
<1>4. CASE req[a].prior.ws # req[a].set.ws /\ req' = [req EXCEPT ![a] = [req[a] EXCEPT !.pc = "list"]]
  <2>1. Others(a) /\ SetStep(req'[a], req[a], "list")
    BY <1>3, <1>4, StepNames, StepUpdated, Zenon
  <2> QED
    BY <1>1, <1>4, <2>1, Zenon DEF SetStep
<1>5. CASE req[a].prior.ws = req[a].set.ws /\ End(a)
  <2>1. Others(a) /\ req[a].prior.ws = req[a].set.ws /\ req'[a] = Done
    BY <1>5, <1>3, EndEffect, Zenon
  <2> QED
    BY <1>1, <2>1, Zenon
<1> QED
  BY <1>2, <1>4, <1>5

LEMMA UndoRuntimeStep ==
    ASSUME Typed, NEW a \in Admins, UndoRuntime(a)
    PROVE  /\ phase = "up" /\ req[a].pc = "undo runtime" /\ Others(a)
           /\ runtime' = [runtime EXCEPT !.conf = req[a].prior, !.url = req[a].was]
           /\ req'[a].pc = "undo memory" /\ SameTask(req'[a], req[a]) /\ SameUndo(req'[a], req[a])
           /\ SameRead(req'[a], req[a])
           /\ rows' = rows /\ accounts' = accounts /\ stored' = stored /\ memory' = memory
           /\ admission' = admission /\ phase' = phase
           /\ boot' = boot /\ origin' = origin /\ faults' = faults /\ taints' = taints /\ stale' = stale
<1>1. /\ phase = "up" /\ req[a].pc = "undo runtime"
      /\ runtime' = [runtime EXCEPT !.conf = req[a].prior, !.url = req[a].was]
      /\ rows' = rows /\ accounts' = accounts /\ stored' = stored /\ memory' = memory
      /\ admission' = admission /\ phase' = phase
      /\ boot' = boot /\ origin' = origin /\ faults' = faults /\ taints' = taints /\ stale' = stale
  BY Zenon DEF UndoRuntime, At, database, process, start, Go, Configured
<1>2. req' = [req EXCEPT ![a] = [req[a] EXCEPT !.pc = "undo memory"]]
  BY Zenon DEF UndoRuntime, At, database, process, start, Go, Configured
<1>3. req \in [Admins -> Request] /\ req[a] \in Request /\ memory \in Valid /\ rows \in Rows /\ accounts \in Lists
  BY Zenon DEF Typed
<1>4. /\ Others(a) /\ req'[a].pc = "undo memory" /\ SameTask(req'[a], req[a])
      /\ SameUndo(req'[a], req[a]) /\ SameRead(req'[a], req[a])
  <2>1. Others(a) /\ SetStep(req'[a], req[a], "undo memory")
    BY <1>3, <1>2, StepNames, StepUpdated, Zenon
  <2> QED
    BY <1>2, <2>1, Zenon DEF SetStep
<1> QED
  BY <1>1, <1>4, Zenon

LEMMA UndoMemoryStep ==
    ASSUME Typed, NEW a \in Admins, UndoMemory(a)
    PROVE  /\ phase = "up" /\ req[a].pc = "undo memory" /\ Others(a)
           /\ memory' = req[a].prior
           /\ stale' = (stale \/ \E c \in DOMAIN runtime.creds : runtime.creds[c].ws # req[a].prior.ws)
           /\ req'[a].pc = "undo admission" /\ SameTask(req'[a], req[a])
           /\ SameUndo(req'[a], req[a]) /\ SameRead(req'[a], req[a])
           /\ rows' = rows /\ accounts' = accounts /\ stored' = stored /\ admission' = admission
           /\ runtime' = runtime /\ phase' = phase
           /\ boot' = boot /\ origin' = origin /\ faults' = faults /\ taints' = taints
<1>1. /\ phase = "up" /\ req[a].pc = "undo memory"
      /\ memory' = req[a].prior
      /\ stale' = (stale \/ \E c \in DOMAIN runtime.creds : runtime.creds[c].ws # req[a].prior.ws)
      /\ rows' = rows /\ accounts' = accounts /\ stored' = stored /\ admission' = admission
      /\ runtime' = runtime /\ phase' = phase
      /\ boot' = boot /\ origin' = origin /\ faults' = faults /\ taints' = taints
  BY Zenon DEF UndoMemory, At, database, process, start, Go
<1>2. req' = [req EXCEPT ![a] = [req[a] EXCEPT !.pc = "undo admission"]]
  BY Zenon DEF UndoMemory, At, database, process, start, Go
<1>3. req \in [Admins -> Request] /\ req[a] \in Request /\ memory \in Valid /\ rows \in Rows /\ accounts \in Lists
  BY Zenon DEF Typed
<1>4. /\ Others(a) /\ req'[a].pc = "undo admission" /\ SameTask(req'[a], req[a])
      /\ SameUndo(req'[a], req[a]) /\ SameRead(req'[a], req[a])
  <2>1. Others(a) /\ SetStep(req'[a], req[a], "undo admission")
    BY <1>3, <1>2, StepNames, StepUpdated, Zenon
  <2> QED
    BY <1>2, <2>1, Zenon DEF SetStep
<1> QED
  BY <1>1, <1>4, Zenon

LEMMA UndoAdmissionStep ==
    ASSUME Typed, NEW a \in Admins, UndoAdmission(a)
    PROVE  /\ phase = "up" /\ req[a].pc = "undo admission" /\ Others(a)
           /\ admission' = req[a].prior.budget
           /\ req'[a].pc = "restore" /\ SameTask(req'[a], req[a]) /\ SameUndo(req'[a], req[a])
           /\ SameRead(req'[a], req[a])
           /\ rows' = rows /\ accounts' = accounts /\ stored' = stored /\ memory' = memory
           /\ runtime' = runtime /\ phase' = phase
           /\ boot' = boot /\ origin' = origin /\ faults' = faults /\ taints' = taints /\ stale' = stale
<1>1. /\ phase = "up" /\ req[a].pc = "undo admission"
      /\ admission' = req[a].prior.budget
      /\ rows' = rows /\ accounts' = accounts /\ stored' = stored /\ memory' = memory
      /\ runtime' = runtime /\ phase' = phase
      /\ boot' = boot /\ origin' = origin /\ faults' = faults /\ taints' = taints /\ stale' = stale
  BY Zenon DEF UndoAdmission, At, database, process, start, Go
<1>2. req' = [req EXCEPT ![a] = [req[a] EXCEPT !.pc = "restore"]]
  BY Zenon DEF UndoAdmission, At, database, process, start, Go
<1>3. req \in [Admins -> Request] /\ req[a] \in Request /\ memory \in Valid /\ rows \in Rows /\ accounts \in Lists
  BY Zenon DEF Typed
<1>4. /\ Others(a) /\ req'[a].pc = "restore" /\ SameTask(req'[a], req[a])
      /\ SameUndo(req'[a], req[a]) /\ SameRead(req'[a], req[a])
  <2>1. Others(a) /\ SetStep(req'[a], req[a], "restore")
    BY <1>3, <1>2, StepNames, StepUpdated, Zenon
  <2> QED
    BY <1>2, <2>1, Zenon DEF SetStep
<1> QED
  BY <1>1, <1>4, Zenon

LEMMA RestoreSettingStep ==
    ASSUME Typed, NEW a \in Admins, RestoreSetting(a)
    PROVE  /\ phase = "up" /\ req[a].pc = "restore" /\ req[a].op = "put" /\ Others(a)
           /\ stored' = [found |-> TRUE, set |-> req[a].prev, legacy |-> NoProxy]
           /\ req'[a] = Done
           /\ rows' = rows /\ accounts' = accounts /\ memory' = memory /\ admission' = admission
           /\ runtime' = runtime /\ phase' = phase
           /\ boot' = boot /\ origin' = origin /\ faults' = faults /\ taints' = taints /\ stale' = stale
<1>1. /\ phase = "up" /\ req[a].pc = "restore" /\ req[a].op = "put"
      /\ stored' = [found |-> TRUE, set |-> req[a].prev, legacy |-> NoProxy]
      /\ rows' = rows /\ accounts' = accounts /\ memory' = memory /\ admission' = admission
      /\ runtime' = runtime /\ phase' = phase
      /\ boot' = boot /\ origin' = origin /\ faults' = faults /\ taints' = taints /\ stale' = stale
  BY Zenon DEF RestoreSetting, At, database, process, start
<1>2. End(a)
  BY Zenon DEF RestoreSetting, At, database, process, start
<1>3. req \in [Admins -> Request] /\ req[a] \in Request /\ memory \in Valid /\ rows \in Rows /\ accounts \in Lists
  BY Zenon DEF Typed
<1>4. Others(a) /\ req'[a] = Done
  BY <1>2, <1>3, EndEffect, Zenon
<1> QED
  BY <1>1, <1>4, Zenon

LEMMA UpdateOutboundProxyStep ==
    ASSUME Typed, NEW a \in Admins, UpdateOutboundProxy(a)
    PROVE  /\ phase = "up" /\ req[a].pc = "update" /\ Others(a)
           /\ \/ /\ Exists(req[a].id) /\ rows' = [rows EXCEPT ![req[a].id] = req[a].url]
                 /\ req'[a].pc = "selected" /\ SameTask(req'[a], req[a])
                 /\ SameUndo(req'[a], req[a]) /\ SameRead(req'[a], req[a])
              \/ ~Exists(req[a].id) /\ rows' = rows /\ req'[a] = Done
           /\ accounts' = accounts /\ stored' = stored /\ memory' = memory /\ admission' = admission
           /\ runtime' = runtime /\ phase' = phase
           /\ boot' = boot /\ origin' = origin /\ faults' = faults /\ taints' = taints /\ stale' = stale
<1>1. /\ phase = "up" /\ req[a].pc = "update"
      /\ accounts' = accounts /\ stored' = stored /\ memory' = memory /\ admission' = admission
      /\ runtime' = runtime /\ phase' = phase
      /\ boot' = boot /\ origin' = origin /\ faults' = faults /\ taints' = taints /\ stale' = stale
  BY Zenon DEF UpdateOutboundProxy, At, database, process, start, Go
<1>2. \/ /\ Exists(req[a].id) /\ rows' = [rows EXCEPT ![req[a].id] = req[a].url]
         /\ req' = [req EXCEPT ![a] = [req[a] EXCEPT !.pc = "selected"]]
      \/ ~Exists(req[a].id) /\ rows' = rows /\ End(a)
  BY Zenon DEF UpdateOutboundProxy, At, database, process, start, Go
<1>3. req \in [Admins -> Request] /\ req[a] \in Request /\ memory \in Valid /\ rows \in Rows /\ accounts \in Lists
  BY Zenon DEF Typed
<1>4. CASE /\ Exists(req[a].id) /\ rows' = [rows EXCEPT ![req[a].id] = req[a].url]
           /\ req' = [req EXCEPT ![a] = [req[a] EXCEPT !.pc = "selected"]]
  <2>1. Others(a) /\ SetStep(req'[a], req[a], "selected")
    BY <1>3, <1>4, StepNames, StepUpdated, Zenon
  <2> QED
    BY <1>1, <1>4, <2>1, Zenon DEF SetStep
<1>5. CASE ~Exists(req[a].id) /\ rows' = rows /\ End(a)
  <2>1. Others(a) /\ ~Exists(req[a].id) /\ rows' = rows /\ req'[a] = Done
    BY <1>5, <1>3, EndEffect, Zenon
  <2> QED
    BY <1>1, <2>1, Zenon
<1> QED
  BY <1>2, <1>4, <1>5

LEMMA SelectedStep ==
    ASSUME Typed, NEW a \in Admins, Selected(a)
    PROVE  /\ phase = "up" /\ req[a].pc = "selected" /\ Others(a)
           /\ \/ /\ memory.sys = req[a].id /\ req'[a].pc = "reapply" /\ req'[a].prior = memory
                 /\ SameTask(req'[a], req[a]) /\ SameRead(req'[a], req[a])
                 /\ req'[a].prev = req[a].prev /\ req'[a].url = req[a].url
                 /\ req'[a].was = req[a].was
              \/ /\ memory.sys # req[a].id /\ req'[a].pc = "list" /\ req'[a].prior = memory
                 /\ SameTask(req'[a], req[a]) /\ SameRead(req'[a], req[a])
                 /\ req'[a].prev = req[a].prev /\ req'[a].url = req[a].url
                 /\ req'[a].was = req[a].was
           /\ rows' = rows /\ accounts' = accounts /\ stored' = stored /\ memory' = memory
           /\ admission' = admission /\ runtime' = runtime
           /\ phase' = phase /\ boot' = boot /\ origin' = origin /\ faults' = faults
           /\ taints' = taints /\ stale' = stale
<1>1. /\ phase = "up" /\ req[a].pc = "selected"
      /\ rows' = rows /\ accounts' = accounts /\ stored' = stored /\ memory' = memory
      /\ admission' = admission /\ runtime' = runtime
      /\ phase' = phase /\ boot' = boot /\ origin' = origin /\ faults' = faults /\ taints' = taints /\ stale' = stale
  BY Zenon DEF Selected, At, database, process, start
<1>2. \/ memory.sys = req[a].id /\ req' = [req EXCEPT ![a] = [req[a] EXCEPT !.prior = memory, !.pc = "reapply"]]
      \/ memory.sys # req[a].id /\ req' = [req EXCEPT ![a] = [req[a] EXCEPT !.prior = memory, !.pc = "list"]]
  BY Zenon DEF Selected, At, database, process, start
<1>3. req \in [Admins -> Request] /\ req[a] \in Request /\ memory \in Valid /\ rows \in Rows /\ accounts \in Lists
  BY Zenon DEF Typed
<1>4. CASE memory.sys = req[a].id /\ req' = [req EXCEPT ![a] = [req[a] EXCEPT !.prior = memory, !.pc = "reapply"]]
  <2>1. memory \in Valid
    BY <1>3
  <2>2. Others(a) /\ SetPrior(req'[a], req[a], "reapply", memory)
    BY <1>3, <1>4, <2>1, StepNames, PriorUpdated, Zenon
  <2> QED
    BY <1>1, <1>4, <2>2, Zenon DEF SetPrior
<1>5. CASE memory.sys # req[a].id /\ req' = [req EXCEPT ![a] = [req[a] EXCEPT !.prior = memory, !.pc = "list"]]
  <2>1. memory \in Valid
    BY <1>3
  <2>2. Others(a) /\ SetPrior(req'[a], req[a], "list", memory)
    BY <1>3, <1>5, <2>1, StepNames, PriorUpdated, Zenon
  <2> QED
    BY <1>1, <1>5, <2>2, Zenon DEF SetPrior
<1> QED
  BY <1>2, <1>4, <1>5

LEMMA ReapplyStep ==
    ASSUME Typed, NEW a \in Admins, Reapply(a)
    PROVE  /\ phase = "up" /\ req[a].pc = "reapply" /\ Others(a)
           /\ runtime' = [runtime EXCEPT !.conf = memory, !.url = req[a].url]
           /\ req'[a].pc = "list" /\ SameTask(req'[a], req[a]) /\ SameUndo(req'[a], req[a])
           /\ SameRead(req'[a], req[a])
           /\ rows' = rows /\ accounts' = accounts /\ stored' = stored /\ memory' = memory
           /\ admission' = admission /\ phase' = phase
           /\ boot' = boot /\ origin' = origin /\ faults' = faults /\ taints' = taints /\ stale' = stale
<1>1. /\ phase = "up" /\ req[a].pc = "reapply"
      /\ runtime' = [runtime EXCEPT !.conf = memory, !.url = req[a].url]
      /\ rows' = rows /\ accounts' = accounts /\ stored' = stored /\ memory' = memory
      /\ admission' = admission /\ phase' = phase
      /\ boot' = boot /\ origin' = origin /\ faults' = faults /\ taints' = taints /\ stale' = stale
  BY Zenon DEF Reapply, At, database, process, start, Go, Configured
<1>2. req' = [req EXCEPT ![a] = [req[a] EXCEPT !.pc = "list"]]
  BY Zenon DEF Reapply, At, database, process, start, Go, Configured
<1>3. req \in [Admins -> Request] /\ req[a] \in Request /\ memory \in Valid /\ rows \in Rows /\ accounts \in Lists
  BY Zenon DEF Typed
<1>4. /\ Others(a) /\ req'[a].pc = "list" /\ SameTask(req'[a], req[a]) /\ SameUndo(req'[a], req[a])
      /\ SameRead(req'[a], req[a])
  <2>1. Others(a) /\ SetStep(req'[a], req[a], "list")
    BY <1>3, <1>2, StepNames, StepUpdated, Zenon
  <2> QED
    BY <1>2, <2>1, Zenon DEF SetStep
<1> QED
  BY <1>1, <1>4, Zenon

LEMMA ReapplyFailsStep ==
    ASSUME Typed, NEW a \in Admins, ReapplyFails(a)
    PROVE  /\ phase = "up" /\ req[a].pc = "reapply" /\ Others(a)
           /\ runtime' = [runtime EXCEPT !.conf = memory, !.url = req[a].url]
           /\ req'[a].pc = "restore" /\ SameTask(req'[a], req[a]) /\ SameUndo(req'[a], req[a])
           /\ SameRead(req'[a], req[a])
           /\ rows' = rows /\ accounts' = accounts /\ stored' = stored /\ memory' = memory
           /\ admission' = admission /\ phase' = phase
           /\ boot' = boot /\ origin' = origin /\ taints' = taints /\ stale' = stale
<1>1. /\ phase = "up" /\ req[a].pc = "reapply"
      /\ runtime' = [runtime EXCEPT !.conf = memory, !.url = req[a].url]
      /\ rows' = rows /\ accounts' = accounts /\ stored' = stored /\ memory' = memory
      /\ admission' = admission /\ phase' = phase
      /\ boot' = boot /\ origin' = origin /\ taints' = taints /\ stale' = stale
  BY Zenon DEF ReapplyFails, At, database, process, start, Go, Configured, Fault
<1>2. req' = [req EXCEPT ![a] = [req[a] EXCEPT !.pc = "restore"]]
  BY Zenon DEF ReapplyFails, At, database, process, start, Go, Configured, Fault
<1>3. req \in [Admins -> Request] /\ req[a] \in Request /\ memory \in Valid /\ rows \in Rows /\ accounts \in Lists
  BY Zenon DEF Typed
<1>4. /\ Others(a) /\ req'[a].pc = "restore" /\ SameTask(req'[a], req[a])
      /\ SameUndo(req'[a], req[a]) /\ SameRead(req'[a], req[a])
  <2>1. Others(a) /\ SetStep(req'[a], req[a], "restore")
    BY <1>3, <1>2, StepNames, StepUpdated, Zenon
  <2> QED
    BY <1>2, <2>1, Zenon DEF SetStep
<1> QED
  BY <1>1, <1>4, Zenon

LEMMA RestoreProxyStep ==
    ASSUME Typed, NEW a \in Admins, RestoreProxy(a)
    PROVE  /\ phase = "up" /\ req[a].pc = "restore" /\ req[a].op = "patch" /\ Others(a)
           /\ rows' = IF Exists(req[a].id) THEN [rows EXCEPT ![req[a].id] = req[a].was] ELSE rows
           /\ \/ /\ req[a].prior.sys = req[a].id /\ req'[a].pc = "unapply" /\ req'[a].back = TRUE
                 /\ SameTask(req'[a], req[a]) /\ SameUndo(req'[a], req[a])
                 /\ req'[a].list = req[a].list /\ req'[a].urls = req[a].urls
              \/ /\ req[a].prior.sys # req[a].id /\ req'[a].pc = "list" /\ req'[a].back = TRUE
                 /\ SameTask(req'[a], req[a]) /\ SameUndo(req'[a], req[a])
                 /\ req'[a].list = req[a].list /\ req'[a].urls = req[a].urls
           /\ accounts' = accounts /\ stored' = stored /\ memory' = memory /\ admission' = admission
           /\ runtime' = runtime /\ phase' = phase
           /\ boot' = boot /\ origin' = origin /\ faults' = faults /\ taints' = taints /\ stale' = stale
<1>1. /\ phase = "up" /\ req[a].pc = "restore" /\ req[a].op = "patch"
      /\ rows' = IF Exists(req[a].id) THEN [rows EXCEPT ![req[a].id] = req[a].was] ELSE rows
      /\ accounts' = accounts /\ stored' = stored /\ memory' = memory /\ admission' = admission
      /\ runtime' = runtime /\ phase' = phase
      /\ boot' = boot /\ origin' = origin /\ faults' = faults /\ taints' = taints /\ stale' = stale
  BY Zenon DEF RestoreProxy, At, database, process, start
<1>2. \/ req[a].prior.sys = req[a].id /\ req' = [req EXCEPT ![a] = [req[a] EXCEPT !.back = TRUE, !.pc = "unapply"]]
      \/ req[a].prior.sys # req[a].id /\ req' = [req EXCEPT ![a] = [req[a] EXCEPT !.back = TRUE, !.pc = "list"]]
  BY Zenon DEF RestoreProxy, At, database, process, start
<1>3. req \in [Admins -> Request] /\ req[a] \in Request /\ memory \in Valid /\ rows \in Rows /\ accounts \in Lists
  BY Zenon DEF Typed
<1>4. CASE req[a].prior.sys = req[a].id /\ req' = [req EXCEPT ![a] = [req[a] EXCEPT !.back = TRUE, !.pc = "unapply"]]
  <2>1. Others(a) /\ SetBack(req'[a], req[a], "unapply")
    BY <1>3, <1>4, StepNames, BackUpdated, Zenon
  <2> QED
    BY <1>1, <1>4, <2>1, Zenon DEF SetBack
<1>5. CASE req[a].prior.sys # req[a].id /\ req' = [req EXCEPT ![a] = [req[a] EXCEPT !.back = TRUE, !.pc = "list"]]
  <2>1. Others(a) /\ SetBack(req'[a], req[a], "list")
    BY <1>3, <1>5, StepNames, BackUpdated, Zenon
  <2> QED
    BY <1>1, <1>5, <2>1, Zenon DEF SetBack
<1> QED
  BY <1>2, <1>4, <1>5

LEMMA UnapplyStep ==
    ASSUME Typed, NEW a \in Admins, Unapply(a)
    PROVE  /\ phase = "up" /\ req[a].pc = "unapply" /\ Others(a)
           /\ runtime' = [runtime EXCEPT !.conf = memory, !.url = req[a].was]
           /\ req'[a].pc = "list" /\ SameTask(req'[a], req[a]) /\ SameUndo(req'[a], req[a])
           /\ SameRead(req'[a], req[a])
           /\ rows' = rows /\ accounts' = accounts /\ stored' = stored /\ memory' = memory
           /\ admission' = admission /\ phase' = phase
           /\ boot' = boot /\ origin' = origin /\ faults' = faults /\ taints' = taints /\ stale' = stale
<1>1. /\ phase = "up" /\ req[a].pc = "unapply"
      /\ runtime' = [runtime EXCEPT !.conf = memory, !.url = req[a].was]
      /\ rows' = rows /\ accounts' = accounts /\ stored' = stored /\ memory' = memory
      /\ admission' = admission /\ phase' = phase
      /\ boot' = boot /\ origin' = origin /\ faults' = faults /\ taints' = taints /\ stale' = stale
  BY Zenon DEF Unapply, At, database, process, start, Go, Configured
<1>2. req' = [req EXCEPT ![a] = [req[a] EXCEPT !.pc = "list"]]
  BY Zenon DEF Unapply, At, database, process, start, Go, Configured
<1>3. req \in [Admins -> Request] /\ req[a] \in Request /\ memory \in Valid /\ rows \in Rows /\ accounts \in Lists
  BY Zenon DEF Typed
<1>4. /\ Others(a) /\ req'[a].pc = "list" /\ SameTask(req'[a], req[a]) /\ SameUndo(req'[a], req[a])
      /\ SameRead(req'[a], req[a])
  <2>1. Others(a) /\ SetStep(req'[a], req[a], "list")
    BY <1>3, <1>2, StepNames, StepUpdated, Zenon
  <2> QED
    BY <1>2, <2>1, Zenon DEF SetStep
<1> QED
  BY <1>1, <1>4, Zenon

LEMMA CountOutboundProxyReferencesStep ==
    ASSUME Typed, NEW a \in Admins, CountOutboundProxyReferences(a)
    PROVE  /\ phase = "up" /\ req[a].pc = "count" /\ Others(a)
           /\ \/ /\ ~Referenced(req[a].id) /\ req'[a].pc = "remove" /\ SameTask(req'[a], req[a])
                 /\ SameUndo(req'[a], req[a]) /\ SameRead(req'[a], req[a])
              \/ Referenced(req[a].id) /\ req'[a] = Done
           /\ rows' = rows /\ accounts' = accounts /\ stored' = stored /\ memory' = memory
           /\ admission' = admission /\ runtime' = runtime
           /\ phase' = phase /\ boot' = boot /\ origin' = origin /\ faults' = faults
           /\ taints' = taints /\ stale' = stale
<1>1. /\ phase = "up" /\ req[a].pc = "count"
      /\ rows' = rows /\ accounts' = accounts /\ stored' = stored /\ memory' = memory
      /\ admission' = admission /\ runtime' = runtime
      /\ phase' = phase /\ boot' = boot /\ origin' = origin /\ faults' = faults /\ taints' = taints /\ stale' = stale
  BY Zenon DEF CountOutboundProxyReferences, At, database, process, start, Go
<1>2. \/ ~Referenced(req[a].id) /\ req' = [req EXCEPT ![a] = [req[a] EXCEPT !.pc = "remove"]]
      \/ Referenced(req[a].id) /\ End(a)
  BY Zenon DEF CountOutboundProxyReferences, At, database, process, start, Go
<1>3. req \in [Admins -> Request] /\ req[a] \in Request /\ memory \in Valid /\ rows \in Rows /\ accounts \in Lists
  BY Zenon DEF Typed
<1>4. CASE ~Referenced(req[a].id) /\ req' = [req EXCEPT ![a] = [req[a] EXCEPT !.pc = "remove"]]
  <2>1. Others(a) /\ SetStep(req'[a], req[a], "remove")
    BY <1>3, <1>4, StepNames, StepUpdated, Zenon
  <2> QED
    BY <1>1, <1>4, <2>1, Zenon DEF SetStep
<1>5. CASE Referenced(req[a].id) /\ End(a)
  <2>1. Others(a) /\ Referenced(req[a].id) /\ req'[a] = Done
    BY <1>5, <1>3, EndEffect, Zenon
  <2> QED
    BY <1>1, <2>1, Zenon
<1> QED
  BY <1>2, <1>4, <1>5

LEMMA DeleteOutboundProxyStep ==
    ASSUME Typed, NEW a \in Admins, DeleteOutboundProxy(a)
    PROVE  /\ phase = "up" /\ req[a].pc = "remove" /\ Others(a)
           /\ rows' = IF Referenced(req[a].id) THEN rows ELSE [rows EXCEPT ![req[a].id] = NoProxy]
           /\ req'[a] = Done
           /\ accounts' = accounts /\ stored' = stored /\ memory' = memory /\ admission' = admission
           /\ runtime' = runtime /\ phase' = phase
           /\ boot' = boot /\ origin' = origin /\ faults' = faults /\ taints' = taints /\ stale' = stale
<1>1. /\ phase = "up" /\ req[a].pc = "remove"
      /\ rows' = IF Referenced(req[a].id) THEN rows ELSE [rows EXCEPT ![req[a].id] = NoProxy]
      /\ accounts' = accounts /\ stored' = stored /\ memory' = memory /\ admission' = admission
      /\ runtime' = runtime /\ phase' = phase
      /\ boot' = boot /\ origin' = origin /\ faults' = faults /\ taints' = taints /\ stale' = stale
  BY Zenon DEF DeleteOutboundProxy, At, database, process, start
<1>2. End(a)
  BY Zenon DEF DeleteOutboundProxy, At, database, process, start
<1>3. req \in [Admins -> Request] /\ req[a] \in Request /\ memory \in Valid /\ rows \in Rows /\ accounts \in Lists
  BY Zenon DEF Typed
<1>4. Others(a) /\ req'[a] = Done
  BY <1>2, <1>3, EndEffect, Zenon
<1> QED
  BY <1>1, <1>4, Zenon

LEMMA SaveAccountStep ==
    ASSUME Typed, NEW a \in Admins, SaveAccount(a)
    PROVE  /\ phase = "up" /\ req[a].pc = "save" /\ Others(a)
           /\ \/ /\ Exists(req[a].to)
                 /\ accounts' = [accounts EXCEPT ![req[a].id] = [@ EXCEPT !.proxy = req[a].to]]
                 /\ req'[a].pc = "list" /\ SameTask(req'[a], req[a]) /\ SameUndo(req'[a], req[a])
                 /\ SameRead(req'[a], req[a])
              \/ ~Exists(req[a].to) /\ accounts' = accounts /\ req'[a] = Done
           /\ rows' = rows /\ stored' = stored /\ memory' = memory /\ admission' = admission
           /\ runtime' = runtime /\ phase' = phase
           /\ boot' = boot /\ origin' = origin /\ faults' = faults /\ taints' = taints /\ stale' = stale
<1>1. /\ phase = "up" /\ req[a].pc = "save"
      /\ rows' = rows /\ stored' = stored /\ memory' = memory /\ admission' = admission
      /\ runtime' = runtime /\ phase' = phase
      /\ boot' = boot /\ origin' = origin /\ faults' = faults /\ taints' = taints /\ stale' = stale
  BY Zenon DEF SaveAccount, At, database, process, start, Go, Assigned
<1>2. \/ /\ Exists(req[a].to)
         /\ accounts' = [accounts EXCEPT ![req[a].id] = [@ EXCEPT !.proxy = req[a].to]]
         /\ req' = [req EXCEPT ![a] = [req[a] EXCEPT !.pc = "list"]]
      \/ ~Exists(req[a].to) /\ accounts' = accounts /\ End(a)
  BY Zenon DEF SaveAccount, At, database, process, start, Go, Assigned
<1>3. req \in [Admins -> Request] /\ req[a] \in Request /\ memory \in Valid /\ rows \in Rows /\ accounts \in Lists
  BY Zenon DEF Typed
<1>4. CASE /\ Exists(req[a].to)
           /\ accounts' = [accounts EXCEPT ![req[a].id] = [@ EXCEPT !.proxy = req[a].to]]
           /\ req' = [req EXCEPT ![a] = [req[a] EXCEPT !.pc = "list"]]
  <2>1. Others(a) /\ SetStep(req'[a], req[a], "list")
    BY <1>3, <1>4, StepNames, StepUpdated, Zenon
  <2> QED
    BY <1>1, <1>4, <2>1, Zenon DEF SetStep
<1>5. CASE ~Exists(req[a].to) /\ accounts' = accounts /\ End(a)
  <2>1. Others(a) /\ ~Exists(req[a].to) /\ accounts' = accounts /\ req'[a] = Done
    BY <1>5, <1>3, EndEffect, Zenon
  <2> QED
    BY <1>1, <2>1, Zenon
<1> QED
  BY <1>2, <1>4, <1>5

LEMMA RestoreAccountStep ==
    ASSUME Typed, NEW a \in Admins, RestoreAccount(a)
    PROVE  /\ phase = "up" /\ req[a].pc = "restore" /\ req[a].op = "assign" /\ Others(a)
           /\ accounts' = IF Exists(req[a].from) THEN [accounts EXCEPT ![req[a].id] = [@ EXCEPT !.proxy = req[a].from]] ELSE accounts
           /\ req'[a].pc = "list" /\ req'[a].back = TRUE /\ SameTask(req'[a], req[a])
           /\ SameUndo(req'[a], req[a]) /\ req'[a].list = req[a].list /\ req'[a].urls = req[a].urls
           /\ rows' = rows /\ stored' = stored /\ memory' = memory /\ admission' = admission
           /\ runtime' = runtime /\ phase' = phase
           /\ boot' = boot /\ origin' = origin /\ faults' = faults /\ taints' = taints /\ stale' = stale
<1>1. /\ phase = "up" /\ req[a].pc = "restore" /\ req[a].op = "assign"
      /\ accounts' = IF Exists(req[a].from) THEN [accounts EXCEPT ![req[a].id] = [@ EXCEPT !.proxy = req[a].from]] ELSE accounts
      /\ rows' = rows /\ stored' = stored /\ memory' = memory /\ admission' = admission
      /\ runtime' = runtime /\ phase' = phase
      /\ boot' = boot /\ origin' = origin /\ faults' = faults /\ taints' = taints /\ stale' = stale
  BY Zenon DEF RestoreAccount, At, database, process, start, Assigned
<1>2. req' = [req EXCEPT ![a] = [req[a] EXCEPT !.back = TRUE, !.pc = "list"]]
  BY Zenon DEF RestoreAccount, At, database, process, start, Assigned
<1>3. req \in [Admins -> Request] /\ req[a] \in Request /\ memory \in Valid /\ rows \in Rows /\ accounts \in Lists
  BY Zenon DEF Typed
<1>4. /\ Others(a) /\ req'[a].pc = "list" /\ req'[a].back = TRUE /\ SameTask(req'[a], req[a])
      /\ SameUndo(req'[a], req[a]) /\ req'[a].list = req[a].list /\ req'[a].urls = req[a].urls
  <2>1. Others(a) /\ SetBack(req'[a], req[a], "list")
    BY <1>3, <1>2, StepNames, BackUpdated, Zenon
  <2> QED
    BY <1>2, <2>1, Zenon DEF SetBack
<1> QED
  BY <1>1, <1>4, Zenon

LEMMA ListUpstreamCredentialsStep ==
    ASSUME Typed, NEW a \in Admins, ListUpstreamCredentials(a)
    PROVE  /\ phase = "up" /\ req[a].pc = "list" /\ Others(a)
           /\ req'[a].pc = "urls" /\ req'[a].list = accounts /\ SameTask(req'[a], req[a])
           /\ SameUndo(req'[a], req[a]) /\ req'[a].urls = req[a].urls /\ req'[a].back = req[a].back
           /\ rows' = rows /\ accounts' = accounts /\ stored' = stored /\ memory' = memory
           /\ admission' = admission /\ runtime' = runtime
           /\ phase' = phase /\ boot' = boot /\ origin' = origin /\ faults' = faults
           /\ taints' = taints /\ stale' = stale
<1>1. /\ phase = "up" /\ req[a].pc = "list"
      /\ rows' = rows /\ accounts' = accounts /\ stored' = stored /\ memory' = memory
      /\ admission' = admission /\ runtime' = runtime
      /\ phase' = phase /\ boot' = boot /\ origin' = origin /\ faults' = faults /\ taints' = taints /\ stale' = stale
  BY Zenon DEF ListUpstreamCredentials, At, database, process, start
<1>2. req' = [req EXCEPT ![a] = [req[a] EXCEPT !.pc = "urls", !.list = accounts]]
  BY Zenon DEF ListUpstreamCredentials, At, database, process, start
<1>3. req \in [Admins -> Request] /\ req[a] \in Request /\ memory \in Valid /\ rows \in Rows /\ accounts \in Lists
  BY Zenon DEF Typed
<1>4. /\ Others(a) /\ req'[a].pc = "urls" /\ req'[a].list = accounts /\ SameTask(req'[a], req[a])
      /\ SameUndo(req'[a], req[a]) /\ req'[a].urls = req[a].urls /\ req'[a].back = req[a].back
  <2>1. accounts \in Lists
    BY <1>3
  <2>2. Others(a) /\ SetList(req'[a], req[a], "urls", accounts)
    BY <1>3, <1>2, <2>1, StepNames, ListUpdated, Zenon
  <2> QED
    BY <1>2, <2>2, Zenon DEF SetList
<1> QED
  BY <1>1, <1>4, Zenon

LEMMA ListOutboundProxiesStep ==
    ASSUME Typed, NEW a \in Admins, ListOutboundProxies(a)
    PROVE  /\ phase = "up" /\ req[a].pc = "urls" /\ Others(a)
           /\ req'[a].pc = "replace" /\ req'[a].urls = rows /\ SameTask(req'[a], req[a])
           /\ SameUndo(req'[a], req[a]) /\ req'[a].list = req[a].list /\ req'[a].back = req[a].back
           /\ rows' = rows /\ accounts' = accounts /\ stored' = stored /\ memory' = memory
           /\ admission' = admission /\ runtime' = runtime
           /\ phase' = phase /\ boot' = boot /\ origin' = origin /\ faults' = faults
           /\ taints' = taints /\ stale' = stale
<1>1. /\ phase = "up" /\ req[a].pc = "urls"
      /\ rows' = rows /\ accounts' = accounts /\ stored' = stored /\ memory' = memory
      /\ admission' = admission /\ runtime' = runtime
      /\ phase' = phase /\ boot' = boot /\ origin' = origin /\ faults' = faults /\ taints' = taints /\ stale' = stale
  BY Zenon DEF ListOutboundProxies, At, database, process, start
<1>2. req' = [req EXCEPT ![a] = [req[a] EXCEPT !.pc = "replace", !.urls = rows]]
  BY Zenon DEF ListOutboundProxies, At, database, process, start
<1>3. req \in [Admins -> Request] /\ req[a] \in Request /\ memory \in Valid /\ rows \in Rows /\ accounts \in Lists
  BY Zenon DEF Typed
<1>4. /\ Others(a) /\ req'[a].pc = "replace" /\ req'[a].urls = rows /\ SameTask(req'[a], req[a])
      /\ SameUndo(req'[a], req[a]) /\ req'[a].list = req[a].list /\ req'[a].back = req[a].back
  <2>1. rows \in Rows
    BY <1>3
  <2>2. Others(a) /\ SetUrls(req'[a], req[a], "replace", rows)
    BY <1>3, <1>2, <2>1, StepNames, UrlsUpdated, Zenon
  <2> QED
    BY <1>2, <2>2, Zenon DEF SetUrls
<1> QED
  BY <1>1, <1>4, Zenon

LEMMA ReplaceCredentialsStep ==
    ASSUME Typed, NEW a \in Admins, ReplaceCredentials(a)
    PROVE  /\ phase = "up" /\ req[a].pc = "replace" /\ Others(a)
           /\ runtime' = [runtime EXCEPT !.creds = runtimeCredentials(req[a].list, req[a].urls, memory.ws)]
           /\ stale' = (req[a].list # accounts \/ req[a].urls # rows)
           /\ req'[a] = Done
           /\ rows' = rows /\ accounts' = accounts /\ stored' = stored /\ memory' = memory
           /\ admission' = admission /\ phase' = phase
           /\ boot' = boot /\ origin' = origin /\ faults' = faults /\ taints' = taints
<1>1. /\ phase = "up" /\ req[a].pc = "replace"
      /\ runtime' = [runtime EXCEPT !.creds = runtimeCredentials(req[a].list, req[a].urls, memory.ws)]
      /\ stale' = (req[a].list # accounts \/ req[a].urls # rows)
      /\ rows' = rows /\ accounts' = accounts /\ stored' = stored /\ memory' = memory
      /\ admission' = admission /\ phase' = phase
      /\ boot' = boot /\ origin' = origin /\ faults' = faults /\ taints' = taints
  BY Zenon DEF ReplaceCredentials, At, database, process, start
<1>2. End(a)
  BY Zenon DEF ReplaceCredentials, At, database, process, start
<1>3. req \in [Admins -> Request] /\ req[a] \in Request /\ memory \in Valid /\ rows \in Rows /\ accounts \in Lists
  BY Zenon DEF Typed
<1>4. Others(a) /\ req'[a] = Done
  BY <1>2, <1>3, EndEffect, Zenon
<1> QED
  BY <1>1, <1>4, Zenon

LEMMA ReloadFailsStep ==
    ASSUME Typed, NEW a \in Admins, ReloadFails(a)
    PROVE  /\ phase = "up" /\ req[a].pc = "replace" /\ Others(a)
           /\ \/ (req[a].back \/ req[a].op = "catalog") /\ taints' = taints \cup {{"reload"}} /\ req'[a] = Done
              \/ /\ ~req[a].back /\ req[a].op # "catalog" /\ req[a].op = "put" /\ taints' = taints
                 /\ req'[a].pc = "undo runtime" /\ req'[a].list = NoList /\ req'[a].urls = NoRows
                 /\ SameTask(req'[a], req[a]) /\ SameUndo(req'[a], req[a])
                 /\ req'[a].back = req[a].back
              \/ /\ ~req[a].back /\ req[a].op # "catalog" /\ req[a].op # "put" /\ taints' = taints
                 /\ req'[a].pc = "restore" /\ req'[a].list = NoList /\ req'[a].urls = NoRows
                 /\ SameTask(req'[a], req[a]) /\ SameUndo(req'[a], req[a])
                 /\ req'[a].back = req[a].back
           /\ rows' = rows /\ accounts' = accounts /\ stored' = stored /\ memory' = memory
           /\ admission' = admission /\ runtime' = runtime
           /\ phase' = phase /\ boot' = boot /\ origin' = origin /\ stale' = stale
<1>1. /\ phase = "up" /\ req[a].pc = "replace"
      /\ rows' = rows /\ accounts' = accounts /\ stored' = stored /\ memory' = memory
      /\ admission' = admission /\ runtime' = runtime
      /\ phase' = phase /\ boot' = boot /\ origin' = origin /\ stale' = stale
  BY Zenon DEF ReloadFails, At, database, process, start, Fault, Taint
<1>2. \/ (req[a].back \/ req[a].op = "catalog") /\ taints' = taints \cup {{"reload"}} /\ End(a)
      \/ /\ ~req[a].back /\ req[a].op # "catalog" /\ req[a].op = "put" /\ taints' = taints
         /\ req' = [req EXCEPT ![a] = [req[a] EXCEPT !.pc = "undo runtime", !.list = NoList, !.urls = NoRows]]
      \/ /\ ~req[a].back /\ req[a].op # "catalog" /\ req[a].op # "put" /\ taints' = taints
         /\ req' = [req EXCEPT ![a] = [req[a] EXCEPT !.pc = "restore", !.list = NoList, !.urls = NoRows]]
  BY Zenon DEF ReloadFails, At, database, process, start, Fault, Taint
<1>3. req \in [Admins -> Request] /\ req[a] \in Request /\ memory \in Valid /\ rows \in Rows /\ accounts \in Lists
  BY Zenon DEF Typed
<1>4. CASE (req[a].back \/ req[a].op = "catalog") /\ taints' = taints \cup {{"reload"}} /\ End(a)
  <2>1. Others(a) /\ (req[a].back \/ req[a].op = "catalog") /\ taints' = taints \cup {{"reload"}} /\ req'[a] = Done
    BY <1>4, <1>3, EndEffect, Zenon
  <2> QED
    BY <1>1, <2>1, Zenon
<1>5. CASE /\ ~req[a].back /\ req[a].op # "catalog" /\ req[a].op = "put" /\ taints' = taints
           /\ req' = [req EXCEPT ![a] = [req[a] EXCEPT !.pc = "undo runtime", !.list = NoList, !.urls = NoRows]]
  <2>1. NoList \in Lists
    BY NoListType
  <2>2. NoRows \in Rows
    BY NoRowsType
  <2>3. Others(a) /\ SetRead(req'[a], req[a], "undo runtime", NoList, NoRows)
    BY <1>3, <1>5, <2>1, <2>2, StepNames, ReadUpdated, Zenon
  <2> QED
    BY <1>1, <1>5, <2>3, Zenon DEF SetRead
<1>6. CASE /\ ~req[a].back /\ req[a].op # "catalog" /\ req[a].op # "put" /\ taints' = taints
           /\ req' = [req EXCEPT ![a] = [req[a] EXCEPT !.pc = "restore", !.list = NoList, !.urls = NoRows]]
  <2>1. NoList \in Lists
    BY NoListType
  <2>2. NoRows \in Rows
    BY NoRowsType
  <2>3. Others(a) /\ SetRead(req'[a], req[a], "restore", NoList, NoRows)
    BY <1>3, <1>6, <2>1, <2>2, StepNames, ReadUpdated, Zenon
  <2> QED
    BY <1>1, <1>6, <2>3, Zenon DEF SetRead
<1> QED
  BY <1>2, <1>4, <1>5, <1>6

LEMMA UndoFailsStep ==
    ASSUME Typed, NEW a \in Admins, UndoFails(a)
    PROVE  /\ phase = "up" /\ req[a].pc \in {"restore", "undo runtime", "unapply"} /\ Others(a)
           /\ taints' = taints \cup {{"undo"}}
           /\ \/ req[a].pc = "restore" /\ req[a].op = "put" /\ req'[a] = Done
              \/ /\ req[a].pc = "undo runtime" /\ req'[a].pc = "undo memory" /\ req'[a].back = TRUE
                 /\ SameTask(req'[a], req[a]) /\ SameUndo(req'[a], req[a])
                 /\ req'[a].list = req[a].list /\ req'[a].urls = req[a].urls
              \/ ~(req[a].pc = "restore" /\ req[a].op = "put") /\ req[a].pc # "undo runtime" /\ req'[a].pc = "list" /\ req'[a].back = TRUE /\ SameTask(req'[a], req[a]) /\ SameUndo(req'[a], req[a]) /\ req'[a].list = req[a].list /\ req'[a].urls = req[a].urls
           /\ rows' = rows /\ accounts' = accounts /\ stored' = stored /\ memory' = memory
           /\ admission' = admission /\ runtime' = runtime
           /\ phase' = phase /\ boot' = boot /\ origin' = origin /\ stale' = stale
<1>1. /\ phase = "up" /\ req[a].pc \in {"restore", "undo runtime", "unapply"}
      /\ taints' = taints \cup {{"undo"}}
      /\ rows' = rows /\ accounts' = accounts /\ stored' = stored /\ memory' = memory
      /\ admission' = admission /\ runtime' = runtime
      /\ phase' = phase /\ boot' = boot /\ origin' = origin /\ stale' = stale
  BY Zenon DEF UndoFails, At, database, process, start, Fault, Taint
<1>2. \/ req[a].pc = "restore" /\ req[a].op = "put" /\ End(a)
      \/ req[a].pc = "undo runtime" /\ req' = [req EXCEPT ![a] = [req[a] EXCEPT !.back = TRUE, !.pc = "undo memory"]]
      \/ ~(req[a].pc = "restore" /\ req[a].op = "put") /\ req[a].pc # "undo runtime" /\ req' = [req EXCEPT ![a] = [req[a] EXCEPT !.back = TRUE, !.pc = "list"]]
  BY Zenon DEF UndoFails, At, database, process, start, Fault, Taint
<1>3. req \in [Admins -> Request] /\ req[a] \in Request /\ memory \in Valid /\ rows \in Rows /\ accounts \in Lists
  BY Zenon DEF Typed
<1>4. CASE req[a].pc = "restore" /\ req[a].op = "put" /\ End(a)
  <2>1. Others(a) /\ req[a].pc = "restore" /\ req[a].op = "put" /\ req'[a] = Done
    BY <1>4, <1>3, EndEffect, Zenon
  <2> QED
    BY <1>1, <2>1, Zenon
<1>5. CASE /\ req[a].pc = "undo runtime"
           /\ req' = [req EXCEPT ![a] = [req[a] EXCEPT !.back = TRUE, !.pc = "undo memory"]]
  <2>1. Others(a) /\ SetBack(req'[a], req[a], "undo memory")
    BY <1>3, <1>5, StepNames, BackUpdated, Zenon
  <2> QED
    BY <1>1, <1>5, <2>1, Zenon DEF SetBack
<1>6. CASE ~(req[a].pc = "restore" /\ req[a].op = "put") /\ req[a].pc # "undo runtime" /\ req' = [req EXCEPT ![a] = [req[a] EXCEPT !.back = TRUE, !.pc = "list"]]
  <2>1. Others(a) /\ SetBack(req'[a], req[a], "list")
    BY <1>3, <1>6, StepNames, BackUpdated, Zenon
  <2> QED
    BY <1>1, <1>6, <2>1, Zenon DEF SetBack
<1> QED
  BY <1>2, <1>4, <1>5, <1>6

-----------------------------------------------------------------------------
(* How a request begins *)

LEMMA BeginFacts ==
    ASSUME NEW a \in Admins, NEW q, Begin(a, q)
    PROVE  /\ phase = "up" /\ req[a].pc = "new" /\ q \in origin.requests
           /\ taints \subseteq taints'
           /\ \A b \in Admins : ~Idle(b) => {q.op, req[b].op} \in taints'
           /\ memory' = memory /\ admission' = admission /\ runtime' = runtime
           /\ phase' = phase /\ boot' = boot /\ origin' = origin /\ faults' = faults /\ stale' = stale
<1>1. /\ phase = "up" /\ req[a].pc = "new" /\ q \in origin.requests
      /\ memory' = memory /\ admission' = admission /\ runtime' = runtime
      /\ phase' = phase /\ boot' = boot /\ origin' = origin /\ faults' = faults /\ stale' = stale
  BY Zenon DEF Begin, At, process, start
<1>2. taints' = taints \cup {{q.op, req[b].op} : b \in {b \in Admins : ~Idle(b)}}
  BY Zenon DEF Begin
<1>3. \A b \in Admins : ~Idle(b) => {q.op, req[b].op} \in taints'
  BY <1>2
<1> QED
  BY <1>1, <1>2, <1>3

LEMMA AskedFacts ==
    ASSUME Typed, NEW q \in origin.requests
    PROVE  Askable(q)
BY HistoriesAssumption, Zenon DEF Typed

\* A request at its first step.
Fresh(r, op, pc) == r \in Request /\ r.op = op /\ r.pc = pc /\ r.back = FALSE

LEMMA adminNativeSettingsStep ==
    ASSUME Typed, NEW a \in Admins, NEW q, adminNativeSettings(a, q)
    PROVE  /\ Begin(a, q) /\ q.op = "put" /\ Others(a)
           /\ req'[a] = Done \/ Fresh(req'[a], "put", "system")
           /\ rows' = rows /\ accounts' = accounts /\ stored' = stored
<1>1. Begin(a, q) /\ q.op = "put" /\ rows' = rows /\ accounts' = accounts /\ stored' = stored
  BY Zenon DEF adminNativeSettings, database
<1>2. PICK input : input = Over(q.patch, memory)
  OBVIOUS
<1>3. \/ validateNativeRuntimeSettings(input)
           /\ req' = [req EXCEPT ![a] = [NoReq EXCEPT !.op = "put", !.pc = "system", !.set = input]]
      \/ End(a)
  BY <1>2, Zenon DEF adminNativeSettings
<1>4. req \in [Admins -> Request] /\ memory \in Valid
  BY Zenon DEF Typed
<1>5. CASE End(a)
  BY <1>1, <1>4, <1>5, EndEffect
<1>6. CASE /\ validateNativeRuntimeSettings(input)
           /\ req' = [req EXCEPT ![a] = [NoReq EXCEPT !.op = "put", !.pc = "system", !.set = input]]
  <2>1. q \in origin.requests
    BY <1>1, BeginFacts
  <2>2. Over(q.patch, Defaults) \in Settings
    BY <2>1, <1>1, AskedFacts DEF Askable
  <2>3. memory \in Settings
    BY <1>4, ValidIsSettings
  <2>4. input \in Settings
    BY <2>2, <2>3, <1>2, OverTypes, Zenon
  <2>5. input \in Valid
    BY <2>4, <1>6, Zenon DEF Valid
  <2>6. "put" \in Ops /\ "system" \in Steps
    BY DEF Ops, Steps, PutSteps
  <2>7. PICK r : r = [NoReq EXCEPT !.op = "put", !.pc = "system", !.set = input]
    OBVIOUS
  <2>8. r \in Request
    BY <2>5, <2>6, <2>7, NoReqType, Zenon DEF Request
  <2>9. Fresh(r, "put", "system")
    BY <2>7, <2>8 DEF NoReq, Fresh
  <2>10. Others(a) /\ req'[a] = r
    BY <2>7, <2>8, <1>4, <1>6, ReqUpdated
  <2> QED
    BY <2>9, <2>10, <1>1, Zenon
<1> QED
  BY <1>3, <1>5, <1>6

LEMMA CreateOutboundProxyStep ==
    ASSUME Typed, NEW a \in Admins, NEW q, CreateOutboundProxy(a, q)
    PROVE  /\ Begin(a, q) /\ q.op = "create" /\ Others(a) /\ req'[a] = Done
           /\ \E p \in Proxies : rows[p] = NoProxy /\ rows' = [rows EXCEPT ![p] = q.to]
           /\ q.to \in Urls /\ accounts' = accounts /\ stored' = stored
<1>1. /\ Begin(a, q) /\ q.op = "create" /\ End(a) /\ accounts' = accounts /\ stored' = stored
      /\ \E p \in Proxies : rows[p] = NoProxy /\ rows' = [rows EXCEPT ![p] = q.to]
  BY Zenon DEF CreateOutboundProxy
<1>2. q \in origin.requests /\ req \in [Admins -> Request]
  BY <1>1, BeginFacts DEF Typed
<1>3. q.to \in Urls
  BY <1>1, <1>2, AskedFacts DEF Askable
<1> QED
  BY <1>1, <1>2, <1>3, EndEffect

LEMMA adminProxyStep ==
    ASSUME Typed, NEW a \in Admins, NEW q, adminProxy(a, q)
    PROVE  /\ Begin(a, q) /\ q.op = "patch" /\ Others(a)
           /\ \/ req'[a] = Done
              \/ /\ Fresh(req'[a], "patch", "update") /\ req'[a].id \in Proxies
                 /\ req'[a].url \in Urls /\ req'[a].was \in Urls
           /\ rows' = rows /\ accounts' = accounts /\ stored' = stored
<1>1. Begin(a, q) /\ q.op = "patch" /\ rows' = rows /\ accounts' = accounts /\ stored' = stored
  BY Zenon DEF adminProxy, database
<1>2. \/ /\ Exists(q.id)
         /\ req' = [req EXCEPT ![a] = [NoReq EXCEPT !.op = "patch", !.pc = "update", !.id = q.id,
                                                    !.url = q.to, !.was = rows[q.id]]]
      \/ End(a)
  BY Zenon DEF adminProxy
<1>3. req \in [Admins -> Request] /\ rows \in Rows
  BY Zenon DEF Typed
<1>4. CASE End(a)
  BY <1>1, <1>3, <1>4, EndEffect
<1>5. CASE /\ Exists(q.id)
           /\ req' = [req EXCEPT ![a] = [NoReq EXCEPT !.op = "patch", !.pc = "update", !.id = q.id,
                                                      !.url = q.to, !.was = rows[q.id]]]
  <2>1. q \in origin.requests
    BY <1>1, BeginFacts
  <2>2. q.id \in Proxies /\ q.to \in Urls
    BY <2>1, <1>1, AskedFacts DEF Askable
  <2>3. rows[q.id] \in Urls
    BY <2>2, <1>3, <1>5 DEF Exists, Present, Rows
  <2>4. PICK i, t, w : i = q.id /\ t = q.to /\ w = rows[q.id]
    OBVIOUS
  <2>5. /\ "patch" \in Ops /\ "update" \in Steps
        /\ i \in Proxies /\ i \in Proxies \cup Accounts \cup {NoProxy} /\ t \in Urls /\ w \in Urls
        /\ t \in Routes /\ w \in Routes
    BY <2>2, <2>3, <2>4 DEF Ops, Steps, PatchSteps, Routes
  <2>6. PICK r : r = [NoReq EXCEPT !.op = "patch", !.pc = "update", !.id = i, !.url = t, !.was = w]
    OBVIOUS
  <2>7. r \in Request
    BY <2>5, <2>6, NoReqType, Zenon DEF Request
  <2>8. Fresh(r, "patch", "update") /\ r.id = i /\ r.url = t /\ r.was = w
    BY <2>6, <2>7 DEF NoReq, Fresh
  <2>9. req' = [req EXCEPT ![a] = r]
    BY <2>4, <2>6, <1>5, Zenon
  <2>10. Others(a) /\ req'[a] = r
    BY <2>7, <2>9, <1>3, ReqUpdated
  <2> QED
    BY <2>5, <2>8, <2>10, <1>1, Zenon
<1> QED
  BY <1>2, <1>4, <1>5

LEMMA adminProxyDeleteStep ==
    ASSUME Typed, NEW a \in Admins, NEW q, adminProxyDelete(a, q)
    PROVE  /\ Begin(a, q) /\ q.op = "delete" /\ Others(a)
           /\ \/ req'[a] = Done
              \/ /\ Fresh(req'[a], "delete", "count") /\ req'[a].id \in Proxies
                 /\ req'[a].id # memory.sys /\ req'[a].id # githubSelectedProxyID(memory)
           /\ rows' = rows /\ accounts' = accounts /\ stored' = stored
<1>1. Begin(a, q) /\ q.op = "delete" /\ rows' = rows /\ accounts' = accounts /\ stored' = stored
  BY Zenon DEF adminProxyDelete, database
<1>2. \/ End(a)
      \/ /\ q.id \notin {memory.sys, githubSelectedProxyID(memory)}
         /\ req' = [req EXCEPT ![a] = [NoReq EXCEPT !.op = "delete", !.pc = "count", !.id = q.id]]
  BY Zenon DEF adminProxyDelete
<1>3. req \in [Admins -> Request]
  BY Zenon DEF Typed
<1>4. CASE End(a)
  BY <1>1, <1>3, <1>4, EndEffect
<1>5. CASE /\ q.id \notin {memory.sys, githubSelectedProxyID(memory)}
           /\ req' = [req EXCEPT ![a] = [NoReq EXCEPT !.op = "delete", !.pc = "count", !.id = q.id]]
  <2>1. q \in origin.requests
    BY <1>1, BeginFacts
  <2>2. q.id \in Proxies
    BY <2>1, <1>1, AskedFacts DEF Askable
  <2>3. PICK i : i = q.id
    OBVIOUS
  <2>4. /\ "delete" \in Ops /\ "count" \in Steps
        /\ i \in Proxies /\ i \in Proxies \cup Accounts \cup {NoProxy}
    BY <2>2, <2>3 DEF Ops, Steps
  <2>5. PICK r : r = [NoReq EXCEPT !.op = "delete", !.pc = "count", !.id = i]
    OBVIOUS
  <2>6. r \in Request
    BY <2>4, <2>5, NoReqType, Zenon DEF Request
  <2>7. Fresh(r, "delete", "count") /\ r.id = i
    BY <2>5, <2>6 DEF NoReq, Fresh
  <2>8. req' = [req EXCEPT ![a] = r]
    BY <2>3, <2>5, <1>5, Zenon
  <2>9. Others(a) /\ req'[a] = r
    BY <2>6, <2>8, <1>3, ReqUpdated
  <2>10. i # memory.sys /\ i # githubSelectedProxyID(memory)
    BY <2>3, <1>5
  <2> QED
    BY <2>4, <2>7, <2>9, <2>10, <1>1, Zenon
<1> QED
  BY <1>2, <1>4, <1>5

LEMMA validProxyIDStep ==
    ASSUME Typed, NEW a \in Admins, NEW q, validProxyID(a, q)
    PROVE  /\ Begin(a, q) /\ q.op = "assign" /\ Others(a)
           /\ \/ req'[a] = Done
              \/ Fresh(req'[a], "assign", "save") /\ req'[a].id \in Accounts
           /\ rows' = rows /\ accounts' = accounts /\ stored' = stored
<1>1. Begin(a, q) /\ q.op = "assign" /\ rows' = rows /\ accounts' = accounts /\ stored' = stored
  BY Zenon DEF validProxyID, database
<1>2. \/ End(a)
      \/ req' = [req EXCEPT ![a] = [NoReq EXCEPT !.op = "assign", !.pc = "save", !.id = q.id,
                                                 !.to = q.to, !.from = accounts[q.id].proxy]]
  BY Zenon DEF validProxyID
<1>3. req \in [Admins -> Request] /\ accounts \in Lists
  BY Zenon DEF Typed
<1>4. CASE End(a)
  BY <1>1, <1>3, <1>4, EndEffect
<1>5. CASE req' = [req EXCEPT ![a] = [NoReq EXCEPT !.op = "assign", !.pc = "save", !.id = q.id,
                                                   !.to = q.to, !.from = accounts[q.id].proxy]]
  <2>1. q \in origin.requests
    BY <1>1, BeginFacts
  <2>2. q.id \in Accounts /\ q.to \in ProxyChoices
    BY <2>1, <1>1, AskedFacts DEF Askable, ProxyChoices
  <2>3. accounts[q.id].proxy \in ProxyChoices
    BY <2>2, <1>3 DEF Lists
  <2>4. PICK i, t, w : i = q.id /\ t = q.to /\ w = accounts[q.id].proxy
    OBVIOUS
  <2>5. /\ "assign" \in Ops /\ "save" \in Steps
        /\ i \in Accounts /\ i \in Proxies \cup Accounts \cup {NoProxy} /\ t \in ProxyChoices /\ w \in ProxyChoices
    BY <2>2, <2>3, <2>4 DEF Ops, Steps
  <2>6. PICK r : r = [NoReq EXCEPT !.op = "assign", !.pc = "save", !.id = i, !.to = t, !.from = w]
    OBVIOUS
  <2>7. r \in Request
    BY <2>5, <2>6, NoReqType, Zenon DEF Request
  <2>8. Fresh(r, "assign", "save") /\ r.id = i
    BY <2>6, <2>7 DEF NoReq, Fresh
  <2>9. req' = [req EXCEPT ![a] = r]
    BY <2>4, <2>6, <1>5, Zenon
  <2>10. Others(a) /\ req'[a] = r
    BY <2>7, <2>9, <1>3, ReqUpdated
  <2> QED
    BY <2>5, <2>8, <2>10, <1>1, Zenon
<1> QED
  BY <1>2, <1>4, <1>5

LEMMA CatalogUpdateStep ==
    ASSUME Typed, NEW a \in Admins, NEW q, CatalogUpdate(a, q)
    PROVE  /\ Begin(a, q) /\ q.op = "catalog" /\ Others(a) /\ Fresh(req'[a], "catalog", "list")
           /\ rows' = rows /\ accounts' = accounts /\ stored' = stored
<1>1. /\ Begin(a, q) /\ q.op = "catalog" /\ rows' = rows /\ accounts' = accounts /\ stored' = stored
      /\ req' = [req EXCEPT ![a] = [NoReq EXCEPT !.op = "catalog", !.pc = "list"]]
  BY Zenon DEF CatalogUpdate, database
<1>2. req \in [Admins -> Request]
  BY Zenon DEF Typed
<1>3. "catalog" \in Ops /\ "list" \in Steps
  BY DEF Ops, Steps, Reloading
<1>4. PICK r : r = [NoReq EXCEPT !.op = "catalog", !.pc = "list"]
  OBVIOUS
<1>5. r \in Request
  BY <1>3, <1>4, NoReqType, Zenon DEF Request
<1>6. Fresh(r, "catalog", "list")
  BY <1>4, <1>5 DEF NoReq, Fresh
<1>7. Others(a) /\ req'[a] = r
  BY <1>1, <1>2, <1>4, <1>5, ReqUpdated
<1> QED
  BY <1>1, <1>6, <1>7, Zenon

-----------------------------------------------------------------------------
(* Types *)

LEMMA TypedAfter ==
    ASSUME Typed, NEW a \in Admins, phase = "up", Others(a), Control(req'[a]),
           rows' \in Rows, accounts' \in Lists, memory' \in Valid,
           stored' = stored \/ (\E s \in Valid : stored' = [found |-> TRUE, set |-> s, legacy |-> NoProxy]),
           runtime' = runtime
             \/ (\E s \in Valid, u \in Routes : runtime' = [runtime EXCEPT !.conf = s, !.url = u])
             \/ (\E c : runtime' = [runtime EXCEPT !.creds = c]),
           phase' = phase, boot' = boot, origin' = origin
    PROVE  Typed'
<1>1. /\ stored'.found \in BOOLEAN /\ stored'.legacy \in Urls \cup {NoProxy}
      /\ normalizeNativeRuntimeSettings(stored'.set) \in Settings
  <2>1. CASE stored' = stored
    BY <2>1 DEF Typed
  <2>2. CASE \E s \in Valid : stored' = [found |-> TRUE, set |-> s, legacy |-> NoProxy]
    <3>1. PICK s \in Valid : stored' = [found |-> TRUE, set |-> s, legacy |-> NoProxy]
      BY <2>2
    <3>2. s \in Settings
      BY ValidIsSettings
    <3>3. normalizeNativeRuntimeSettings(s) \in Settings
      BY <3>2, OverItself
    <3>4. stored'.found = TRUE /\ stored'.set = s /\ stored'.legacy = NoProxy
      BY <3>1
    <3> QED
      BY <3>3, <3>4
  <2> QED
    BY <2>1, <2>2
<1>2. DOMAIN runtime' = {"conf", "url", "creds"} /\ runtime'.conf \in Valid /\ runtime'.url \in Routes
  BY DEF Typed
<1>3. /\ req' \in [Admins -> Request]
      /\ \A b \in Admins : Control(req'[b]) /\ (phase' # "up" => Idle(b)')
  <2>1. \A b \in Admins : b # a => Control(req'[b])
    BY DEF Typed, Others
  <2> QED
    BY <2>1 DEF Others
<1>4. /\ rows' \in Rows /\ accounts' \in Lists /\ memory' \in Valid
      /\ phase' \in {"down", "migrate", "build", "up"} /\ boot' \in Boot /\ origin' \in Histories
  BY DEF Typed
<1> QED
  BY <1>1, <1>2, <1>3, <1>4, Zenon DEF Typed

LEMMA TypedParts ==
    ASSUME Typed, NEW a \in Admins
    PROVE  /\ rows \in Rows /\ accounts \in Lists /\ memory \in Valid /\ req[a] \in Request /\ Control(req[a])
           /\ req[a].set \in Valid /\ req[a].prev \in Valid /\ req[a].prior \in Valid
           /\ req[a].url \in Routes /\ req[a].was \in Routes /\ req[a].to \in ProxyChoices /\ req[a].from \in ProxyChoices
<1>1. rows \in Rows /\ accounts \in Lists /\ memory \in Valid /\ req[a] \in Request /\ Control(req[a])
  BY DEF Typed
<1> QED
  BY <1>1 DEF Request

LEMMA DoneControl ==
    ASSUME NEW q, q = Done
    PROVE  Control(q)
BY DoneType

LEMMA AccountAssigned ==
    ASSUME accounts \in Lists, NEW c \in Accounts, NEW p \in ProxyChoices,
           accounts' = [accounts EXCEPT ![c] = [@ EXCEPT !.proxy = p]]
    PROVE  /\ accounts' \in Lists /\ accounts'[c].proxy = p
           /\ \A d \in Accounts : d # c => accounts'[d] = accounts[d]
BY DEF Lists

LEMMA PutRuntimeSettingTyped ==
    ASSUME Typed, NEW a \in Admins, PutRuntimeSetting(a)
    PROVE  Typed'
<1>1. /\ rows \in Rows /\ accounts \in Lists /\ memory \in Valid /\ Control(req[a])
      /\ req[a].set \in Valid /\ req[a].prev \in Valid /\ req[a].prior \in Valid
      /\ req[a].url \in Routes /\ req[a].was \in Routes /\ req[a].to \in ProxyChoices /\ req[a].from \in ProxyChoices
  BY TypedParts
<1>2. Control(req'[a])
  BY <1>1, PutRuntimeSettingStep, DoneControl DEF Control, SameTask, SameUndo, PutSteps, PatchSteps, Reloading
<1>3. rows' \in Rows
  BY <1>1, PutRuntimeSettingStep
<1>4. accounts' \in Lists
  BY <1>1, PutRuntimeSettingStep
<1>5. memory' \in Valid
  BY <1>1, PutRuntimeSettingStep
<1>6. \E s \in Valid : stored' = [found |-> TRUE, set |-> s, legacy |-> NoProxy]
  BY <1>1, PutRuntimeSettingStep, Zenon
<1>7. runtime' = runtime
  BY PutRuntimeSettingStep
<1>8. phase = "up" /\ Others(a) /\ phase' = phase /\ boot' = boot /\ origin' = origin
  BY PutRuntimeSettingStep
<1> QED
  BY <1>2, <1>3, <1>4, <1>5, <1>6, <1>7, <1>8, TypedAfter, Zenon

LEMMA RestoreSettingTyped ==
    ASSUME Typed, NEW a \in Admins, RestoreSetting(a)
    PROVE  Typed'
<1>1. /\ rows \in Rows /\ accounts \in Lists /\ memory \in Valid /\ Control(req[a])
      /\ req[a].set \in Valid /\ req[a].prev \in Valid /\ req[a].prior \in Valid
      /\ req[a].url \in Routes /\ req[a].was \in Routes /\ req[a].to \in ProxyChoices /\ req[a].from \in ProxyChoices
  BY TypedParts
<1>2. Control(req'[a])
  BY <1>1, RestoreSettingStep, DoneControl DEF Control, SameTask, SameUndo, PutSteps, PatchSteps, Reloading
<1>3. rows' \in Rows
  BY <1>1, RestoreSettingStep
<1>4. accounts' \in Lists
  BY <1>1, RestoreSettingStep
<1>5. memory' \in Valid
  BY <1>1, RestoreSettingStep
<1>6. \E s \in Valid : stored' = [found |-> TRUE, set |-> s, legacy |-> NoProxy]
  BY <1>1, RestoreSettingStep, Zenon
<1>7. runtime' = runtime
  BY RestoreSettingStep
<1>8. phase = "up" /\ Others(a) /\ phase' = phase /\ boot' = boot /\ origin' = origin
  BY RestoreSettingStep
<1> QED
  BY <1>2, <1>3, <1>4, <1>5, <1>6, <1>7, <1>8, TypedAfter, Zenon

\* Steps that configure the runtime.
LEMMA ApplyTyped ==
    ASSUME Typed, NEW a \in Admins,
           ApplySettings(a) \/ ApplyFails(a) \/
           UndoRuntime(a) \/ Reapply(a) \/ ReapplyFails(a) \/ Unapply(a)
    PROVE  Typed'
<1>1. /\ rows \in Rows /\ accounts \in Lists /\ memory \in Valid /\ Control(req[a])
      /\ req[a].set \in Valid /\ req[a].prev \in Valid /\ req[a].prior \in Valid
      /\ req[a].url \in Routes /\ req[a].was \in Routes /\ req[a].to \in ProxyChoices /\ req[a].from \in ProxyChoices
  BY TypedParts
<1>2. /\ Control(req'[a]) /\ rows' \in Rows /\ accounts' \in Lists /\ memory' \in Valid
      /\ stored' = stored /\ phase = "up" /\ Others(a)
      /\ phase' = phase /\ boot' = boot /\ origin' = origin
  <2> USE DEF Control, SameTask, SameUndo, PutSteps, PatchSteps, Reloading
  <2>1. CASE ApplySettings(a)
    BY <2>1, <1>1, ApplySettingsStep, DoneControl
  <2>2. CASE ApplyFails(a)
    BY <2>2, <1>1, ApplyFailsStep, DoneControl
  <2>3. CASE UndoRuntime(a)
    BY <2>3, <1>1, UndoRuntimeStep, DoneControl
  <2>4. CASE Reapply(a)
    BY <2>4, <1>1, ReapplyStep, DoneControl
  <2>5. CASE ReapplyFails(a)
    BY <2>5, <1>1, ReapplyFailsStep, DoneControl
  <2>6. CASE Unapply(a)
    BY <2>6, <1>1, UnapplyStep, DoneControl
  <2> QED
    BY <2>1, <2>2, <2>3, <2>4, <2>5, <2>6
<1>3. \E s \in Valid, u \in Routes : runtime' = [runtime EXCEPT !.conf = s, !.url = u]
  <2>1. CASE ApplySettings(a)
    BY <2>1, <1>1, ApplySettingsStep, Zenon
  <2>2. CASE ApplyFails(a)
    BY <2>2, <1>1, ApplyFailsStep, Zenon
  <2>3. CASE UndoRuntime(a)
    BY <2>3, <1>1, UndoRuntimeStep, Zenon
  <2>4. CASE Reapply(a)
    BY <2>4, <1>1, ReapplyStep, Zenon
  <2>5. CASE ReapplyFails(a)
    BY <2>5, <1>1, ReapplyFailsStep, Zenon
  <2>6. CASE Unapply(a)
    BY <2>6, <1>1, UnapplyStep, Zenon
  <2> QED
    BY <2>1, <2>2, <2>3, <2>4, <2>5, <2>6
<1> QED
  BY <1>2, <1>3, TypedAfter, Zenon

\* Steps that change a proxy.
LEMMA ProxyTyped ==
    ASSUME Typed, NEW a \in Admins,
           UpdateOutboundProxy(a) \/ RestoreProxy(a) \/
           DeleteOutboundProxy(a)
    PROVE  Typed'
<1>1. /\ rows \in Rows /\ accounts \in Lists /\ memory \in Valid /\ Control(req[a])
      /\ req[a].set \in Valid /\ req[a].prev \in Valid /\ req[a].prior \in Valid
      /\ req[a].url \in Routes /\ req[a].was \in Routes /\ req[a].to \in ProxyChoices /\ req[a].from \in ProxyChoices
  BY TypedParts
<1>2. /\ Control(req'[a]) /\ rows' \in Rows /\ accounts' \in Lists /\ memory' \in Valid
      /\ stored' = stored /\ runtime' = runtime /\ phase = "up" /\ Others(a)
      /\ phase' = phase /\ boot' = boot /\ origin' = origin
  <2> USE DEF Control, SameTask, SameUndo, PutSteps, PatchSteps, Reloading, Rows
  <2>1. CASE UpdateOutboundProxy(a)
    BY <2>1, <1>1, UpdateOutboundProxyStep, DoneControl
  <2>2. CASE RestoreProxy(a)
    BY <2>2, <1>1, RestoreProxyStep, DoneControl
  <2>3. CASE DeleteOutboundProxy(a)
    BY <2>3, <1>1, DeleteOutboundProxyStep, DoneControl
  <2> QED
    BY <2>1, <2>2, <2>3
<1> QED
  BY <1>2, TypedAfter, Zenon

LEMMA SaveAccountTyped ==
    ASSUME Typed, NEW a \in Admins, SaveAccount(a)
    PROVE  Typed'
<1>1. /\ rows \in Rows /\ accounts \in Lists /\ memory \in Valid /\ Control(req[a])
      /\ req[a].set \in Valid /\ req[a].prev \in Valid /\ req[a].prior \in Valid
      /\ req[a].url \in Routes /\ req[a].was \in Routes /\ req[a].to \in ProxyChoices /\ req[a].from \in ProxyChoices
  BY TypedParts
<1>2. Control(req'[a])
  BY <1>1, SaveAccountStep, DoneControl DEF Control, SameTask, SameUndo, PutSteps, PatchSteps, Reloading
<1>3. rows' \in Rows
  BY <1>1, SaveAccountStep
<1>4. accounts' \in Lists
  <2>1. req[a].id \in Accounts
    BY <1>1, SaveAccountStep DEF Control
  <2> QED
    BY <1>1, <2>1, SaveAccountStep, AccountAssigned
<1>5. memory' \in Valid
  BY <1>1, SaveAccountStep
<1>6. stored' = stored
  BY SaveAccountStep
<1>7. runtime' = runtime
  BY SaveAccountStep
<1>8. phase = "up" /\ Others(a) /\ phase' = phase /\ boot' = boot /\ origin' = origin
  BY SaveAccountStep
<1> QED
  BY <1>2, <1>3, <1>4, <1>5, <1>6, <1>7, <1>8, TypedAfter, Zenon

LEMMA RestoreAccountTyped ==
    ASSUME Typed, NEW a \in Admins, RestoreAccount(a)
    PROVE  Typed'
<1>1. /\ rows \in Rows /\ accounts \in Lists /\ memory \in Valid /\ Control(req[a])
      /\ req[a].set \in Valid /\ req[a].prev \in Valid /\ req[a].prior \in Valid
      /\ req[a].url \in Routes /\ req[a].was \in Routes /\ req[a].to \in ProxyChoices /\ req[a].from \in ProxyChoices
  BY TypedParts
<1>2. Control(req'[a])
  BY <1>1, RestoreAccountStep, DoneControl DEF Control, SameTask, SameUndo, PutSteps, PatchSteps, Reloading
<1>3. rows' \in Rows
  BY <1>1, RestoreAccountStep
<1>4. accounts' \in Lists
  <2>1. req[a].id \in Accounts
    BY <1>1, RestoreAccountStep DEF Control
  <2> QED
    BY <1>1, <2>1, RestoreAccountStep, AccountAssigned
<1>5. memory' \in Valid
  BY <1>1, RestoreAccountStep
<1>6. stored' = stored
  BY RestoreAccountStep
<1>7. runtime' = runtime
  BY RestoreAccountStep
<1>8. phase = "up" /\ Others(a) /\ phase' = phase /\ boot' = boot /\ origin' = origin
  BY RestoreAccountStep
<1> QED
  BY <1>2, <1>3, <1>4, <1>5, <1>6, <1>7, <1>8, TypedAfter, Zenon

LEMMA ReplaceCredentialsTyped ==
    ASSUME Typed, NEW a \in Admins, ReplaceCredentials(a)
    PROVE  Typed'
<1>1. /\ rows \in Rows /\ accounts \in Lists /\ memory \in Valid /\ Control(req[a])
      /\ req[a].set \in Valid /\ req[a].prev \in Valid /\ req[a].prior \in Valid
      /\ req[a].url \in Routes /\ req[a].was \in Routes /\ req[a].to \in ProxyChoices /\ req[a].from \in ProxyChoices
  BY TypedParts
<1>2. Control(req'[a])
  BY <1>1, ReplaceCredentialsStep, DoneControl DEF Control, SameTask, SameUndo, PutSteps, PatchSteps, Reloading
<1>3. rows' \in Rows
  BY <1>1, ReplaceCredentialsStep
<1>4. accounts' \in Lists
  BY <1>1, ReplaceCredentialsStep
<1>5. memory' \in Valid
  BY <1>1, ReplaceCredentialsStep
<1>6. stored' = stored
  BY ReplaceCredentialsStep
<1>7. \E c : runtime' = [runtime EXCEPT !.creds = c]
  BY ReplaceCredentialsStep, Zenon
<1>8. phase = "up" /\ Others(a) /\ phase' = phase /\ boot' = boot /\ origin' = origin
  BY ReplaceCredentialsStep
<1> QED
  BY <1>2, <1>3, <1>4, <1>5, <1>6, <1>7, <1>8, TypedAfter, Zenon

\* Steps that change neither a row nor the runtime.
LEMMA WorkTyped ==
    ASSUME Typed, NEW a \in Admins,
           ResolveSystem(a) \/ ResolveGitHub(a) \/
           PutFails(a) \/ Prior(a) \/ SetMemory(a) \/ replaceAdmission(a) \/ UndoMemory(a) \/
           UndoAdmission(a) \/ Selected(a) \/ CountOutboundProxyReferences(a) \/
           ListUpstreamCredentials(a) \/ ListOutboundProxies(a) \/ ReloadFails(a) \/ UndoFails(a)
    PROVE  Typed'
<1>1. /\ rows \in Rows /\ accounts \in Lists /\ memory \in Valid /\ Control(req[a])
      /\ req[a].set \in Valid /\ req[a].prev \in Valid /\ req[a].prior \in Valid
      /\ req[a].url \in Routes /\ req[a].was \in Routes /\ req[a].to \in ProxyChoices /\ req[a].from \in ProxyChoices
  BY TypedParts
<1>2. /\ Control(req'[a]) /\ rows' \in Rows /\ accounts' \in Lists /\ memory' \in Valid
      /\ stored' = stored /\ runtime' = runtime /\ phase = "up" /\ Others(a)
      /\ phase' = phase /\ boot' = boot /\ origin' = origin
  <2> USE DEF Control, SameTask, SameUndo, PutSteps, PatchSteps, Reloading
  <2>1. CASE ResolveSystem(a)
    BY <2>1, <1>1, ResolveSystemStep, DoneControl
  <2>2. CASE ResolveGitHub(a)
    BY <2>2, <1>1, ResolveGitHubStep, DoneControl
  <2>3. CASE PutFails(a)
    BY <2>3, <1>1, PutFailsStep, DoneControl
  <2>4. CASE Prior(a)
    BY <2>4, <1>1, PriorStep, DoneControl
  <2>5. CASE SetMemory(a)
    BY <2>5, <1>1, SetMemoryStep, DoneControl
  <2>6. CASE replaceAdmission(a)
    BY <2>6, <1>1, replaceAdmissionStep, DoneControl
  <2>7. CASE UndoMemory(a)
    BY <2>7, <1>1, UndoMemoryStep, DoneControl
  <2>8. CASE UndoAdmission(a)
    BY <2>8, <1>1, UndoAdmissionStep, DoneControl
  <2>9. CASE Selected(a)
    BY <2>9, <1>1, SelectedStep, DoneControl
  <2>10. CASE CountOutboundProxyReferences(a)
    BY <2>10, <1>1, CountOutboundProxyReferencesStep, DoneControl
  <2>11. CASE ListUpstreamCredentials(a)
    BY <2>11, <1>1, ListUpstreamCredentialsStep, DoneControl
  <2>12. CASE ListOutboundProxies(a)
    BY <2>12, <1>1, ListOutboundProxiesStep, DoneControl
  <2>13. CASE ReloadFails(a)
    BY <2>13, <1>1, ReloadFailsStep, DoneControl
  <2>14. CASE UndoFails(a)
    BY <2>14, <1>1, UndoFailsStep, DoneControl
  <2> QED
    BY <2>1, <2>2, <2>3, <2>4, <2>5, <2>6, <2>7, <2>8, <2>9, <2>10, <2>11, <2>12, <2>13, <2>14
<1> QED
  BY <1>2, TypedAfter, Zenon

LEMMA adminNativeSettingsTyped ==
    ASSUME Typed, NEW a \in Admins, NEW q, adminNativeSettings(a, q)
    PROVE  Typed'
<1>1. rows \in Rows /\ accounts \in Lists /\ memory \in Valid
  BY TypedParts
<1>2. Control(req'[a])
  BY adminNativeSettingsStep, DoneControl DEF Control, Fresh, PutSteps, PatchSteps
<1>3. rows' \in Rows
  BY <1>1, adminNativeSettingsStep
<1>4. accounts' \in Lists /\ stored' = stored /\ Begin(a, q) /\ Others(a)
  BY <1>1, adminNativeSettingsStep
<1>5. /\ memory' \in Valid /\ runtime' = runtime /\ phase = "up"
      /\ phase' = phase /\ boot' = boot /\ origin' = origin
  BY <1>1, <1>4, BeginFacts
<1> QED
  BY <1>2, <1>3, <1>4, <1>5, TypedAfter, Zenon

LEMMA CreateOutboundProxyTyped ==
    ASSUME Typed, NEW a \in Admins, NEW q, CreateOutboundProxy(a, q)
    PROVE  Typed'
<1>1. rows \in Rows /\ accounts \in Lists /\ memory \in Valid
  BY TypedParts
<1>2. Control(req'[a])
  BY CreateOutboundProxyStep, DoneControl DEF Control, Fresh, PutSteps, PatchSteps
<1>3. rows' \in Rows
  BY <1>1, CreateOutboundProxyStep DEF Rows
<1>4. accounts' \in Lists /\ stored' = stored /\ Begin(a, q) /\ Others(a)
  BY <1>1, CreateOutboundProxyStep
<1>5. /\ memory' \in Valid /\ runtime' = runtime /\ phase = "up"
      /\ phase' = phase /\ boot' = boot /\ origin' = origin
  BY <1>1, <1>4, BeginFacts
<1> QED
  BY <1>2, <1>3, <1>4, <1>5, TypedAfter, Zenon

LEMMA adminProxyTyped ==
    ASSUME Typed, NEW a \in Admins, NEW q, adminProxy(a, q)
    PROVE  Typed'
<1>1. rows \in Rows /\ accounts \in Lists /\ memory \in Valid
  BY TypedParts
<1>2. Control(req'[a])
  BY adminProxyStep, DoneControl DEF Control, Fresh, PutSteps, PatchSteps
<1>3. rows' \in Rows
  BY <1>1, adminProxyStep
<1>4. accounts' \in Lists /\ stored' = stored /\ Begin(a, q) /\ Others(a)
  BY <1>1, adminProxyStep
<1>5. /\ memory' \in Valid /\ runtime' = runtime /\ phase = "up"
      /\ phase' = phase /\ boot' = boot /\ origin' = origin
  BY <1>1, <1>4, BeginFacts
<1> QED
  BY <1>2, <1>3, <1>4, <1>5, TypedAfter, Zenon

LEMMA adminProxyDeleteTyped ==
    ASSUME Typed, NEW a \in Admins, NEW q, adminProxyDelete(a, q)
    PROVE  Typed'
<1>1. rows \in Rows /\ accounts \in Lists /\ memory \in Valid
  BY TypedParts
<1>2. Control(req'[a])
  BY adminProxyDeleteStep, DoneControl DEF Control, Fresh, PutSteps, PatchSteps
<1>3. rows' \in Rows
  BY <1>1, adminProxyDeleteStep
<1>4. accounts' \in Lists /\ stored' = stored /\ Begin(a, q) /\ Others(a)
  BY <1>1, adminProxyDeleteStep
<1>5. /\ memory' \in Valid /\ runtime' = runtime /\ phase = "up"
      /\ phase' = phase /\ boot' = boot /\ origin' = origin
  BY <1>1, <1>4, BeginFacts
<1> QED
  BY <1>2, <1>3, <1>4, <1>5, TypedAfter, Zenon

LEMMA validProxyIDTyped ==
    ASSUME Typed, NEW a \in Admins, NEW q, validProxyID(a, q)
    PROVE  Typed'
<1>1. rows \in Rows /\ accounts \in Lists /\ memory \in Valid
  BY TypedParts
<1>2. Control(req'[a])
  BY validProxyIDStep, DoneControl DEF Control, Fresh, PutSteps, PatchSteps
<1>3. rows' \in Rows
  BY <1>1, validProxyIDStep
<1>4. accounts' \in Lists /\ stored' = stored /\ Begin(a, q) /\ Others(a)
  BY <1>1, validProxyIDStep
<1>5. /\ memory' \in Valid /\ runtime' = runtime /\ phase = "up"
      /\ phase' = phase /\ boot' = boot /\ origin' = origin
  BY <1>1, <1>4, BeginFacts
<1> QED
  BY <1>2, <1>3, <1>4, <1>5, TypedAfter, Zenon

LEMMA CatalogUpdateTyped ==
    ASSUME Typed, NEW a \in Admins, NEW q, CatalogUpdate(a, q)
    PROVE  Typed'
<1>1. rows \in Rows /\ accounts \in Lists /\ memory \in Valid
  BY TypedParts
<1>2. Control(req'[a])
  BY CatalogUpdateStep, DoneControl DEF Control, Fresh, PutSteps, PatchSteps
<1>3. rows' \in Rows
  BY <1>1, CatalogUpdateStep DEF Rows
<1>4. accounts' \in Lists /\ stored' = stored /\ Begin(a, q) /\ Others(a)
  BY <1>1, CatalogUpdateStep
<1>5. /\ memory' \in Valid /\ runtime' = runtime /\ phase = "up"
      /\ phase' = phase /\ boot' = boot /\ origin' = origin
  BY <1>1, <1>4, BeginFacts
<1> QED
  BY <1>2, <1>3, <1>4, <1>5, TypedAfter, Zenon

-----------------------------------------------------------------------------
(* The start and the crash *)

SameDatabase == rows' = rows /\ accounts' = accounts /\ stored' = stored
SameProcess == memory' = memory /\ admission' = admission /\ runtime' = runtime
SameHistory == origin' = origin /\ faults' = faults /\ taints' = taints /\ stale' = stale

LEMMA OriginFacts ==
    ASSUME Typed
    PROVE  /\ DOMAIN origin.files \subseteq Accounts
           /\ \A c \in DOMAIN origin.files : origin.files[c] \in Urls \cup {NoProxy, Direct}
           /\ origin.config \in Urls \cup {NoProxy}
           /\ origin.stored.found \in BOOLEAN /\ origin.stored.legacy \in Urls \cup {NoProxy}
BY HistoriesAssumption, Zenon DEF Typed

Imported(c) == [proxy |-> NoProxy, doc |-> Or(origin.files[c], origin.config)]

LEMMA ImportStep ==
    ASSUME Typed, NEW c \in Accounts, Import(c)
    PROVE  /\ phase = "down" /\ phase' = "down" /\ c \in DOMAIN origin.files /\ accounts[c] = Absent
           /\ accounts' \in Lists /\ accounts'[c] = Imported(c)
           /\ \A d \in Accounts : d # c => accounts'[d] = accounts[d]
           /\ rows' = rows /\ stored' = stored /\ boot' = boot /\ req' = req
           /\ SameProcess /\ SameHistory
<1>1. /\ phase = "down" /\ phase' = phase /\ c \in DOMAIN origin.files /\ accounts[c] = Absent
      /\ rows' = rows /\ stored' = stored /\ boot' = boot /\ req' = req /\ SameProcess /\ SameHistory
  BY Zenon DEF Import, process, start, SameProcess, SameHistory
<1>2. accounts' = [accounts EXCEPT ![c] = Imported(c)]
  BY Zenon DEF Import, Imported, Or
<1>3. Imported(c) \in [proxy: ProxyChoices, doc: Urls \cup {NoProxy, Direct, "absent"}]
  BY <1>1, OriginFacts DEF Imported, Or, ProxyChoices
<1>4. accounts \in Lists
  BY DEF Typed
<1>5. /\ accounts' \in Lists /\ accounts'[c] = Imported(c)
      /\ \A d \in Accounts : d # c => accounts'[d] = accounts[d]
  BY <1>2, <1>3, <1>4, Zenon DEF Lists
<1> QED
  BY <1>1, <1>5

LEMMA LegacyType ==
    ASSUME Typed
    PROVE  LegacyProxy \in Urls \cup {NoProxy}
BY OriginFacts DEF LegacyProxy, Typed

LEMMA loadStep ==
    ASSUME Typed, loadNativeRuntimeSettings
    PROVE  /\ phase = "down" /\ phase' = "migrate" /\ ImportDone
           /\ boot' \in Boot /\ boot'.set = normalizeNativeRuntimeSettings(stored.set) /\ boot'.legacy = LegacyProxy
           /\ boot'.todo = {c \in Accounts : accounts[c] # Absent} /\ boot'.list = accounts /\ boot'.known = rows
           /\ boot'.wrote = FALSE
           /\ ~boot'.changed => stored.found /\ LegacyProxy = NoProxy
           /\ SameDatabase /\ SameProcess /\ SameHistory /\ req' = req
<1>1. /\ phase = "down" /\ phase' = "migrate" /\ ImportDone
      /\ SameDatabase /\ SameProcess /\ SameHistory /\ req' = req
  BY Zenon DEF loadNativeRuntimeSettings, database, process, SameDatabase, SameProcess, SameHistory
<1>2. PICK n, l, t, ch :
         /\ n = normalizeNativeRuntimeSettings(stored.set) /\ l = LegacyProxy
         /\ t = {c \in Accounts : accounts[c] # Absent}
         /\ ch = (~stored.found \/ DOMAIN stored.set # Fields \/ LegacyProxy # NoProxy)
  OBVIOUS
<1>3. boot' = [set |-> n, legacy |-> l, todo |-> t, list |-> accounts, known |-> rows, wrote |-> FALSE,
               changed |-> ch]
  BY <1>2, Zenon DEF loadNativeRuntimeSettings
<1>4. /\ n \in Settings /\ l \in Urls \cup {NoProxy} /\ t \in SUBSET Accounts /\ accounts \in Lists /\ rows \in Rows
      /\ ch \in BOOLEAN
  BY <1>2, LegacyType DEF Typed
<1>5. boot' \in Boot
  BY <1>3, <1>4 DEF Boot
<1>6. /\ boot'.set = n /\ boot'.legacy = l /\ boot'.todo = t /\ boot'.list = accounts /\ boot'.known = rows
      /\ boot'.wrote = FALSE /\ boot'.changed = ch
  BY <1>3
<1>7. ~ch => stored.found /\ LegacyProxy = NoProxy
  BY <1>2, Zenon
<1> QED
  BY <1>1, <1>2, <1>5, <1>6, <1>7, Zenon

\* Fields of what the start knows, after an update.
SetKnown(q, b, k) ==
    /\ q \in Boot /\ q.known = k /\ q.set = b.set /\ q.legacy = b.legacy /\ q.todo = b.todo /\ q.list = b.list
    /\ q.changed = b.changed /\ q.wrote = b.wrote
LEMMA KnownUpdated ==
    ASSUME NEW b \in Boot, NEW k \in Rows, NEW q, q = [b EXCEPT !.known = k]
    PROVE  SetKnown(q, b, k)
<1>1. q \in Boot
  BY Zenon DEF Boot
<1> QED
  BY <1>1 DEF Boot, SetKnown

SetSettings(q, b, s) ==
    /\ q \in Boot /\ q.set = s /\ q.changed = TRUE /\ q.known = b.known /\ q.legacy = b.legacy /\ q.todo = b.todo
    /\ q.list = b.list /\ q.wrote = b.wrote
LEMMA SettingsUpdated ==
    ASSUME NEW b \in Boot, NEW s \in Settings, NEW q, q = [b EXCEPT !.set = s, !.changed = TRUE]
    PROVE  SetSettings(q, b, s)
<1>1. TRUE \in BOOLEAN
  OBVIOUS
<1>2. q \in Boot
  BY <1>1, Zenon DEF Boot
<1> QED
  BY <1>2 DEF Boot, SetSettings

SetTodo(q, b, t, ch, w) ==
    /\ q \in Boot /\ q.todo = t /\ q.changed = ch /\ q.wrote = w
    /\ q.set = b.set /\ q.known = b.known /\ q.legacy = b.legacy /\ q.list = b.list
LEMMA TodoUpdated ==
    ASSUME NEW b \in Boot, NEW t \in SUBSET Accounts, NEW ch \in BOOLEAN, NEW w \in BOOLEAN, NEW q,
           q = [b EXCEPT !.todo = t, !.changed = ch, !.wrote = w]
    PROVE  SetTodo(q, b, t, ch, w)
<1>1. q \in Boot
  BY Zenon DEF Boot
<1> QED
  BY <1>1 DEF Boot, SetTodo

LEMMA ensureStep ==
    ASSUME Typed, NEW p \in Proxies, NEW u \in Urls, ensure(p, u)
    PROVE  /\ phase = "migrate" /\ phase' = "migrate" /\ ~Known(u) /\ rows[p] = NoProxy
           /\ rows' = [rows EXCEPT ![p] = u] /\ SetKnown(boot', boot, [boot.known EXCEPT ![p] = u])
           /\ accounts' = accounts /\ stored' = stored /\ req' = req /\ SameProcess /\ SameHistory
<1>1. /\ phase = "migrate" /\ phase' = phase /\ ~Known(u) /\ rows[p] = NoProxy
      /\ rows' = [rows EXCEPT ![p] = u] /\ boot' = [boot EXCEPT !.known = [boot.known EXCEPT ![p] = u]]
      /\ accounts' = accounts /\ stored' = stored /\ req' = req /\ SameProcess /\ SameHistory
  BY Zenon DEF ensure, process, SameProcess, SameHistory
<1>2. boot \in Boot /\ boot.known \in Rows
  BY DEF Typed, Boot
<1>3. PICK k : k = [boot.known EXCEPT ![p] = u]
  OBVIOUS
<1>4. k \in Rows
  BY <1>2, <1>3 DEF Rows
<1>5. SetKnown(boot', boot, k)
  BY <1>1, <1>2, <1>3, <1>4, KnownUpdated, Zenon
<1> QED
  BY <1>1, <1>3, <1>5

\* The proxy of an address that is known has this address.
LEMMA ProxyOfKnown ==
    ASSUME NEW u, u # NoProxy, Known(u)
    PROVE  ProxyOf(u) \in Proxies /\ boot.known[ProxyOf(u)] = u
BY Zenon DEF Known, ProxyOf

LEMMA MigrateSystemStep ==
    ASSUME Typed, MigrateSystem
    PROVE  /\ phase = "migrate" /\ phase' = "migrate" /\ boot.set.sys = NoProxy
           /\ \E p \in Proxies : boot.known[p] # NoProxy /\ SetSettings(boot', boot, [boot.set EXCEPT !.sys = p])
           /\ SameDatabase /\ SameProcess /\ SameHistory /\ req' = req
<1>1. /\ phase = "migrate" /\ phase' = phase /\ SystemWants # NoProxy /\ Known(SystemWants)
      /\ boot' = [boot EXCEPT !.set = [boot.set EXCEPT !.sys = ProxyOf(SystemWants)], !.changed = TRUE]
      /\ SameDatabase /\ SameProcess /\ SameHistory /\ req' = req
  BY Zenon DEF MigrateSystem, database, process, SameDatabase, SameProcess, SameHistory
<1>2. PICK p, s : p = ProxyOf(SystemWants) /\ s = [boot.set EXCEPT !.sys = p]
  OBVIOUS
<1>3. p \in Proxies /\ boot.known[p] # NoProxy
  BY <1>1, <1>2, ProxyOfKnown
<1>4. boot \in Boot /\ boot.set \in Settings
  BY DEF Typed, Boot
<1>5. p \in Proxies \cup {NoProxy}
  BY <1>3
<1>6. s \in Settings
  BY <1>2, <1>4, <1>5, Zenon DEF Settings
<1>7. SetSettings(boot', boot, s)
  BY <1>1, <1>2, <1>4, <1>6, SettingsUpdated, Zenon
<1>8. boot.set.sys = NoProxy
  BY <1>1, Zenon DEF SystemWants
<1> QED
  BY <1>1, <1>2, <1>3, <1>7, <1>8, Zenon

Migrated(c) ==
    [proxy |-> IF boot.list[c].proxy # NoProxy THEN boot.list[c].proxy ELSE ProxyOf(AccountWants(c)),
     doc |-> NoProxy]

LEMMA MigrateAccountStep ==
    ASSUME Typed, NEW c \in Accounts, MigrateAccount(c)
    PROVE  /\ phase = "migrate" /\ phase' = "migrate" /\ SystemWants = NoProxy /\ c \in boot.todo
           /\ AccountWants(c) = NoProxy \/ Known(AccountWants(c))
           /\ accounts' \in Lists /\ accounts'[c] = Migrated(c)
           /\ \A d \in Accounts : d # c => accounts'[d] = accounts[d]
           /\ boot' \in Boot /\ boot'.todo = boot.todo \ {c}
           /\ boot'.changed = (boot.changed \/ Migrated(c) # boot.list[c])
           /\ boot'.wrote = (boot.wrote \/ Migrated(c) # boot.list[c])
           /\ boot'.set = boot.set /\ boot'.known = boot.known /\ boot'.legacy = boot.legacy /\ boot'.list = boot.list
           /\ rows' = rows /\ stored' = stored /\ req' = req /\ SameProcess /\ SameHistory
<1>1. /\ phase = "migrate" /\ phase' = phase /\ SystemWants = NoProxy /\ c \in boot.todo
      /\ AccountWants(c) = NoProxy \/ Known(AccountWants(c))
      /\ accounts' = [accounts EXCEPT ![c] = Migrated(c)]
      /\ boot' = [boot EXCEPT !.todo = boot.todo \ {c}, !.changed = boot.changed \/ Migrated(c) # boot.list[c],
                              !.wrote = boot.wrote \/ Migrated(c) # boot.list[c]]
      /\ rows' = rows /\ stored' = stored /\ req' = req /\ SameProcess /\ SameHistory
  BY Zenon DEF MigrateAccount, Migrated, process, SameProcess, SameHistory
<1>2. boot \in Boot /\ accounts \in Lists /\ boot.list \in Lists /\ boot.todo \in SUBSET Accounts
  BY DEF Typed, Boot
<1>3. ProxyOf(AccountWants(c)) \in ProxyChoices
  BY <1>1, ProxyOfKnown DEF ProxyChoices, ProxyOf
<1>4. boot.list[c].proxy \in ProxyChoices
  BY <1>2 DEF Lists
<1>5. Migrated(c) \in [proxy: ProxyChoices, doc: Urls \cup {NoProxy, Direct, "absent"}]
  BY <1>3, <1>4 DEF Migrated
<1>6. /\ accounts' \in Lists /\ accounts'[c] = Migrated(c)
      /\ \A d \in Accounts : d # c => accounts'[d] = accounts[d]
  BY <1>1, <1>2, <1>5, Zenon DEF Lists
<1>7. PICK t, ch, w : /\ t = boot.todo \ {c} /\ ch = (boot.changed \/ Migrated(c) # boot.list[c])
                      /\ w = (boot.wrote \/ Migrated(c) # boot.list[c])
  OBVIOUS
<1>8. t \in SUBSET Accounts /\ ch \in BOOLEAN /\ w \in BOOLEAN
  BY <1>2, <1>7
<1>9. boot' = [boot EXCEPT !.todo = t, !.changed = ch, !.wrote = w]
  BY <1>1, <1>7, Zenon
<1>10. SetTodo(boot', boot, t, ch, w)
  BY <1>2, <1>8, <1>9, TodoUpdated, Zenon
<1> QED
  BY <1>1, <1>6, <1>7, <1>10, Zenon DEF SetTodo

LEMMA PersistSettingsStep ==
    ASSUME Typed, PersistSettings
    PROVE  /\ phase = "migrate" /\ phase' = "build" /\ SystemWants = NoProxy /\ boot.todo = {}
           /\ \/ boot.changed /\ stored' = [found |-> TRUE, set |-> boot.set, legacy |-> NoProxy]
              \/ ~boot.changed /\ stored' = stored
           /\ rows' = rows /\ accounts' = accounts /\ boot' = boot /\ req' = req /\ SameProcess /\ SameHistory
BY Zenon DEF PersistSettings, process, SameProcess, SameHistory

LEMMA startStep ==
    ASSUME Typed, startEmbeddedCPA
    PROVE  /\ phase = "build" /\ boot' = NoBoot
           /\ \/ /\ Exists(boot.set.sys) /\ validateNativeRuntimeSettings(boot.set)
                 /\ phase' = "up" /\ memory' = boot.set /\ admission' = boot.set.budget
                 /\ runtime' = NewRuntime(boot.set, rows, accounts)
              \/ phase' = "down" /\ SameProcess
           /\ SameDatabase /\ req' = req /\ SameHistory
BY Zenon DEF startEmbeddedCPA, process, database, SameProcess, SameHistory, SameDatabase

LEMMA CrashStep ==
    ASSUME Typed, Crash
    PROVE  /\ phase # "down" /\ phase' = "down" /\ boot' = NoBoot
           /\ memory' = Defaults /\ admission' = Defaults.budget
           /\ runtime' = NewRuntime(Defaults, NoRows, NoList)
           /\ req' \in [Admins -> Request]
           /\ \A a \in Admins : req'[a] = (IF req[a].pc = "new" THEN NoReq ELSE Done)
           /\ taints' = (taints \cap {{"migration"}})
                   \cup (IF Without(Unsafe) THEN {} ELSE {{"lost"}})
                   \cup (IF phase = "migrate" /\ boot.wrote THEN {{"migration"}} ELSE {})
           /\ SameDatabase /\ origin' = origin
<1>1. /\ phase # "down" /\ phase' = "down" /\ boot' = NoBoot
      /\ memory' = Defaults /\ admission' = Defaults.budget
      /\ runtime' = NewRuntime(Defaults, NoRows, NoList)
      /\ req' = [a \in Admins |-> IF req[a].pc = "new" THEN NoReq ELSE Done]
      /\ taints' = (taints \cap {{"migration"}})
                   \cup (IF Without(Unsafe) THEN {} ELSE {{"lost"}})
                   \cup (IF phase = "migrate" /\ boot.wrote THEN {{"migration"}} ELSE {})
      /\ SameDatabase /\ origin' = origin
  BY Zenon DEF Crash, database, SameDatabase
<1>2. req' \in [Admins -> Request]
  BY <1>1, NoReqType, DoneType, Zenon
<1>3. \A a \in Admins : req'[a] = (IF req[a].pc = "new" THEN NoReq ELSE Done)
  BY <1>1, Zenon
<1> QED
  BY <1>1, <1>2, <1>3, Zenon

LEMMA NewRuntimeFacts ==
    ASSUME NEW s \in Valid, NEW r \in Rows, NEW l
    PROVE  LET n == NewRuntime(s, r, l) IN
           /\ DOMAIN n = {"conf", "url", "creds"} /\ n.conf = s /\ n.url = proxyURL(r, s.sys) /\ n.url \in Routes
           /\ n.creds = runtimeCredentials(l, r, s.ws)
<1>1. proxyURL(r, s.sys) \in Routes
  BY RouteType
<1> QED
  BY <1>1 DEF NewRuntime

\* A step of the start that leaves the process alone.
LEMMA TypedAfterBoot ==
    ASSUME Typed, SameProcess, req' = req, origin' = origin, phase # "up", phase' \in {"down", "migrate", "build"},
           boot' \in Boot, rows' \in Rows, accounts' \in Lists,
           \/ stored' = stored
           \/ stored' = [found |-> TRUE, set |-> boot.set, legacy |-> NoProxy]
    PROVE  Typed'
<1>1. /\ stored'.found \in BOOLEAN /\ stored'.legacy \in Urls \cup {NoProxy}
      /\ normalizeNativeRuntimeSettings(stored'.set) \in Settings
  <2>1. CASE stored' = stored
    BY <2>1 DEF Typed
  <2>2. CASE stored' = [found |-> TRUE, set |-> boot.set, legacy |-> NoProxy]
    <3>1. boot.set \in Settings
      BY DEF Typed, Boot
    <3>2. normalizeNativeRuntimeSettings(boot.set) \in Settings
      BY <3>1, OverItself
    <3>3. stored'.found = TRUE /\ stored'.set = boot.set /\ stored'.legacy = NoProxy
      BY <2>2
    <3> QED
      BY <3>2, <3>3
  <2> QED
    BY <2>1, <2>2
<1>2. \A a \in Admins : Control(req'[a]) /\ (phase' # "up" => Idle(a)')
  BY DEF Typed, Idle
<1>3. /\ memory' \in Valid /\ DOMAIN runtime' = {"conf", "url", "creds"} /\ runtime'.conf \in Valid
      /\ runtime'.url \in Routes /\ req' \in [Admins -> Request] /\ origin' \in Histories
      /\ phase' \in {"down", "migrate", "build", "up"}
  BY DEF Typed, SameProcess
<1> QED
  BY <1>1, <1>2, <1>3, Zenon DEF Typed

\* A step that builds the process or takes it down.
LEMMA TypedAfterBuild ==
    ASSUME Typed, SameDatabase, origin' = origin, phase' \in {"up", "down"}, boot' = NoBoot,
           NEW s \in Valid, memory' = s, NEW r \in Rows, NEW l, runtime' = NewRuntime(s, r, l),
           req' \in [Admins -> Request], \A a \in Admins : req'[a] \in {req[a], NoReq, Done},
           phase # "up" \/ \A a \in Admins : req'[a] \in {NoReq, Done}
    PROVE  Typed'
<1>1. \A a \in Admins : Control(req'[a]) /\ Idle(a)'
  BY NoReqType, DoneType DEF Typed, Idle
<1>2. DOMAIN runtime' = {"conf", "url", "creds"} /\ runtime'.conf \in Valid /\ runtime'.url \in Routes
  BY NewRuntimeFacts
<1>3. /\ stored'.found \in BOOLEAN /\ stored'.legacy \in Urls \cup {NoProxy}
      /\ normalizeNativeRuntimeSettings(stored'.set) \in Settings
      /\ rows' \in Rows /\ accounts' \in Lists /\ origin' \in Histories
      /\ phase' \in {"down", "migrate", "build", "up"} /\ boot' \in Boot
  BY NoBootType DEF Typed, SameDatabase
<1> QED
  BY <1>1, <1>2, <1>3, Zenon DEF Typed

LEMMA StartTyped ==
    ASSUME Typed
    PROVE  /\ \A c \in Accounts : Import(c) \/ MigrateAccount(c) => Typed'
           /\ loadNativeRuntimeSettings \/ MigrateSystem \/ PersistSettings \/ startEmbeddedCPA \/ Crash => Typed'
           /\ \A p \in Proxies, u \in Urls : ensure(p, u) => Typed'
<1> rows \in Rows /\ accounts \in Lists /\ boot \in Boot /\ NoBoot \in Boot
  BY NoBootType DEF Typed
<1>1. ASSUME NEW c \in Accounts, Import(c) PROVE Typed'
  BY <1>1, ImportStep, TypedAfterBoot DEF SameHistory
<1>2. ASSUME NEW c \in Accounts, MigrateAccount(c) PROVE Typed'
  BY <1>2, MigrateAccountStep, TypedAfterBoot DEF SameHistory
<1>3. CASE loadNativeRuntimeSettings
  BY <1>3, loadStep, TypedAfterBoot DEF SameHistory, SameDatabase
<1>4. CASE MigrateSystem
  BY <1>4, MigrateSystemStep, TypedAfterBoot DEF SameHistory, SameDatabase, SetSettings
<1>5. CASE PersistSettings
  BY <1>5, PersistSettingsStep, TypedAfterBoot DEF SameHistory
<1>6. CASE startEmbeddedCPA
  <2>1. CASE phase' = "down" /\ SameProcess
    BY <2>1, <1>6, startStep, TypedAfterBoot DEF SameHistory, SameDatabase
  <2>2. CASE /\ validateNativeRuntimeSettings(boot.set) /\ phase' = "up" /\ memory' = boot.set
             /\ runtime' = NewRuntime(boot.set, rows, accounts)
    <3>1. boot.set \in Valid
      BY <2>2 DEF Boot, Valid
    <3>2. /\ phase = "build" /\ boot' = NoBoot /\ SameDatabase /\ req' = req /\ origin' = origin
      BY <1>6, startStep DEF SameHistory
    <3>3. req' \in [Admins -> Request] /\ \A a \in Admins : req'[a] \in {req[a], NoReq, Done}
      BY <3>2 DEF Typed
    <3> QED
      BY <2>2, <3>1, <3>2, <3>3, TypedAfterBuild
  <2> QED
    BY <1>6, <2>1, <2>2, startStep
<1>7. CASE Crash
  <2>1. /\ phase' = "down" /\ boot' = NoBoot /\ SameDatabase /\ origin' = origin /\ memory' = Defaults
        /\ runtime' = NewRuntime(Defaults, NoRows, NoList) /\ req' \in [Admins -> Request]
        /\ \A a \in Admins : req'[a] \in {NoReq, Done}
    BY <1>7, CrashStep
  <2> QED
    BY <2>1, DefaultsValid, NoRowsType, TypedAfterBuild
<1>8. ASSUME NEW p \in Proxies, NEW u \in Urls, ensure(p, u) PROVE Typed'
  <2>1. rows' \in Rows
    BY <1>8, ensureStep DEF Rows
  <2> QED
    BY <1>8, <2>1, ensureStep, TypedAfterBoot DEF SameHistory, SetKnown
<1> QED
  BY <1>1, <1>2, <1>3, <1>4, <1>5, <1>6, <1>7, <1>8

\* The steps of the requests that have begun, and the beginnings.
Work(a) ==
    \/ ResolveSystem(a) \/ ResolveGitHub(a) \/ PutRuntimeSetting(a) \/ PutFails(a)
    \/ Prior(a) \/ ApplySettings(a) \/ ApplyFails(a) \/ SetMemory(a) \/ replaceAdmission(a)
    \/ UndoRuntime(a) \/ UndoMemory(a) \/ UndoAdmission(a) \/ RestoreSetting(a)
    \/ UpdateOutboundProxy(a) \/ Selected(a) \/ Reapply(a) \/ ReapplyFails(a)
    \/ RestoreProxy(a) \/ Unapply(a) \/ CountOutboundProxyReferences(a) \/ DeleteOutboundProxy(a)
    \/ SaveAccount(a) \/ RestoreAccount(a)
    \/ ListUpstreamCredentials(a) \/ ListOutboundProxies(a) \/ ReplaceCredentials(a)
    \/ ReloadFails(a) \/ UndoFails(a)
Beginning(a, q) ==
    \/ adminNativeSettings(a, q) \/ CreateOutboundProxy(a, q) \/ adminProxy(a, q)
    \/ adminProxyDelete(a, q) \/ validProxyID(a, q) \/ CatalogUpdate(a, q)
Start ==
    \/ loadNativeRuntimeSettings \/ MigrateSystem \/ PersistSettings \/ startEmbeddedCPA \/ Crash
    \/ \E p \in Proxies, u \in Urls : ensure(p, u)
    \/ \E c \in Accounts : Import(c) \/ MigrateAccount(c)

LEMMA NextSplit ==
    ASSUME SettingsNext
    PROVE  \/ \E a \in Admins : Work(a)
           \/ \E a \in Admins, q \in origin.requests : Beginning(a, q)
           \/ Start
BY Zenon DEF SettingsNext, Work, Beginning, Start

LEMMA TypedInit == SettingsInit => Typed
<1> SUFFICES ASSUME SettingsInit PROVE Typed
  OBVIOUS
<1>1. PICK h \in Histories :
         /\ rows = h.rows /\ accounts = h.accounts /\ stored = h.stored
         /\ phase = (IF h.up THEN "up" ELSE "down") /\ origin = h
  BY Zenon DEF SettingsInit
<1>2. /\ memory = (IF phase = "up" THEN normalizeNativeRuntimeSettings(stored.set) ELSE Defaults)
      /\ runtime = NewRuntime(memory, rows, accounts) /\ boot = NoBoot /\ req = [a \in Admins |-> NoReq]
  BY Zenon DEF SettingsInit
<1>3. /\ h.rows \in [Proxies -> Urls \cup {NoProxy}]
      /\ h.accounts \in [Accounts -> [proxy: Proxies \cup {NoProxy}, doc: Urls \cup {NoProxy, Direct}] \cup {Absent}]
      /\ h.stored.found \in BOOLEAN /\ h.stored.legacy \in Urls \cup {NoProxy}
      /\ normalizeNativeRuntimeSettings(h.stored.set) \in Settings
      /\ h.up => validateNativeRuntimeSettings(normalizeNativeRuntimeSettings(h.stored.set))
  BY HistoriesAssumption, Zenon
<1>4. rows \in Rows /\ accounts \in Lists
  BY <1>1, <1>3 DEF Rows, Lists, Absent, ProxyChoices
<1>5. memory \in Valid
  BY <1>1, <1>2, <1>3, DefaultsValid DEF Valid
<1>6. DOMAIN runtime = {"conf", "url", "creds"} /\ runtime.conf \in Valid /\ runtime.url \in Routes
  BY <1>2, <1>4, <1>5, NewRuntimeFacts
<1>7. /\ req \in [Admins -> Request] /\ \A a \in Admins : Control(req[a]) /\ (phase # "up" => Idle(a))
  BY <1>2, NoReqType DEF Idle
<1>8. phase \in {"down", "migrate", "build", "up"} /\ boot \in Boot /\ origin \in Histories
  BY <1>1, <1>2, NoBootType
<1> QED
  BY <1>1, <1>3, <1>4, <1>5, <1>6, <1>7, <1>8, Zenon DEF Typed

LEMMA TypedNext == Typed /\ [SettingsNext]_vars => Typed'
<1> SUFFICES ASSUME Typed, [SettingsNext]_vars PROVE Typed'
  OBVIOUS
<1>1. ASSUME NEW a \in Admins, Work(a) PROVE Typed'
  BY <1>1, WorkTyped, PutRuntimeSettingTyped, ApplyTyped, RestoreSettingTyped, ProxyTyped,
     SaveAccountTyped, RestoreAccountTyped, ReplaceCredentialsTyped, Zenon DEF Work
<1>2. ASSUME NEW a \in Admins, NEW q \in origin.requests, Beginning(a, q) PROVE Typed'
  BY <1>2, adminNativeSettingsTyped, CreateOutboundProxyTyped, adminProxyTyped, adminProxyDeleteTyped,
     validProxyIDTyped, CatalogUpdateTyped, Zenon DEF Beginning
<1>3. CASE Start
  BY <1>3, StartTyped, Zenon DEF Start
<1>4. CASE UNCHANGED vars
  BY <1>4 DEF vars, Typed, Idle
<1> QED
  BY <1>1, <1>2, <1>3, <1>4, NextSplit

-----------------------------------------------------------------------------
(* Requests that overlap *)

(* Two requests in flight are in the history.                              *)
Overlaps ==
    \A a, b \in Admins : a # b /\ ~Idle(a) /\ ~Idle(b) => {req[a].op, req[b].op} \in taints

(* A step of a request leaves it as it is, except for its progress, or     *)
(* ends it.                                                                *)
Progress(a) ==
    /\ phase = "up" /\ phase' = "up" /\ boot' = boot /\ origin' = origin
    /\ Others(a) /\ ~Idle(a) /\ taints \subseteq taints'
    /\ req'[a] = Done \/ (SameTask(req'[a], req[a]) /\ ~Idle(a)')

LEMMA WorkProgress ==
    ASSUME Typed, NEW a \in Admins, Work(a)
    PROVE  Progress(a)
<1>1. CASE ResolveSystem(a)
  BY <1>1, ResolveSystemStep DEF Progress, Idle
<1>2. CASE ResolveGitHub(a)
  BY <1>2, ResolveGitHubStep DEF Progress, Idle
<1>3. CASE PutRuntimeSetting(a)
  BY <1>3, PutRuntimeSettingStep DEF Progress, Idle
<1>4. CASE PutFails(a)
  BY <1>4, PutFailsStep DEF Progress, Idle
<1>5. CASE Prior(a)
  BY <1>5, PriorStep DEF Progress, Idle
<1>6. CASE ApplySettings(a)
  BY <1>6, ApplySettingsStep DEF Progress, Idle
<1>7. CASE ApplyFails(a)
  BY <1>7, ApplyFailsStep DEF Progress, Idle
<1>8. CASE SetMemory(a)
  BY <1>8, SetMemoryStep DEF Progress, Idle
<1>9. CASE replaceAdmission(a)
  BY <1>9, replaceAdmissionStep DEF Progress, Idle
<1>10. CASE UndoRuntime(a)
  BY <1>10, UndoRuntimeStep DEF Progress, Idle
<1>11. CASE UndoMemory(a)
  BY <1>11, UndoMemoryStep DEF Progress, Idle
<1>12. CASE UndoAdmission(a)
  BY <1>12, UndoAdmissionStep DEF Progress, Idle
<1>13. CASE RestoreSetting(a)
  BY <1>13, RestoreSettingStep DEF Progress, Idle
<1>14. CASE UpdateOutboundProxy(a)
  BY <1>14, UpdateOutboundProxyStep DEF Progress, Idle
<1>15. CASE Selected(a)
  BY <1>15, SelectedStep DEF Progress, Idle
<1>16. CASE Reapply(a)
  BY <1>16, ReapplyStep DEF Progress, Idle
<1>17. CASE ReapplyFails(a)
  BY <1>17, ReapplyFailsStep DEF Progress, Idle
<1>18. CASE RestoreProxy(a)
  BY <1>18, RestoreProxyStep DEF Progress, Idle
<1>19. CASE Unapply(a)
  BY <1>19, UnapplyStep DEF Progress, Idle
<1>20. CASE CountOutboundProxyReferences(a)
  BY <1>20, CountOutboundProxyReferencesStep DEF Progress, Idle
<1>21. CASE DeleteOutboundProxy(a)
  BY <1>21, DeleteOutboundProxyStep DEF Progress, Idle
<1>22. CASE SaveAccount(a)
  BY <1>22, SaveAccountStep DEF Progress, Idle
<1>23. CASE RestoreAccount(a)
  BY <1>23, RestoreAccountStep DEF Progress, Idle
<1>24. CASE ListUpstreamCredentials(a)
  BY <1>24, ListUpstreamCredentialsStep DEF Progress, Idle
<1>25. CASE ListOutboundProxies(a)
  BY <1>25, ListOutboundProxiesStep DEF Progress, Idle
<1>26. CASE ReplaceCredentials(a)
  BY <1>26, ReplaceCredentialsStep DEF Progress, Idle
<1>27. CASE ReloadFails(a)
  BY <1>27, ReloadFailsStep DEF Progress, Idle
<1>28. CASE UndoFails(a)
  BY <1>28, UndoFailsStep DEF Progress, Idle
<1> QED
  BY <1>1, <1>2, <1>3, <1>4, <1>5, <1>6, <1>7, <1>8, <1>9, <1>10, <1>11, <1>12, <1>13, <1>14, <1>15,
     <1>16, <1>17, <1>18, <1>19, <1>20, <1>21, <1>22, <1>23, <1>24, <1>25, <1>26, <1>27, <1>28, Zenon DEF Work

BeginningFacts(a, q) ==
    /\ Begin(a, q) /\ Others(a) /\ accounts' = accounts /\ stored' = stored
    /\ req'[a] = Done \/ (req'[a].op = q.op /\ req'[a].back = FALSE /\ q.op \in {"put", "patch", "delete", "assign", "catalog"})
    /\ q.op \in {"put", "patch", "delete", "assign", "catalog"} => rows' = rows

LEMMA BeginningStep ==
    ASSUME Typed, NEW a \in Admins, NEW q, Beginning(a, q)
    PROVE  BeginningFacts(a, q)
<1>1. CASE adminNativeSettings(a, q)
  BY <1>1, adminNativeSettingsStep DEF BeginningFacts, Fresh
<1>2. CASE CreateOutboundProxy(a, q)
  BY <1>2, CreateOutboundProxyStep DEF BeginningFacts
<1>3. CASE adminProxy(a, q)
  BY <1>3, adminProxyStep DEF BeginningFacts, Fresh
<1>4. CASE adminProxyDelete(a, q)
  BY <1>4, adminProxyDeleteStep DEF BeginningFacts, Fresh
<1>5. CASE validProxyID(a, q)
  BY <1>5, validProxyIDStep DEF BeginningFacts, Fresh
<1>6. CASE CatalogUpdate(a, q)
  BY <1>6, CatalogUpdateStep DEF BeginningFacts, Fresh
<1> QED
  BY <1>1, <1>2, <1>3, <1>4, <1>5, <1>6 DEF Beginning

\* A step of the start or a crash: nothing is in flight afterwards.
LEMMA StartIdle ==
    ASSUME Typed, Start
    PROVE  \A a \in Admins : Idle(a)' /\ req'[a] \in {req[a], NoReq, Done}
<1>1. CASE Crash
  BY <1>1, CrashStep, NoReqType, DoneType DEF Idle
<1>2. ASSUME req' = req, phase # "up" PROVE \A a \in Admins : Idle(a)' /\ req'[a] \in {req[a], NoReq, Done}
  BY <1>2 DEF Typed, Idle
<1>3. CASE loadNativeRuntimeSettings
  BY <1>2, <1>3, loadStep
<1>4. CASE MigrateSystem
  BY <1>2, <1>4, MigrateSystemStep
<1>5. CASE PersistSettings
  BY <1>2, <1>5, PersistSettingsStep
<1>6. CASE startEmbeddedCPA
  BY <1>2, <1>6, startStep
<1>7. ASSUME NEW p \in Proxies, NEW u \in Urls, ensure(p, u)
      PROVE  \A a \in Admins : Idle(a)' /\ req'[a] \in {req[a], NoReq, Done}
  BY <1>2, <1>7, ensureStep
<1>8. ASSUME NEW c \in Accounts, Import(c)
      PROVE  \A a \in Admins : Idle(a)' /\ req'[a] \in {req[a], NoReq, Done}
  BY <1>2, <1>8, ImportStep
<1>9. ASSUME NEW c \in Accounts, MigrateAccount(c)
      PROVE  \A a \in Admins : Idle(a)' /\ req'[a] \in {req[a], NoReq, Done}
  BY <1>2, <1>9, MigrateAccountStep
<1> QED
  BY <1>1, <1>3, <1>4, <1>5, <1>6, <1>7, <1>8, <1>9, Zenon DEF Start

LEMMA OverlapsNext ==
    ASSUME Typed, Overlaps, [SettingsNext]_vars
    PROVE  Overlaps'
<1>1. ASSUME NEW a \in Admins, Work(a) PROVE Overlaps'
  <2>1. Progress(a)
    BY <1>1, WorkProgress
  <2> QED
    BY <2>1, DoneType DEF Progress, Overlaps, Idle, Others, SameTask
<1>2. ASSUME NEW a \in Admins, NEW q \in origin.requests, Beginning(a, q) PROVE Overlaps'
  <2>1. BeginningFacts(a, q)
    BY <1>2, BeginningStep
  <2>2. /\ Others(a) /\ taints \subseteq taints' /\ \A b \in Admins : ~Idle(b) => {q.op, req[b].op} \in taints'
        /\ req'[a] = Done \/ req'[a].op = q.op
    BY <2>1, BeginFacts DEF BeginningFacts
  <2>3. ASSUME NEW b \in Admins, NEW c \in Admins, b # c, ~Idle(b)', ~Idle(c)'
        PROVE  {req'[b].op, req'[c].op} \in taints'
    <3>1. CASE b # a /\ c # a
      BY <2>2, <2>3, <3>1 DEF Overlaps, Others, Idle
    <3>2. CASE b = a
      <4>1. ~Idle(c) /\ req'[c] = req[c] /\ req'[b].op = q.op
        BY <2>2, <2>3, <3>2, DoneType DEF Others, Idle
      <4> QED
        BY <4>1, <2>2
    <3>3. CASE c = a
      <4>1. ~Idle(b) /\ req'[b] = req[b] /\ req'[c].op = q.op
        BY <2>2, <2>3, <3>3, DoneType DEF Others, Idle
      <4>2. {req'[b].op, req'[c].op} = {q.op, req[b].op}
        BY <4>1
      <4> QED
        BY <4>1, <4>2, <2>2
    <3> QED
      BY <3>1, <3>2, <3>3
  <2> QED
    BY <2>3 DEF Overlaps
<1>3. CASE Start
  BY <1>3, StartIdle DEF Overlaps
<1>4. CASE UNCHANGED vars
  BY <1>4 DEF vars, Overlaps, Idle
<1> QED
  BY <1>1, <1>2, <1>3, <1>4, NextSplit

\* Without the mark of two operations, no two requests have them.
LEMMA NotBoth ==
    ASSUME Typed, Overlaps, NEW x, NEW y, x # "none", y # "none", {x, y} \notin taints,
           NEW a \in Admins, NEW b \in Admins, a # b, req[a].op = x
    PROVE  req[b].op # y
<1>1. Control(req[a]) /\ Control(req[b])
  BY DEF Typed
<1>2. req[b].op = y => ~Idle(a) /\ ~Idle(b)
  BY <1>1 DEF Control, Idle
<1> QED
  BY <1>2 DEF Overlaps

-----------------------------------------------------------------------------
(* The invariants *)

(* An update of the settings after it has stored them, and the steps at    *)
(* which memory and the controller have them.                              *)
Putting(r) == r.op = "put" /\ r.pc \notin {"system", "github", "store"}
InForce == {"admission", "list", "urls", "replace", "undo runtime", "undo memory"}
Budgeted == {"list", "urls", "replace", "undo runtime", "undo memory", "undo admission"}

PutAgrees(r) ==
    /\ normalizeNativeRuntimeSettings(stored.set) = r.set
    /\ r.pc # "prior" => r.prior = r.prev
    /\ memory = IF r.pc \in InForce THEN r.set ELSE r.prev
    /\ admission = (IF r.pc \in Budgeted THEN r.set ELSE r.prev).budget
Agreed == normalizeNativeRuntimeSettings(stored.set) = memory /\ admission = memory.budget

(* The only update in flight knows how far it is; without one, everything  *)
(* agrees.                                                                 *)
Agree ==
    phase = "up" /\ {"put"} \notin taints /\ {"undo"} \notin taints =>
        /\ \A a \in Admins : Putting(req[a]) => PutAgrees(req[a])
        /\ (\A a \in Admins : ~Putting(req[a])) => Agreed

(* The start has what it will store, or what is stored.                    *)
BootAgrees ==
    /\ phase = "build" => normalizeNativeRuntimeSettings(stored.set) = boot.set
    /\ phase = "migrate" /\ ~boot.changed => normalizeNativeRuntimeSettings(stored.set) = boot.set
    /\ phase = "migrate" => boot.known = rows

(* The foreign key of an account, also while the start holds a copy of it. *)
Refers(list) == \A c \in Accounts : Exists(list[c].proxy)
ForeignKeys == Refers(accounts) /\ (phase = "migrate" => Refers(boot.list))

(* What the settings select is there, given the proxies r; a request keeps *)
(* what it is about to select or to go back to, and deletes nothing that   *)
(* the settings m select.                                                  *)
Selectable(r, s) == Present(r, s.sys) /\ Present(r, githubSelectedProxyID(s))
Kept(r, m, q) ==
    /\ q.op = "put" /\ q.pc # "system" => Present(r, q.set.sys)
    /\ q.op = "put" /\ q.pc \notin {"system", "github"} => Selectable(r, q.set)
    /\ Putting(q) => Selectable(r, q.prev)
    /\ q.op = "delete" => q.id # m.sys /\ q.id # githubSelectedProxyID(m)
InUse ==
    Without(Unsafe) =>
        /\ Selectable(rows, normalizeNativeRuntimeSettings(stored.set))
        /\ phase = "up" => Selectable(rows, memory)
        /\ phase \in {"migrate", "build"} => Selectable(rows, boot.set)
        /\ \A a \in Admins : Kept(rows, memory, req[a])

(* The runtime follows the settings: with the proxies r, the settings m in *)
(* memory and the configuration conf of the runtime, what a request q is   *)
(* going to apply or to go back to is what it has read, and still so.      *)
Disturbing == {{"put"}, {"patch"}, {"put", "patch"}, {"put", "delete"}, {"apply"}, {"undo"}}
Leads(r, m, conf, q) ==
    /\ q.op = "put" /\ q.pc # "system" => Present(r, q.set.sys)
    /\ q.pc \in {"github", "store", "prior", "apply"} => q.url = proxyURL(r, q.set.sys)
    /\ q.op = "put" /\ q.pc \notin {"system", "github", "store", "prior"}
         => Present(r, q.prior.sys) /\ q.was = proxyURL(r, q.prior.sys)
    /\ q.pc = "memory" => conf = q.set
    /\ q.pc = "undo memory" => conf = q.prior
    /\ q.op = "patch" /\ q.pc \notin {"update", "selected"} => q.prior = m
    /\ q.pc \in {"selected", "reapply"} /\ q.id = m.sys => r[q.id] = q.url
    /\ q.pc \in {"reapply", "unapply"} => q.id = m.sys
    /\ q.pc = "unapply" => r[q.id] = q.was
    /\ q.op = "delete" => q.id # m.sys
Readdressing(m, q) ==
    q.op = "patch" /\ q.pc \in {"selected", "reapply", "restore", "unapply"} /\ q.id = m.sys
Midway(q) == q.pc \in {"memory", "undo memory"}
Follows ==
    phase = "up" /\ Without(Disturbing) =>
        /\ Present(rows, memory.sys)
        /\ \A a \in Admins : Leads(rows, memory, runtime.conf, req[a])
        /\ (\A a \in Admins : ~Midway(req[a])) => runtime.conf = memory
        /\ (\A a \in Admins : ~Readdressing(memory, req[a])) => runtime.url = proxyURL(rows, runtime.conf.sys)

(* The accounts in the runtime, cr, are those of the store, or a request   *)
(* will still reload them.                                                 *)
Shaped(cr) == cr = [c \in DOMAIN cr |-> [url |-> cr[c].url, ws |-> cr[c].ws]]
UrlsFit(cr, list, r) ==
    /\ DOMAIN cr = {x \in Accounts : list[x] # Absent}
    /\ \A c \in DOMAIN cr : cr[c].url = proxyURL(r, list[c].proxy)
SwitchFits(cr, m) == \A c \in DOMAIN cr : cr[c].ws = m.ws
WillReload(q) == (q.op = "patch" /\ q.pc # "update") \/ (q.op = "assign" /\ q.pc # "save")
WillSwitch(q) == q.op = "put" /\ q.pc \in InForce /\ q.prior.ws # q.set.ws
Trusted == phase = "up" /\ ~stale /\ {"put"} \notin taints /\ {"undo"} \notin taints /\ {"reload"} \notin taints
Reloaded ==
    /\ Shaped(runtime.creds)
    /\ Trusted => /\ UrlsFit(runtime.creds, accounts, rows) \/ \E a \in Admins : WillReload(req[a])
                  /\ SwitchFits(runtime.creds, memory) \/ \E a \in Admins : WillSwitch(req[a])

(* Where an account goes out with the proxies r and a global address, and  *)
(* whether that is its former route f.                                     *)
RouteOf(r, item, legacy) ==
    IF item.proxy # NoProxy THEN proxyURL(r, item.proxy) ELSE Or(item.doc, Or(legacy, Direct))
Keeps(f, ts, r, item, legacy) == RouteOf(r, item, legacy) = f \/ (f = Direct /\ {"migration"} \in ts)
InPlace == {c \in Accounts : accounts[c] # Absent}
AllNew == \A a \in Admins : req[a].pc = "new"

(* Until the first request, every account is on its way to its former      *)
(* route, at whichever step of whichever start: as it is stored while the  *)
(* process is down; as the start has read it while it migrates, and        *)
(* without the global address once it is rewritten; without it afterwards. *)
AtRest == \A c \in InPlace : Keeps(FormerRoute(c), taints, rows, accounts[c], LegacyProxy)
Rewritten(c) ==
    accounts[c].doc = NoProxy /\ Keeps(FormerRoute(c), taints, rows, accounts[c], NoProxy)
Migrating ==
    /\ boot.legacy = LegacyProxy /\ (~boot.changed => LegacyProxy = NoProxy) /\ boot.todo \subseteq InPlace
    /\ \A c \in InPlace :
          /\ boot.list[c].doc # "absent"
          /\ Keeps(FormerRoute(c), taints, rows, boot.list[c], LegacyProxy)
          /\ c \in boot.todo \/ ~boot.wrote => accounts[c] = boot.list[c]
          /\ c \notin boot.todo => Rewritten(c)
Settled == LegacyProxy = NoProxy /\ \A c \in InPlace : Rewritten(c)
OnTheWay ==
    /\ \A c \in InPlace : accounts[c].doc # "absent"
    /\ \A c \in Accounts : accounts[c] = Absent => origin.accounts[c] = Absent
    /\ stored = origin.stored \/ ImportDone
    /\ phase # "down" => ImportDone
    /\ phase = "down" => AtRest
    /\ phase = "migrate" => Migrating
    /\ phase \in {"build", "up"} => Settled
    /\ phase = "up" => UrlsFit(runtime.creds, accounts, rows)
Migration == AllNew => OnTheWay /\ OneProxyPerAddress

SettingsInv ==
    /\ Typed /\ Overlaps /\ Agree /\ BootAgrees /\ ForeignKeys /\ InUse /\ Follows
    /\ Reloaded /\ Migration

-----------------------------------------------------------------------------
(* The stored settings, the memory and the controller *)

Quietly == phase = "up" /\ {"put"} \notin taints /\ {"undo"} \notin taints
SameSettings == stored' = stored /\ memory' = memory /\ admission' = admission

\* A step that stores and applies nothing, of a request that stores nothing.
LEMMA AgreeKept ==
    ASSUME Agree, NEW a \in Admins, Quietly', Quietly, Others(a), SameSettings,
           ~Putting(req[a]), ~Putting(req[a])'
    PROVE  Agree'
<1>1. \A b \in Admins : req'[b] = req[b] \/ (~Putting(req[b]) /\ ~Putting(req[b])')
  BY DEF Others
<1>2. \A b \in Admins : Putting(req[b])' => PutAgrees(req[b])'
  BY <1>1 DEF Agree, Quietly, SameSettings, PutAgrees
<1>3. (\A b \in Admins : ~Putting(req[b])') => Agreed'
  BY <1>1 DEF Agree, Quietly, SameSettings, Agreed
<1> QED
  BY <1>2, <1>3 DEF Agree, Putting

\* A step of the only update.
LEMMA AgreeMoved ==
    ASSUME Typed, Overlaps, Quietly, NEW a \in Admins, Others(a), req[a].op = "put",
           Putting(req[a])' => PutAgrees(req[a])', ~Putting(req[a])' => Agreed'
    PROVE  Agree'
<1>1. \A b \in Admins : b # a => ~Putting(req[b])
  <2>1. {"put", "put"} = {"put"}
    OBVIOUS
  <2>2. {"put", "put"} \notin taints
    BY <2>1 DEF Quietly
  <2> QED
    BY <2>2, NotBoth DEF Putting
<1>2. \A b \in Admins : b # a => ~Putting(req[b])'
  BY <1>1 DEF Others
<1>3. \A b \in Admins : Putting(req[b])' => PutAgrees(req[b])'
  BY <1>2
<1> QED
  BY <1>3 DEF Agree, Putting

LEMMA QuietlyBefore ==
    ASSUME phase = "up", taints \subseteq taints', Quietly'
    PROVE  Quietly
BY DEF Quietly

LEMMA AgreeBefore ==
    ASSUME Typed, Overlaps, Agree, Quietly, NEW a \in Admins, req[a].op = "put"
    PROVE  /\ Putting(req[a]) => PutAgrees(req[a])
           /\ ~Putting(req[a]) => Agreed
<1>1. \A b \in Admins : b # a => ~Putting(req[b])
  <2>1. {"put", "put"} = {"put"}
    OBVIOUS
  <2>2. {"put", "put"} \notin taints
    BY <2>1 DEF Quietly
  <2> QED
    BY <2>2, NotBoth DEF Putting
<1> QED
  BY <1>1 DEF Agree, Quietly

LEMMA ResolveSystemAgree ==
    ASSUME Typed, Overlaps, Agree, NEW a \in Admins, ResolveSystem(a)
    PROVE  Agree'
<1> SUFFICES ASSUME Quietly' PROVE Agree'
  BY DEF Agree, Quietly
<1>1. Quietly /\ Others(a) /\ Control(req[a])
  BY ResolveSystemStep, QuietlyBefore, TypedParts
<1>2. req[a].op = "put"
  BY <1>1, ResolveSystemStep DEF Control, PutSteps
<1>3. Agree'
  <2>1. /\ Putting(req[a]) => PutAgrees(req[a])
        /\ ~Putting(req[a]) => Agreed
    BY <1>1, <1>2, AgreeBefore
  <2>2. /\ req[a].set \in Settings /\ req[a].prev \in Settings
        /\ normalizeNativeRuntimeSettings(req[a].set) = req[a].set
        /\ normalizeNativeRuntimeSettings(req[a].prev) = req[a].prev
    BY TypedParts, ValidIsSettings, OverItself
  <2>3. Putting(req[a])' => PutAgrees(req[a])'
    BY <2>1, <2>2, <1>1, <1>2, ResolveSystemStep, DoneType DEF Putting, PutAgrees, Agreed, InForce, Budgeted, SameTask, SameUndo
  <2>4. ~Putting(req[a])' => Agreed'
    BY <2>1, <2>2, <1>1, <1>2, ResolveSystemStep, DoneType DEF Putting, PutAgrees, Agreed, InForce, Budgeted, SameTask, SameUndo
  <2> QED
    BY <1>1, <1>2, <2>3, <2>4, ResolveSystemStep, AgreeMoved
<1> QED
  BY <1>3

LEMMA ResolveGitHubAgree ==
    ASSUME Typed, Overlaps, Agree, NEW a \in Admins, ResolveGitHub(a)
    PROVE  Agree'
<1> SUFFICES ASSUME Quietly' PROVE Agree'
  BY DEF Agree, Quietly
<1>1. Quietly /\ Others(a) /\ Control(req[a])
  BY ResolveGitHubStep, QuietlyBefore, TypedParts
<1>2. req[a].op = "put"
  BY <1>1, ResolveGitHubStep DEF Control, PutSteps
<1>3. Agree'
  <2>1. /\ Putting(req[a]) => PutAgrees(req[a])
        /\ ~Putting(req[a]) => Agreed
    BY <1>1, <1>2, AgreeBefore
  <2>2. /\ req[a].set \in Settings /\ req[a].prev \in Settings
        /\ normalizeNativeRuntimeSettings(req[a].set) = req[a].set
        /\ normalizeNativeRuntimeSettings(req[a].prev) = req[a].prev
    BY TypedParts, ValidIsSettings, OverItself
  <2>3. Putting(req[a])' => PutAgrees(req[a])'
    BY <2>1, <2>2, <1>1, <1>2, ResolveGitHubStep, DoneType DEF Putting, PutAgrees, Agreed, InForce, Budgeted, SameTask, SameUndo
  <2>4. ~Putting(req[a])' => Agreed'
    BY <2>1, <2>2, <1>1, <1>2, ResolveGitHubStep, DoneType DEF Putting, PutAgrees, Agreed, InForce, Budgeted, SameTask, SameUndo
  <2> QED
    BY <1>1, <1>2, <2>3, <2>4, ResolveGitHubStep, AgreeMoved
<1> QED
  BY <1>3

LEMMA PutRuntimeSettingAgree ==
    ASSUME Typed, Overlaps, Agree, NEW a \in Admins, PutRuntimeSetting(a)
    PROVE  Agree'
<1> SUFFICES ASSUME Quietly' PROVE Agree'
  BY DEF Agree, Quietly
<1>1. Quietly /\ Others(a) /\ Control(req[a])
  BY PutRuntimeSettingStep, QuietlyBefore, TypedParts
<1>2. req[a].op = "put"
  BY <1>1, PutRuntimeSettingStep DEF Control, PutSteps
<1>3. Agree'
  <2>1. /\ Putting(req[a]) => PutAgrees(req[a])
        /\ ~Putting(req[a]) => Agreed
    BY <1>1, <1>2, AgreeBefore
  <2>2. /\ req[a].set \in Settings /\ req[a].prev \in Settings
        /\ normalizeNativeRuntimeSettings(req[a].set) = req[a].set
        /\ normalizeNativeRuntimeSettings(req[a].prev) = req[a].prev
    BY TypedParts, ValidIsSettings, OverItself
  <2>5. /\ req[a].pc = "store" /\ stored'.set = req[a].set /\ memory' = memory
        /\ admission' = admission /\ req'[a].pc = "prior" /\ req'[a].prev = memory
        /\ SameTask(req'[a], req[a])
    BY <1>1, <1>2, PutRuntimeSettingStep, DoneType
  <2>3. Putting(req[a])' => PutAgrees(req[a])'
    BY <2>1, <2>2, <2>5, <1>1, <1>2 DEF Putting, PutAgrees, Agreed, InForce, Budgeted, SameTask, SameUndo
  <2>4. ~Putting(req[a])' => Agreed'
    BY <2>1, <2>2, <2>5, <1>1, <1>2 DEF Putting, PutAgrees, Agreed, InForce, Budgeted, SameTask, SameUndo
  <2> QED
    BY <1>1, <1>2, <2>3, <2>4, PutRuntimeSettingStep, AgreeMoved
<1> QED
  BY <1>3

LEMMA PutFailsAgree ==
    ASSUME Typed, Overlaps, Agree, NEW a \in Admins, PutFails(a)
    PROVE  Agree'
<1> SUFFICES ASSUME Quietly' PROVE Agree'
  BY DEF Agree, Quietly
<1>1. Quietly /\ Others(a) /\ Control(req[a])
  BY PutFailsStep, QuietlyBefore, TypedParts
<1>2. req[a].op = "put"
  BY <1>1, PutFailsStep DEF Control, PutSteps
<1>3. Agree'
  <2>1. /\ Putting(req[a]) => PutAgrees(req[a])
        /\ ~Putting(req[a]) => Agreed
    BY <1>1, <1>2, AgreeBefore
  <2>2. /\ req[a].set \in Settings /\ req[a].prev \in Settings
        /\ normalizeNativeRuntimeSettings(req[a].set) = req[a].set
        /\ normalizeNativeRuntimeSettings(req[a].prev) = req[a].prev
    BY TypedParts, ValidIsSettings, OverItself
  <2>3. Putting(req[a])' => PutAgrees(req[a])'
    BY <2>1, <2>2, <1>1, <1>2, PutFailsStep, DoneType DEF Putting, PutAgrees, Agreed, InForce, Budgeted, SameTask, SameUndo
  <2>4. ~Putting(req[a])' => Agreed'
    BY <2>1, <2>2, <1>1, <1>2, PutFailsStep, DoneType DEF Putting, PutAgrees, Agreed, InForce, Budgeted, SameTask, SameUndo
  <2> QED
    BY <1>1, <1>2, <2>3, <2>4, PutFailsStep, AgreeMoved
<1> QED
  BY <1>3

LEMMA PriorAgree ==
    ASSUME Typed, Overlaps, Agree, NEW a \in Admins, Prior(a)
    PROVE  Agree'
<1> SUFFICES ASSUME Quietly' PROVE Agree'
  BY DEF Agree, Quietly
<1>1. Quietly /\ Others(a) /\ Control(req[a])
  BY PriorStep, QuietlyBefore, TypedParts
<1>2. req[a].op = "put"
  BY <1>1, PriorStep DEF Control, PutSteps
<1>3. Agree'
  <2>1. /\ Putting(req[a]) => PutAgrees(req[a])
        /\ ~Putting(req[a]) => Agreed
    BY <1>1, <1>2, AgreeBefore
  <2>2. /\ req[a].pc = "prior" /\ req'[a].pc = "apply" /\ req'[a].op = req[a].op /\ req'[a].set = req[a].set
        /\ req'[a].prev = req[a].prev /\ req'[a].prior = memory
        /\ stored' = stored /\ memory' = memory /\ admission' = admission
    BY PriorStep DEF SameTask
  <2>3. Putting(req[a]) /\ Putting(req[a])'
    BY <1>2, <2>2 DEF Putting
  <2>4. PutAgrees(req[a])'
    BY <2>1, <2>2, <2>3 DEF PutAgrees, InForce, Budgeted
  <2> QED
    BY <1>1, <1>2, <2>3, <2>4, PriorStep, AgreeMoved
<1> QED
  BY <1>3

LEMMA ApplySettingsAgree ==
    ASSUME Typed, Overlaps, Agree, NEW a \in Admins, ApplySettings(a)
    PROVE  Agree'
<1> SUFFICES ASSUME Quietly' PROVE Agree'
  BY DEF Agree, Quietly
<1>1. Quietly /\ Others(a) /\ Control(req[a])
  BY ApplySettingsStep, QuietlyBefore, TypedParts
<1>2. req[a].op = "put"
  BY <1>1, ApplySettingsStep DEF Control, PutSteps
<1>3. Agree'
  <2>1. /\ Putting(req[a]) => PutAgrees(req[a])
        /\ ~Putting(req[a]) => Agreed
    BY <1>1, <1>2, AgreeBefore
  <2>2. /\ req[a].pc = "apply" /\ req'[a].pc = "memory" /\ req'[a].op = req[a].op /\ req'[a].set = req[a].set
        /\ req'[a].prev = req[a].prev /\ req'[a].prior = req[a].prior
        /\ stored' = stored /\ memory' = memory /\ admission' = admission
    BY ApplySettingsStep DEF SameTask, SameUndo
  <2>3. Putting(req[a]) /\ Putting(req[a])'
    BY <1>2, <2>2 DEF Putting
  <2>4. PutAgrees(req[a])'
    BY <2>1, <2>2, <2>3 DEF PutAgrees, InForce, Budgeted
  <2> QED
    BY <1>1, <1>2, <2>3, <2>4, ApplySettingsStep, AgreeMoved
<1> QED
  BY <1>3

LEMMA ApplyFailsAgree ==
    ASSUME Typed, Overlaps, Agree, NEW a \in Admins, ApplyFails(a)
    PROVE  Agree'
<1> SUFFICES ASSUME Quietly' PROVE Agree'
  BY DEF Agree, Quietly
<1>1. Quietly /\ Others(a) /\ Control(req[a])
  BY ApplyFailsStep, QuietlyBefore, TypedParts
<1>2. req[a].op = "put"
  BY <1>1, ApplyFailsStep DEF Control, PutSteps
<1>3. Agree'
  <2>1. /\ Putting(req[a]) => PutAgrees(req[a])
        /\ ~Putting(req[a]) => Agreed
    BY <1>1, <1>2, AgreeBefore
  <2>2. /\ req[a].set \in Settings /\ req[a].prev \in Settings
        /\ normalizeNativeRuntimeSettings(req[a].set) = req[a].set
        /\ normalizeNativeRuntimeSettings(req[a].prev) = req[a].prev
    BY TypedParts, ValidIsSettings, OverItself
  <2>5. /\ req[a].pc = "apply" /\ stored' = stored /\ memory' = memory /\ admission' = admission
        /\ req'[a].pc = "restore" /\ SameTask(req'[a], req[a]) /\ SameUndo(req'[a], req[a])
    BY <1>1, <1>2, ApplyFailsStep, DoneType
  <2>3. Putting(req[a])' => PutAgrees(req[a])'
    BY <2>1, <2>2, <2>5, <1>1, <1>2 DEF Putting, PutAgrees, Agreed, InForce, Budgeted, SameTask, SameUndo
  <2>4. ~Putting(req[a])' => Agreed'
    BY <2>1, <2>2, <2>5, <1>1, <1>2 DEF Putting, PutAgrees, Agreed, InForce, Budgeted, SameTask, SameUndo
  <2> QED
    BY <1>1, <1>2, <2>3, <2>4, ApplyFailsStep, AgreeMoved
<1> QED
  BY <1>3

LEMMA SetMemoryAgree ==
    ASSUME Typed, Overlaps, Agree, NEW a \in Admins, SetMemory(a)
    PROVE  Agree'
<1> SUFFICES ASSUME Quietly' PROVE Agree'
  BY DEF Agree, Quietly
<1>1. Quietly /\ Others(a) /\ Control(req[a])
  BY SetMemoryStep, QuietlyBefore, TypedParts
<1>2. req[a].op = "put"
  BY <1>1, SetMemoryStep DEF Control, PutSteps
<1>3. Agree'
  <2>1. /\ Putting(req[a]) => PutAgrees(req[a])
        /\ ~Putting(req[a]) => Agreed
    BY <1>1, <1>2, AgreeBefore
  <2>2. /\ req[a].pc = "memory" /\ req'[a].pc = "admission" /\ req'[a].op = req[a].op /\ req'[a].set = req[a].set
        /\ req'[a].prev = req[a].prev /\ req'[a].prior = req[a].prior
        /\ stored' = stored /\ memory' = req[a].set /\ admission' = admission
    BY SetMemoryStep DEF SameTask, SameUndo
  <2>3. Putting(req[a]) /\ Putting(req[a])'
    BY <1>2, <2>2 DEF Putting
  <2>4. PutAgrees(req[a])'
    BY <2>1, <2>2, <2>3 DEF PutAgrees, InForce, Budgeted
  <2> QED
    BY <1>1, <1>2, <2>3, <2>4, SetMemoryStep, AgreeMoved
<1> QED
  BY <1>3

LEMMA replaceAdmissionAgree ==
    ASSUME Typed, Overlaps, Agree, NEW a \in Admins, replaceAdmission(a)
    PROVE  Agree'
<1> SUFFICES ASSUME Quietly' PROVE Agree'
  BY DEF Agree, Quietly
<1>1. Quietly /\ Others(a) /\ Control(req[a])
  BY replaceAdmissionStep, QuietlyBefore, TypedParts
<1>2. req[a].op = "put"
  BY <1>1, replaceAdmissionStep DEF Control, PutSteps
<1>3. Agree'
  <2>1. /\ Putting(req[a]) => PutAgrees(req[a])
        /\ ~Putting(req[a]) => Agreed
    BY <1>1, <1>2, AgreeBefore
  <2>2. /\ req[a].set \in Settings /\ req[a].prev \in Settings
        /\ normalizeNativeRuntimeSettings(req[a].set) = req[a].set
        /\ normalizeNativeRuntimeSettings(req[a].prev) = req[a].prev
    BY TypedParts, ValidIsSettings, OverItself
  <2>3. Putting(req[a])' => PutAgrees(req[a])'
    BY <2>1, <2>2, <1>1, <1>2, replaceAdmissionStep, DoneType DEF Putting, PutAgrees, Agreed, InForce, Budgeted, SameTask, SameUndo
  <2>4. ~Putting(req[a])' => Agreed'
    BY <2>1, <2>2, <1>1, <1>2, replaceAdmissionStep, DoneType DEF Putting, PutAgrees, Agreed, InForce, Budgeted, SameTask, SameUndo
  <2> QED
    BY <1>1, <1>2, <2>3, <2>4, replaceAdmissionStep, AgreeMoved
<1> QED
  BY <1>3

LEMMA UndoRuntimeAgree ==
    ASSUME Typed, Overlaps, Agree, NEW a \in Admins, UndoRuntime(a)
    PROVE  Agree'
<1> SUFFICES ASSUME Quietly' PROVE Agree'
  BY DEF Agree, Quietly
<1>1. Quietly /\ Others(a) /\ Control(req[a])
  BY UndoRuntimeStep, QuietlyBefore, TypedParts
<1>2. req[a].op = "put"
  BY <1>1, UndoRuntimeStep DEF Control, PutSteps
<1>3. Agree'
  <2>1. /\ Putting(req[a]) => PutAgrees(req[a])
        /\ ~Putting(req[a]) => Agreed
    BY <1>1, <1>2, AgreeBefore
  <2>2. /\ req[a].pc = "undo runtime" /\ req'[a].pc = "undo memory" /\ req'[a].op = req[a].op
        /\ req'[a].set = req[a].set
        /\ req'[a].prev = req[a].prev /\ req'[a].prior = req[a].prior
        /\ stored' = stored /\ memory' = memory /\ admission' = admission
    BY UndoRuntimeStep DEF SameTask, SameUndo
  <2>3. Putting(req[a]) /\ Putting(req[a])'
    BY <1>2, <2>2 DEF Putting
  <2>4. PutAgrees(req[a])'
    BY <2>1, <2>2, <2>3 DEF PutAgrees, InForce, Budgeted
  <2> QED
    BY <1>1, <1>2, <2>3, <2>4, UndoRuntimeStep, AgreeMoved
<1> QED
  BY <1>3

LEMMA UndoMemoryAgree ==
    ASSUME Typed, Overlaps, Agree, NEW a \in Admins, UndoMemory(a)
    PROVE  Agree'
<1> SUFFICES ASSUME Quietly' PROVE Agree'
  BY DEF Agree, Quietly
<1>1. Quietly /\ Others(a) /\ Control(req[a])
  BY UndoMemoryStep, QuietlyBefore, TypedParts
<1>2. req[a].op = "put"
  BY <1>1, UndoMemoryStep DEF Control, PutSteps
<1>3. Agree'
  <2>1. /\ Putting(req[a]) => PutAgrees(req[a])
        /\ ~Putting(req[a]) => Agreed
    BY <1>1, <1>2, AgreeBefore
  <2>2. /\ req[a].pc = "undo memory" /\ req'[a].pc = "undo admission" /\ req'[a].op = req[a].op
        /\ req'[a].set = req[a].set
        /\ req'[a].prev = req[a].prev /\ req'[a].prior = req[a].prior
        /\ stored' = stored /\ memory' = req[a].prior /\ admission' = admission
    BY UndoMemoryStep DEF SameTask, SameUndo
  <2>3. Putting(req[a]) /\ Putting(req[a])'
    BY <1>2, <2>2 DEF Putting
  <2>4. PutAgrees(req[a])'
    BY <2>1, <2>2, <2>3 DEF PutAgrees, InForce, Budgeted
  <2> QED
    BY <1>1, <1>2, <2>3, <2>4, UndoMemoryStep, AgreeMoved
<1> QED
  BY <1>3

LEMMA UndoAdmissionAgree ==
    ASSUME Typed, Overlaps, Agree, NEW a \in Admins, UndoAdmission(a)
    PROVE  Agree'
<1> SUFFICES ASSUME Quietly' PROVE Agree'
  BY DEF Agree, Quietly
<1>1. Quietly /\ Others(a) /\ Control(req[a])
  BY UndoAdmissionStep, QuietlyBefore, TypedParts
<1>2. req[a].op = "put"
  BY <1>1, UndoAdmissionStep DEF Control, PutSteps
<1>3. Agree'
  <2>1. /\ Putting(req[a]) => PutAgrees(req[a])
        /\ ~Putting(req[a]) => Agreed
    BY <1>1, <1>2, AgreeBefore
  <2>2. /\ req[a].set \in Settings /\ req[a].prev \in Settings
        /\ normalizeNativeRuntimeSettings(req[a].set) = req[a].set
        /\ normalizeNativeRuntimeSettings(req[a].prev) = req[a].prev
    BY TypedParts, ValidIsSettings, OverItself
  <2>5. /\ req[a].pc = "undo admission" /\ stored' = stored /\ memory' = memory
        /\ admission' = req[a].prior.budget /\ req'[a].pc = "restore" /\ SameTask(req'[a], req[a])
        /\ SameUndo(req'[a], req[a])
    BY <1>1, <1>2, UndoAdmissionStep, DoneType
  <2>3. Putting(req[a])' => PutAgrees(req[a])'
    BY <2>1, <2>2, <2>5, <1>1, <1>2 DEF Putting, PutAgrees, Agreed, InForce, Budgeted, SameTask, SameUndo
  <2>4. ~Putting(req[a])' => Agreed'
    BY <2>1, <2>2, <2>5, <1>1, <1>2 DEF Putting, PutAgrees, Agreed, InForce, Budgeted, SameTask, SameUndo
  <2> QED
    BY <1>1, <1>2, <2>3, <2>4, UndoAdmissionStep, AgreeMoved
<1> QED
  BY <1>3

LEMMA RestoreSettingAgree ==
    ASSUME Typed, Overlaps, Agree, NEW a \in Admins, RestoreSetting(a)
    PROVE  Agree'
<1> SUFFICES ASSUME Quietly' PROVE Agree'
  BY DEF Agree, Quietly
<1>1. Quietly /\ Others(a) /\ Control(req[a])
  BY RestoreSettingStep, QuietlyBefore, TypedParts
<1>2. req[a].op = "put"
  BY <1>1, RestoreSettingStep DEF Control, PutSteps
<1>3. Agree'
  <2>1. /\ Putting(req[a]) => PutAgrees(req[a])
        /\ ~Putting(req[a]) => Agreed
    BY <1>1, <1>2, AgreeBefore
  <2>2. /\ req[a].set \in Settings /\ req[a].prev \in Settings
        /\ normalizeNativeRuntimeSettings(req[a].set) = req[a].set
        /\ normalizeNativeRuntimeSettings(req[a].prev) = req[a].prev
    BY TypedParts, ValidIsSettings, OverItself
  <2>5. /\ req[a].pc = "restore" /\ stored'.set = req[a].prev /\ memory' = memory
        /\ admission' = admission /\ req'[a].op = "none"
    BY <1>1, <1>2, RestoreSettingStep, DoneType
  <2>3. Putting(req[a])' => PutAgrees(req[a])'
    BY <2>1, <2>2, <2>5, <1>1, <1>2 DEF Putting, PutAgrees, Agreed, InForce, Budgeted, SameTask, SameUndo
  <2>4. ~Putting(req[a])' => Agreed'
    BY <2>1, <2>2, <2>5, <1>1, <1>2 DEF Putting, PutAgrees, Agreed, InForce, Budgeted, SameTask, SameUndo
  <2> QED
    BY <1>1, <1>2, <2>3, <2>4, RestoreSettingStep, AgreeMoved
<1> QED
  BY <1>3

\* Steps of a request that is not an update.
LEMMA ElsewhereAgrees ==
    ASSUME Typed, Overlaps, Agree, NEW a \in Admins,
           UpdateOutboundProxy(a) \/
           Selected(a) \/ Reapply(a) \/ ReapplyFails(a) \/ RestoreProxy(a) \/ Unapply(a) \/
           CountOutboundProxyReferences(a) \/ DeleteOutboundProxy(a) \/ SaveAccount(a) \/
           RestoreAccount(a)
    PROVE  Agree'
<1> SUFFICES ASSUME Quietly' PROVE Agree'
  BY DEF Agree, Quietly
<1>1. Quietly /\ Others(a) /\ ~Putting(req[a]) /\ ~Putting(req[a])' /\ SameSettings
  <2> USE DEF Control, PutSteps, PatchSteps, Putting, SameTask, SameSettings
  <2>1. CASE UpdateOutboundProxy(a)
    BY <2>1, UpdateOutboundProxyStep, QuietlyBefore, TypedParts, DoneType
  <2>2. CASE Selected(a)
    BY <2>2, SelectedStep, QuietlyBefore, TypedParts, DoneType
  <2>3. CASE Reapply(a)
    BY <2>3, ReapplyStep, QuietlyBefore, TypedParts, DoneType
  <2>4. CASE ReapplyFails(a)
    BY <2>4, ReapplyFailsStep, QuietlyBefore, TypedParts, DoneType
  <2>5. CASE RestoreProxy(a)
    BY <2>5, RestoreProxyStep, QuietlyBefore, TypedParts, DoneType
  <2>6. CASE Unapply(a)
    BY <2>6, UnapplyStep, QuietlyBefore, TypedParts, DoneType
  <2>7. CASE CountOutboundProxyReferences(a)
    BY <2>7, CountOutboundProxyReferencesStep, QuietlyBefore, TypedParts, DoneType
  <2>8. CASE DeleteOutboundProxy(a)
    BY <2>8, DeleteOutboundProxyStep, QuietlyBefore, TypedParts, DoneType
  <2>9. CASE SaveAccount(a)
    BY <2>9, SaveAccountStep, QuietlyBefore, TypedParts, DoneType
  <2>10. CASE RestoreAccount(a)
    BY <2>10, RestoreAccountStep, QuietlyBefore, TypedParts, DoneType
  <2> QED
    BY <2>1, <2>2, <2>3, <2>4, <2>5, <2>6, <2>7, <2>8, <2>9, <2>10
<1> QED
  BY <1>1, AgreeKept

LEMMA ListUpstreamCredentialsAgree ==
    ASSUME Typed, Overlaps, Agree, NEW a \in Admins, ListUpstreamCredentials(a)
    PROVE  Agree'
<1> SUFFICES ASSUME Quietly' PROVE Agree'
  BY DEF Agree, Quietly
<1>1. Quietly /\ Others(a) /\ Control(req[a])
  BY ListUpstreamCredentialsStep, QuietlyBefore, TypedParts
<1>2. CASE req[a].op # "put"
  <2>1. ~Putting(req[a]) /\ ~Putting(req[a])' /\ SameSettings
    BY <1>2, ListUpstreamCredentialsStep, DoneType DEF Putting, SameTask, SameSettings
  <2> QED
    BY <1>1, <2>1, AgreeKept
<1>3. CASE req[a].op = "put"
  <2>1. /\ Putting(req[a]) => PutAgrees(req[a])
        /\ ~Putting(req[a]) => Agreed
    BY <1>1, <1>3, AgreeBefore
  <2>2. /\ req[a].pc = "list" /\ req'[a].pc = "urls" /\ req'[a].op = req[a].op /\ req'[a].set = req[a].set
        /\ req'[a].prev = req[a].prev /\ req'[a].prior = req[a].prior
        /\ stored' = stored /\ memory' = memory /\ admission' = admission
    BY ListUpstreamCredentialsStep DEF SameTask, SameUndo
  <2>3. Putting(req[a]) /\ Putting(req[a])'
    BY <1>3, <2>2 DEF Putting
  <2>4. PutAgrees(req[a])'
    BY <2>1, <2>2, <2>3 DEF PutAgrees, InForce, Budgeted
  <2> QED
    BY <1>1, <1>3, <2>3, <2>4, ListUpstreamCredentialsStep, AgreeMoved
<1> QED
  BY <1>2, <1>3

LEMMA ListOutboundProxiesAgree ==
    ASSUME Typed, Overlaps, Agree, NEW a \in Admins, ListOutboundProxies(a)
    PROVE  Agree'
<1> SUFFICES ASSUME Quietly' PROVE Agree'
  BY DEF Agree, Quietly
<1>1. Quietly /\ Others(a) /\ Control(req[a])
  BY ListOutboundProxiesStep, QuietlyBefore, TypedParts
<1>2. CASE req[a].op # "put"
  <2>1. ~Putting(req[a]) /\ ~Putting(req[a])' /\ SameSettings
    BY <1>2, ListOutboundProxiesStep, DoneType DEF Putting, SameTask, SameSettings
  <2> QED
    BY <1>1, <2>1, AgreeKept
<1>3. CASE req[a].op = "put"
  <2>1. /\ Putting(req[a]) => PutAgrees(req[a])
        /\ ~Putting(req[a]) => Agreed
    BY <1>1, <1>3, AgreeBefore
  <2>2. /\ req[a].pc = "urls" /\ req'[a].pc = "replace" /\ req'[a].op = req[a].op /\ req'[a].set = req[a].set
        /\ req'[a].prev = req[a].prev /\ req'[a].prior = req[a].prior
        /\ stored' = stored /\ memory' = memory /\ admission' = admission
    BY ListOutboundProxiesStep DEF SameTask, SameUndo
  <2>3. Putting(req[a]) /\ Putting(req[a])'
    BY <1>3, <2>2 DEF Putting
  <2>4. PutAgrees(req[a])'
    BY <2>1, <2>2, <2>3 DEF PutAgrees, InForce, Budgeted
  <2> QED
    BY <1>1, <1>3, <2>3, <2>4, ListOutboundProxiesStep, AgreeMoved
<1> QED
  BY <1>2, <1>3

LEMMA ReplaceCredentialsAgree ==
    ASSUME Typed, Overlaps, Agree, NEW a \in Admins, ReplaceCredentials(a)
    PROVE  Agree'
<1> SUFFICES ASSUME Quietly' PROVE Agree'
  BY DEF Agree, Quietly
<1>1. Quietly /\ Others(a) /\ Control(req[a])
  BY ReplaceCredentialsStep, QuietlyBefore, TypedParts
<1>2. CASE req[a].op # "put"
  <2>1. ~Putting(req[a]) /\ ~Putting(req[a])' /\ SameSettings
    BY <1>2, ReplaceCredentialsStep, DoneType DEF Putting, SameTask, SameSettings
  <2> QED
    BY <1>1, <2>1, AgreeKept
<1>3. CASE req[a].op = "put"
  <2>1. /\ Putting(req[a]) => PutAgrees(req[a])
        /\ ~Putting(req[a]) => Agreed
    BY <1>1, <1>3, AgreeBefore
  <2>2. /\ req[a].set \in Settings /\ req[a].prev \in Settings
        /\ normalizeNativeRuntimeSettings(req[a].set) = req[a].set
        /\ normalizeNativeRuntimeSettings(req[a].prev) = req[a].prev
    BY TypedParts, ValidIsSettings, OverItself
  <2>5. req[a].pc = "replace" /\ stored' = stored /\ memory' = memory /\ admission' = admission /\ req'[a].op = "none"
    BY <1>1, <1>3, ReplaceCredentialsStep, DoneType
  <2>3. Putting(req[a])' => PutAgrees(req[a])'
    BY <2>1, <2>2, <2>5, <1>1, <1>3 DEF Putting, PutAgrees, Agreed, InForce, Budgeted, SameTask, SameUndo
  <2>4. ~Putting(req[a])' => Agreed'
    BY <2>1, <2>2, <2>5, <1>1, <1>3 DEF Putting, PutAgrees, Agreed, InForce, Budgeted, SameTask, SameUndo
  <2> QED
    BY <1>1, <1>3, <2>3, <2>4, ReplaceCredentialsStep, AgreeMoved
<1> QED
  BY <1>2, <1>3

LEMMA ReloadFailsAgree ==
    ASSUME Typed, Overlaps, Agree, NEW a \in Admins, ReloadFails(a)
    PROVE  Agree'
<1> SUFFICES ASSUME Quietly' PROVE Agree'
  BY DEF Agree, Quietly
<1>1. Quietly /\ Others(a) /\ Control(req[a])
  BY ReloadFailsStep, QuietlyBefore, TypedParts
<1>2. CASE req[a].op # "put"
  <2>1. ~Putting(req[a]) /\ ~Putting(req[a])' /\ SameSettings
    BY <1>2, ReloadFailsStep, DoneType DEF Putting, SameTask, SameSettings
  <2> QED
    BY <1>1, <2>1, AgreeKept
<1>3. CASE req[a].op = "put"
  <2>1. /\ Putting(req[a]) => PutAgrees(req[a])
        /\ ~Putting(req[a]) => Agreed
    BY <1>1, <1>3, AgreeBefore
  <2>2. /\ req[a].set \in Settings /\ req[a].prev \in Settings
        /\ normalizeNativeRuntimeSettings(req[a].set) = req[a].set
        /\ normalizeNativeRuntimeSettings(req[a].prev) = req[a].prev
    BY TypedParts, ValidIsSettings, OverItself
  <2>5. req[a].pc = "replace" /\ stored' = stored /\ memory' = memory /\ admission' = admission
        /\ (req'[a].op = "none" \/ (req'[a].pc = "undo runtime" /\ SameTask(req'[a], req[a]) /\ SameUndo(req'[a], req[a])))
    BY <1>1, <1>3, ReloadFailsStep, DoneType
  <2>3. Putting(req[a])' => PutAgrees(req[a])'
    BY <2>1, <2>2, <2>5, <1>1, <1>3 DEF Putting, PutAgrees, Agreed, InForce, Budgeted, SameTask, SameUndo
  <2>4. ~Putting(req[a])' => Agreed'
    BY <2>1, <2>2, <2>5, <1>1, <1>3 DEF Putting, PutAgrees, Agreed, InForce, Budgeted, SameTask, SameUndo
  <2> QED
    BY <1>1, <1>3, <2>3, <2>4, ReloadFailsStep, AgreeMoved
<1> QED
  BY <1>2, <1>3

LEMMA UndoFailsAgree ==
    ASSUME Typed, Overlaps, Agree, NEW a \in Admins, UndoFails(a)
    PROVE  Agree'
BY UndoFailsStep DEF Agree

LEMMA BeginningAgree ==
    ASSUME Typed, Overlaps, Agree, NEW a \in Admins, NEW q, Beginning(a, q)
    PROVE  Agree'
<1> SUFFICES ASSUME Quietly' PROVE Agree'
  BY DEF Agree, Quietly
<1>1. BeginningFacts(a, q)
  BY BeginningStep
<1>2. /\ phase = "up" /\ req[a].pc = "new" /\ taints \subseteq taints'
      /\ memory' = memory /\ admission' = admission
  BY <1>1, BeginFacts DEF BeginningFacts
<1>3. Quietly /\ Others(a) /\ SameSettings
  BY <1>1, <1>2, QuietlyBefore DEF BeginningFacts, SameSettings
<1>4. ~Putting(req[a])
  BY <1>2, TypedParts DEF Control, Putting
<1>5. ~Putting(req[a])'
  <2>1. CASE adminNativeSettings(a, q)
    BY <2>1, adminNativeSettingsStep, DoneType DEF Putting, Fresh
  <2>2. CASE q.op # "put"
    BY <2>2, <1>1, DoneType DEF BeginningFacts, Putting
  <2>3. q.op = "put" => adminNativeSettings(a, q)
    BY CreateOutboundProxyStep, adminProxyStep, adminProxyDeleteStep, validProxyIDStep, CatalogUpdateStep
       DEF Beginning
  <2> QED
    BY <2>1, <2>2, <2>3
<1> QED
  BY <1>3, <1>4, <1>5, AgreeKept

LEMMA StartAgree ==
    ASSUME Typed, BootAgrees, Start
    PROVE  Agree' /\ BootAgrees'
<1>1. CASE loadNativeRuntimeSettings
  BY <1>1, loadStep DEF Agree, BootAgrees, SameDatabase
<1>2. CASE MigrateSystem
  BY <1>2, MigrateSystemStep DEF Agree, BootAgrees, SameDatabase, SetSettings
<1>3. CASE PersistSettings
  <2>1. boot.set \in Settings /\ normalizeNativeRuntimeSettings(boot.set) = boot.set
    BY OverItself DEF Typed, Boot
  <2> QED
    BY <1>3, <2>1, PersistSettingsStep DEF Agree, BootAgrees
<1>4. CASE startEmbeddedCPA
  <2>1. \A a \in Admins : ~Putting(req[a])'
    BY <1>4, startStep DEF Typed, Control, Idle, Putting
  <2>2. phase' = "up" => Agreed'
    BY <1>4, startStep DEF BootAgrees, Agreed, SameDatabase
  <2>3. phase' # "build" /\ phase' # "migrate"
    BY <1>4, startStep
  <2> QED
    BY <2>1, <2>2, <2>3 DEF Agree, BootAgrees, Putting
<1>5. CASE Crash
  BY <1>5, CrashStep DEF Agree, BootAgrees
<1>6. ASSUME NEW p \in Proxies, NEW u \in Urls, ensure(p, u) PROVE Agree' /\ BootAgrees'
  BY <1>6, ensureStep DEF Agree, BootAgrees, SetKnown
<1>7. ASSUME NEW c \in Accounts, Import(c) PROVE Agree' /\ BootAgrees'
  BY <1>7, ImportStep DEF Agree, BootAgrees
<1>8. ASSUME NEW c \in Accounts, MigrateAccount(c) PROVE Agree' /\ BootAgrees'
  BY <1>8, MigrateAccountStep DEF Agree, BootAgrees
<1> QED
  BY <1>1, <1>2, <1>3, <1>4, <1>5, <1>6, <1>7, <1>8, Zenon DEF Start

LEMMA AgreeNext ==
    ASSUME Typed, Overlaps, Agree, BootAgrees, [SettingsNext]_vars
    PROVE  Agree' /\ BootAgrees'
<1>1. ASSUME NEW a \in Admins, Work(a) PROVE Agree'
  BY <1>1, ResolveSystemAgree, ResolveGitHubAgree, PutRuntimeSettingAgree, PutFailsAgree, PriorAgree,
     ApplySettingsAgree, ApplyFailsAgree, SetMemoryAgree, replaceAdmissionAgree, UndoRuntimeAgree,
     UndoMemoryAgree, UndoAdmissionAgree, RestoreSettingAgree, ElsewhereAgrees,
     ListUpstreamCredentialsAgree, ListOutboundProxiesAgree, ReplaceCredentialsAgree, ReloadFailsAgree,
     UndoFailsAgree, Zenon DEF Work
<1>2. ASSUME NEW a \in Admins, NEW q \in origin.requests, Beginning(a, q) PROVE Agree'
  BY <1>2, BeginningAgree
<1>3. ASSUME NEW a \in Admins, Work(a) PROVE BootAgrees'
  <2>1. Progress(a)
    BY <1>3, WorkProgress
  <2> QED
    BY <2>1 DEF Progress, BootAgrees
<1>4. ASSUME NEW a \in Admins, NEW q \in origin.requests, Beginning(a, q) PROVE BootAgrees'
  <2>1. phase' = "up"
    BY <1>4, BeginningStep, BeginFacts DEF BeginningFacts
  <2> QED
    BY <2>1 DEF BootAgrees
<1>5. CASE Start
  BY <1>5, StartAgree
<1>6. CASE UNCHANGED vars
  BY <1>6 DEF vars, Agree, BootAgrees, PutAgrees, Agreed
<1> QED
  BY <1>1, <1>2, <1>3, <1>4, <1>5, <1>6, NextSplit

-----------------------------------------------------------------------------
(* What is used is there *)

\* What a step of a request may change, action by action.
RowsOnlyBy(a) == rows' = rows \/ UpdateOutboundProxy(a) \/ RestoreProxy(a) \/ DeleteOutboundProxy(a)
AccountsOnlyBy(a) == accounts' = accounts \/ SaveAccount(a) \/ RestoreAccount(a)

LEMMA OnlyBy ==
    ASSUME Typed, NEW a \in Admins, Work(a)
    PROVE  RowsOnlyBy(a) /\ AccountsOnlyBy(a)
<1>1. CASE ResolveSystem(a)
  BY <1>1, ResolveSystemStep DEF RowsOnlyBy, AccountsOnlyBy
<1>2. CASE ResolveGitHub(a)
  BY <1>2, ResolveGitHubStep DEF RowsOnlyBy, AccountsOnlyBy
<1>3. CASE PutRuntimeSetting(a)
  BY <1>3, PutRuntimeSettingStep DEF RowsOnlyBy, AccountsOnlyBy
<1>4. CASE PutFails(a)
  BY <1>4, PutFailsStep DEF RowsOnlyBy, AccountsOnlyBy
<1>5. CASE Prior(a)
  BY <1>5, PriorStep DEF RowsOnlyBy, AccountsOnlyBy
<1>6. CASE ApplySettings(a)
  BY <1>6, ApplySettingsStep DEF RowsOnlyBy, AccountsOnlyBy
<1>7. CASE ApplyFails(a)
  BY <1>7, ApplyFailsStep DEF RowsOnlyBy, AccountsOnlyBy
<1>8. CASE SetMemory(a)
  BY <1>8, SetMemoryStep DEF RowsOnlyBy, AccountsOnlyBy
<1>9. CASE replaceAdmission(a)
  BY <1>9, replaceAdmissionStep DEF RowsOnlyBy, AccountsOnlyBy
<1>10. CASE UndoRuntime(a)
  BY <1>10, UndoRuntimeStep DEF RowsOnlyBy, AccountsOnlyBy
<1>11. CASE UndoMemory(a)
  BY <1>11, UndoMemoryStep DEF RowsOnlyBy, AccountsOnlyBy
<1>12. CASE UndoAdmission(a)
  BY <1>12, UndoAdmissionStep DEF RowsOnlyBy, AccountsOnlyBy
<1>13. CASE RestoreSetting(a)
  BY <1>13, RestoreSettingStep DEF RowsOnlyBy, AccountsOnlyBy
<1>14. CASE UpdateOutboundProxy(a)
  BY <1>14, UpdateOutboundProxyStep DEF RowsOnlyBy, AccountsOnlyBy
<1>15. CASE Selected(a)
  BY <1>15, SelectedStep DEF RowsOnlyBy, AccountsOnlyBy
<1>16. CASE Reapply(a)
  BY <1>16, ReapplyStep DEF RowsOnlyBy, AccountsOnlyBy
<1>17. CASE ReapplyFails(a)
  BY <1>17, ReapplyFailsStep DEF RowsOnlyBy, AccountsOnlyBy
<1>18. CASE RestoreProxy(a)
  BY <1>18, RestoreProxyStep DEF RowsOnlyBy, AccountsOnlyBy
<1>19. CASE Unapply(a)
  BY <1>19, UnapplyStep DEF RowsOnlyBy, AccountsOnlyBy
<1>20. CASE CountOutboundProxyReferences(a)
  BY <1>20, CountOutboundProxyReferencesStep DEF RowsOnlyBy, AccountsOnlyBy
<1>21. CASE DeleteOutboundProxy(a)
  BY <1>21, DeleteOutboundProxyStep DEF RowsOnlyBy, AccountsOnlyBy
<1>22. CASE SaveAccount(a)
  BY <1>22, SaveAccountStep DEF RowsOnlyBy, AccountsOnlyBy
<1>23. CASE RestoreAccount(a)
  BY <1>23, RestoreAccountStep DEF RowsOnlyBy, AccountsOnlyBy
<1>24. CASE ListUpstreamCredentials(a)
  BY <1>24, ListUpstreamCredentialsStep DEF RowsOnlyBy, AccountsOnlyBy
<1>25. CASE ListOutboundProxies(a)
  BY <1>25, ListOutboundProxiesStep DEF RowsOnlyBy, AccountsOnlyBy
<1>26. CASE ReplaceCredentials(a)
  BY <1>26, ReplaceCredentialsStep DEF RowsOnlyBy, AccountsOnlyBy
<1>27. CASE ReloadFails(a)
  BY <1>27, ReloadFailsStep DEF RowsOnlyBy, AccountsOnlyBy
<1>28. CASE UndoFails(a)
  BY <1>28, UndoFailsStep DEF RowsOnlyBy, AccountsOnlyBy
<1> QED
  BY <1>1, <1>2, <1>3, <1>4, <1>5, <1>6, <1>7, <1>8, <1>9, <1>10, <1>11, <1>12, <1>13, <1>14, <1>15,
     <1>16, <1>17, <1>18, <1>19, <1>20, <1>21, <1>22, <1>23, <1>24, <1>25, <1>26, <1>27, <1>28, Zenon DEF Work

RowsGrow == \A p \in Proxies : rows[p] # NoProxy => rows'[p] # NoProxy

LEMMA PresentGrows ==
    ASSUME RowsGrow, NEW p, Present(rows, p)
    PROVE  Present(rows', p)
BY DEF RowsGrow, Present

LEMMA WorkGrows ==
    ASSUME Typed, NEW a \in Admins, Work(a), ~DeleteOutboundProxy(a)
    PROVE  RowsGrow
<1>1. rows \in Rows /\ Control(req[a])
  BY TypedParts
<1>2. CASE rows' = rows
  BY <1>2 DEF RowsGrow
<1>3. CASE UpdateOutboundProxy(a)
  <2>1. req[a].id \in Proxies /\ req[a].url \in Urls
    BY <1>1, <1>3, UpdateOutboundProxyStep DEF Control, PatchSteps
  <2>2. rows' = rows \/ rows' = [rows EXCEPT ![req[a].id] = req[a].url]
    BY <1>3, UpdateOutboundProxyStep
  <2> QED
    BY <1>1, <2>1, <2>2, Names DEF RowsGrow, Rows
<1>4. CASE RestoreProxy(a)
  <2>1. req[a].id \in Proxies /\ req[a].was \in Urls
    BY <1>1, <1>4, RestoreProxyStep DEF Control
  <2>2. rows' = rows \/ rows' = [rows EXCEPT ![req[a].id] = req[a].was]
    BY <1>4, RestoreProxyStep
  <2> QED
    BY <1>1, <2>1, <2>2, Names DEF RowsGrow, Rows
<1> QED
  BY <1>2, <1>3, <1>4, OnlyBy DEF RowsOnlyBy

LEMMA BeginningGrows ==
    ASSUME Typed, NEW a \in Admins, NEW q, Beginning(a, q)
    PROVE  RowsGrow
<1>1. CASE rows' = rows
  BY <1>1 DEF RowsGrow
<1>2. CASE CreateOutboundProxy(a, q)
  <2>1. PICK p \in Proxies : rows[p] = NoProxy /\ rows' = [rows EXCEPT ![p] = q.to]
    BY <1>2, CreateOutboundProxyStep
  <2> QED
    BY <2>1 DEF RowsGrow, Typed, Rows
<1> QED
  BY <1>1, <1>2, adminNativeSettingsStep, adminProxyStep, adminProxyDeleteStep, validProxyIDStep,
     CatalogUpdateStep DEF Beginning

LEMMA StartGrows ==
    ASSUME Typed, Start
    PROVE  RowsGrow
<1>1. CASE rows' = rows
  BY <1>1 DEF RowsGrow
<1>2. ASSUME NEW p \in Proxies, NEW u \in Urls, ensure(p, u) PROVE RowsGrow
  BY <1>2, ensureStep DEF RowsGrow, Typed, Rows
<1>3. (\E c \in Accounts : Import(c) \/ MigrateAccount(c)) => rows' = rows
  BY ImportStep, MigrateAccountStep
<1>4. (loadNativeRuntimeSettings \/ MigrateSystem \/ PersistSettings \/ startEmbeddedCPA \/ Crash) => rows' = rows
  BY loadStep, MigrateSystemStep, PersistSettingsStep, startStep, CrashStep DEF SameDatabase
<1> QED
  BY <1>1, <1>2, <1>3, <1>4, Zenon DEF Start

LEMMA RefersGrows ==
    ASSUME RowsGrow, NEW l, Refers(l)
    PROVE  \A c \in Accounts : Present(rows', l[c].proxy)
BY PresentGrows DEF Refers, Exists

LEMMA ForeignKeysKept ==
    ASSUME ForeignKeys, RowsGrow, accounts' = accounts, phase' = "migrate" => phase = "migrate" /\ boot'.list = boot.list
    PROVE  ForeignKeys'
<1>1. \A c \in Accounts : Present(rows', accounts'[c].proxy)
  BY RefersGrows DEF ForeignKeys
<1>2. phase' = "migrate" => \A c \in Accounts : Present(rows', boot'.list[c].proxy)
  BY RefersGrows DEF ForeignKeys
<1> QED
  BY <1>1, <1>2 DEF ForeignKeys, Refers, Exists

LEMMA NoneThere == \A r : Present(r, NoProxy)
BY Names DEF Present

LEMMA ForeignKeysNext ==
    ASSUME Typed, BootAgrees, ForeignKeys, [SettingsNext]_vars
    PROVE  ForeignKeys'
<1>1. ASSUME NEW a \in Admins, Work(a) PROVE ForeignKeys'
  <2>1. phase' = "up"
    BY <1>1, WorkProgress DEF Progress
  <2>2. CASE accounts' = accounts /\ ~DeleteOutboundProxy(a)
    BY <1>1, <2>1, <2>2, WorkGrows, ForeignKeysKept
  <2>3. CASE DeleteOutboundProxy(a)
    <3>1. accounts' = accounts /\ (rows' = rows \/ (~Referenced(req[a].id) /\ rows' = [rows EXCEPT ![req[a].id] = NoProxy]))
      BY <2>3, DeleteOutboundProxyStep
    <3>2. \A c \in Accounts : Present(rows', accounts'[c].proxy)
      BY <3>1 DEF ForeignKeys, Refers, Exists, Present, Referenced, Typed, Rows
    <3> QED
      BY <2>1, <3>2 DEF ForeignKeys, Refers, Exists
  <2>4. CASE SaveAccount(a) \/ RestoreAccount(a)
    <3>1. Control(req[a]) /\ req[a].op = "assign" /\ req[a].to \in ProxyChoices /\ req[a].from \in ProxyChoices
      BY <2>4, TypedParts, SaveAccountStep, RestoreAccountStep DEF Control
    <3>2. req[a].id \in Accounts
      BY <3>1 DEF Control
    <3>3. /\ rows' = rows
          /\ \/ accounts' = accounts
             \/ Exists(req[a].to) /\ accounts' = [accounts EXCEPT ![req[a].id] = [@ EXCEPT !.proxy = req[a].to]]
             \/ Exists(req[a].from) /\ accounts' = [accounts EXCEPT ![req[a].id] = [@ EXCEPT !.proxy = req[a].from]]
      BY <2>4, SaveAccountStep, RestoreAccountStep
    <3>4. ASSUME NEW p \in ProxyChoices, Exists(p), accounts' = [accounts EXCEPT ![req[a].id] = [@ EXCEPT !.proxy = p]]
          PROVE  \A c \in Accounts : Present(rows, accounts'[c].proxy)
      <4>1. /\ accounts'[req[a].id].proxy = p
            /\ \A d \in Accounts : d # req[a].id => accounts'[d] = accounts[d]
        BY <3>2, <3>4, AccountAssigned DEF Typed
      <4> QED
        BY <4>1, <3>4 DEF ForeignKeys, Refers, Exists
    <3>5. \A c \in Accounts : Present(rows, accounts'[c].proxy)
      BY <3>1, <3>3, <3>4 DEF ForeignKeys, Refers, Exists
    <3> QED
      BY <2>1, <3>3, <3>5 DEF ForeignKeys, Refers, Exists
  <2> QED
    BY <1>1, <2>2, <2>3, <2>4, OnlyBy DEF AccountsOnlyBy
<1>2. ASSUME NEW a \in Admins, NEW q \in origin.requests, Beginning(a, q) PROVE ForeignKeys'
  <2>1. phase' = "up" /\ accounts' = accounts
    BY <1>2, BeginningStep, BeginFacts DEF BeginningFacts
  <2> QED
    BY <1>2, <2>1, BeginningGrows, ForeignKeysKept
<1>3. ASSUME Start, accounts' = accounts, phase' = "migrate" => phase = "migrate" /\ boot'.list = boot.list
      PROVE  ForeignKeys'
  BY <1>3, StartGrows, ForeignKeysKept
<1>4. CASE loadNativeRuntimeSettings
  BY <1>4, loadStep DEF ForeignKeys, Refers, Exists, SameDatabase
<1>5. ASSUME NEW c \in Accounts, Import(c) PROVE ForeignKeys'
  <2>3. Imported(c).proxy = NoProxy
    BY DEF Imported
  <2>1. \A d \in Accounts : Present(rows, accounts'[d].proxy)
    BY <1>5, <2>3, ImportStep, NoneThere DEF ForeignKeys, Refers, Exists
  <2>2. rows' = rows /\ phase' = "down"
    BY <1>5, ImportStep
  <2> QED
    BY <2>1, <2>2 DEF ForeignKeys, Refers, Exists
<1>6. ASSUME NEW c \in Accounts, MigrateAccount(c) PROVE ForeignKeys'
  <2>1. /\ phase = "migrate" /\ rows' = rows /\ boot'.list = boot.list /\ accounts'[c] = Migrated(c)
        /\ \A d \in Accounts : d # c => accounts'[d] = accounts[d]
        /\ AccountWants(c) = NoProxy \/ Known(AccountWants(c))
    BY <1>6, MigrateAccountStep
  <2>2. boot.known = rows
    BY <2>1 DEF BootAgrees
  <2>3. Present(rows, ProxyOf(AccountWants(c)))
    <3>1. CASE AccountWants(c) = NoProxy
      BY <3>1, NoneThere DEF ProxyOf
    <3>2. CASE AccountWants(c) # NoProxy
      BY <2>1, <2>2, <3>2, ProxyOfKnown DEF Present
    <3> QED
      BY <3>1, <3>2
  <2>4. Present(rows, Migrated(c).proxy)
    BY <2>1, <2>3 DEF Migrated, ForeignKeys, Refers, Exists
  <2>5. \A d \in Accounts : Present(rows, accounts'[d].proxy)
    BY <2>1, <2>4 DEF ForeignKeys, Refers, Exists
  <2> QED
    BY <2>1, <2>5 DEF ForeignKeys, Refers, Exists
<1>7. CASE MigrateSystem
  BY <1>3, <1>7, MigrateSystemStep, Zenon DEF Start, SameDatabase, SetSettings
<1>8. CASE PersistSettings
  <2>1. accounts' = accounts /\ phase' # "migrate" /\ Start
    BY <1>8, PersistSettingsStep DEF Start
  <2> QED
    BY <1>3, <2>1
<1>9. CASE startEmbeddedCPA
  <2>1. accounts' = accounts /\ phase' # "migrate" /\ Start
    BY <1>9, startStep DEF Start, SameDatabase
  <2> QED
    BY <1>3, <2>1
<1>10. CASE Crash
  <2>1. accounts' = accounts /\ phase' # "migrate" /\ Start
    BY <1>10, CrashStep DEF Start, SameDatabase
  <2> QED
    BY <1>3, <2>1
<1>11. ASSUME NEW p \in Proxies, NEW u \in Urls, ensure(p, u) PROVE ForeignKeys'
  <2>1. Start
    BY <1>11, Zenon DEF Start
  <2>2. accounts' = accounts /\ phase = "migrate" /\ boot'.list = boot.list
    BY <1>11, ensureStep DEF SetKnown
  <2> QED
    BY <1>3, <2>1, <2>2
<1>12. CASE UNCHANGED vars
  BY <1>12 DEF vars, ForeignKeys, Refers, Exists
<1>13. Start => ForeignKeys'
  BY <1>4, <1>5, <1>6, <1>7, <1>8, <1>9, <1>10, <1>11, Zenon DEF Start
<1> QED
  BY <1>1, <1>2, <1>12, <1>13, NextSplit

LEMMA SelectableGrows ==
    ASSUME RowsGrow, NEW s, Selectable(rows, s)
    PROVE  Selectable(rows', s)
BY PresentGrows DEF Selectable

LEMMA KeptGrows ==
    ASSUME RowsGrow, NEW m, NEW q, Kept(rows, m, q)
    PROVE  Kept(rows', m, q)
BY PresentGrows, SelectableGrows DEF Kept

LEMMA SafeBefore ==
    ASSUME taints \subseteq taints', Without(Unsafe)'
    PROVE  /\ Without(Unsafe)
           /\ {"put"} \notin taints /\ {"undo"} \notin taints /\ {"put", "delete"} \notin taints
           /\ {"undo"} \notin taints'
BY DEF Without, Unsafe

\* A step that changes only its request and the proxies.
LEMMA InUseKept ==
    ASSUME InUse, Without(Unsafe), RowsGrow, NEW a \in Admins, Others(a), Kept(rows', memory, req'[a]),
           memory' = memory, stored' = stored, boot' = boot, phase' = phase
    PROVE  InUse'
<1>1. /\ Selectable(rows', normalizeNativeRuntimeSettings(stored.set))
      /\ phase = "up" => Selectable(rows', memory)
      /\ phase \in {"migrate", "build"} => Selectable(rows', boot.set)
  BY SelectableGrows DEF InUse
<1>2. \A b \in Admins : Kept(rows', memory, req'[b])
  <2> SUFFICES ASSUME NEW b \in Admins PROVE Kept(rows', memory, req'[b])
    OBVIOUS
  <2>1. CASE b = a
    BY <2>1
  <2>2. CASE b # a
    <3>1. req'[b] = req[b] /\ Kept(rows, memory, req[b])
      BY <2>2 DEF Others, InUse
    <3> QED
      BY <3>1, KeptGrows
  <2> QED
    BY <2>1, <2>2
<1> QED
  BY <1>1, <1>2 DEF InUse

LEMMA ResolveSystemUses ==
    ASSUME Typed, InUse, NEW a \in Admins, ResolveSystem(a)
    PROVE  InUse'
<1> SUFFICES ASSUME Without(Unsafe)' PROVE InUse'
  BY DEF InUse
<1>1. /\ Others(a) /\ Control(req[a]) /\ taints \subseteq taints' /\ memory' = memory /\ stored' = stored
      /\ boot' = boot /\ phase' = phase
  BY ResolveSystemStep, TypedParts
<1>2. Without(Unsafe)
  BY <1>1, SafeBefore
<1>3. ~DeleteOutboundProxy(a) /\ Work(a)
  BY ResolveSystemStep, DeleteOutboundProxyStep DEF Work
<1>4. RowsGrow
  BY <1>3, WorkGrows
<1>5. Kept(rows, memory, req[a])
  BY <1>2 DEF InUse
<1>6. Kept(rows, memory, req'[a])
  BY <1>1, <1>5, ResolveSystemStep, DoneType DEF Kept, Putting, Control, PutSteps, SameTask, Exists
<1>7. Kept(rows', memory, req'[a])
  BY <1>4, <1>6, KeptGrows
<1> QED
  BY <1>1, <1>2, <1>4, <1>7, InUseKept

LEMMA ResolveGitHubUses ==
    ASSUME Typed, InUse, NEW a \in Admins, ResolveGitHub(a)
    PROVE  InUse'
<1> SUFFICES ASSUME Without(Unsafe)' PROVE InUse'
  BY DEF InUse
<1>1. /\ Others(a) /\ Control(req[a]) /\ taints \subseteq taints' /\ memory' = memory /\ stored' = stored
      /\ boot' = boot /\ phase' = phase
  BY ResolveGitHubStep, TypedParts
<1>2. Without(Unsafe)
  BY <1>1, SafeBefore
<1>3. ~DeleteOutboundProxy(a) /\ Work(a)
  BY ResolveGitHubStep, DeleteOutboundProxyStep DEF Work
<1>4. RowsGrow
  BY <1>3, WorkGrows
<1>5. Kept(rows, memory, req[a])
  BY <1>2 DEF InUse
<1>6. Kept(rows, memory, req'[a])
  BY <1>1, <1>5, ResolveGitHubStep, DoneType DEF Kept, Putting, Control, PutSteps, SameTask, SameUndo, Selectable, githubSelectedProxyID, Exists
<1>7. Kept(rows', memory, req'[a])
  BY <1>4, <1>6, KeptGrows
<1> QED
  BY <1>1, <1>2, <1>4, <1>7, InUseKept

\* Steps that leave the settings alone and delete no proxy.
LEMMA WorkUses ==
    ASSUME Typed, InUse, NEW a \in Admins,
           PutFails(a) \/ Prior(a) \/ ApplySettings(a) \/
           ApplyFails(a) \/ replaceAdmission(a) \/ UndoRuntime(a) \/ UndoAdmission(a) \/
           UpdateOutboundProxy(a) \/ Selected(a) \/ Reapply(a) \/ ReapplyFails(a) \/
           RestoreProxy(a) \/ Unapply(a) \/ CountOutboundProxyReferences(a) \/ SaveAccount(a) \/
           RestoreAccount(a) \/ ListUpstreamCredentials(a) \/ ListOutboundProxies(a) \/
           ReplaceCredentials(a) \/ ReloadFails(a)
    PROVE  InUse'
<1> SUFFICES ASSUME Without(Unsafe)' PROVE InUse'
  BY DEF InUse
<1>1. Control(req[a]) /\ Work(a)
  BY TypedParts DEF Work
<1>2. /\ Others(a) /\ taints \subseteq taints' /\ memory' = memory /\ stored' = stored
      /\ boot' = boot /\ phase' = phase /\ req[a].pc # "remove"
      /\ Kept(rows, memory, req[a]) => Kept(rows, memory, req'[a])
  <2> USE DEF Kept, Putting, Control, PutSteps, PatchSteps, SameTask, SameUndo
  <2>1. CASE PutFails(a)
    BY <2>1, <1>1, PutFailsStep, DoneType
  <2>2. CASE Prior(a)
    BY <2>2, <1>1, PriorStep, DoneType
  <2>3. CASE ApplySettings(a)
    BY <2>3, <1>1, ApplySettingsStep, DoneType
  <2>4. CASE ApplyFails(a)
    BY <2>4, <1>1, ApplyFailsStep, DoneType
  <2>5. CASE replaceAdmission(a)
    BY <2>5, <1>1, replaceAdmissionStep, DoneType
  <2>6. CASE UndoRuntime(a)
    BY <2>6, <1>1, UndoRuntimeStep, DoneType
  <2>7. CASE UndoAdmission(a)
    BY <2>7, <1>1, UndoAdmissionStep, DoneType
  <2>8. CASE UpdateOutboundProxy(a)
    BY <2>8, <1>1, UpdateOutboundProxyStep, DoneType
  <2>9. CASE Selected(a)
    BY <2>9, <1>1, SelectedStep, DoneType
  <2>10. CASE Reapply(a)
    BY <2>10, <1>1, ReapplyStep, DoneType
  <2>11. CASE ReapplyFails(a)
    BY <2>11, <1>1, ReapplyFailsStep, DoneType
  <2>12. CASE RestoreProxy(a)
    BY <2>12, <1>1, RestoreProxyStep, DoneType
  <2>13. CASE Unapply(a)
    BY <2>13, <1>1, UnapplyStep, DoneType
  <2>14. CASE CountOutboundProxyReferences(a)
    BY <2>14, <1>1, CountOutboundProxyReferencesStep, DoneType
  <2>15. CASE SaveAccount(a)
    BY <2>15, <1>1, SaveAccountStep, DoneType
  <2>16. CASE RestoreAccount(a)
    BY <2>16, <1>1, RestoreAccountStep, DoneType
  <2>17. CASE ListUpstreamCredentials(a)
    BY <2>17, <1>1, ListUpstreamCredentialsStep, DoneType
  <2>18. CASE ListOutboundProxies(a)
    BY <2>18, <1>1, ListOutboundProxiesStep, DoneType
  <2>19. CASE ReplaceCredentials(a)
    BY <2>19, <1>1, ReplaceCredentialsStep, DoneType
  <2>20. CASE ReloadFails(a)
    BY <2>20, <1>1, ReloadFailsStep, DoneType
  <2> QED
    BY <2>1, <2>2, <2>3, <2>4, <2>5, <2>6, <2>7, <2>8, <2>9, <2>10, <2>11, <2>12, <2>13, <2>14,
       <2>15, <2>16, <2>17, <2>18, <2>19, <2>20
<1>3. Without(Unsafe)
  BY <1>2, SafeBefore
<1>4. RowsGrow
  BY <1>1, <1>2, DeleteOutboundProxyStep, WorkGrows
<1>5. Kept(rows', memory, req'[a])
  BY <1>2, <1>3, <1>4, KeptGrows DEF InUse
<1> QED
  BY <1>2, <1>3, <1>4, <1>5, InUseKept

LEMMA UndoFailsUses ==
    ASSUME Typed, InUse, NEW a \in Admins, UndoFails(a)
    PROVE  InUse'
BY UndoFailsStep, SafeBefore DEF InUse, Without, Unsafe

\* A step of an update that stores settings or puts them into memory.
LEMMA InUsePut ==
    ASSUME Typed, Overlaps, InUse, Without(Unsafe), NEW a \in Admins, Others(a), rows' = rows, boot' = boot,
           phase = "up", phase' = "up", req[a].op = "put", Kept(rows, memory', req'[a]),
           Selectable(rows, normalizeNativeRuntimeSettings(stored.set)'), Selectable(rows, memory')
    PROVE  InUse'
<1>1. \A b \in Admins : b # a => req[b].op # "delete"
  BY NotBoth DEF Without, Unsafe
<1>2. \A b \in Admins : Kept(rows, memory', req'[b])
  <2> SUFFICES ASSUME NEW b \in Admins, b # a PROVE Kept(rows, memory', req'[b])
    OBVIOUS
  <2>1. req'[b] = req[b] /\ Kept(rows, memory, req[b]) /\ req[b].op # "delete"
    BY <1>1 DEF Others, InUse
  <2> QED
    BY <2>1 DEF Kept
<1> QED
  BY <1>2 DEF InUse

LEMMA PutRuntimeSettingUses ==
    ASSUME Typed, Overlaps, Agree, InUse, NEW a \in Admins, PutRuntimeSetting(a)
    PROVE  InUse'
<1> SUFFICES ASSUME Without(Unsafe)' PROVE InUse'
  BY DEF InUse
<1>1. /\ Others(a) /\ Control(req[a]) /\ taints \subseteq taints' /\ rows' = rows /\ boot' = boot
      /\ phase = "up" /\ phase' = "up"
  BY PutRuntimeSettingStep, TypedParts
<1>2. req[a].op = "put"
  BY <1>1, PutRuntimeSettingStep DEF Control, PutSteps
<1>8. Without(Unsafe) /\ {"put"} \notin taints /\ {"undo"} \notin taints
  BY <1>1, SafeBefore
<1>3. Without(Unsafe) /\ phase = "up" /\ Kept(rows, memory, req[a])
  BY <1>1, <1>8 DEF InUse
<1>4. /\ stored'.set = req[a].set /\ memory' = memory /\ req'[a].pc = "prior"
      /\ req'[a].prev = memory /\ SameTask(req'[a], req[a])
  BY PutRuntimeSettingStep, DoneType
<1>5. Kept(rows, memory, req[a]) /\ req[a].op = "put"
  BY <1>2, <1>3
<1>7. /\ normalizeNativeRuntimeSettings(req[a].set) = req[a].set
      /\ normalizeNativeRuntimeSettings(req[a].prev) = req[a].prev
  BY TypedParts, ValidIsSettings, OverItself
<1>6. Selectable(rows, normalizeNativeRuntimeSettings(stored.set)') /\ Selectable(rows, memory')
  <2>1. Selectable(rows, req[a].set) /\ Selectable(rows, memory)
    BY <1>2, <1>3, <1>5, PutRuntimeSettingStep DEF Kept, InUse
  <2> QED
    BY <2>1, <1>4, <1>7
<1>9. Kept(rows, memory', req'[a])
  BY <1>3, <1>4, <1>5, PutRuntimeSettingStep DEF Kept, Putting, SameTask, InUse
<1> QED
  BY <1>1, <1>2, <1>3, <1>6, <1>9, InUsePut

LEMMA SetMemoryUses ==
    ASSUME Typed, Overlaps, Agree, InUse, NEW a \in Admins, SetMemory(a)
    PROVE  InUse'
<1> SUFFICES ASSUME Without(Unsafe)' PROVE InUse'
  BY DEF InUse
<1>1. /\ Others(a) /\ Control(req[a]) /\ taints \subseteq taints' /\ rows' = rows /\ boot' = boot
      /\ phase = "up" /\ phase' = "up"
  BY SetMemoryStep, TypedParts
<1>2. req[a].op = "put"
  BY <1>1, SetMemoryStep DEF Control, PutSteps
<1>8. Without(Unsafe) /\ {"put"} \notin taints /\ {"undo"} \notin taints
  BY <1>1, SafeBefore
<1>3. Without(Unsafe) /\ phase = "up" /\ Kept(rows, memory, req[a])
  BY <1>1, <1>8 DEF InUse
<1>4. /\ stored' = stored /\ memory' = req[a].set /\ req'[a].pc = "admission"
      /\ SameTask(req'[a], req[a]) /\ SameUndo(req'[a], req[a])
  BY SetMemoryStep, DoneType
<1>5. Kept(rows, memory, req[a]) /\ req[a].op = "put"
  BY <1>2, <1>3
<1>7. /\ normalizeNativeRuntimeSettings(req[a].set) = req[a].set
      /\ normalizeNativeRuntimeSettings(req[a].prev) = req[a].prev
  BY TypedParts, ValidIsSettings, OverItself
<1>6. Selectable(rows, normalizeNativeRuntimeSettings(stored.set)') /\ Selectable(rows, memory')
  BY <1>2, <1>3, <1>4, <1>5, SetMemoryStep DEF Kept, InUse
<1>9. Kept(rows, memory', req'[a])
  BY <1>4, <1>5, SetMemoryStep DEF Kept, Putting, SameTask, SameUndo
<1> QED
  BY <1>1, <1>2, <1>3, <1>6, <1>9, InUsePut

LEMMA UndoMemoryUses ==
    ASSUME Typed, Overlaps, Agree, InUse, NEW a \in Admins, UndoMemory(a)
    PROVE  InUse'
<1> SUFFICES ASSUME Without(Unsafe)' PROVE InUse'
  BY DEF InUse
<1>1. /\ Others(a) /\ Control(req[a]) /\ taints \subseteq taints' /\ rows' = rows /\ boot' = boot
      /\ phase = "up" /\ phase' = "up"
  BY UndoMemoryStep, TypedParts
<1>2. req[a].op = "put"
  BY <1>1, UndoMemoryStep DEF Control, PutSteps
<1>8. Without(Unsafe) /\ {"put"} \notin taints /\ {"undo"} \notin taints
  BY <1>1, SafeBefore
<1>3. Without(Unsafe) /\ phase = "up" /\ Kept(rows, memory, req[a])
  BY <1>1, <1>8 DEF InUse
<1>4. /\ stored' = stored /\ memory' = req[a].prior /\ req'[a].pc = "undo admission"
      /\ SameTask(req'[a], req[a]) /\ SameUndo(req'[a], req[a])
  BY UndoMemoryStep, DoneType
<1>5. Kept(rows, memory, req[a]) /\ req[a].op = "put"
  BY <1>2, <1>3
<1>7. /\ normalizeNativeRuntimeSettings(req[a].set) = req[a].set
      /\ normalizeNativeRuntimeSettings(req[a].prev) = req[a].prev
  BY TypedParts, ValidIsSettings, OverItself
<1>6. Selectable(rows, normalizeNativeRuntimeSettings(stored.set)') /\ Selectable(rows, memory')
  <2>1. Putting(req[a]) /\ req[a].pc # "prior"
    BY <1>2, UndoMemoryStep DEF Putting
  <2>2. Quietly
    BY <1>1, <1>8 DEF Quietly
  <2>3. req[a].prior = req[a].prev
    BY <1>2, <2>1, <2>2, AgreeBefore DEF PutAgrees
  <2> QED
    BY <1>3, <1>4, <1>5, <2>1, <2>3 DEF Kept, InUse
<1>9. Kept(rows, memory', req'[a])
  BY <1>4, <1>5, UndoMemoryStep DEF Kept, Putting, SameTask, SameUndo
<1> QED
  BY <1>1, <1>2, <1>3, <1>6, <1>9, InUsePut

LEMMA RestoreSettingUses ==
    ASSUME Typed, Overlaps, Agree, InUse, NEW a \in Admins, RestoreSetting(a)
    PROVE  InUse'
<1> SUFFICES ASSUME Without(Unsafe)' PROVE InUse'
  BY DEF InUse
<1>1. /\ Others(a) /\ Control(req[a]) /\ taints \subseteq taints' /\ rows' = rows /\ boot' = boot
      /\ phase = "up" /\ phase' = "up"
  BY RestoreSettingStep, TypedParts
<1>2. req[a].op = "put"
  BY <1>1, RestoreSettingStep DEF Control, PutSteps
<1>8. Without(Unsafe) /\ {"put"} \notin taints /\ {"undo"} \notin taints
  BY <1>1, SafeBefore
<1>3. Without(Unsafe) /\ phase = "up" /\ Kept(rows, memory, req[a])
  BY <1>1, <1>8 DEF InUse
<1>4. stored'.set = req[a].prev /\ memory' = memory /\ req'[a].op = "none"
  BY RestoreSettingStep, DoneType
<1>5. Kept(rows, memory, req[a]) /\ req[a].op = "put"
  BY <1>2, <1>3
<1>7. /\ normalizeNativeRuntimeSettings(req[a].set) = req[a].set
      /\ normalizeNativeRuntimeSettings(req[a].prev) = req[a].prev
  BY TypedParts, ValidIsSettings, OverItself
<1>6. Selectable(rows, normalizeNativeRuntimeSettings(stored.set)') /\ Selectable(rows, memory')
  <2>1. Putting(req[a])
    BY <1>2, RestoreSettingStep DEF Putting
  <2>2. Selectable(rows, req[a].prev) /\ Selectable(rows, memory)
    BY <1>1, <1>3, <1>5, <2>1 DEF Kept, InUse
  <2> QED
    BY <2>2, <1>4, <1>7
<1>9. Kept(rows, memory', req'[a])
  BY <1>4, <1>5, RestoreSettingStep DEF Kept, Putting, SameTask, SameUndo
<1> QED
  BY <1>1, <1>2, <1>3, <1>6, <1>9, InUsePut

LEMMA DeleteOutboundProxyUses ==
    ASSUME Typed, Overlaps, Agree, InUse, NEW a \in Admins, DeleteOutboundProxy(a)
    PROVE  InUse'
<1> SUFFICES ASSUME Without(Unsafe)' PROVE InUse'
  BY DEF InUse
<1>1. /\ Others(a) /\ Control(req[a]) /\ taints' = taints /\ phase = "up" /\ phase' = "up"
      /\ memory' = memory /\ stored' = stored /\ req'[a].op = "none" /\ req[a].pc = "remove"
      /\ rows' = rows \/ rows' = [rows EXCEPT ![req[a].id] = NoProxy]
  BY DeleteOutboundProxyStep, TypedParts, DoneType
<1>2. /\ Without(Unsafe) /\ {"put"} \notin taints /\ {"undo"} \notin taints /\ {"put", "delete"} \notin taints
      /\ req[a].op = "delete"
  BY <1>1, SafeBefore DEF Control
<1>3. \A b \in Admins : req[b].op # "put"
  <2>1. {"delete", "put"} = {"put", "delete"}
    OBVIOUS
  <2>2. {"delete", "put"} \notin taints
    BY <1>2, <2>1
  <2> QED
    BY <1>2, <2>2, NotBoth
<1>4. normalizeNativeRuntimeSettings(stored.set) = memory
  BY <1>1, <1>2, <1>3 DEF Agree, Agreed, Putting
<1>5. Selectable(rows, memory) /\ req[a].id # memory.sys /\ req[a].id # githubSelectedProxyID(memory)
  BY <1>1, <1>2 DEF InUse, Kept
<1>6. Selectable(rows', memory)
  BY <1>1, <1>5 DEF Selectable, Present, Typed, Rows
<1>7. \A b \in Admins : Kept(rows', memory, req'[b])
  <2> SUFFICES ASSUME NEW b \in Admins PROVE Kept(rows', memory, req'[b])
    OBVIOUS
  <2>1. CASE b = a
    BY <1>1, <2>1 DEF Kept, Putting
  <2>2. CASE b # a
    <3>1. req'[b] = req[b] /\ Kept(rows, memory, req[b]) /\ req[b].op # "put"
      BY <1>1, <1>2, <1>3, <2>2 DEF Others, InUse
    <3> QED
      BY <3>1 DEF Kept, Putting
  <2> QED
    BY <2>1, <2>2
<1> QED
  BY <1>1, <1>4, <1>6, <1>7 DEF InUse

LEMMA BeginningUses ==
    ASSUME Typed, InUse, NEW a \in Admins, NEW q, Beginning(a, q)
    PROVE  InUse'
<1> SUFFICES ASSUME Without(Unsafe)' PROVE InUse'
  BY DEF InUse
<1>1. BeginningFacts(a, q)
  BY BeginningStep
<1>2. /\ Others(a) /\ taints \subseteq taints' /\ stored' = stored /\ memory' = memory /\ boot' = boot
      /\ phase' = phase
  BY <1>1, BeginFacts DEF BeginningFacts
<1>3. Without(Unsafe) /\ RowsGrow
  BY <1>2, SafeBefore, BeginningGrows
<1>4. Kept(rows', memory, req'[a])
  <2>1. CASE req'[a].op \notin {"put", "delete"}
    BY <2>1 DEF Kept, Putting
  <2>2. CASE adminNativeSettings(a, q)
    BY <2>2, adminNativeSettingsStep, DoneType DEF Kept, Putting, Fresh
  <2>3. CASE adminProxyDelete(a, q)
    BY <2>3, adminProxyDeleteStep, DoneType DEF Kept, Putting, Fresh
  <2>4. CASE CreateOutboundProxy(a, q)
    BY <2>1, <2>4, CreateOutboundProxyStep, DoneType
  <2>5. CASE adminProxy(a, q)
    BY <2>1, <2>5, adminProxyStep, DoneType DEF Fresh
  <2>6. CASE validProxyID(a, q)
    BY <2>1, <2>6, validProxyIDStep, DoneType DEF Fresh
  <2>7. CASE CatalogUpdate(a, q)
    BY <2>1, <2>7, CatalogUpdateStep, DoneType DEF Fresh
  <2> QED
    BY <2>2, <2>3, <2>4, <2>5, <2>6, <2>7 DEF Beginning
<1> QED
  BY <1>2, <1>3, <1>4, InUseKept

LEMMA StartUses ==
    ASSUME Typed, BootAgrees, InUse, Start
    PROVE  InUse'
<1> SUFFICES ASSUME Without(Unsafe)' PROVE InUse'
  BY DEF InUse
<1>1. RowsGrow
  BY StartGrows
<1>2. Without(Unsafe)
  <2>1. CASE Crash
    BY <2>1, CrashStep DEF Without, Unsafe
  <2>2. ~Crash => taints' = taints
    BY loadStep, MigrateSystemStep, PersistSettingsStep, startStep, ensureStep, ImportStep, MigrateAccountStep
       DEF Start, SameHistory
  <2> QED
    BY <2>1, <2>2 DEF Without
<1>3. \A a \in Admins : Kept(rows', memory', req'[a])
  <2> SUFFICES ASSUME NEW a \in Admins PROVE Kept(rows', memory', req'[a])
    OBVIOUS
  <2>1. req'[a].op = "none"
    BY StartIdle, NoReqType, DoneType, TypedParts DEF Idle, Control
  <2> QED
    BY <2>1 DEF Kept, Putting
<1>4. Selectable(rows', normalizeNativeRuntimeSettings(stored.set))
  BY <1>1, <1>2, SelectableGrows DEF InUse
<1>5. phase \in {"migrate", "build"} => Selectable(rows', boot.set)
  BY <1>1, <1>2, SelectableGrows DEF InUse
<1>6. CASE loadNativeRuntimeSettings
  BY <1>3, <1>4, <1>6, loadStep DEF InUse, SameDatabase
<1>7. CASE MigrateSystem
  <2>1. PICK p \in Proxies : boot.known[p] # NoProxy /\ SetSettings(boot', boot, [boot.set EXCEPT !.sys = p])
    BY <1>7, MigrateSystemStep
  <2>2. boot'.set = [boot.set EXCEPT !.sys = p] /\ boot.set \in Settings
    BY <2>1 DEF SetSettings, Typed, Boot
  <2>3. boot'.set.sys = p /\ boot'.set.gh = boot.set.gh
    BY <2>2 DEF Settings
  <2>4. phase = "migrate" /\ phase' = "migrate" /\ rows' = rows /\ stored' = stored
    BY <1>7, MigrateSystemStep DEF SameDatabase
  <2>5. Present(rows, p)
    BY <2>1, <2>4 DEF BootAgrees, Present
  <2>6. Selectable(rows, boot'.set)
    BY <2>3, <2>4, <2>5, <1>5 DEF Selectable, githubSelectedProxyID
  <2> QED
    BY <1>3, <1>4, <2>4, <2>6 DEF InUse
<1>8. CASE PersistSettings
  <2>1. /\ phase = "migrate" /\ phase' = "build" /\ boot' = boot
        /\ stored'.set = boot.set \/ stored' = stored
    BY <1>8, PersistSettingsStep
  <2>2. normalizeNativeRuntimeSettings(boot.set) = boot.set
    BY OverItself DEF Typed, Boot
  <2>3. Selectable(rows', normalizeNativeRuntimeSettings(stored.set)')
    BY <1>4, <1>5, <2>1, <2>2
  <2> QED
    BY <1>3, <1>5, <2>1, <2>3 DEF InUse
<1>9. CASE startEmbeddedCPA
  <2>1. phase = "build" /\ stored' = stored /\ (phase' = "down" \/ (phase' = "up" /\ memory' = boot.set))
    BY <1>9, startStep DEF SameDatabase
  <2> QED
    BY <1>3, <1>4, <1>5, <2>1 DEF InUse
<1>10. CASE Crash
  BY <1>3, <1>4, <1>10, CrashStep DEF InUse, SameDatabase
<1>11. ASSUME NEW p \in Proxies, NEW u \in Urls, ensure(p, u) PROVE InUse'
  <2>1. phase = "migrate" /\ phase' = "migrate" /\ stored' = stored /\ boot'.set = boot.set
    BY <1>11, ensureStep DEF SetKnown
  <2> QED
    BY <1>3, <1>4, <1>5, <2>1 DEF InUse
<1>12. ASSUME NEW c \in Accounts, Import(c) PROVE InUse'
  BY <1>3, <1>4, <1>12, ImportStep DEF InUse
<1>13. ASSUME NEW c \in Accounts, MigrateAccount(c) PROVE InUse'
  <2>1. phase = "migrate" /\ phase' = "migrate" /\ stored' = stored /\ boot'.set = boot.set
    BY <1>13, MigrateAccountStep
  <2> QED
    BY <1>3, <1>4, <1>5, <2>1 DEF InUse
<1> QED
  BY <1>6, <1>7, <1>8, <1>9, <1>10, <1>11, <1>12, <1>13, Zenon DEF Start

LEMMA InUseNext ==
    ASSUME Typed, Overlaps, Agree, BootAgrees, InUse, [SettingsNext]_vars
    PROVE  InUse'
<1>1. ASSUME NEW a \in Admins, Work(a) PROVE InUse'
  BY <1>1, ResolveSystemUses, ResolveGitHubUses, PutRuntimeSettingUses, WorkUses, SetMemoryUses, UndoMemoryUses, RestoreSettingUses, DeleteOutboundProxyUses, UndoFailsUses, Zenon DEF Work
<1>2. ASSUME NEW a \in Admins, NEW q \in origin.requests, Beginning(a, q) PROVE InUse'
  BY <1>2, BeginningUses
<1>3. CASE UNCHANGED vars
  BY <1>3 DEF vars, InUse, Without
<1> QED
  BY <1>1, <1>2, <1>3, StartUses, NextSplit

-----------------------------------------------------------------------------
(* The runtime follows the settings *)

Followed == phase = "up" /\ Without(Disturbing)

LEMMA FollowedBefore ==
    ASSUME phase = "up", taints \subseteq taints', Followed'
    PROVE  /\ Followed /\ {"apply"} \notin taints' /\ {"undo"} \notin taints'
           /\ {"put"} \notin taints /\ {"patch"} \notin taints /\ {"put", "patch"} \notin taints
           /\ {"put", "delete"} \notin taints
BY DEF Followed, Without, Disturbing

\* A step that changes neither the proxies nor the settings nor the runtime's.
LEMMA FollowsKept ==
    ASSUME Follows, Followed, Followed', NEW a \in Admins, Others(a), rows' = rows, memory' = memory,
           runtime'.conf = runtime.conf, runtime'.url = runtime.url,
           Leads(rows, memory, runtime.conf, req'[a]),
           Midway(req[a]) => Midway(req'[a]),
           Readdressing(memory, req[a]) => Readdressing(memory, req'[a])
    PROVE  Follows'
<1>1. \A b \in Admins : Leads(rows, memory, runtime.conf, req'[b])
  BY DEF Others, Follows, Followed
<1>2. (\A b \in Admins : ~Midway(req'[b])) => \A b \in Admins : ~Midway(req[b])
  BY DEF Others
<1>3. (\A b \in Admins : ~Readdressing(memory, req'[b])) => \A b \in Admins : ~Readdressing(memory, req[b])
  BY DEF Others
<1> QED
  BY <1>1, <1>2, <1>3 DEF Follows, Followed

\* What the other requests do while an update or an address change is there.
LEMMA OthersOfPut ==
    ASSUME Typed, Overlaps, Followed, NEW a \in Admins, req[a].op = "put", NEW b \in Admins, b # a
    PROVE  req[b].op \notin {"put", "patch", "delete"}
<1>1. {"put", "put"} = {"put"}
  OBVIOUS
<1>2. {"put", "put"} \notin taints /\ {"put", "patch"} \notin taints /\ {"put", "delete"} \notin taints
  BY <1>1 DEF Followed, Without, Disturbing
<1> QED
  BY <1>2, NotBoth

LEMMA OthersOfPatch ==
    ASSUME Typed, Overlaps, Followed, NEW a \in Admins, req[a].op = "patch", NEW b \in Admins, b # a
    PROVE  req[b].op \notin {"put", "patch"}
<1>1. {"patch", "patch"} = {"patch"} /\ {"patch", "put"} = {"put", "patch"}
  OBVIOUS
<1>2. {"patch", "patch"} \notin taints /\ {"patch", "put"} \notin taints
  BY <1>1 DEF Followed, Without, Disturbing
<1> QED
  BY <1>2, NotBoth

\* A request of another kind is led by nothing.
LEMMA LeadsNothing ==
    ASSUME NEW r, NEW m, NEW conf, NEW q, Control(q), q.op \notin {"put", "patch"},
           q.op = "delete" => q.id # m.sys
    PROVE  Leads(r, m, conf, q) /\ ~Midway(q) /\ ~Readdressing(m, q)
BY DEF Leads, Midway, Readdressing, Control, PutSteps, PatchSteps

LEMMA FollowsPut ==
    ASSUME Typed, Overlaps, Followed, Followed', NEW a \in Admins, Others(a), req[a].op = "put", rows' = rows,
           req'[a].op = "put", Present(rows, memory'.sys), Leads(rows, memory', runtime'.conf, req'[a]),
           ~Midway(req'[a]) => runtime'.conf = memory', runtime'.url = proxyURL(rows, runtime'.conf.sys)
    PROVE  Follows'
<1>1. \A b \in Admins : b # a => Leads(rows, memory', runtime'.conf, req'[b])
  <2> SUFFICES ASSUME NEW b \in Admins, b # a PROVE Leads(rows, memory', runtime'.conf, req'[b])
    OBVIOUS
  <2>1. req'[b] = req[b] /\ Control(req[b]) /\ req[b].op \notin {"put", "patch", "delete"}
    BY OthersOfPut, TypedParts DEF Others
  <2> QED
    BY <2>1, LeadsNothing
<1> QED
  BY <1>1 DEF Follows, Followed

LEMMA FollowsPatch ==
    ASSUME Typed, Overlaps, Follows, Followed, Followed', NEW a \in Admins, Others(a), req[a].op = "patch",
           memory' = memory, runtime'.conf = memory, Present(rows', memory.sys),
           Leads(rows', memory, memory, req'[a]),
           ~Readdressing(memory, req'[a]) => runtime'.url = proxyURL(rows', memory.sys)
    PROVE  Follows'
<1>1. \A b \in Admins : b # a => Leads(rows', memory, memory, req'[b])
  <2> SUFFICES ASSUME NEW b \in Admins, b # a PROVE Leads(rows', memory, memory, req'[b])
    OBVIOUS
  <2>1. req'[b] = req[b] /\ Control(req[b]) /\ req[b].op \notin {"put", "patch"}
    BY OthersOfPatch, TypedParts DEF Others
  <2>2. req[b].op = "delete" => req[b].id # memory.sys
    BY DEF Follows, Followed, Leads
  <2> QED
    BY <2>1, <2>2, LeadsNothing
<1> QED
  BY <1>1 DEF Follows, Followed

\* While an address changes or no update is there, the runtime has the settings in memory.
LEMMA ConfOfPatch ==
    ASSUME Typed, Overlaps, Follows, Followed, NEW a \in Admins, req[a].op = "patch"
    PROVE  runtime.conf = memory
<1>1. \A b \in Admins : Control(req[b]) /\ req[b].op # "put"
  BY OthersOfPatch, TypedParts
<1>2. \A b \in Admins : ~Midway(req[b])
  BY <1>1 DEF Control, PutSteps, Midway
<1> QED
  BY <1>2 DEF Follows, Followed

LEMMA ApplySettingsFollows ==
    ASSUME Typed, Overlaps, Follows, NEW a \in Admins, ApplySettings(a)
    PROVE  Follows'
<1> SUFFICES ASSUME Followed' PROVE Follows'
  BY DEF Follows, Followed
<1>1. Others(a) /\ Control(req[a]) /\ Followed
  BY ApplySettingsStep, FollowedBefore, TypedParts
<1>2. Leads(rows, memory, runtime.conf, req[a]) /\ Present(rows, memory.sys)
  BY <1>1 DEF Follows, Followed
<1>3. req[a].op = "put"
  BY <1>1, ApplySettingsStep DEF Control, PutSteps, PatchSteps
<1>4. /\ rows' = rows /\ memory' = memory /\ runtime'.conf = req[a].set /\ runtime'.url = req[a].url
      /\ req'[a].pc = "memory" /\ SameTask(req'[a], req[a]) /\ SameUndo(req'[a], req[a])
  BY ApplySettingsStep DEF Typed
<1>5. req[a].url = proxyURL(rows, req[a].set.sys)
  BY <1>2, <1>3, ApplySettingsStep DEF Leads
<1>6. Leads(rows, memory', runtime'.conf, req'[a]) /\ req'[a].op = "put"
  BY <1>2, <1>3, <1>4, ApplySettingsStep DEF Leads, SameTask, SameUndo
<1>7. Midway(req'[a])
  BY <1>4 DEF Midway
<1> QED
  BY <1>1, <1>2, <1>3, <1>4, <1>5, <1>6, <1>7, FollowsPut

LEMMA ApplyFailsFollows ==
    ASSUME Typed, Overlaps, Follows, NEW a \in Admins, ApplyFails(a)
    PROVE  Follows'
BY ApplyFailsStep DEF Follows, Without, Disturbing

LEMMA SetMemoryFollows ==
    ASSUME Typed, Overlaps, Follows, NEW a \in Admins, SetMemory(a)
    PROVE  Follows'
<1> SUFFICES ASSUME Followed' PROVE Follows'
  BY DEF Follows, Followed
<1>1. Others(a) /\ Control(req[a]) /\ Followed
  BY SetMemoryStep, FollowedBefore, TypedParts
<1>2. Leads(rows, memory, runtime.conf, req[a]) /\ Present(rows, memory.sys)
  BY <1>1 DEF Follows, Followed
<1>3. req[a].op = "put"
  BY <1>1, SetMemoryStep DEF Control, PutSteps, PatchSteps
<1>4. /\ rows' = rows /\ runtime' = runtime /\ memory' = req[a].set /\ req[a].pc = "memory"
      /\ req'[a].pc = "admission" /\ SameTask(req'[a], req[a]) /\ SameUndo(req'[a], req[a])
  BY SetMemoryStep
<1>5. runtime.conf = memory' /\ Present(rows, memory'.sys)
  BY <1>2, <1>3, <1>4 DEF Leads
<1>6. Leads(rows, memory', runtime'.conf, req'[a]) /\ req'[a].op = "put"
  BY <1>2, <1>3, <1>4 DEF Leads, SameTask, SameUndo
<1>7. runtime.url = proxyURL(rows, runtime.conf.sys)
  <2>1. \A b \in Admins : ~Readdressing(memory, req[b])
    BY <1>1, <1>3, OthersOfPut DEF Readdressing
  <2> QED
    BY <1>1, <2>1 DEF Follows, Followed
<1> QED
  BY <1>1, <1>3, <1>4, <1>5, <1>6, <1>7, FollowsPut

LEMMA UndoRuntimeFollows ==
    ASSUME Typed, Overlaps, Follows, NEW a \in Admins, UndoRuntime(a)
    PROVE  Follows'
<1> SUFFICES ASSUME Followed' PROVE Follows'
  BY DEF Follows, Followed
<1>1. Others(a) /\ Control(req[a]) /\ Followed
  BY UndoRuntimeStep, FollowedBefore, TypedParts
<1>2. Leads(rows, memory, runtime.conf, req[a]) /\ Present(rows, memory.sys)
  BY <1>1 DEF Follows, Followed
<1>3. req[a].op = "put"
  BY <1>1, UndoRuntimeStep DEF Control, PutSteps, PatchSteps
<1>4. /\ rows' = rows /\ memory' = memory /\ runtime'.conf = req[a].prior /\ runtime'.url = req[a].was
      /\ req'[a].pc = "undo memory" /\ SameTask(req'[a], req[a]) /\ SameUndo(req'[a], req[a])
  BY UndoRuntimeStep DEF Typed
<1>5. req[a].was = proxyURL(rows, req[a].prior.sys)
  BY <1>2, <1>3, UndoRuntimeStep DEF Leads
<1>6. Leads(rows, memory', runtime'.conf, req'[a]) /\ req'[a].op = "put"
  BY <1>2, <1>3, <1>4, UndoRuntimeStep DEF Leads, SameTask, SameUndo
<1>7. Midway(req'[a])
  BY <1>4 DEF Midway
<1> QED
  BY <1>1, <1>2, <1>3, <1>4, <1>5, <1>6, <1>7, FollowsPut

LEMMA UndoMemoryFollows ==
    ASSUME Typed, Overlaps, Follows, NEW a \in Admins, UndoMemory(a)
    PROVE  Follows'
<1> SUFFICES ASSUME Followed' PROVE Follows'
  BY DEF Follows, Followed
<1>1. Others(a) /\ Control(req[a]) /\ Followed
  BY UndoMemoryStep, FollowedBefore, TypedParts
<1>2. Leads(rows, memory, runtime.conf, req[a]) /\ Present(rows, memory.sys)
  BY <1>1 DEF Follows, Followed
<1>3. req[a].op = "put"
  BY <1>1, UndoMemoryStep DEF Control, PutSteps, PatchSteps
<1>4. /\ rows' = rows /\ runtime' = runtime /\ memory' = req[a].prior /\ req[a].pc = "undo memory"
      /\ req'[a].pc = "undo admission" /\ SameTask(req'[a], req[a]) /\ SameUndo(req'[a], req[a])
  BY UndoMemoryStep
<1>5. runtime.conf = memory' /\ Present(rows, memory'.sys)
  BY <1>2, <1>3, <1>4 DEF Leads
<1>6. Leads(rows, memory', runtime'.conf, req'[a]) /\ req'[a].op = "put"
  BY <1>2, <1>3, <1>4 DEF Leads, SameTask, SameUndo
<1>7. runtime.url = proxyURL(rows, runtime.conf.sys)
  <2>1. \A b \in Admins : ~Readdressing(memory, req[b])
    BY <1>1, <1>3, OthersOfPut DEF Readdressing
  <2> QED
    BY <1>1, <2>1 DEF Follows, Followed
<1> QED
  BY <1>1, <1>3, <1>4, <1>5, <1>6, <1>7, FollowsPut

LEMMA UpdateOutboundProxyFollows ==
    ASSUME Typed, Overlaps, Follows, NEW a \in Admins, UpdateOutboundProxy(a)
    PROVE  Follows'
<1> SUFFICES ASSUME Followed' PROVE Follows'
  BY DEF Follows, Followed
<1>1. Others(a) /\ Control(req[a]) /\ Followed
  BY UpdateOutboundProxyStep, FollowedBefore, TypedParts
<1>2. Leads(rows, memory, runtime.conf, req[a]) /\ Present(rows, memory.sys)
  BY <1>1 DEF Follows, Followed
<1>3. req[a].op = "patch"
  BY <1>1, UpdateOutboundProxyStep DEF Control, PutSteps, PatchSteps
<1>4. runtime.conf = memory /\ memory' = memory /\ runtime' = runtime /\ req[a].pc = "update" /\ rows \in Rows
  BY <1>1, <1>3, UpdateOutboundProxyStep, ConfOfPatch, TypedParts
<1>5. req[a].id \in Proxies /\ req[a].url \in Urls
  BY <1>1, <1>3 DEF Control
<1>6. runtime.url = proxyURL(rows, memory.sys)
  <2>1. \A b \in Admins : ~Readdressing(memory, req[b])
    BY <1>1, <1>3, <1>4, OthersOfPatch DEF Readdressing
  <2> QED
    BY <1>1, <1>4, <2>1 DEF Follows, Followed
<1>7. CASE rows' = rows /\ req'[a] = Done
  <2>1. Leads(rows', memory, memory, req'[a])
    BY <1>7, DoneType, LeadsNothing
  <2> QED
    BY <1>1, <1>2, <1>3, <1>4, <1>6, <1>7, <2>1, FollowsPatch
<1>8. CASE /\ rows' = [rows EXCEPT ![req[a].id] = req[a].url] /\ req'[a].pc = "selected"
           /\ SameTask(req'[a], req[a]) /\ SameUndo(req'[a], req[a])
  <2>1. /\ rows'[req[a].id] = req[a].url /\ \A p \in Proxies : p # req[a].id => rows'[p] = rows[p]
    BY <1>4, <1>5, <1>8 DEF Rows
  <2>2. Leads(rows', memory, memory, req'[a])
    BY <2>1, <1>3, <1>8 DEF Leads, SameTask, SameUndo
  <2>3. Present(rows', memory.sys)
    BY <2>1, <1>2, <1>5, Names DEF Present
  <2>4. CASE req[a].id = memory.sys
    <3>1. Readdressing(memory, req'[a])
      BY <2>4, <1>3, <1>8 DEF Readdressing, SameTask
    <3> QED
      BY <1>1, <1>3, <1>4, <2>2, <2>3, <3>1, FollowsPatch
  <2>5. CASE req[a].id # memory.sys
    <3>1. proxyURL(rows', memory.sys) = proxyURL(rows, memory.sys)
      BY <2>1, <2>5 DEF proxyURL
    <3> QED
      BY <1>1, <1>3, <1>4, <1>6, <2>2, <2>3, <3>1, FollowsPatch
  <2> QED
    BY <2>4, <2>5
<1> QED
  BY <1>7, <1>8, UpdateOutboundProxyStep

LEMMA ReapplyFollows ==
    ASSUME Typed, Overlaps, Follows, NEW a \in Admins, Reapply(a)
    PROVE  Follows'
<1> SUFFICES ASSUME Followed' PROVE Follows'
  BY DEF Follows, Followed
<1>1. Others(a) /\ Control(req[a]) /\ Followed
  BY ReapplyStep, FollowedBefore, TypedParts
<1>2. Leads(rows, memory, runtime.conf, req[a]) /\ Present(rows, memory.sys)
  BY <1>1 DEF Follows, Followed
<1>3. req[a].op = "patch"
  BY <1>1, ReapplyStep DEF Control, PutSteps, PatchSteps
<1>4. /\ rows' = rows /\ memory' = memory /\ runtime'.conf = memory /\ runtime'.url = req[a].url
      /\ req[a].pc = "reapply"
      /\ req'[a].pc = "list" /\ SameTask(req'[a], req[a]) /\ SameUndo(req'[a], req[a])
  BY ReapplyStep DEF Typed
<1>5. req[a].id = memory.sys /\ rows[req[a].id] = req[a].url /\ req[a].id \in Proxies /\ req[a].url \in Urls
  BY <1>1, <1>2, <1>3, <1>4 DEF Leads, Control
<1>6. req[a].url = proxyURL(rows, memory.sys)
  BY <1>5, Names DEF proxyURL
<1>7. Leads(rows, memory, memory, req'[a])
  BY <1>2, <1>3, <1>4 DEF Leads, SameTask, SameUndo
<1> QED
  BY <1>1, <1>2, <1>3, <1>4, <1>6, <1>7, FollowsPatch

LEMMA ReapplyFailsFollows ==
    ASSUME Typed, Overlaps, Follows, NEW a \in Admins, ReapplyFails(a)
    PROVE  Follows'
<1> SUFFICES ASSUME Followed' PROVE Follows'
  BY DEF Follows, Followed
<1>1. Others(a) /\ Control(req[a]) /\ Followed
  BY ReapplyFailsStep, FollowedBefore, TypedParts
<1>2. Leads(rows, memory, runtime.conf, req[a]) /\ Present(rows, memory.sys)
  BY <1>1 DEF Follows, Followed
<1>3. req[a].op = "patch"
  BY <1>1, ReapplyFailsStep DEF Control, PutSteps, PatchSteps
<1>4. /\ rows' = rows /\ memory' = memory /\ runtime'.conf = memory /\ runtime'.url = req[a].url
      /\ req[a].pc = "reapply"
      /\ req'[a].pc = "restore" /\ SameTask(req'[a], req[a]) /\ SameUndo(req'[a], req[a])
  BY ReapplyFailsStep DEF Typed
<1>5. req[a].id = memory.sys /\ rows[req[a].id] = req[a].url /\ req[a].id \in Proxies /\ req[a].url \in Urls
  BY <1>1, <1>2, <1>3, <1>4 DEF Leads, Control
<1>6. req[a].url = proxyURL(rows, memory.sys)
  BY <1>5, Names DEF proxyURL
<1>7. Leads(rows, memory, memory, req'[a])
  BY <1>2, <1>3, <1>4 DEF Leads, SameTask, SameUndo
<1> QED
  BY <1>1, <1>2, <1>3, <1>4, <1>6, <1>7, FollowsPatch

LEMMA RestoreProxyFollows ==
    ASSUME Typed, Overlaps, Follows, NEW a \in Admins, RestoreProxy(a)
    PROVE  Follows'
<1> SUFFICES ASSUME Followed' PROVE Follows'
  BY DEF Follows, Followed
<1>1. Others(a) /\ Control(req[a]) /\ Followed
  BY RestoreProxyStep, FollowedBefore, TypedParts
<1>2. Leads(rows, memory, runtime.conf, req[a]) /\ Present(rows, memory.sys)
  BY <1>1 DEF Follows, Followed
<1>3. req[a].op = "patch"
  BY <1>1, RestoreProxyStep DEF Control, PutSteps, PatchSteps
<1>4. runtime.conf = memory /\ memory' = memory /\ runtime' = runtime /\ req[a].pc = "restore" /\ rows \in Rows
  BY <1>1, <1>3, RestoreProxyStep, ConfOfPatch, TypedParts
<1>5. req[a].id \in Proxies /\ req[a].was \in Urls /\ req[a].prior = memory
  BY <1>1, <1>2, <1>3, <1>4 DEF Control, Leads
<1>6. CASE req[a].id = memory.sys
  <2>1. Exists(req[a].id)
    BY <1>2, <1>6 DEF Exists
  <2>2. /\ rows' = [rows EXCEPT ![req[a].id] = req[a].was] /\ req'[a].pc = "unapply"
        /\ SameTask(req'[a], req[a]) /\ SameUndo(req'[a], req[a])
    BY <1>5, <1>6, <2>1, RestoreProxyStep
  <2>3. rows'[req[a].id] = req[a].was
    BY <1>4, <1>5, <2>2 DEF Rows
  <2>4. Leads(rows', memory, memory, req'[a])
    BY <2>2, <2>3, <1>3, <1>5, <1>6 DEF Leads, SameTask, SameUndo
  <2>5. Present(rows', memory.sys)
    BY <2>3, <1>5, <1>6, Names DEF Present
  <2>6. Readdressing(memory, req'[a])
    BY <2>2, <1>3, <1>6 DEF Readdressing, SameTask
  <2> QED
    BY <1>1, <1>3, <1>4, <2>4, <2>5, <2>6, FollowsPatch
<1>7. CASE req[a].id # memory.sys
  <2>1. /\ rows' = rows \/ rows' = [rows EXCEPT ![req[a].id] = req[a].was]
        /\ req'[a].pc = "list" /\ SameTask(req'[a], req[a]) /\ SameUndo(req'[a], req[a])
    BY <1>5, <1>7, RestoreProxyStep
  <2>2. \A p \in Proxies : p # req[a].id => rows'[p] = rows[p]
    BY <1>4, <2>1 DEF Rows
  <2>3. Leads(rows', memory, memory, req'[a])
    BY <2>1, <1>3, <1>5 DEF Leads, SameTask, SameUndo
  <2>4. Present(rows', memory.sys) /\ proxyURL(rows', memory.sys) = proxyURL(rows, memory.sys)
    BY <2>2, <1>2, <1>7 DEF Present, proxyURL
  <2>5. runtime.url = proxyURL(rows, memory.sys)
    <3>1. \A b \in Admins : ~Readdressing(memory, req[b])
      BY <1>1, <1>3, <1>7, OthersOfPatch DEF Readdressing
    <3> QED
      BY <1>1, <1>4, <3>1 DEF Follows, Followed
  <2> QED
    BY <1>1, <1>3, <1>4, <2>3, <2>4, <2>5, FollowsPatch
<1> QED
  BY <1>6, <1>7

LEMMA UnapplyFollows ==
    ASSUME Typed, Overlaps, Follows, NEW a \in Admins, Unapply(a)
    PROVE  Follows'
<1> SUFFICES ASSUME Followed' PROVE Follows'
  BY DEF Follows, Followed
<1>1. Others(a) /\ Control(req[a]) /\ Followed
  BY UnapplyStep, FollowedBefore, TypedParts
<1>2. Leads(rows, memory, runtime.conf, req[a]) /\ Present(rows, memory.sys)
  BY <1>1 DEF Follows, Followed
<1>3. req[a].op = "patch"
  BY <1>1, UnapplyStep DEF Control, PutSteps, PatchSteps
<1>4. /\ rows' = rows /\ memory' = memory /\ runtime'.conf = memory /\ runtime'.url = req[a].was
      /\ req[a].pc = "unapply"
      /\ req'[a].pc = "list" /\ SameTask(req'[a], req[a]) /\ SameUndo(req'[a], req[a])
  BY UnapplyStep DEF Typed
<1>5. req[a].id = memory.sys /\ rows[req[a].id] = req[a].was /\ req[a].id \in Proxies /\ req[a].was \in Urls
  BY <1>1, <1>2, <1>3, <1>4 DEF Leads, Control
<1>6. req[a].was = proxyURL(rows, memory.sys)
  BY <1>5, Names DEF proxyURL
<1>7. Leads(rows, memory, memory, req'[a])
  BY <1>2, <1>3, <1>4 DEF Leads, SameTask, SameUndo
<1> QED
  BY <1>1, <1>2, <1>3, <1>4, <1>6, <1>7, FollowsPatch

\* Steps that leave proxies, settings and the runtime's alone.
LEMMA WorkFollows ==
    ASSUME Typed, Overlaps, Follows, NEW a \in Admins,
           ResolveSystem(a) \/
           ResolveGitHub(a) \/ PutRuntimeSetting(a) \/ PutFails(a) \/ Prior(a) \/
           replaceAdmission(a) \/ UndoAdmission(a) \/ RestoreSetting(a) \/ Selected(a) \/
           CountOutboundProxyReferences(a) \/ SaveAccount(a) \/ RestoreAccount(a) \/
           ListUpstreamCredentials(a) \/ ListOutboundProxies(a) \/ ReplaceCredentials(a) \/
           ReloadFails(a)
    PROVE  Follows'
<1> SUFFICES ASSUME Followed' PROVE Follows'
  BY DEF Follows, Followed
<1>1. Control(req[a]) /\ Others(a) /\ Followed /\ rows' = rows /\ memory' = memory
  <2>1. CASE ResolveSystem(a)
    BY <2>1, ResolveSystemStep, FollowedBefore, TypedParts
  <2>2. CASE ResolveGitHub(a)
    BY <2>2, ResolveGitHubStep, FollowedBefore, TypedParts
  <2>3. CASE PutRuntimeSetting(a)
    BY <2>3, PutRuntimeSettingStep, FollowedBefore, TypedParts
  <2>4. CASE PutFails(a)
    BY <2>4, PutFailsStep, FollowedBefore, TypedParts
  <2>5. CASE Prior(a)
    BY <2>5, PriorStep, FollowedBefore, TypedParts
  <2>6. CASE replaceAdmission(a)
    BY <2>6, replaceAdmissionStep, FollowedBefore, TypedParts
  <2>7. CASE UndoAdmission(a)
    BY <2>7, UndoAdmissionStep, FollowedBefore, TypedParts
  <2>8. CASE RestoreSetting(a)
    BY <2>8, RestoreSettingStep, FollowedBefore, TypedParts
  <2>9. CASE Selected(a)
    BY <2>9, SelectedStep, FollowedBefore, TypedParts
  <2>10. CASE CountOutboundProxyReferences(a)
    BY <2>10, CountOutboundProxyReferencesStep, FollowedBefore, TypedParts
  <2>11. CASE SaveAccount(a)
    BY <2>11, SaveAccountStep, FollowedBefore, TypedParts
  <2>12. CASE RestoreAccount(a)
    BY <2>12, RestoreAccountStep, FollowedBefore, TypedParts
  <2>13. CASE ListUpstreamCredentials(a)
    BY <2>13, ListUpstreamCredentialsStep, FollowedBefore, TypedParts
  <2>14. CASE ListOutboundProxies(a)
    BY <2>14, ListOutboundProxiesStep, FollowedBefore, TypedParts
  <2>15. CASE ReplaceCredentials(a)
    BY <2>15, ReplaceCredentialsStep, FollowedBefore, TypedParts
  <2>16. CASE ReloadFails(a)
    BY <2>16, ReloadFailsStep, FollowedBefore, TypedParts
  <2> QED
    BY <2>1, <2>2, <2>3, <2>4, <2>5, <2>6, <2>7, <2>8, <2>9, <2>10, <2>11, <2>12, <2>13, <2>14,
       <2>15, <2>16
<1>2. Leads(rows, memory, runtime.conf, req[a]) /\ Present(rows, memory.sys)
  BY <1>1 DEF Follows, Followed
<1>3. ASSUME Prior(a) PROVE Leads(rows, memory, runtime.conf, req'[a])
  BY <1>3, <1>1, <1>2, PriorStep, DoneType DEF Leads, Exists, SameTask, SameUndo, Control, PutSteps, PatchSteps
<1>4. ASSUME Selected(a) PROVE Leads(rows, memory, runtime.conf, req'[a])
  BY <1>4, <1>1, <1>2, SelectedStep, DoneType DEF Leads, Exists, SameTask, SameUndo, Control, PutSteps, PatchSteps
<1>5. /\ runtime'.conf = runtime.conf /\ runtime'.url = runtime.url
      /\ Leads(rows, memory, runtime.conf, req'[a]) /\ (Midway(req[a]) => Midway(req'[a]))
      /\ (Readdressing(memory, req[a]) => Readdressing(memory, req'[a]))
  <2> USE DEF Typed, Leads, Exists, Midway, Readdressing, SameTask, SameUndo, Control, PutSteps, PatchSteps
  <2>1. CASE ResolveSystem(a)
    BY <2>1, <1>1, <1>2, ResolveSystemStep, DoneType
  <2>2. CASE ResolveGitHub(a)
    BY <2>2, <1>1, <1>2, ResolveGitHubStep, DoneType
  <2>3. CASE PutRuntimeSetting(a)
    BY <2>3, <1>1, <1>2, PutRuntimeSettingStep, DoneType
  <2>4. CASE PutFails(a)
    BY <2>4, <1>1, <1>2, PutFailsStep, DoneType
  <2>5. CASE Prior(a)
    BY <2>5, <1>1, <1>3, PriorStep
  <2>6. CASE replaceAdmission(a)
    BY <2>6, <1>1, <1>2, replaceAdmissionStep, DoneType
  <2>7. CASE UndoAdmission(a)
    BY <2>7, <1>1, <1>2, UndoAdmissionStep, DoneType
  <2>8. CASE RestoreSetting(a)
    BY <2>8, <1>1, <1>2, RestoreSettingStep, DoneType
  <2>9. CASE Selected(a)
    BY <2>9, <1>1, <1>4, SelectedStep
  <2>10. CASE CountOutboundProxyReferences(a)
    BY <2>10, <1>1, <1>2, CountOutboundProxyReferencesStep, DoneType
  <2>11. CASE SaveAccount(a)
    BY <2>11, <1>1, <1>2, SaveAccountStep, DoneType
  <2>12. CASE RestoreAccount(a)
    BY <2>12, <1>1, <1>2, RestoreAccountStep, DoneType
  <2>13. CASE ListUpstreamCredentials(a)
    BY <2>13, <1>1, <1>2, ListUpstreamCredentialsStep, DoneType
  <2>14. CASE ListOutboundProxies(a)
    BY <2>14, <1>1, <1>2, ListOutboundProxiesStep, DoneType
  <2>15. CASE ReplaceCredentials(a)
    BY <2>15, <1>1, <1>2, ReplaceCredentialsStep, DoneType
  <2>16. CASE ReloadFails(a)
    BY <2>16, <1>1, <1>2, ReloadFailsStep, DoneType
  <2> QED
    BY <2>1, <2>2, <2>3, <2>4, <2>5, <2>6, <2>7, <2>8, <2>9, <2>10, <2>11, <2>12, <2>13, <2>14,
       <2>15, <2>16
<1> QED
  BY <1>1, <1>5, FollowsKept

LEMMA UndoFailsFollows ==
    ASSUME Typed, Overlaps, Follows, NEW a \in Admins, UndoFails(a)
    PROVE  Follows'
BY UndoFailsStep DEF Follows, Without, Disturbing

LEMMA DeleteOutboundProxyFollows ==
    ASSUME Typed, Overlaps, Follows, NEW a \in Admins, DeleteOutboundProxy(a)
    PROVE  Follows'
<1> SUFFICES ASSUME Followed' PROVE Follows'
  BY DEF Follows, Followed
<1>1. /\ Others(a) /\ Control(req[a]) /\ Followed /\ rows \in Rows /\ req[a].pc = "remove"
      /\ memory' = memory /\ runtime' = runtime /\ req'[a].op = "none" /\ Control(req'[a])
      /\ rows' = rows \/ rows' = [rows EXCEPT ![req[a].id] = NoProxy]
      /\ {"put", "delete"} \notin taints
  BY DeleteOutboundProxyStep, FollowedBefore, TypedParts, DoneType
<1>2. req[a].op = "delete"
  BY <1>1 DEF Control
<1>3. Leads(rows, memory, runtime.conf, req[a]) /\ Present(rows, memory.sys)
  BY <1>1 DEF Follows, Followed
<1>4. req[a].id # memory.sys
  BY <1>2, <1>3 DEF Leads
<1>5. \A b \in Admins : req[b].op # "put" /\ Control(req[b])
  <2>1. {"delete", "put"} = {"put", "delete"}
    OBVIOUS
  <2>2. {"delete", "put"} \notin taints
    BY <1>1, <2>1
  <2> QED
    BY <1>2, <2>2, NotBoth, TypedParts
<1>6. \A b \in Admins : ~Midway(req[b]) /\ ~Midway(req'[b])
  BY <1>1, <1>5 DEF Midway, Control, PutSteps, Others
<1>7. runtime.conf = memory
  BY <1>1, <1>6 DEF Follows, Followed
<1>8. \A p \in Proxies : p # req[a].id => rows'[p] = rows[p]
  BY <1>1 DEF Rows
<1>9. Present(rows', memory.sys) /\ proxyURL(rows', memory.sys) = proxyURL(rows, memory.sys)
  BY <1>3, <1>4, <1>8 DEF Present, proxyURL
<1>10. \A b \in Admins : Leads(rows', memory, memory, req'[b])
  <2> SUFFICES ASSUME NEW b \in Admins PROVE Leads(rows', memory, memory, req'[b])
    OBVIOUS
  <2>1. CASE b = a
    BY <1>1, <2>1, LeadsNothing
  <2>2. CASE b # a
    <3>1. req'[b] = req[b] /\ Leads(rows, memory, memory, req[b]) /\ req[b].op # "put" /\ Control(req[b])
      BY <1>1, <1>5, <1>7, <2>2 DEF Others, Follows, Followed
    <3>2. CASE req[b].op # "patch"
      <4>1. req[b].op = "delete" => req[b].id # memory.sys
        BY <3>1 DEF Leads
      <4> QED
        BY <3>1, <3>2, <4>1, LeadsNothing
    <3>3. CASE req[b].op = "patch"
      <4>1. req[b].id \in Proxies
        BY <3>1, <3>3 DEF Control
      <4>2. req[b].id = memory.sys => rows'[req[b].id] = rows[req[b].id]
        BY <4>1, <1>4, <1>8
      <4> QED
        BY <3>1, <3>3, <4>2 DEF Leads, Control, PutSteps
    <3> QED
      BY <3>2, <3>3
  <2> QED
    BY <2>1, <2>2
<1>11. (\A b \in Admins : ~Readdressing(memory, req'[b])) => \A b \in Admins : ~Readdressing(memory, req[b])
  BY <1>1, <1>2 DEF Others, Readdressing
<1> QED
  BY <1>1, <1>7, <1>9, <1>10, <1>11 DEF Follows, Followed

\* A new proxy changes the address of none that is there.
LEMMA CreateOutboundProxyFollows ==
    ASSUME Typed, Overlaps, Follows, NEW a \in Admins, NEW q, CreateOutboundProxy(a, q)
    PROVE  Follows'
<1> SUFFICES ASSUME Followed' PROVE Follows'
  BY DEF Follows, Followed
<1>1. /\ Others(a) /\ phase = "up" /\ taints \subseteq taints' /\ memory' = memory /\ runtime' = runtime
      /\ req[a].pc = "new" /\ req'[a].op = "none" /\ Control(req'[a]) /\ q.to \in Urls
  BY CreateOutboundProxyStep, BeginFacts, DoneType
<1>2. Followed
  BY <1>1, FollowedBefore
<1>3. PICK p \in Proxies : rows[p] = NoProxy /\ rows' = [rows EXCEPT ![p] = q.to]
  BY CreateOutboundProxyStep
<1>4. \A x \in Proxies : rows[x] # NoProxy => rows'[x] = rows[x]
  BY <1>3 DEF Typed, Rows
<1>5. \A x : Present(rows, x) => Present(rows', x) /\ proxyURL(rows', x) = proxyURL(rows, x)
  BY <1>4 DEF Present, proxyURL
<1>6. /\ Present(rows, memory.sys) /\ \A b \in Admins : Leads(rows, memory, runtime.conf, req[b])
      /\ (\A b \in Admins : ~Midway(req[b])) => runtime.conf = memory
      /\ (\A b \in Admins : ~Readdressing(memory, req[b])) => runtime.url = proxyURL(rows, runtime.conf.sys)
  BY <1>2 DEF Follows, Followed
<1>7. \A b \in Admins : Leads(rows', memory, runtime.conf, req'[b])
  <2> SUFFICES ASSUME NEW b \in Admins PROVE Leads(rows', memory, runtime.conf, req'[b])
    OBVIOUS
  <2>1. CASE b = a
    BY <1>1, <2>1, LeadsNothing
  <2>2. CASE b # a
    <3>1. req'[b] = req[b] /\ Leads(rows, memory, runtime.conf, req[b]) /\ Control(req[b])
      BY <1>1, <1>6, <2>2, TypedParts DEF Others
    <3>2. req[b].op = "patch" => req[b].id \in Proxies /\ req[b].url \in Urls /\ req[b].was \in Urls
      BY <3>1 DEF Control
    <3>3. req[b].pc \in {"github", "store", "prior", "apply"} => req[b].op = "put" /\ req[b].pc # "system"
      BY <3>1 DEF Control, PutSteps
    <3>4. req[b].pc \in {"selected", "reapply", "unapply"} => req[b].op = "patch"
      BY <3>1 DEF Control, PatchSteps
    <3> QED
      BY <3>1, <3>2, <3>3, <3>4, <1>4, <1>5, Names DEF Leads
  <2> QED
    BY <2>1, <2>2
<1>8. /\ (\A b \in Admins : ~Midway(req'[b])) => \A b \in Admins : ~Midway(req[b])
      /\ (\A b \in Admins : ~Readdressing(memory, req'[b])) => \A b \in Admins : ~Readdressing(memory, req[b])
  BY <1>1 DEF Others, Midway, Readdressing
<1>9. Present(rows, runtime.conf.sys)
  <2>1. CASE \A b \in Admins : ~Midway(req[b])
    BY <1>6, <2>1
  <2>2. ASSUME NEW b \in Admins, Midway(req[b]) PROVE Present(rows, runtime.conf.sys)
    <3>1. req[b].op = "put" /\ Leads(rows, memory, runtime.conf, req[b])
      BY <1>6, <2>2, TypedParts DEF Midway, Control, PutSteps
    <3> QED
      BY <2>2, <3>1 DEF Leads, Midway
  <2> QED
    BY <2>1, <2>2
<1> QED
  BY <1>1, <1>5, <1>6, <1>7, <1>8, <1>9 DEF Follows, Followed

LEMMA BeginningFollows ==
    ASSUME Typed, Overlaps, Follows, NEW a \in Admins, NEW q, Beginning(a, q)
    PROVE  Follows'
<1>1. CASE CreateOutboundProxy(a, q)
  BY <1>1, CreateOutboundProxyFollows
<1>2. CASE ~CreateOutboundProxy(a, q)
  <2> SUFFICES ASSUME Followed' PROVE Follows'
    BY DEF Follows, Followed
  <2>1. BeginningFacts(a, q)
    BY BeginningStep
  <2>2. /\ Others(a) /\ taints \subseteq taints' /\ memory' = memory /\ runtime' = runtime
        /\ phase = "up" /\ req[a].pc = "new"
    BY <2>1, BeginFacts DEF BeginningFacts
  <2>3. Followed /\ rows' = rows
    BY <1>2, <2>2, FollowedBefore, adminNativeSettingsStep, adminProxyStep, adminProxyDeleteStep, validProxyIDStep,
       CatalogUpdateStep DEF Beginning
  <2>4. Leads(rows, memory, runtime.conf, req'[a])
    <3>1. CASE req'[a] = Done
      BY <3>1, DoneType, LeadsNothing
    <3>2. CASE adminNativeSettings(a, q)
      BY <3>1, <3>2, adminNativeSettingsStep DEF Fresh, Leads
    <3>3. CASE adminProxy(a, q)
      BY <3>1, <3>3, adminProxyStep DEF Fresh, Leads
    <3>4. CASE adminProxyDelete(a, q)
      BY <3>1, <3>4, adminProxyDeleteStep DEF Fresh, Leads
    <3>5. CASE validProxyID(a, q)
      BY <3>1, <3>5, validProxyIDStep DEF Fresh, Leads
    <3>6. CASE CatalogUpdate(a, q)
      BY <3>1, <3>6, CatalogUpdateStep DEF Fresh, Leads
    <3> QED
      BY <1>2, <3>2, <3>3, <3>4, <3>5, <3>6 DEF Beginning
  <2>5. ~Midway(req[a]) /\ ~Readdressing(memory, req[a])
    BY <2>2 DEF Midway, Readdressing
  <2> QED
    BY <2>2, <2>3, <2>4, <2>5, FollowsKept
<1> QED
  BY <1>1, <1>2

LEMMA StartFollows ==
    ASSUME Typed, Start
    PROVE  Follows'
<1>1. CASE phase' # "up"
  BY <1>1 DEF Follows
<1>2. CASE startEmbeddedCPA /\ phase' = "up"
  <2>1. /\ memory' = boot.set /\ runtime' = NewRuntime(boot.set, rows, accounts) /\ rows' = rows
        /\ Exists(boot.set.sys) /\ validateNativeRuntimeSettings(boot.set)
    BY <1>2, startStep DEF SameDatabase
  <2>2. boot.set \in Valid /\ rows \in Rows
    BY <2>1 DEF Typed, Boot, Valid
  <2>3. runtime'.conf = boot.set /\ runtime'.url = proxyURL(rows, boot.set.sys)
    BY <2>1, <2>2, NewRuntimeFacts
  <2>4. \A a \in Admins : Leads(rows', memory', runtime'.conf, req'[a])
    <3> SUFFICES ASSUME NEW a \in Admins PROVE Leads(rows', memory', runtime'.conf, req'[a])
      OBVIOUS
    <3>1. req'[a].op = "none" /\ Control(req'[a])
      BY StartIdle, NoReqType, DoneType, TypedParts DEF Idle, Control
    <3> QED
      BY <3>1, LeadsNothing
  <2> QED
    BY <2>1, <2>3, <2>4 DEF Follows, Exists
<1>3. phase' = "up" => startEmbeddedCPA
  BY loadStep, MigrateSystemStep, PersistSettingsStep, CrashStep, ensureStep, ImportStep, MigrateAccountStep DEF Start
<1> QED
  BY <1>1, <1>2, <1>3

LEMMA FollowsNext ==
    ASSUME Typed, Overlaps, Follows, [SettingsNext]_vars
    PROVE  Follows'
<1>1. ASSUME NEW a \in Admins, Work(a) PROVE Follows'
  BY <1>1, WorkFollows, ApplySettingsFollows, ApplyFailsFollows, SetMemoryFollows, UndoRuntimeFollows,
     UndoMemoryFollows, UpdateOutboundProxyFollows, ReapplyFollows, ReapplyFailsFollows,
     RestoreProxyFollows, UnapplyFollows, DeleteOutboundProxyFollows, UndoFailsFollows, Zenon DEF Work
<1>2. ASSUME NEW a \in Admins, NEW q \in origin.requests, Beginning(a, q) PROVE Follows'
  BY <1>2, BeginningFollows
<1>3. CASE UNCHANGED vars
  BY <1>3 DEF vars, Follows, Without
<1> QED
  BY <1>1, <1>2, <1>3, StartFollows, NextSplit

-----------------------------------------------------------------------------
(* The accounts in the runtime follow the proxies *)

LEMMA NewCreds ==
    ASSUME NEW l, NEW r, NEW ws, NEW cr, cr = runtimeCredentials(l, r, ws)
    PROVE  Shaped(cr) /\ UrlsFit(cr, l, r) /\ \A c \in DOMAIN cr : cr[c].ws = ws
<1>1. /\ DOMAIN cr = {x \in Accounts : l[x] # Absent}
      /\ \A c \in DOMAIN cr : cr[c] = [url |-> proxyURL(r, l[c].proxy), ws |-> ws]
  BY DEF runtimeCredentials
<1>2. \A c \in DOMAIN cr : cr[c].url = proxyURL(r, l[c].proxy) /\ cr[c].ws = ws
  <2> SUFFICES ASSUME NEW c \in DOMAIN cr PROVE cr[c].url = proxyURL(r, l[c].proxy) /\ cr[c].ws = ws
    OBVIOUS
  <2>1. PICK u : u = proxyURL(r, l[c].proxy)
    OBVIOUS
  <2>2. cr[c] = [url |-> u, ws |-> ws]
    BY <1>1, <2>1
  <2> QED
    BY <2>1, <2>2
<1>3. cr = [c \in DOMAIN cr |-> [url |-> cr[c].url, ws |-> cr[c].ws]]
  <2>1. \A c \in DOMAIN cr : cr[c] = [url |-> cr[c].url, ws |-> cr[c].ws]
    BY <1>1, <1>2
  <2>2. cr = [c \in DOMAIN cr |-> cr[c]]
    BY DEF runtimeCredentials
  <2> QED
    BY <2>1, <2>2, Zenon
<1> QED
  BY <1>1, <1>2, <1>3 DEF Shaped, UrlsFit

LEMMA TrustedBefore ==
    ASSUME phase = "up", taints \subseteq taints', stale' = stale, Trusted'
    PROVE  Trusted /\ Quietly /\ {"undo"} \notin taints' /\ {"reload"} \notin taints'
BY DEF Trusted, Quietly

\* A step that leaves the accounts of the runtime and the WebSocket switch alone.
LEMMA ReloadedKept ==
    ASSUME Reloaded, Trusted, NEW a \in Admins, Others(a), runtime'.creds = runtime.creds,
           memory' = memory \/ memory'.ws = memory.ws,
           WillReload(req[a]) => WillReload(req'[a]), WillSwitch(req[a]) => WillSwitch(req'[a]),
           \/ WillReload(req'[a])
           \/ UrlsFit(runtime.creds, accounts, rows) => UrlsFit(runtime.creds, accounts', rows')
    PROVE  Reloaded'
<1>1. /\ UrlsFit(runtime.creds, accounts, rows) \/ \E b \in Admins : WillReload(req[b])
      /\ SwitchFits(runtime.creds, memory) \/ \E b \in Admins : WillSwitch(req[b])
      /\ Shaped(runtime.creds)
  BY DEF Reloaded
<1>2. UrlsFit(runtime.creds, accounts', rows') \/ \E b \in Admins : WillReload(req'[b])
  BY <1>1 DEF Others
<1>3. SwitchFits(runtime.creds, memory) => SwitchFits(runtime.creds, memory')
  BY DEF SwitchFits
<1>4. SwitchFits(runtime.creds, memory') \/ \E b \in Admins : WillSwitch(req'[b])
  BY <1>1, <1>3 DEF Others
<1> QED
  BY <1>1, <1>2, <1>4 DEF Reloaded

\* A proxy without an account, or one that is new, changes no route.
LEMMA RoutesKept ==
    ASSUME ForeignKeys, NEW p \in Proxies, NEW u, rows \in Rows, rows' = [rows EXCEPT ![p] = u],
           rows[p] = NoProxy \/ ~Referenced(p), UrlsFit(runtime.creds, accounts, rows)
    PROVE  UrlsFit(runtime.creds, accounts, rows')
<1>1. \A c \in Accounts : accounts[c].proxy # p
  BY DEF ForeignKeys, Refers, Exists, Present, Referenced
<1>2. \A c \in Accounts : proxyURL(rows', accounts[c].proxy) = proxyURL(rows, accounts[c].proxy)
  BY <1>1 DEF proxyURL, Rows
<1> QED
  BY <1>2 DEF UrlsFit

\* Steps that leave the accounts of the runtime and the switch alone.
LEMMA WorkReloads ==
    ASSUME Typed, Reloaded, NEW a \in Admins,
           ResolveSystem(a) \/ ResolveGitHub(a) \/
           PutRuntimeSetting(a) \/ PutFails(a) \/ Prior(a) \/ ApplySettings(a) \/ ApplyFails(a) \/
           replaceAdmission(a) \/ UndoRuntime(a) \/ UndoAdmission(a) \/ RestoreSetting(a) \/
           Selected(a) \/ Reapply(a) \/ ReapplyFails(a) \/ Unapply(a) \/
           CountOutboundProxyReferences(a) \/ ListUpstreamCredentials(a) \/
           ListOutboundProxies(a) \/ UpdateOutboundProxy(a) \/ RestoreProxy(a) \/ SaveAccount(a) \/
           RestoreAccount(a)
    PROVE  Reloaded'
<1>1. /\ Others(a) /\ Control(req[a]) /\ phase = "up" /\ taints \subseteq taints' /\ stale' = stale
      /\ runtime'.creds = runtime.creds /\ memory' = memory
  <2>1. CASE ResolveSystem(a)
    BY <2>1, ResolveSystemStep, TypedParts DEF Typed
  <2>2. CASE ResolveGitHub(a)
    BY <2>2, ResolveGitHubStep, TypedParts DEF Typed
  <2>3. CASE PutRuntimeSetting(a)
    BY <2>3, PutRuntimeSettingStep, TypedParts DEF Typed
  <2>4. CASE PutFails(a)
    BY <2>4, PutFailsStep, TypedParts DEF Typed
  <2>5. CASE Prior(a)
    BY <2>5, PriorStep, TypedParts DEF Typed
  <2>6. CASE ApplySettings(a)
    BY <2>6, ApplySettingsStep, TypedParts DEF Typed
  <2>7. CASE ApplyFails(a)
    BY <2>7, ApplyFailsStep, TypedParts DEF Typed
  <2>8. CASE replaceAdmission(a)
    BY <2>8, replaceAdmissionStep, TypedParts DEF Typed
  <2>9. CASE UndoRuntime(a)
    BY <2>9, UndoRuntimeStep, TypedParts DEF Typed
  <2>10. CASE UndoAdmission(a)
    BY <2>10, UndoAdmissionStep, TypedParts DEF Typed
  <2>11. CASE RestoreSetting(a)
    BY <2>11, RestoreSettingStep, TypedParts DEF Typed
  <2>12. CASE Selected(a)
    BY <2>12, SelectedStep, TypedParts DEF Typed
  <2>13. CASE Reapply(a)
    BY <2>13, ReapplyStep, TypedParts DEF Typed
  <2>14. CASE ReapplyFails(a)
    BY <2>14, ReapplyFailsStep, TypedParts DEF Typed
  <2>15. CASE Unapply(a)
    BY <2>15, UnapplyStep, TypedParts DEF Typed
  <2>16. CASE CountOutboundProxyReferences(a)
    BY <2>16, CountOutboundProxyReferencesStep, TypedParts DEF Typed
  <2>17. CASE ListUpstreamCredentials(a)
    BY <2>17, ListUpstreamCredentialsStep, TypedParts DEF Typed
  <2>18. CASE ListOutboundProxies(a)
    BY <2>18, ListOutboundProxiesStep, TypedParts DEF Typed
  <2>19. CASE UpdateOutboundProxy(a)
    BY <2>19, UpdateOutboundProxyStep, TypedParts DEF Typed
  <2>20. CASE RestoreProxy(a)
    BY <2>20, RestoreProxyStep, TypedParts DEF Typed
  <2>21. CASE SaveAccount(a)
    BY <2>21, SaveAccountStep, TypedParts DEF Typed
  <2>22. CASE RestoreAccount(a)
    BY <2>22, RestoreAccountStep, TypedParts DEF Typed
  <2> QED
    BY <2>1, <2>2, <2>3, <2>4, <2>5, <2>6, <2>7, <2>8, <2>9, <2>10, <2>11, <2>12, <2>13, <2>14,
       <2>15, <2>16, <2>17, <2>18, <2>19, <2>20, <2>21, <2>22
<1> SUFFICES ASSUME Trusted' PROVE Reloaded'
  BY <1>1 DEF Reloaded
<1>2. Trusted
  BY <1>1, TrustedBefore
<1>3. /\ WillReload(req[a]) => WillReload(req'[a])
      /\ WillSwitch(req[a]) => WillSwitch(req'[a])
      /\ WillReload(req'[a]) \/ (accounts' = accounts /\ rows' = rows)
  <2> USE DEF WillReload, WillSwitch, InForce, SameTask, SameUndo, Control, PutSteps, PatchSteps
  <2>1. CASE ResolveSystem(a)
    BY <2>1, <1>1, ResolveSystemStep
  <2>2. CASE ResolveGitHub(a)
    BY <2>2, <1>1, ResolveGitHubStep
  <2>3. CASE PutRuntimeSetting(a)
    BY <2>3, <1>1, PutRuntimeSettingStep
  <2>4. CASE PutFails(a)
    BY <2>4, <1>1, PutFailsStep
  <2>5. CASE Prior(a)
    BY <2>5, <1>1, PriorStep
  <2>6. CASE ApplySettings(a)
    BY <2>6, <1>1, ApplySettingsStep
  <2>7. CASE ApplyFails(a)
    BY <2>7, <1>1, ApplyFailsStep
  <2>8. CASE replaceAdmission(a)
    BY <2>8, <1>1, replaceAdmissionStep
  <2>9. CASE UndoRuntime(a)
    BY <2>9, <1>1, UndoRuntimeStep
  <2>10. CASE UndoAdmission(a)
    BY <2>10, <1>1, UndoAdmissionStep
  <2>11. CASE RestoreSetting(a)
    BY <2>11, <1>1, RestoreSettingStep
  <2>12. CASE Selected(a)
    BY <2>12, <1>1, SelectedStep
  <2>13. CASE Reapply(a)
    BY <2>13, <1>1, ReapplyStep
  <2>14. CASE ReapplyFails(a)
    BY <2>14, <1>1, ReapplyFailsStep
  <2>15. CASE Unapply(a)
    BY <2>15, <1>1, UnapplyStep
  <2>16. CASE CountOutboundProxyReferences(a)
    BY <2>16, <1>1, CountOutboundProxyReferencesStep
  <2>17. CASE ListUpstreamCredentials(a)
    BY <2>17, <1>1, ListUpstreamCredentialsStep
  <2>18. CASE ListOutboundProxies(a)
    BY <2>18, <1>1, ListOutboundProxiesStep
  <2>19. CASE UpdateOutboundProxy(a)
    BY <2>19, <1>1, UpdateOutboundProxyStep
  <2>20. CASE RestoreProxy(a)
    BY <2>20, <1>1, RestoreProxyStep
  <2>21. CASE SaveAccount(a)
    BY <2>21, <1>1, SaveAccountStep
  <2>22. CASE RestoreAccount(a)
    BY <2>22, <1>1, RestoreAccountStep
  <2> QED
    BY <2>1, <2>2, <2>3, <2>4, <2>5, <2>6, <2>7, <2>8, <2>9, <2>10, <2>11, <2>12, <2>13, <2>14,
       <2>15, <2>16, <2>17, <2>18, <2>19, <2>20, <2>21, <2>22
<1> QED
  BY <1>1, <1>2, <1>3, ReloadedKept

LEMMA DeleteOutboundProxyReloads ==
    ASSUME Typed, ForeignKeys, Reloaded, NEW a \in Admins, DeleteOutboundProxy(a)
    PROVE  Reloaded'
<1>1. /\ Others(a) /\ Control(req[a]) /\ phase = "up" /\ taints \subseteq taints' /\ stale' = stale
      /\ runtime' = runtime /\ memory' = memory /\ accounts' = accounts /\ req[a].pc = "remove" /\ rows \in Rows
      /\ rows' = rows \/ (~Referenced(req[a].id) /\ rows' = [rows EXCEPT ![req[a].id] = NoProxy])
  BY DeleteOutboundProxyStep, TypedParts
<1> SUFFICES ASSUME Trusted' PROVE Reloaded'
  BY <1>1 DEF Reloaded
<1>2. Trusted /\ req[a].op = "delete" /\ req[a].id \in Proxies
  BY <1>1, TrustedBefore DEF Control
<1>3. ~WillReload(req[a]) /\ ~WillSwitch(req[a])
  BY <1>2 DEF WillReload, WillSwitch
<1>4. UrlsFit(runtime.creds, accounts, rows) => UrlsFit(runtime.creds, accounts', rows')
  BY <1>1, <1>2, RoutesKept
<1> QED
  BY <1>1, <1>2, <1>3, <1>4, ReloadedKept

LEMMA UndoFailsReloads ==
    ASSUME Typed, Reloaded, NEW a \in Admins, UndoFails(a)
    PROVE  Reloaded'
BY UndoFailsStep DEF Reloaded, Trusted

LEMMA ReloadFailsReloads ==
    ASSUME Typed, Reloaded, NEW a \in Admins, ReloadFails(a)
    PROVE  Reloaded'
<1>1. /\ Others(a) /\ phase = "up" /\ taints \subseteq taints' /\ stale' = stale
      /\ runtime' = runtime /\ memory' = memory /\ accounts' = accounts /\ rows' = rows /\ req[a].pc = "replace"
  BY ReloadFailsStep
<1> SUFFICES ASSUME Trusted' PROVE Reloaded'
  BY <1>1 DEF Reloaded
<1>2. Trusted
  BY <1>1, TrustedBefore
<1>3. /\ SameTask(req'[a], req[a]) /\ SameUndo(req'[a], req[a])
      /\ req'[a].pc = IF req[a].op = "put" THEN "undo runtime" ELSE "restore"
  <2>1. {"reload"} \notin taints'
    BY DEF Trusted
  <2> QED
    BY <2>1, ReloadFailsStep
<1>4. WillReload(req[a]) => WillReload(req'[a])
  BY <1>3 DEF WillReload, SameTask
<1>5. WillSwitch(req[a]) => WillSwitch(req'[a])
  BY <1>3 DEF WillSwitch, SameTask, SameUndo, InForce
<1> QED
  BY <1>1, <1>2, <1>4, <1>5, ReloadedKept

LEMMA ReplaceCredentialsReloads ==
    ASSUME Typed, Reloaded, NEW a \in Admins, ReplaceCredentials(a)
    PROVE  Reloaded'
<1>1. /\ runtime'.creds = runtimeCredentials(req[a].list, req[a].urls, memory.ws) /\ memory' = memory
      /\ accounts' = accounts /\ rows' = rows
  BY ReplaceCredentialsStep DEF Typed
<1>2. Trusted' => req[a].list = accounts /\ req[a].urls = rows
  BY ReplaceCredentialsStep DEF Trusted
<1>3. PICK cr : cr = runtimeCredentials(req[a].list, req[a].urls, memory.ws)
  OBVIOUS
<1>4. Shaped(cr) /\ UrlsFit(cr, req[a].list, req[a].urls) /\ \A c \in DOMAIN cr : cr[c].ws = memory.ws
  BY <1>3, NewCreds
<1> QED
  BY <1>1, <1>2, <1>3, <1>4 DEF Reloaded, SwitchFits

LEMMA SetMemoryReloads ==
    ASSUME Typed, Overlaps, Agree, Reloaded, NEW a \in Admins, SetMemory(a)
    PROVE  Reloaded'
<1>1. /\ Others(a) /\ Control(req[a]) /\ phase = "up" /\ taints \subseteq taints' /\ stale' = stale
      /\ runtime' = runtime /\ memory' = req[a].set /\ accounts' = accounts /\ rows' = rows
      /\ req[a].pc = "memory" /\ req'[a].pc = "admission" /\ SameTask(req'[a], req[a]) /\ SameUndo(req'[a], req[a])
  BY SetMemoryStep, TypedParts
<1> SUFFICES ASSUME Trusted' PROVE Reloaded'
  BY <1>1 DEF Reloaded
<1>2. Trusted /\ Quietly /\ req[a].op = "put"
  BY <1>1, TrustedBefore DEF Control, PutSteps
<1>3. memory = req[a].prior
  <2>1. Putting(req[a]) /\ req[a].pc \notin InForce /\ req[a].pc # "prior"
    BY <1>1, <1>2 DEF Putting, InForce
  <2> QED
    BY <1>2, <2>1, AgreeBefore DEF PutAgrees
<1>4. ~WillReload(req[a]) /\ ~WillSwitch(req[a])
  BY <1>1, <1>2 DEF WillReload, WillSwitch, InForce
<1>5. CASE req[a].prior.ws = req[a].set.ws
  BY <1>1, <1>2, <1>3, <1>4, <1>5, ReloadedKept
<1>6. CASE req[a].prior.ws # req[a].set.ws
  <2>1. WillSwitch(req'[a])
    BY <1>1, <1>2, <1>6 DEF WillSwitch, InForce, SameTask, SameUndo
  <2>2. UrlsFit(runtime.creds, accounts', rows') \/ \E b \in Admins : WillReload(req'[b])
    BY <1>1, <1>2, <1>4 DEF Reloaded, Others
  <2> QED
    BY <1>1, <2>1, <2>2 DEF Reloaded
<1> QED
  BY <1>5, <1>6

LEMMA UndoMemoryReloads ==
    ASSUME Typed, Reloaded, NEW a \in Admins, UndoMemory(a)
    PROVE  Reloaded'
<1>1. /\ Others(a) /\ Control(req[a]) /\ phase = "up" /\ taints' = taints
      /\ runtime' = runtime /\ memory' = req[a].prior /\ accounts' = accounts /\ rows' = rows
      /\ req[a].pc = "undo memory"
  BY UndoMemoryStep, TypedParts
<1> SUFFICES ASSUME Trusted' PROVE Reloaded'
  BY <1>1 DEF Reloaded
<1>2. ~stale /\ SwitchFits(runtime.creds, req[a].prior)
  BY UndoMemoryStep DEF Trusted, SwitchFits
<1>3. Trusted /\ ~WillReload(req[a])
  BY <1>1, <1>2 DEF Trusted, WillReload, Control, PutSteps
<1>4. UrlsFit(runtime.creds, accounts', rows') \/ \E b \in Admins : WillReload(req'[b])
  BY <1>1, <1>3 DEF Reloaded, Others
<1> QED
  BY <1>1, <1>2, <1>4 DEF Reloaded

LEMMA BeginningReloads ==
    ASSUME Typed, ForeignKeys, Reloaded, NEW a \in Admins, NEW q, Beginning(a, q)
    PROVE  Reloaded'
<1>1. BeginningFacts(a, q)
  BY BeginningStep
<1>2. /\ Others(a) /\ phase = "up" /\ taints \subseteq taints' /\ stale' = stale
      /\ runtime' = runtime /\ memory' = memory /\ accounts' = accounts /\ req[a].pc = "new"
  BY <1>1, BeginFacts DEF BeginningFacts
<1> SUFFICES ASSUME Trusted' PROVE Reloaded'
  BY <1>2 DEF Reloaded
<1>3. Trusted
  BY <1>2, TrustedBefore
<1>4. ~WillReload(req[a]) /\ ~WillSwitch(req[a])
  BY <1>2, TypedParts DEF WillReload, WillSwitch, Control
<1>5. UrlsFit(runtime.creds, accounts, rows) => UrlsFit(runtime.creds, accounts', rows')
  <2>1. CASE rows' = rows
    BY <1>2, <2>1
  <2>2. CASE CreateOutboundProxy(a, q)
    <3>1. PICK p \in Proxies : rows[p] = NoProxy /\ rows' = [rows EXCEPT ![p] = q.to]
      BY <2>2, CreateOutboundProxyStep
    <3>2. rows \in Rows
      BY DEF Typed
    <3> QED
      BY <1>2, <3>1, <3>2, RoutesKept
  <2> QED
    BY <2>1, <2>2, adminNativeSettingsStep, adminProxyStep, adminProxyDeleteStep, validProxyIDStep,
       CatalogUpdateStep DEF Beginning
<1> QED
  BY <1>2, <1>3, <1>4, <1>5, ReloadedKept

LEMMA StartReloads ==
    ASSUME Typed, Reloaded, Start
    PROVE  Reloaded'
<1>1. CASE startEmbeddedCPA /\ phase' = "up"
  <2>1. /\ memory' = boot.set /\ runtime' = NewRuntime(boot.set, rows, accounts) /\ rows' = rows
        /\ accounts' = accounts /\ validateNativeRuntimeSettings(boot.set)
    BY <1>1, startStep DEF SameDatabase
  <2>2. boot.set \in Valid /\ rows \in Rows
    BY <2>1 DEF Typed, Boot, Valid
  <2>3. runtime'.creds = runtimeCredentials(accounts, rows, boot.set.ws)
    BY <2>1, <2>2, NewRuntimeFacts
  <2>4. /\ Shaped(runtime'.creds) /\ UrlsFit(runtime'.creds, accounts, rows)
        /\ \A c \in DOMAIN runtime'.creds : runtime'.creds[c].ws = boot.set.ws
    BY <2>3, NewCreds
  <2> QED
    BY <2>1, <2>4 DEF Reloaded, SwitchFits
<1>2. CASE Crash
  <2>1. phase' = "down" /\ runtime' = NewRuntime(Defaults, NoRows, NoList)
    BY <1>2, CrashStep
  <2>2. runtime'.creds = runtimeCredentials(NoList, NoRows, Defaults.ws)
    BY <2>1, DefaultsValid, NoRowsType, NewRuntimeFacts
  <2>3. Shaped(runtime'.creds)
    BY <2>2, NewCreds
  <2> QED
    BY <2>1, <2>3 DEF Reloaded, Trusted
<1>3. ASSUME runtime' = runtime, phase' # "up" PROVE Reloaded'
  BY <1>3 DEF Reloaded, Trusted
<1>4. startEmbeddedCPA /\ phase' # "up" => runtime' = runtime
  BY startStep DEF SameProcess
<1>5. (loadNativeRuntimeSettings \/ MigrateSystem \/ PersistSettings) => runtime' = runtime /\ phase' # "up"
  BY loadStep, MigrateSystemStep, PersistSettingsStep DEF SameProcess
<1>6. (\E c \in Accounts : Import(c) \/ MigrateAccount(c)) => runtime' = runtime /\ phase' # "up"
  BY ImportStep, MigrateAccountStep DEF SameProcess
<1>7. (\E p \in Proxies, u \in Urls : ensure(p, u)) => runtime' = runtime /\ phase' # "up"
  BY ensureStep DEF SameProcess
<1> QED
  BY <1>1, <1>2, <1>3, <1>4, <1>5, <1>6, <1>7, Zenon DEF Start

LEMMA ReloadedNext ==
    ASSUME Typed, Overlaps, Agree, ForeignKeys, Reloaded, [SettingsNext]_vars
    PROVE  Reloaded'
<1>1. ASSUME NEW a \in Admins, Work(a) PROVE Reloaded'
  BY <1>1, WorkReloads, SetMemoryReloads, UndoMemoryReloads, DeleteOutboundProxyReloads,
     ReplaceCredentialsReloads, ReloadFailsReloads, UndoFailsReloads, Zenon DEF Work
<1>2. ASSUME NEW a \in Admins, NEW q \in origin.requests, Beginning(a, q) PROVE Reloaded'
  BY <1>2, BeginningReloads
<1>3. CASE UNCHANGED vars
  BY <1>3 DEF vars, Reloaded, Trusted
<1> QED
  BY <1>1, <1>2, <1>3, StartReloads, NextSplit

-----------------------------------------------------------------------------
(* The upgrade keeps the routes *)

LEMMA NoRequestYet ==
    ASSUME Typed, Typed', [SettingsNext]_vars, AllNew'
    PROVE  AllNew /\ (Start \/ UNCHANGED vars)
<1>1. ASSUME NEW a \in Admins, Work(a) PROVE FALSE
  <2>1. req'[a] = Done \/ ~Idle(a)'
    BY <1>1, WorkProgress DEF Progress
  <2> QED
    BY <2>1, DoneType DEF AllNew, Idle
<1>2. ASSUME NEW a \in Admins, NEW q \in origin.requests, Beginning(a, q) PROVE FALSE
  <2>1. req'[a] = Done \/ req'[a].op \in {"put", "patch", "delete", "assign", "catalog"}
    BY <1>2, BeginningStep DEF BeginningFacts
  <2>2. Control(req'[a])
    BY DEF Typed
  <2> QED
    BY <2>1, <2>2, DoneType DEF AllNew, Control
<1>3. CASE Start
  <2>1. CASE Crash
    <3>1. \A a \in Admins : req'[a] = (IF req[a].pc = "new" THEN NoReq ELSE Done)
      BY <2>1, CrashStep
    <3> QED
      BY <1>3, <3>1, DoneType DEF AllNew
  <2>2. ~Crash => req' = req
    BY <1>3, loadStep, MigrateSystemStep, PersistSettingsStep, startStep, ensureStep, ImportStep, MigrateAccountStep
       DEF Start
  <2> QED
    BY <1>3, <2>1, <2>2 DEF AllNew
<1>4. CASE UNCHANGED vars
  BY <1>4 DEF vars, AllNew
<1> QED
  BY <1>1, <1>2, <1>3, <1>4, NextSplit

LEMMA FormerSame ==
    ASSUME origin' = origin
    PROVE  \A c : FormerRoute(c)' = FormerRoute(c)
BY Zenon DEF FormerRoute, FormerGlobal

LEMMA LegacySame ==
    ASSUME origin' = origin, stored' = stored
    PROVE  LegacyProxy' = LegacyProxy
BY Zenon DEF LegacyProxy

\* More proxies leave the route of a proxy that is there alone.
RowsExtended == \A p \in Proxies : rows[p] # NoProxy => rows'[p] = rows[p]
LEMMA KeepsSteady ==
    ASSUME RowsExtended, NEW f, NEW ts, NEW item, NEW legacy, Present(rows, item.proxy),
           Keeps(f, ts, rows, item, legacy)
    PROVE  Keeps(f, ts, rows', item, legacy)
BY DEF RowsExtended, Present, Keeps, RouteOf, proxyURL

LEMMA KeepsMarked ==
    ASSUME NEW f, NEW ts, NEW tt, NEW r, NEW item, NEW legacy, {"migration"} \in ts => {"migration"} \in tt,
           Keeps(f, ts, r, item, legacy)
    PROVE  Keeps(f, tt, r, item, legacy)
BY DEF Keeps

\* Without an address of its own, an account has a proxy or goes out directly.
LEMMA RewrittenMarked ==
    ASSUME NEW f, NEW ts, NEW r, NEW item, NEW legacy, {"migration"} \in ts, item.doc = NoProxy,
           Keeps(f, ts, r, item, NoProxy)
    PROVE  Keeps(f, ts, r, item, legacy)
BY DEF Keeps, RouteOf, Or

LEMMA DirectIsSomething == Direct # NoProxy
BY DEF Direct, NoProxy

-----------------------------------------------------------------------------
LEMMA ImportMigrates ==
    ASSUME Typed, OnTheWay, NEW c \in Accounts, Import(c)
    PROVE  OnTheWay'
<1>1. /\ phase = "down" /\ phase' = "down" /\ c \in DOMAIN origin.files /\ accounts[c] = Absent
      /\ accounts'[c] = Imported(c) /\ \A d \in Accounts : d # c => accounts'[d] = accounts[d]
      /\ rows' = rows /\ stored' = stored /\ origin' = origin /\ taints' = taints
  BY ImportStep DEF SameHistory
<1>2. origin.accounts[c] = Absent /\ stored = origin.stored
  BY <1>1 DEF OnTheWay, ImportDone
<1>3. Imported(c).proxy = NoProxy /\ Imported(c).doc = Or(origin.files[c], origin.config)
  BY DEF Imported
<1>4. Imported(c).doc # "absent"
  BY <1>1, <1>3, OriginFacts, Names DEF Or, NoProxy, Direct
<1>5. Imported(c) # Absent
  BY <1>4 DEF Absent
<1>6. LegacyProxy = FormerGlobal
  BY <1>2, OriginFacts DEF LegacyProxy, FormerGlobal, Or
<1>7. FormerRoute(c) = Or(Or(origin.files[c], origin.config), Or(FormerGlobal, Direct))
  <2>1. Absent.proxy = NoProxy
    BY DEF Absent
  <2> QED
    BY <1>2, <2>1 DEF FormerRoute
<1>8. Keeps(FormerRoute(c), taints, rows, Imported(c), LegacyProxy)
  BY <1>3, <1>6, <1>7 DEF Keeps, RouteOf
<1>9. LegacyProxy' = LegacyProxy /\ \A d : FormerRoute(d)' = FormerRoute(d)
  BY <1>1, FormerSame, LegacySame
<1>10. \A d \in Accounts : accounts'[d] # Absent =>
           Keeps(FormerRoute(d), taints, rows, accounts'[d], LegacyProxy) /\ accounts'[d].doc # "absent"
  BY <1>1, <1>4, <1>8 DEF OnTheWay, AtRest, InPlace
<1>11. \A d \in Accounts : accounts'[d] = Absent => origin.accounts[d] = Absent
  BY <1>1, <1>5 DEF OnTheWay
<1> QED
  BY <1>1, <1>2, <1>9, <1>10, <1>11 DEF OnTheWay, AtRest, InPlace

LEMMA loadMigrates ==
    ASSUME Typed, OnTheWay, loadNativeRuntimeSettings
    PROVE  OnTheWay'
<1>1. /\ phase = "down" /\ phase' = "migrate" /\ ImportDone
      /\ boot'.legacy = LegacyProxy /\ boot'.todo = InPlace /\ boot'.list = accounts /\ boot'.wrote = FALSE
      /\ ~boot'.changed => LegacyProxy = NoProxy
      /\ rows' = rows /\ stored' = stored /\ accounts' = accounts /\ origin' = origin /\ taints' = taints
  BY loadStep DEF SameDatabase, SameHistory, InPlace
<1>2. LegacyProxy' = LegacyProxy /\ \A d : FormerRoute(d)' = FormerRoute(d)
  BY <1>1, FormerSame, LegacySame
<1>3. InPlace' = InPlace /\ ImportDone'
  BY <1>1 DEF InPlace, ImportDone
<1>4. Migrating'
  BY <1>1, <1>2, <1>3 DEF OnTheWay, AtRest, Migrating
<1> QED
  BY <1>1, <1>3, <1>4 DEF OnTheWay

LEMMA ensureMigrates ==
    ASSUME Typed, BootAgrees, ForeignKeys, OnTheWay, OneProxyPerAddress, AllNew, AllNew',
           NEW p \in Proxies, NEW u \in Urls, ensure(p, u)
    PROVE  OnTheWay' /\ OneProxyPerAddress'
<1>1. /\ phase = "migrate" /\ phase' = "migrate" /\ ~Known(u) /\ rows[p] = NoProxy /\ rows \in Rows
      /\ rows' = [rows EXCEPT ![p] = u] /\ boot'.legacy = boot.legacy /\ boot'.todo = boot.todo
      /\ boot'.list = boot.list /\ boot'.wrote = boot.wrote /\ boot'.changed = boot.changed
      /\ stored' = stored /\ accounts' = accounts /\ origin' = origin /\ taints' = taints
  BY ensureStep DEF SameHistory, SetKnown, Typed
<1>2. LegacyProxy' = LegacyProxy /\ \A d : FormerRoute(d)' = FormerRoute(d)
  BY <1>1, FormerSame, LegacySame
<1>3. InPlace' = InPlace /\ (ImportDone' <=> ImportDone)
  BY <1>1 DEF InPlace, ImportDone
<1>4. RowsExtended
  BY <1>1 DEF RowsExtended, Rows
<1>5. \A c \in Accounts : Present(rows, accounts[c].proxy) /\ Present(rows, boot.list[c].proxy)
  BY <1>1 DEF ForeignKeys, Refers, Exists
<1>6. Migrating
  BY <1>1 DEF OnTheWay
<1>7. \A c \in InPlace : Rewritten(c) => Rewritten(c)'
  BY <1>1, <1>2, <1>4, <1>5, KeepsSteady DEF Rewritten, InPlace
<1>8. \A c \in InPlace : Keeps(FormerRoute(c), taints, rows', boot.list[c], LegacyProxy)
  BY <1>4, <1>5, <1>6, KeepsSteady DEF Migrating, InPlace
<1>9. Migrating'
  BY <1>1, <1>2, <1>3, <1>6, <1>7, <1>8 DEF Migrating
<1>10. OnTheWay'
  BY <1>1, <1>3, <1>9 DEF OnTheWay
<1>11. \A x \in Proxies : rows[x] # u
  BY <1>1 DEF BootAgrees, Known
<1>12. rows'[p] = u /\ \A x \in Proxies : x # p => rows'[x] = rows[x]
  BY <1>1 DEF Rows
<1>13. OneProxyPerAddress'
  BY <1>1, <1>11, <1>12 DEF OneProxyPerAddress, AllNew
<1> QED
  BY <1>10, <1>13

LEMMA MigrateSystemMigrates ==
    ASSUME Typed, OnTheWay, MigrateSystem
    PROVE  OnTheWay'
<1>1. /\ phase = "migrate" /\ phase' = "migrate"
      /\ rows' = rows /\ boot'.legacy = boot.legacy /\ boot'.todo = boot.todo
      /\ boot'.list = boot.list /\ boot'.wrote = boot.wrote /\ boot'.changed = TRUE
      /\ stored' = stored /\ accounts' = accounts /\ origin' = origin /\ taints' = taints
  BY MigrateSystemStep DEF SameHistory, SameDatabase, SetSettings
<1>2. LegacyProxy' = LegacyProxy /\ \A d : FormerRoute(d)' = FormerRoute(d)
  BY <1>1, FormerSame, LegacySame
<1>3. InPlace' = InPlace /\ (ImportDone' <=> ImportDone)
  BY <1>1 DEF InPlace, ImportDone
<1>4. \A c : Rewritten(c) => Rewritten(c)'
  BY <1>1, <1>2 DEF Rewritten
<1>5. Migrating'
  BY <1>1, <1>2, <1>3, <1>4 DEF OnTheWay, Migrating
<1> QED
  BY <1>1, <1>3, <1>5 DEF OnTheWay

LEMMA MigratedKeeps ==
    ASSUME Typed, BootAgrees, NEW c \in Accounts, phase = "migrate", boot.legacy = LegacyProxy,
           AccountWants(c) = NoProxy \/ Known(AccountWants(c)),
           Keeps(FormerRoute(c), taints, rows, boot.list[c], LegacyProxy)
    PROVE  Keeps(FormerRoute(c), taints, rows, Migrated(c), NoProxy)
<1>1. /\ Migrated(c).doc = NoProxy
      /\ Migrated(c).proxy = IF boot.list[c].proxy # NoProxy THEN boot.list[c].proxy ELSE ProxyOf(AccountWants(c))
  BY DEF Migrated
<1>2. CASE boot.list[c].proxy # NoProxy
  BY <1>1, <1>2 DEF Keeps, RouteOf
<1>3. CASE boot.list[c].proxy = NoProxy /\ AccountWants(c) = NoProxy
  <2>1. Migrated(c).proxy = NoProxy
    BY <1>1, <1>3 DEF ProxyOf
  <2>2. RouteOf(rows, Migrated(c), NoProxy) = Direct
    BY <1>1, <2>1 DEF RouteOf, Or
  <2>3. RouteOf(rows, boot.list[c], LegacyProxy) = Direct
    BY <1>3, DirectIsSomething DEF AccountWants, RouteOf, Or
  <2> QED
    BY <2>2, <2>3 DEF Keeps
<1>4. CASE boot.list[c].proxy = NoProxy /\ AccountWants(c) # NoProxy
  <2>1. PICK u, p : u = AccountWants(c) /\ p = ProxyOf(u)
    OBVIOUS
  <2>2. p \in Proxies /\ rows[p] = u /\ u # NoProxy
    BY <1>4, <2>1, ProxyOfKnown DEF BootAgrees
  <2>3. RouteOf(rows, Migrated(c), NoProxy) = u
    BY <1>1, <1>4, <2>1, <2>2, Names DEF RouteOf, proxyURL
  <2>4. RouteOf(rows, boot.list[c], LegacyProxy) = u
    BY <1>4, <2>1, <2>2 DEF AccountWants, RouteOf, Or
  <2> QED
    BY <2>3, <2>4 DEF Keeps
<1> QED
  BY <1>2, <1>3, <1>4

LEMMA MigrateAccountMigrates ==
    ASSUME Typed, BootAgrees, OnTheWay, NEW c \in Accounts, MigrateAccount(c)
    PROVE  OnTheWay'
<1>1. /\ phase = "migrate" /\ phase' = "migrate" /\ c \in boot.todo
      /\ AccountWants(c) = NoProxy \/ Known(AccountWants(c))
      /\ accounts'[c] = Migrated(c) /\ \A d \in Accounts : d # c => accounts'[d] = accounts[d]
      /\ boot'.todo = boot.todo \ {c} /\ boot'.legacy = boot.legacy /\ boot'.list = boot.list
      /\ rows' = rows /\ stored' = stored /\ origin' = origin /\ taints' = taints
  BY MigrateAccountStep DEF SameHistory
<1>2. /\ ~boot'.changed => ~boot.changed
      /\ ~boot'.wrote => ~boot.wrote /\ Migrated(c) = boot.list[c]
  BY MigrateAccountStep
<1>3. LegacyProxy' = LegacyProxy /\ \A d : FormerRoute(d)' = FormerRoute(d)
  BY <1>1, FormerSame, LegacySame
<1>4. Migrating /\ c \in InPlace
  BY <1>1 DEF OnTheWay, Migrating
<1>5. Keeps(FormerRoute(c), taints, rows, Migrated(c), NoProxy)
  BY <1>1, <1>4, MigratedKeeps DEF Migrating
<1>6. Migrated(c).doc = NoProxy /\ Migrated(c) # Absent
  <2>1. Migrated(c).doc = NoProxy
    BY DEF Migrated
  <2>2. Absent.doc = "absent"
    BY DEF Absent
  <2>3. NoProxy # "absent"
    BY DEF NoProxy
  <2> QED
    BY <2>1, <2>2, <2>3
<1>7. InPlace' = InPlace
  BY <1>1, <1>4, <1>6 DEF InPlace
<1>8. ImportDone'
  BY <1>1, <1>6, OriginFacts DEF OnTheWay, ImportDone
<1>9. Rewritten(c)'
  BY <1>1, <1>3, <1>5, <1>6 DEF Rewritten
<1>10. \A d \in Accounts : d # c /\ Rewritten(d) => Rewritten(d)'
  BY <1>1, <1>3 DEF Rewritten
<1>11. \A d \in InPlace :
          /\ boot.list[d].doc # "absent"
          /\ Keeps(FormerRoute(d), taints, rows, boot.list[d], LegacyProxy)
          /\ d \in boot'.todo \/ ~boot'.wrote => accounts'[d] = boot.list[d]
          /\ d \notin boot'.todo => Rewritten(d)'
  BY <1>1, <1>2, <1>4, <1>9, <1>10 DEF Migrating, InPlace
<1>12. boot'.legacy = LegacyProxy /\ (~boot'.changed => LegacyProxy = NoProxy) /\ boot'.todo \subseteq InPlace
  BY <1>1, <1>2, <1>4 DEF Migrating
<1>13. Migrating'
  BY <1>1, <1>3, <1>7, <1>11, <1>12 DEF Migrating
<1>14. /\ \A d \in InPlace : accounts'[d].doc # "absent"
       /\ \A d \in Accounts : accounts'[d] = Absent => origin.accounts[d] = Absent
  <2>1. NoProxy # "absent"
    BY DEF NoProxy
  <2> QED
    BY <1>1, <1>6, <2>1 DEF OnTheWay, InPlace
<1> QED
  BY <1>1, <1>7, <1>8, <1>13, <1>14 DEF OnTheWay

LEMMA PersistSettingsMigrates ==
    ASSUME Typed, OnTheWay, PersistSettings
    PROVE  OnTheWay'
<1>1. /\ phase = "migrate" /\ phase' = "build" /\ boot.todo = {}
      /\ \/ boot.changed /\ stored'.legacy = NoProxy /\ stored'.found = TRUE
         \/ ~boot.changed /\ stored' = stored
      /\ rows' = rows /\ accounts' = accounts /\ origin' = origin /\ taints' = taints
  BY PersistSettingsStep DEF SameHistory
<1>2. LegacyProxy' = NoProxy
  <2>1. CASE boot.changed
    BY <1>1, <2>1 DEF LegacyProxy
  <2>2. CASE ~boot.changed
    BY <1>1, <2>2, LegacySame DEF OnTheWay, Migrating
  <2> QED
    BY <2>1, <2>2
<1>3. \A d : FormerRoute(d)' = FormerRoute(d)
  BY <1>1, FormerSame
<1>4. InPlace' = InPlace /\ ImportDone'
  BY <1>1 DEF InPlace, ImportDone, OnTheWay
<1>5. \A c \in InPlace : Rewritten(c)'
  BY <1>1, <1>3 DEF OnTheWay, Migrating, Rewritten
<1>6. Settled'
  BY <1>2, <1>4, <1>5 DEF Settled
<1> QED
  BY <1>1, <1>4, <1>6 DEF OnTheWay

LEMMA startMigrates ==
    ASSUME Typed, OnTheWay, startEmbeddedCPA
    PROVE  OnTheWay'
<1>1. /\ phase = "build" /\ phase' \in {"up", "down"}
      /\ rows' = rows /\ stored' = stored /\ accounts' = accounts /\ origin' = origin /\ taints' = taints
  BY startStep DEF SameDatabase, SameHistory
<1>2. LegacyProxy' = LegacyProxy /\ \A d : FormerRoute(d)' = FormerRoute(d)
  BY <1>1, FormerSame, LegacySame
<1>3. InPlace' = InPlace /\ ImportDone' /\ Settled
  BY <1>1 DEF InPlace, ImportDone, OnTheWay
<1>4. Settled'
  BY <1>1, <1>2, <1>3 DEF Settled, Rewritten
<1>5. AtRest'
  BY <1>1, <1>2, <1>3 DEF Settled, Rewritten, AtRest
<1>6. phase' = "up" => UrlsFit(runtime'.creds, accounts', rows')
  <2> SUFFICES ASSUME phase' = "up" PROVE UrlsFit(runtime'.creds, accounts', rows')
    OBVIOUS
  <2>1. runtime' = NewRuntime(boot.set, rows, accounts) /\ validateNativeRuntimeSettings(boot.set)
    BY startStep
  <2>2. boot.set \in Valid /\ rows \in Rows
    BY <2>1 DEF Typed, Boot, Valid
  <2>3. runtime'.creds = runtimeCredentials(accounts, rows, boot.set.ws)
    BY <2>1, <2>2, NewRuntimeFacts
  <2> QED
    BY <1>1, <2>3, NewCreds
<1> QED
  BY <1>1, <1>3, <1>4, <1>5, <1>6 DEF OnTheWay

LEMMA CrashMigrates ==
    ASSUME Typed, OnTheWay, Crash
    PROVE  OnTheWay'
<1>1. /\ phase # "down" /\ phase' = "down" /\ phase \in {"migrate", "build", "up"}
      /\ rows' = rows /\ stored' = stored /\ accounts' = accounts /\ origin' = origin
      /\ {"migration"} \in taints => {"migration"} \in taints'
      /\ phase = "migrate" /\ boot.wrote => {"migration"} \in taints'
  BY CrashStep DEF SameDatabase, Typed
<1>2. LegacyProxy' = LegacyProxy /\ \A d : FormerRoute(d)' = FormerRoute(d)
  BY <1>1, FormerSame, LegacySame
<1>3. InPlace' = InPlace /\ ImportDone'
  BY <1>1 DEF InPlace, ImportDone, OnTheWay
<1>4. \A c \in InPlace : Keeps(FormerRoute(c), taints', rows, accounts[c], LegacyProxy)
  <2> SUFFICES ASSUME NEW c \in InPlace PROVE Keeps(FormerRoute(c), taints', rows, accounts[c], LegacyProxy)
    OBVIOUS
  <2>1. CASE phase # "migrate"
    <3>1. Keeps(FormerRoute(c), taints, rows, accounts[c], LegacyProxy)
      BY <1>1, <2>1 DEF OnTheWay, Settled, Rewritten
    <3> QED
      BY <1>1, <3>1, KeepsMarked
  <2>2. CASE phase = "migrate" /\ accounts[c] = boot.list[c]
    <3>1. Keeps(FormerRoute(c), taints, rows, accounts[c], LegacyProxy)
      BY <2>2 DEF OnTheWay, Migrating
    <3> QED
      BY <1>1, <3>1, KeepsMarked
  <2>3. CASE phase = "migrate" /\ accounts[c] # boot.list[c]
    <3>1. boot.wrote /\ Rewritten(c)
      BY <2>3 DEF OnTheWay, Migrating
    <3>2. accounts[c].doc = NoProxy /\ Keeps(FormerRoute(c), taints', rows, accounts[c], NoProxy)
      BY <1>1, <3>1, KeepsMarked DEF Rewritten
    <3> QED
      BY <1>1, <2>3, <3>1, <3>2, RewrittenMarked
  <2> QED
    BY <2>1, <2>2, <2>3
<1>5. AtRest'
  BY <1>1, <1>2, <1>3, <1>4 DEF AtRest
<1> QED
  BY <1>1, <1>3, <1>5 DEF OnTheWay

LEMMA MigrationNext ==
    ASSUME Typed, Typed', BootAgrees, ForeignKeys, Migration, [SettingsNext]_vars
    PROVE  Migration'
<1> SUFFICES ASSUME AllNew' PROVE OnTheWay' /\ OneProxyPerAddress'
  BY DEF Migration
<1>1. AllNew /\ (Start \/ UNCHANGED vars)
  BY NoRequestYet
<1>2. OnTheWay /\ OneProxyPerAddress
  BY <1>1 DEF Migration
<1>3. ASSUME rows' = rows, origin' = origin PROVE OneProxyPerAddress'
  BY <1>1, <1>2, <1>3 DEF OneProxyPerAddress, AllNew
<1>4. CASE UNCHANGED vars
  <2>1. LegacyProxy' = LegacyProxy /\ \A d : FormerRoute(d)' = FormerRoute(d)
    BY <1>4, FormerSame, LegacySame DEF vars
  <2>2. InPlace' = InPlace /\ (ImportDone' <=> ImportDone)
    BY <1>4 DEF vars, InPlace, ImportDone
  <2>3. \A c : Rewritten(c)' <=> Rewritten(c)
    BY <1>4, <2>1 DEF vars, Rewritten
  <2>4. (AtRest => AtRest') /\ (Migrating => Migrating') /\ (Settled => Settled')
    BY <1>4, <2>1, <2>2, <2>3 DEF vars, AtRest, Migrating, Settled
  <2>5. OnTheWay'
    BY <1>2, <1>4, <2>2, <2>4 DEF vars, OnTheWay
  <2>6. OneProxyPerAddress'
    BY <1>3, <1>4 DEF vars
  <2> QED
    BY <2>5, <2>6
<1>5. CASE loadNativeRuntimeSettings
  BY <1>2, <1>3, <1>5, loadMigrates, loadStep DEF SameDatabase, SameHistory
<1>6. CASE MigrateSystem
  BY <1>2, <1>3, <1>6, MigrateSystemMigrates, MigrateSystemStep DEF SameDatabase, SameHistory
<1>7. CASE PersistSettings
  BY <1>2, <1>3, <1>7, PersistSettingsMigrates, PersistSettingsStep DEF SameHistory
<1>8. CASE startEmbeddedCPA
  BY <1>2, <1>3, <1>8, startMigrates, startStep DEF SameDatabase, SameHistory
<1>9. CASE Crash
  BY <1>2, <1>3, <1>9, CrashMigrates, CrashStep DEF SameDatabase
<1>10. ASSUME NEW p \in Proxies, NEW u \in Urls, ensure(p, u) PROVE OnTheWay' /\ OneProxyPerAddress'
  BY <1>1, <1>2, <1>10, ensureMigrates
<1>11. ASSUME NEW c \in Accounts, Import(c) PROVE OnTheWay' /\ OneProxyPerAddress'
  BY <1>2, <1>3, <1>11, ImportMigrates, ImportStep DEF SameHistory
<1>12. ASSUME NEW c \in Accounts, MigrateAccount(c) PROVE OnTheWay' /\ OneProxyPerAddress'
  BY <1>2, <1>3, <1>12, MigrateAccountMigrates, MigrateAccountStep DEF SameHistory
<1> QED
  BY <1>1, <1>4, <1>5, <1>6, <1>7, <1>8, <1>9, <1>10, <1>11, <1>12, Zenon DEF Start

-----------------------------------------------------------------------------
(* The beginning *)

LEMMA InvInit == SettingsInit => SettingsInv
<1> SUFFICES ASSUME SettingsInit PROVE SettingsInv
  OBVIOUS
<1>1. PICK h \in Histories :
         /\ rows = h.rows /\ accounts = h.accounts /\ stored = h.stored
         /\ phase = (IF h.up THEN "up" ELSE "down") /\ origin = h
  BY Zenon DEF SettingsInit
<1>2. /\ memory = (IF phase = "up" THEN normalizeNativeRuntimeSettings(stored.set) ELSE Defaults)
      /\ admission = memory.budget
      /\ runtime = NewRuntime(memory, rows, accounts) /\ req = [a \in Admins |-> NoReq]
  BY Zenon DEF SettingsInit
<1>3. /\ \A c \in Accounts : Present(h.rows, h.accounts[c].proxy)
      /\ Selectable(h.rows, normalizeNativeRuntimeSettings(h.stored.set))
      /\ h.up \in BOOLEAN
  BY HistoriesAssumption, Zenon DEF Selectable
<1>4. /\ h.up => /\ h.stored.found /\ h.stored.legacy = NoProxy
                 /\ \A c \in Accounts : h.accounts[c] = Absent \/ h.accounts[c].doc = NoProxy
                 /\ \A c \in DOMAIN h.files : h.accounts[c] # Absent
      /\ h.accounts \in [Accounts -> [proxy: Proxies \cup {NoProxy}, doc: Urls \cup {NoProxy, Direct}] \cup {Absent}]
      /\ h.stored.found \in BOOLEAN
  BY HistoriesAssumption, Zenon
<1>5. Typed /\ phase \in {"up", "down"}
  BY <1>1, TypedInit
<1>6. \A a \in Admins : req[a] = NoReq
  BY <1>2
<1>7. \A a \in Admins : Idle(a) /\ ~Putting(req[a]) /\ req[a].op = "none" /\ Control(req[a])
  BY <1>6, NoReqType DEF Idle, Putting
<1>8. Overlaps
  BY <1>7 DEF Overlaps
<1>9. Agree /\ BootAgrees
  BY <1>2, <1>5, <1>7 DEF Agree, Agreed, BootAgrees
<1>10. ForeignKeys
  BY <1>1, <1>3, <1>5 DEF ForeignKeys, Refers, Exists
<1>11. InUse
  <2>1. \A a \in Admins : Kept(rows, memory, req[a])
    BY <1>7 DEF Kept
  <2> QED
    BY <1>1, <1>2, <1>3, <1>5, <2>1 DEF InUse
<1>12. rows \in Rows /\ memory \in Valid
  BY <1>5 DEF Typed
<1>13. /\ runtime.conf = memory /\ runtime.url = proxyURL(rows, memory.sys)
       /\ runtime.creds = runtimeCredentials(accounts, rows, memory.ws)
  BY <1>2, <1>12, NewRuntimeFacts
<1>14. Follows
  <2>1. \A a \in Admins : Leads(rows, memory, runtime.conf, req[a])
    BY <1>7, LeadsNothing
  <2>2. phase = "up" => Present(rows, memory.sys)
    BY <1>1, <1>2, <1>3 DEF Selectable
  <2> QED
    BY <1>13, <2>1, <2>2 DEF Follows
<1>15. /\ Shaped(runtime.creds) /\ UrlsFit(runtime.creds, accounts, rows)
       /\ \A c \in DOMAIN runtime.creds : runtime.creds[c].ws = memory.ws
  BY <1>13, NewCreds
<1>16. Reloaded
  BY <1>15 DEF Reloaded, SwitchFits
<1>17. \A c \in InPlace : accounts[c].doc # "absent"
  <2>1. \A c \in InPlace : accounts[c].doc \in Urls \cup {NoProxy, Direct}
    BY <1>1, <1>4 DEF InPlace
  <2>2. NoProxy # "absent" /\ Direct # "absent"
    BY DEF NoProxy, Direct
  <2> QED
    BY <2>1, <2>2, Names
<1>18. LegacyProxy = FormerGlobal
  BY <1>1, <1>4 DEF LegacyProxy, FormerGlobal, Or
<1>19. \A c \in InPlace : Keeps(FormerRoute(c), taints, rows, accounts[c], LegacyProxy)
  BY <1>1, <1>18 DEF Keeps, RouteOf, FormerRoute, InPlace
<1>20. phase = "up" => Settled /\ ImportDone
  <2> SUFFICES ASSUME phase = "up" PROVE Settled /\ ImportDone
    OBVIOUS
  <2>1. h.up
    BY <1>1
  <2>2. LegacyProxy = NoProxy /\ ImportDone /\ \A c \in InPlace : accounts[c].doc = NoProxy
    BY <1>1, <1>4, <2>1 DEF LegacyProxy, ImportDone, InPlace
  <2> QED
    BY <1>19, <2>2 DEF Settled, Rewritten
<1>21. OnTheWay
  BY <1>1, <1>5, <1>15, <1>17, <1>19, <1>20 DEF OnTheWay, AtRest
<1>22. OneProxyPerAddress
  BY <1>1 DEF OneProxyPerAddress
<1>23. Migration
  BY <1>21, <1>22 DEF Migration
<1> QED
  BY <1>5, <1>8, <1>9, <1>10, <1>11, <1>14, <1>16, <1>23 DEF SettingsInv

-----------------------------------------------------------------------------
(* The theorems *)

\* The administration handlers, the start and its faults: the inductive
\* invariant.
THEOREM SettingsInvariant == RuntimeSettings => []SettingsInv
<1>1. SettingsInit => SettingsInv
  BY InvInit
<1>2. SettingsInv /\ [SettingsNext]_vars => SettingsInv'
  <2> SUFFICES ASSUME SettingsInv, [SettingsNext]_vars PROVE SettingsInv'
    OBVIOUS
  <2>1. /\ Typed /\ Overlaps /\ Agree /\ BootAgrees /\ ForeignKeys /\ InUse /\ Follows
        /\ Reloaded /\ Migration
    BY DEF SettingsInv
  <2>2. Typed'
    BY <2>1, TypedNext
  <2>3. Overlaps'
    BY <2>1, OverlapsNext
  <2>4. Agree' /\ BootAgrees'
    BY <2>1, AgreeNext
  <2>5. ForeignKeys'
    BY <2>1, ForeignKeysNext
  <2>6. InUse'
    BY <2>1, InUseNext
  <2>7. Follows'
    BY <2>1, FollowsNext
  <2>8. Reloaded'
    BY <2>1, ReloadedNext
  <2>9. Migration'
    BY <2>1, <2>2, MigrationNext
  <2> QED
    BY <2>2, <2>3, <2>4, <2>5, <2>6, <2>7, <2>8, <2>9 DEF SettingsInv
<1> QED
  BY <1>1, <1>2, PTL DEF RuntimeSettings

LEMMA InvConsistent == SettingsInv => SettingsConsistent
<1> SUFFICES ASSUME SettingsInv PROVE SettingsConsistent
  OBVIOUS
<1>1. Typed /\ Agree /\ Follows /\ Reloaded
  BY DEF SettingsInv
<1>2. SettingsTypeOK
  <2>1. memory \in Settings /\ memory.max \in 1..memory.budget /\ runtime.conf \in Settings
    BY <1>1, ValidIsSettings DEF Typed
  <2>2. \A c \in Accounts : /\ accounts[c].proxy \in Proxies \cup {NoProxy}
                            /\ accounts[c].doc \in Urls \cup {NoProxy, Direct, Absent.doc}
    <3>1. Absent.doc = "absent"
      BY DEF Absent
    <3> QED
      BY <1>1, <3>1 DEF Typed, Lists, ProxyChoices
  <2> QED
    BY <1>1, <2>1, <2>2 DEF SettingsTypeOK, Typed, Rows, Routes
<1>3. ASSUME Quiet
      PROVE  /\ phase = "up" /\ \A a \in Admins : req[a].op = "none" /\ req[a].pc \in {"new", "done"}
  BY <1>1, <1>3 DEF Quiet, Idle, Typed, Control
<1>4. SettingsAgree
  <2> SUFFICES ASSUME Quiet, Without({{"put"}, {"undo"}}) PROVE Agreed
    BY DEF SettingsAgree, Agreed
  <2>1. \A a \in Admins : ~Putting(req[a])
    BY <1>3 DEF Putting
  <2>2. {"put"} \notin taints /\ {"undo"} \notin taints
    BY DEF Without
  <2> QED
    BY <1>1, <1>3, <2>1, <2>2 DEF Agree
<1>5. RuntimeFollowsSettings
  <2> SUFFICES ASSUME Quiet, Without(Disturbing)
               PROVE  runtime.conf = memory /\ runtime.url = proxyURL(rows, memory.sys)
    BY DEF RuntimeFollowsSettings, Disturbing
  <2>1. \A a \in Admins : ~Midway(req[a]) /\ ~Readdressing(memory, req[a])
    BY <1>3 DEF Midway, Readdressing
  <2> QED
    BY <1>1, <1>3, <2>1 DEF Follows
<1>6. AccountsFollowProxies
  <2> SUFFICES ASSUME Quiet, ~stale, Without({{"put"}, {"undo"}, {"reload"}})
               PROVE  runtime.creds = runtimeCredentials(accounts, rows, memory.ws)
    BY DEF AccountsFollowProxies
  <2>1. Trusted
    BY <1>3 DEF Trusted, Without
  <2>2. \A a \in Admins : ~WillReload(req[a]) /\ ~WillSwitch(req[a])
    BY <1>3 DEF WillReload, WillSwitch
  <2>3. PICK cr : cr = runtime.creds
    OBVIOUS
  <2>4. Shaped(cr) /\ UrlsFit(cr, accounts, rows) /\ SwitchFits(cr, memory)
    BY <1>1, <2>1, <2>2, <2>3 DEF Reloaded
  <2>5. \A c \in DOMAIN cr : [url |-> cr[c].url, ws |-> cr[c].ws]
                               = [url |-> proxyURL(rows, accounts[c].proxy), ws |-> memory.ws]
    BY <2>4, Zenon DEF UrlsFit, SwitchFits
  <2>6. cr = [c \in {x \in Accounts : accounts[x] # Absent} |->
                 [url |-> proxyURL(rows, accounts[c].proxy), ws |-> memory.ws]]
    BY <2>4, <2>5, Zenon DEF Shaped, UrlsFit
  <2> QED
    BY <2>3, <2>6, Zenon DEF runtimeCredentials
<1> QED
  BY <1>2, <1>4, <1>5, <1>6 DEF SettingsConsistent

LEMMA InvKeepsProxies == SettingsInv => ProxiesKept
<1> SUFFICES ASSUME SettingsInv PROVE ProxiesKept
  OBVIOUS
<1>1. Typed /\ ForeignKeys /\ InUse /\ Migration
  BY DEF SettingsInv
<1>2. ProxiesInUseExist
  BY <1>1 DEF ProxiesInUseExist, InUse, Selectable, Exists, ForeignKeys, Refers
<1>3. OneProxyPerAddress
  BY <1>1 DEF OneProxyPerAddress, Migration, AllNew
<1>4. MigrationKeepsRoutes
  <2> SUFFICES ASSUME phase = "up", AllNew, NEW c \in DOMAIN runtime.creds
               PROVE  \/ runtime.creds[c].url = FormerRoute(c)
                      \/ FormerRoute(c) = Direct /\ {"migration"} \in taints
    BY DEF MigrationKeepsRoutes, AllNew
  <2>1. Settled /\ UrlsFit(runtime.creds, accounts, rows)
    BY <1>1 DEF Migration, OnTheWay
  <2>2. c \in InPlace /\ runtime.creds[c].url = proxyURL(rows, accounts[c].proxy)
    BY <2>1 DEF UrlsFit, InPlace
  <2>3. accounts[c].doc = NoProxy /\ Keeps(FormerRoute(c), taints, rows, accounts[c], NoProxy)
    BY <2>1, <2>2 DEF Settled, Rewritten
  <2>4. RouteOf(rows, accounts[c], NoProxy) = proxyURL(rows, accounts[c].proxy)
    BY <2>3, Names DEF RouteOf, Or, proxyURL
  <2> QED
    BY <2>2, <2>3, <2>4 DEF Keeps
<1> QED
  BY <1>2, <1>3, <1>4 DEF ProxiesKept

\* adminNativeSettings, applyNativeRuntimeSettings, adminProxy and
\* reloadNativeCredentials: once no handler is under way, the stored settings,
\* the memory, the admission controller, the runtime and its accounts show the
\* same, whatever statements failed and wherever the process crashed.
THEOREM SettingsCorrect == RuntimeSettings => []SettingsConsistent
BY SettingsInvariant, InvConsistent, PTL

\* DeleteOutboundProxy, migrateLegacyProxies and Import: no proxy in use is
\* missing, the migration adds none twice, and every account keeps its route
\* through an upgrade that may be cut off and begun again at any statement.
THEOREM ProxiesCorrect == RuntimeSettings => []ProxiesKept
BY SettingsInvariant, InvKeepsProxies, PTL

-----------------------------------------------------------------------------
(* Quota synchronisation *)

(* Numbers *)

LEMMA MaxOfTwo ==
    ASSUME NEW a \in Nat, NEW b \in Nat
    PROVE  Max({a, b}) \in {a, b} /\ Max({a, b}) >= a /\ Max({a, b}) >= b
<1>1. \E x \in {a, b} : \A y \in {a, b} : x >= y
  OBVIOUS
<1>2. Max({a, b}) \in {a, b} /\ \A y \in {a, b} : Max({a, b}) >= y
  BY <1>1 DEF Max
<1> QED
  BY <1>2

LEMMA MaxOfOne ==
    ASSUME NEW a \in Nat
    PROVE  Max({a}) = a
<1>1. \E x \in {a} : \A y \in {a} : x >= y
  OBVIOUS
<1> QED
  BY <1>1 DEF Max

LEMMA MinOfTwo ==
    ASSUME NEW a \in Nat, NEW b \in Nat
    PROVE  Min({a, b}) \in {a, b} /\ Min({a, b}) <= a /\ Min({a, b}) <= b
<1>1. \E x \in {a, b} : \A y \in {a, b} : x =< y
  OBVIOUS
<1>2. Min({a, b}) \in {a, b} /\ \A y \in {a, b} : Min({a, b}) =< y
  BY <1>1 DEF Min
<1> QED
  BY <1>2

\* What the assumptions say of the constants.
LEMMA SyncFacts ==
    /\ Waits \subseteq Nat /\ 0 \in Waits
    /\ CacheTime \in Nat /\ MaxDelay \in Nat /\ MaxDelay >= 1 /\ MaxTime \in Nat /\ MaxTime >= 1
    /\ Max(Waits) \in Nat /\ \A wait \in Waits : wait <= Max(Waits)
<1>1. /\ Waits \subseteq Nat /\ 0 \in Waits /\ (\E longest \in Waits : \A wait \in Waits : longest >= wait)
      /\ CacheTime \in Nat /\ MaxDelay \in Nat \ {0} /\ MaxTime \in Nat \ {0}
  BY QuotaSyncAssumption, Zenon
<1>2. Max(Waits) \in Waits /\ \A wait \in Waits : Max(Waits) >= wait
  BY <1>1 DEF Max
<1>3. Max(Waits) \in Nat /\ \A wait \in Waits : wait <= Max(Waits)
  BY <1>1, <1>2
<1>4. MaxDelay >= 1 /\ MaxTime >= 1 /\ MaxDelay \in Nat /\ MaxTime \in Nat
  BY <1>1
<1> QED
  BY <1>1, <1>3, <1>4, Zenon

-----------------------------------------------------------------------------
(* Reports *)

\* A report with the waits that 429s asked for: there is one wait at most, and
\* then the report is an error that carries it.
Carries(report, waits) ==
    /\ report \in Report /\ report.error \in {"no", "unauthorized", "other"}
    /\ waits = {} \/ (waits = {report.wait} /\ report.error # "no")

LEMMA ReportTypes ==
    /\ NoReport \in Report /\ NoReport.error = "no" /\ NoReport.wait = 0
    /\ NoRow \in Row /\ NoRow.observed = 0 /\ NoRow.status = "unknown"
    /\ NoProbe \in Prober /\ NoProbe.pc = "idle"
<1>1. 0 \in Waits /\ 0 \in Time
  BY SyncFacts DEF Time
<1>2. NoReport \in Report /\ NoReport.error = "no" /\ NoReport.wait = 0
  BY <1>1 DEF NoReport, Report
<1>3. NoRow \in Row /\ NoRow.observed = 0 /\ NoRow.status = "unknown"
  BY <1>1 DEF NoRow, Row, Statuses
<1>4. NoProbe \in Prober /\ NoProbe.pc = "idle"
  BY <1>2, <1>3 DEF NoProbe, Prober
<1> QED
  BY <1>2, <1>3, <1>4

LEMMA AnswerTypes ==
    ASSUME NEW a \in Answer
    PROVE  a.code \in Answers /\ a.wait \in Waits
BY Zenon DEF Answer

\* A failed answer as an error.
LEMMA FailsFacts ==
    ASSUME NEW a \in Answer
    PROVE  /\ Fails(a) \in Report /\ Fails(a).error \in {"unauthorized", "other"}
           /\ a.code = "limited" => Fails(a).wait = a.wait
<1> DEFINE error == IF a.code = "unauthorized" THEN a.code ELSE "other"
           wait == IF a.code \in {"limited", "down"} THEN a.wait ELSE 0
<1>1. error \in {"unauthorized", "other"} /\ (a.code = "limited" => wait = a.wait)
  OBVIOUS
<1>2. wait \in Waits /\ error \in {"no", "unauthorized", "other", "cancelled"}
  BY <1>1, AnswerTypes, SyncFacts
<1>3. Fails(a) = [NoReport EXCEPT !.error = error, !.wait = wait]
  BY Zenon DEF Fails
<1> HIDE DEF error, wait
<1>4. Fails(a) \in Report /\ Fails(a).error = error /\ Fails(a).wait = wait
  BY <1>2, <1>3, ReportTypes, Zenon DEF Report
<1> QED
  BY <1>1, <1>4

LEMMA ReportsFacts ==
    ASSUME NEW windows \in SUBSET Kinds
    PROVE  Reports(windows) \in Report /\ Reports(windows).error = "no"
BY ReportTypes, Zenon DEF Reports, Report

LEMMA BothFailFacts ==
    ASSUME NEW a \in Answer, NEW b \in Answer
    PROVE  BothFail(a, b) \in Report /\ BothFail(a, b).error \in {"unauthorized", "other"}
<1> DEFINE one == IF a.code = "empty" THEN b ELSE a
           error == IF "unauthorized" \in {a.code, b.code} THEN "unauthorized" ELSE "other"
<1>1. one \in Answer /\ error \in {"unauthorized", "other"}
  OBVIOUS
<1>2. Fails(one) \in Report
  BY <1>1, FailsFacts
<1>3. BothFail(a, b) = [Fails(one) EXCEPT !.error = error]
  BY Zenon DEF BothFail
<1>4. error \in {"no", "unauthorized", "other", "cancelled"}
  OBVIOUS
<1> HIDE DEF one, error
<1>5. BothFail(a, b) \in Report /\ BothFail(a, b).error = error
  BY <1>2, <1>3, <1>4, Zenon DEF Report
<1> QED
  BY <1>1, <1>5

\* Waits that one or two answers asked for.
AskedFor(answers) == {x.wait : x \in {y \in answers : y.code = "limited"}}

LEMMA AskedForOne ==
    ASSUME NEW a
    PROVE  AskedFor({a}) = IF a.code = "limited" THEN {a.wait} ELSE {}
BY DEF AskedFor

LEMMA AskedForTwo ==
    ASSUME NEW a, NEW b, a.code # "limited"
    PROVE  AskedFor({a, b}) = IF b.code = "limited" THEN {b.wait} ELSE {}
BY DEF AskedFor

\* Whatever the endpoints answer, and whichever are asked.
LEMMA ProbeCarries ==
    ASSUME NEW v \in Providers, NEW a \in Answer, NEW b \in Answer, NEW windows \in SUBSET Kinds
    PROVE  Carries(ProbeQuota(v, a, b, windows), AskedFor(UsageAnswers(v, a, b)))
<1>1. /\ Fails(a) \in Report /\ Fails(a).error \in {"unauthorized", "other"}
      /\ a.code = "limited" => Fails(a).wait = a.wait
      /\ Fails(b) \in Report /\ Fails(b).error \in {"unauthorized", "other"}
      /\ b.code = "limited" => Fails(b).wait = b.wait
      /\ Reports(windows) \in Report /\ Reports(windows).error = "no"
      /\ BothFail(a, b) \in Report /\ BothFail(a, b).error \in {"unauthorized", "other"}
      /\ NoReport \in Report /\ NoReport.error = "no"
  BY FailsFacts, ReportsFacts, BothFailFacts, ReportTypes
<1>2. v \in {"claude", "codex", "kimi", "xai", "other"}
  <2>1. Providers \subseteq {"claude", "codex", "kimi", "xai", "other"}
    BY QuotaSyncAssumption, Zenon
  <2> QED
    BY <2>1
<1>3. /\ AskedFor({a}) = IF a.code = "limited" THEN {a.wait} ELSE {}
      /\ a.code # "limited" => AskedFor({a, b}) = IF b.code = "limited" THEN {b.wait} ELSE {}
      /\ AskedFor({}) = {}
  BY AskedForOne, AskedForTwo DEF AskedFor
<1>4. CASE v = "claude"
  <2> DEFINE report == IF Failed(a) THEN Fails(a) ELSE Reports(windows)
             full == [report EXCEPT !.profile = ~Failed(b)]
  <2>1. ProbeQuota(v, a, b, windows) = full /\ UsageAnswers(v, a, b) = {a}
    BY <1>4 DEF ProbeQuota, UsageAnswers, probeClaudeAccount
  <2>2. report \in Report /\ (~Failed(b)) \in BOOLEAN
    BY <1>1 DEF Failed
  <2>3. full \in Report /\ full.error = report.error /\ full.wait = report.wait
    BY <2>2, Zenon DEF Report
  <2>4. report.error \in {"no", "unauthorized", "other"}
        /\ (a.code = "limited" => report.wait = a.wait /\ report.error # "no")
    BY <1>1 DEF Failed
  <2> HIDE DEF report, full
  <2> QED
    BY <1>3, <2>1, <2>3, <2>4 DEF Carries
<1>5. CASE v = "codex"
  <2>1. /\ ProbeQuota(v, a, b, windows) = IF Failed(a) THEN Fails(a) ELSE Reports(windows)
        /\ UsageAnswers(v, a, b) = {a}
    BY <1>5 DEF ProbeQuota, UsageAnswers, probeCodexQuota
  <2> QED
    BY <1>1, <1>3, <2>1 DEF Carries, Failed
<1>6. CASE v = "kimi"
  <2>1. /\ ProbeQuota(v, a, b, windows) = probeKimiQuota(a, b, windows)
        /\ UsageAnswers(v, a, b) = IF a.code \in {"ok", "limited"} THEN {a} ELSE {a, b}
    BY <1>6 DEF ProbeQuota, UsageAnswers
  <2>2. CASE a.code \in {"ok", "limited"}
    BY <1>1, <1>3, <2>1, <2>2 DEF Carries, Failed, probeKimiQuota
  <2>3. CASE a.code \notin {"ok", "limited"}
    BY <1>1, <1>3, <2>1, <2>3 DEF Carries, Failed, probeKimiQuota
  <2> QED
    BY <2>2, <2>3
<1>7. CASE v = "xai"
  <2>1. /\ ProbeQuota(v, a, b, windows) = probeXAIQuota(a, b, windows)
        /\ UsageAnswers(v, a, b) = IF a.code = "limited" THEN {a} ELSE {a, b}
    BY <1>7 DEF ProbeQuota, UsageAnswers
  <2>2. CASE a.code = "limited"
    BY <1>1, <1>3, <2>1, <2>2 DEF Carries, Failed, probeXAIQuota
  <2>3. CASE a.code # "limited"
    BY <1>1, <1>3, <2>1, <2>3 DEF Carries, Failed, probeXAIQuota
  <2> QED
    BY <2>2, <2>3
<1>8. CASE v = "other"
  <2>1. ProbeQuota(v, a, b, windows) = NoReport /\ UsageAnswers(v, a, b) = {}
    BY <1>8 DEF ProbeQuota, UsageAnswers
  <2> QED
    BY <1>1, <1>3, <2>1 DEF Carries
<1> QED
  BY <1>2, <1>4, <1>5, <1>6, <1>7, <1>8

\* What probeQuotaWithRefresh may be told.
LEMMA OutcomeCarries ==
    ASSUME NEW v \in Providers, NEW outcome \in Outcomes[v]
    PROVE  Carries(outcome.report, outcome.waits)
<1> DEFINE plausible == {a \in Answer : a.code \in {"limited", "down"} \/ a.wait = 0}
<1>1. PICK a \in plausible, b \in plausible, windows \in SUBSET Kinds :
         outcome = [report |-> ProbeQuota(v, a, b, windows), waits |-> AskedFor(UsageAnswers(v, a, b))]
  BY DEF Outcomes, AskedFor
<1>2. Carries(ProbeQuota(v, a, b, windows), AskedFor(UsageAnswers(v, a, b)))
  BY ProbeCarries
<1> QED
  BY <1>1, <1>2, Zenon

-----------------------------------------------------------------------------
(* The inductive invariant *)

Busy == {"probing", "again", "error", "report", "stored", "partly"}

\* What a prober at work knows: it was let through after the time the provider
\* asked for, an error it carries says how long to wait, its report is newer
\* than the row, and behind a complete report are its samples.
ReportOK(q, time, saved, samples, until) ==
    /\ q.pc \in {"probing", "again", "report", "stored", "partly"} => until <= time
    /\ q.pc = "error" => /\ q.report.error # "no" /\ until <= time + q.report.wait
                         /\ q.report.error = "cancelled" => until <= time
    /\ q.pc \in {"report", "stored", "partly"} =>
          q.report.error = "no" /\ saved.observed <= q.report.observed /\ q.report.observed <= time
    /\ q.pc = "stored" => \A k \in q.report.windows : samples[k] >= q.report.observed

\* The flag of the table, of one prober at most.
FlagOK(probers, running) ==
    /\ \A p, q \in Probers : probers[p].pc \in Busy /\ probers[q].pc \in Busy => p = q
    /\ running <=> \E p \in Probers : probers[p].pc \in Busy

\* An entry that is not running holds off whoever the provider asked to wait.
HeldOff(table, time, until) == ~table.running => until <= time \/ until <= table.retryAt

CompleteOK(saved, samples) ==
    saved.status = "supported" => \A k \in saved.windows : samples[k] >= saved.snapshot

\* RetryAfterKept and ObservationsAdvance rest on it too.
SyncInv ==
    /\ SyncTypeOK
    /\ FlagOK(prober, entry.running)
    /\ HeldOff(entry, now, asked)
    /\ row.observed <= now
    /\ CompleteOK(row, sample)
    /\ \A p \in Probers : ReportOK(prober[p], now, row, sample, asked)

LEMMA SyncTypes ==
    ASSUME SyncInv
    PROVE  /\ now \in Nat /\ now <= MaxTime /\ provider \in Providers /\ entry \in Entry /\ row \in Row
           /\ sample \in [Kinds -> Time] /\ prober \in [Probers -> Prober] /\ asked \in Nat
           /\ entry.running \in BOOLEAN /\ entry.delay \in Nat /\ entry.retryAt \in Nat
           /\ row.observed \in Nat
           /\ \A p \in Probers : /\ prober[p] \in Prober /\ prober[p].read \in Row /\ prober[p].report \in Report
                                 /\ prober[p].report.wait \in Nat /\ prober[p].report.observed \in Time
                                 /\ prober[p].report.windows \in SUBSET Kinds
<1>1. /\ now \in Time /\ provider \in Providers /\ entry \in Entry /\ row \in Row
      /\ sample \in [Kinds -> Time] /\ prober \in [Probers -> Prober] /\ asked \in Horizon
  BY Zenon DEF SyncInv, SyncTypeOK
<1>2. now \in Nat /\ now <= MaxTime /\ asked \in Nat
  BY <1>1, SyncFacts DEF Time, Horizon
<1>3. entry.running \in BOOLEAN /\ entry.delay \in 0..MaxDelay /\ entry.retryAt \in Horizon /\ row.observed \in Time
  BY <1>1, Zenon DEF Entry, Row
<1>4. entry.delay \in Nat /\ entry.retryAt \in Nat /\ row.observed \in Nat
  BY <1>3, SyncFacts DEF Time, Horizon
<1>5. \A q \in Prober : q.read \in Row /\ q.report \in Report
  BY Zenon DEF Prober
<1>6. \A r \in Report : r.wait \in Waits /\ r.observed \in Time /\ r.windows \in SUBSET Kinds
  BY Zenon DEF Report
<1>7. \A wait \in Waits : wait \in Nat
  BY SyncFacts
<1>8. \A p \in Probers : /\ prober[p] \in Prober /\ prober[p].read \in Row /\ prober[p].report \in Report
                         /\ prober[p].report.wait \in Nat /\ prober[p].report.observed \in Time
                         /\ prober[p].report.windows \in SUBSET Kinds
  BY <1>1, <1>5, <1>6, <1>7, Zenon
<1> QED
  BY <1>1, <1>2, <1>3, <1>4, <1>8

\* A prober whose step sets and clears the flag as it should.
LEMMA FlagKept ==
    ASSUME SyncInv, NEW p \in Probers, NEW q \in Prober, prober' = [prober EXCEPT ![p] = q],
           q.pc \in Busy => prober[p].pc \in Busy \/ ~entry.running,
           entry'.running <=> (q.pc \in Busy \/ (entry.running /\ prober[p].pc \notin Busy))
    PROVE  /\ prober' \in [Probers -> Prober] /\ prober'[p] = q
           /\ \A c \in Probers \ {p} : prober'[c] = prober[c]
           /\ FlagOK(prober', entry'.running)
<1>1. prober \in [Probers -> Prober]
  BY SyncTypes
<1>2. prober' \in [Probers -> Prober] /\ prober'[p] = q /\ \A c \in Probers \ {p} : prober'[c] = prober[c]
  BY <1>1, Zenon
<1>3. /\ \A c, d \in Probers : prober[c].pc \in Busy /\ prober[d].pc \in Busy => c = d
      /\ entry.running <=> \E c \in Probers : prober[c].pc \in Busy
  BY Zenon DEF SyncInv, FlagOK
<1>4. \A c, d \in Probers : prober'[c].pc \in Busy /\ prober'[d].pc \in Busy => c = d
  BY <1>2, <1>3, Zenon
<1>5. entry'.running <=> \E c \in Probers : prober'[c].pc \in Busy
  BY <1>2, <1>3, Zenon
<1> QED
  BY <1>2, <1>4, <1>5, Zenon DEF FlagOK

\* The other probers of a step: nobody else is at work, or nothing changes
\* that they know of.
LEMMA OthersKept ==
    ASSUME SyncInv, NEW p \in Probers,
           \A c \in Probers \ {p} : prober'[c] = prober[c],
           prober[p].pc \in Busy \/ UNCHANGED <<now, row, sample, asked>>
    PROVE  \A c \in Probers \ {p} : ReportOK(prober'[c], now', row', sample', asked')
<1>1. CASE UNCHANGED <<now, row, sample, asked>>
  BY <1>1, Zenon DEF SyncInv
<1>2. CASE prober[p].pc \in Busy
  <2>1. \A c \in Probers \ {p} : prober[c].pc \notin Busy
    BY <1>2, Zenon DEF SyncInv, FlagOK
  <2>2. \A c \in Probers \ {p} : prober'[c].pc \notin Busy
    BY <2>1, Zenon
  <2> QED
    BY <2>2 DEF ReportOK, Busy
<1> QED
  BY <1>1, <1>2

\* Together.
LEMMA ProberKept ==
    ASSUME SyncInv, NEW p \in Probers, NEW q \in Prober, prober' = [prober EXCEPT ![p] = q],
           q.pc \in Busy => prober[p].pc \in Busy \/ ~entry.running,
           entry'.running <=> (q.pc \in Busy \/ (entry.running /\ prober[p].pc \notin Busy)),
           prober[p].pc \in Busy \/ UNCHANGED <<row, sample, asked>>,
           now' = now, provider' = provider, entry' \in Entry, row' \in Row, sample' \in [Kinds -> Time], asked' \in Horizon,
           HeldOff(entry', now', asked'), row'.observed <= now', CompleteOK(row', sample'),
           ReportOK(q, now', row', sample', asked')
    PROVE  SyncInv'
<1>1. /\ prober' \in [Probers -> Prober] /\ prober'[p] = q
      /\ \A c \in Probers \ {p} : prober'[c] = prober[c]
      /\ FlagOK(prober', entry'.running)
  BY FlagKept
<1>2. \A c \in Probers \ {p} : ReportOK(prober'[c], now', row', sample', asked')
  BY <1>1, OthersKept
<1>3. \A c \in Probers : ReportOK(prober'[c], now', row', sample', asked')
  BY <1>1, <1>2, Zenon
<1>4. now' \in Time /\ provider' \in Providers
  BY Zenon DEF SyncInv, SyncTypeOK
<1>5. SyncTypeOK'
  BY <1>1, <1>4, Zenon DEF SyncTypeOK
<1> QED
  BY <1>1, <1>3, <1>5, Zenon DEF SyncInv

\* The parts of the invariant a step starts from.
LEMMA SyncParts ==
    ASSUME SyncInv
    PROVE  /\ entry \in Entry /\ row \in Row /\ sample \in [Kinds -> Time] /\ asked \in Horizon
           /\ HeldOff(entry, now, asked) /\ row.observed <= now /\ CompleteOK(row, sample)
           /\ \A p \in Probers : ReportOK(prober[p], now, row, sample, asked)
           /\ \A p \in Probers : prober[p].pc \in Busy => entry.running
BY Zenon DEF SyncInv, SyncTypeOK, FlagOK

\* A prober that is not at work knows nothing.
LEMMA NotBusy ==
    ASSUME NEW q, NEW time, NEW saved, NEW samples, NEW until, q.pc \notin Busy
    PROVE  ReportOK(q, time, saved, samples, until)
BY DEF ReportOK, Busy

LEMMA ListKept ==
    ASSUME SyncInv, NEW p \in Probers, ListParent(p)
    PROVE  SyncInv'
<1> DEFINE read == [row EXCEPT !.status = "unknown"]
           q == [NoProbe EXCEPT !.pc = "listed", !.read = read]
<1>1. /\ ProberAt(p, "idle") /\ prober' = [prober EXCEPT ![p] = q]
      /\ now' = now /\ provider' = provider /\ entry' = entry /\ row' = row /\ sample' = sample /\ asked' = asked
  BY Zenon DEF ListParent
<1>2. row \in Row /\ "unknown" \in Statuses /\ "listed" \in {"idle", "listed", "probing", "again", "error", "report", "stored", "partly"}
  BY SyncTypes DEF Statuses
<1>3. read \in Row
  BY <1>2, Zenon DEF Row
<1>4. q \in Prober /\ q.pc = "listed"
  BY <1>2, <1>3, ReportTypes, Zenon DEF Prober
<1> HIDE DEF q
<1>5. prober[p].pc \notin Busy /\ q.pc \notin Busy
  BY <1>1, <1>4 DEF ProberAt, Busy
<1>6. ReportOK(q, now', row', sample', asked')
  BY <1>5, NotBusy
<1>7. entry'.running <=> (q.pc \in Busy \/ (entry.running /\ prober[p].pc \notin Busy))
  BY <1>1, <1>5, Zenon
<1> QED
  BY <1>1, <1>4, <1>5, <1>6, <1>7, SyncParts, ProberKept, Zenon

\* An answer without a probe, or a probe that is let through: then the time
\* the provider asked for is over.
LEMMA StartKept ==
    ASSUME SyncInv, NEW p \in Probers, StartProbe(p)
    PROVE  SyncInv' /\ (prober'[p].pc = "probing" => now >= asked)
<1>1. /\ ProberAt(p, "listed")
      /\ now' = now /\ provider' = provider /\ row' = row /\ sample' = sample /\ asked' = asked
      /\ \/ prober' = [prober EXCEPT ![p] = NoProbe] /\ entry' = entry
         \/ /\ ~entry.running /\ now >= entry.retryAt /\ entry' = [entry EXCEPT !.running = TRUE]
            /\ prober' = [prober EXCEPT ![p].pc = "probing"]
  BY Zenon DEF StartProbe, Answered, begin
<1>2. prober[p].pc \notin Busy
  BY <1>1 DEF ProberAt, Busy
<1>3. prober \in [Probers -> Prober] /\ prober[p] \in Prober
  BY SyncTypes
<1>4. CASE prober' = [prober EXCEPT ![p] = NoProbe] /\ entry' = entry
  <2>1. NoProbe \in Prober /\ NoProbe.pc \notin Busy
    BY ReportTypes DEF Busy
  <2>2. ReportOK(NoProbe, now', row', sample', asked')
    BY <2>1, NotBusy
  <2>3. entry'.running <=> (NoProbe.pc \in Busy \/ (entry.running /\ prober[p].pc \notin Busy))
    BY <1>2, <1>4, <2>1, Zenon
  <2>4. SyncInv'
    BY <1>1, <1>2, <1>4, <2>1, <2>2, <2>3, SyncParts, ProberKept, Zenon
  <2>5. prober'[p] = NoProbe
    BY <1>3, <1>4, Zenon
  <2>6. prober'[p].pc # "probing"
    BY <2>5, ReportTypes
  <2> QED
    BY <2>4, <2>6
<1>5. CASE /\ ~entry.running /\ now >= entry.retryAt /\ entry' = [entry EXCEPT !.running = TRUE]
           /\ prober' = [prober EXCEPT ![p].pc = "probing"]
  <2> DEFINE q == [prober[p] EXCEPT !.pc = "probing"]
  <2>1. "probing" \in {"idle", "listed", "probing", "again", "error", "report", "stored", "partly"}
    OBVIOUS
  <2>2. q \in Prober /\ q.pc = "probing" /\ prober' = [prober EXCEPT ![p] = q]
    BY <1>3, <1>5, <2>1, Zenon DEF Prober
  <2> HIDE DEF q
  <2>3. entry' \in Entry /\ entry'.running
    BY <1>5, SyncTypes, Zenon DEF Entry
  <2>4. asked <= now
    BY <1>5, SyncTypes, SyncParts DEF HeldOff
  <2>5. q.pc \in Busy /\ ReportOK(q, now', row', sample', asked')
    BY <1>1, <2>2, <2>4 DEF ReportOK, Busy
  <2>6. HeldOff(entry', now', asked')
    BY <2>3, Zenon DEF HeldOff
  <2>7. entry'.running <=> (q.pc \in Busy \/ (entry.running /\ prober[p].pc \notin Busy))
    BY <2>3, <2>5, Zenon
  <2>8. SyncInv'
    BY <1>1, <1>2, <1>5, <2>2, <2>3, <2>5, <2>6, <2>7, SyncParts, ProberKept, Zenon
  <2>9. now >= asked
    BY <2>4, SyncTypes
  <2> QED
    BY <2>8, <2>9
<1> QED
  BY <1>1, <1>4, <1>5, Zenon

\* A prober at work that goes on working, and stores nothing yet.
LEMMA WorkKept ==
    ASSUME SyncInv, NEW p \in Probers, NEW q \in Prober, prober' = [prober EXCEPT ![p] = q],
           prober[p].pc \in Busy, q.pc \in Busy,
           now' = now, provider' = provider, entry' = entry, row' = row,
           sample' \in [Kinds -> Time], asked' \in Horizon, CompleteOK(row', sample'),
           ReportOK(q, now', row', sample', asked')
    PROVE  SyncInv'
<1>1. entry.running
  BY SyncParts
<1>2. HeldOff(entry', now', asked')
  BY <1>1, Zenon DEF HeldOff
<1>3. entry'.running <=> (q.pc \in Busy \/ (entry.running /\ prober[p].pc \notin Busy))
  BY <1>1, Zenon
<1>4. entry' \in Entry /\ row' \in Row /\ row'.observed <= now'
  BY SyncParts, Zenon
<1> QED
  BY <1>2, <1>3, <1>4, ProberKept, Zenon

LEMMA RefreshKept ==
    ASSUME SyncInv, NEW p \in Probers, RefreshAndRetry(p)
    PROVE  SyncInv'
<1> DEFINE q == [prober[p] EXCEPT !.pc = "again"]
<1>1. /\ ProberAt(p, "probing") /\ prober' = [prober EXCEPT ![p].pc = "again"]
      /\ now' = now /\ provider' = provider /\ entry' = entry /\ row' = row /\ sample' = sample /\ asked' = asked
  BY Zenon DEF RefreshAndRetry
<1>2. "again" \in {"idle", "listed", "probing", "again", "error", "report", "stored", "partly"} /\ prober[p].pc = "probing"
  BY <1>1 DEF ProberAt
<1>3. q \in Prober /\ q.pc = "again" /\ prober' = [prober EXCEPT ![p] = q]
  BY <1>1, <1>2, SyncTypes, Zenon DEF Prober
<1> HIDE DEF q
<1>4. ReportOK(prober[p], now, row, sample, asked)
  BY SyncParts
<1>5. ReportOK(q, now', row', sample', asked') /\ prober[p].pc \in Busy /\ q.pc \in Busy
  BY <1>1, <1>2, <1>3, <1>4 DEF ReportOK, Busy
<1> QED
  BY <1>1, <1>3, <1>5, SyncParts, WorkKept, Zenon

LEMMA WaitFacts ==
    \A r \in Report : r.wait \in Nat /\ r.wait <= Max(Waits)
<1>1. \A wait \in Waits : wait \in Nat /\ wait <= Max(Waits)
  BY SyncFacts
<1>2. \A r \in Report : r.wait \in Waits
  BY Zenon DEF Report
<1> QED
  BY <1>1, <1>2, Zenon

\* The answer of a probe: a report, which is newer than the row, or an error.
LEMMA FinishedKept ==
    ASSUME SyncInv, NEW p \in Probers, NEW report \in Report, prober[p].pc \in {"probing", "again"}, Finished(p, report),
           now' = now, provider' = provider, entry' = entry, row' = row, sample' = sample, asked' \in Horizon,
           asked' = asked \/ (report.error \notin {"no", "cancelled"} /\ asked' <= now + report.wait)
    PROVE  SyncInv'
<1> DEFINE dated == [report EXCEPT !.observed = now]
           good == [pc |-> "report", read |-> NoRow, report |-> dated]
           bad == [prober[p] EXCEPT !.pc = "error", !.report = report]
<1>1. asked <= now /\ prober[p].pc \in Busy
  BY SyncParts DEF ReportOK, Busy
<1>2. /\ "report" \in {"idle", "listed", "probing", "again", "error", "report", "stored", "partly"}
      /\ "error" \in {"idle", "listed", "probing", "again", "error", "report", "stored", "partly"}
  OBVIOUS
<1>3. now \in Time /\ now \in Nat /\ asked \in Nat /\ asked' \in Nat /\ report.wait \in Nat /\ row.observed <= now
  <2>1. report.wait \in Nat
    BY WaitFacts, Zenon
  <2>2. now \in Nat /\ now <= MaxTime /\ asked \in Nat /\ row.observed <= now
    BY SyncTypes, SyncParts, Zenon
  <2>3. now \in Time
    BY <2>2, SyncFacts DEF Time
  <2>4. asked' \in Nat
    BY SyncFacts DEF Horizon
  <2> QED
    BY <2>1, <2>2, <2>3, <2>4, Zenon
<1>4. CASE report.error = "no"
  <2>1. prober' = [prober EXCEPT ![p] = good]
    BY <1>4, Zenon DEF Finished
  <2>2. dated \in Report /\ dated.observed = now /\ dated.error = "no"
    BY <1>3, <1>4, Zenon DEF Report
  <2> HIDE DEF dated
  <2>3. good \in Prober /\ good.pc = "report" /\ good.report = dated
    BY <1>2, <2>2, ReportTypes, Zenon DEF Prober
  <2> HIDE DEF good
  <2>4. asked' = asked
    BY <1>4
  <2>5. good.pc \in Busy /\ ReportOK(good, now', row', sample', asked')
    BY <1>1, <1>3, <2>2, <2>3, <2>4 DEF ReportOK, Busy
  <2> QED
    BY <1>1, <2>1, <2>3, <2>5, SyncParts, WorkKept, Zenon
<1>5. CASE report.error # "no"
  <2>1. prober' = [prober EXCEPT ![p] = bad]
    BY <1>5, Zenon DEF Finished
  <2>2. bad \in Prober /\ bad.pc = "error" /\ bad.report = report
    BY <1>2, SyncTypes, Zenon DEF Prober
  <2> HIDE DEF bad
  <2>3. asked' <= now + report.wait /\ (report.error = "cancelled" => asked' <= now)
    BY <1>1, <1>3
  <2>4. bad.pc \in Busy /\ ReportOK(bad, now', row', sample', asked')
    BY <1>5, <2>2, <2>3 DEF ReportOK, Busy
  <2> QED
    BY <1>1, <2>1, <2>2, <2>4, SyncParts, WorkKept, Zenon
<1> QED
  BY <1>4, <1>5

LEMMA ProbeKept ==
    ASSUME SyncInv, NEW p \in Probers, probeQuotaWithRefresh(p)
    PROVE  SyncInv'
<1>1. /\ ProberAt(p, "probing") \/ ProberAt(p, "again")
      /\ now' = now /\ provider' = provider /\ entry' = entry /\ row' = row /\ sample' = sample
  BY Zenon DEF probeQuotaWithRefresh
<1>2. PICK outcome \in Outcomes[provider] :
         /\ Finished(p, outcome.report)
         /\ asked' = Max({asked} \cup {now + wait : wait \in outcome.waits})
  BY Zenon DEF probeQuotaWithRefresh
<1>3. provider \in Providers /\ now \in Nat /\ now <= MaxTime /\ asked \in Nat /\ asked \in Horizon
  BY SyncTypes, SyncParts
<1>4. Carries(outcome.report, outcome.waits)
  BY <1>3, OutcomeCarries
<1> DEFINE report == outcome.report
<1>5. report \in Report /\ (outcome.waits = {} \/ (outcome.waits = {report.wait} /\ report.error \notin {"no", "cancelled"}))
  BY <1>4 DEF Carries
<1>6. report.wait \in Nat /\ report.wait <= Max(Waits)
  BY <1>5, WaitFacts, Zenon
<1> HIDE DEF report
<1>7. asked' \in Horizon /\ (asked' = asked \/ (report.error \notin {"no", "cancelled"} /\ asked' <= now + report.wait))
  <2>1. CASE outcome.waits = {}
    <3>1. {asked} \cup {now + wait : wait \in outcome.waits} = {asked}
      BY <2>1
    <3>2. Max({asked}) = asked
      BY <1>3, MaxOfOne
    <3>3. asked' = asked
      BY <1>2, <3>1, <3>2, Zenon
    <3> QED
      BY <1>3, <3>3
  <2>2. CASE outcome.waits = {report.wait} /\ report.error \notin {"no", "cancelled"}
    <3>1. {asked} \cup {now + wait : wait \in outcome.waits} = {asked, now + report.wait}
      BY <2>2
    <3>2. now + report.wait \in Nat /\ now + report.wait \in Horizon
      BY <1>3, <1>6, SyncFacts DEF Horizon
    <3>3. asked' \in {asked, now + report.wait}
      BY <1>2, <1>3, <3>1, <3>2, MaxOfTwo
    <3> QED
      BY <1>3, <2>2, <3>2, <3>3
  <2> QED
    BY <1>5, <2>1, <2>2
<1>8. prober[p].pc \in {"probing", "again"}
  BY <1>1 DEF ProberAt
<1>9. Finished(p, report)
  BY <1>2 DEF report
<1> QED
  BY <1>1, <1>5, <1>7, <1>8, <1>9, FinishedKept

LEMMA FailKept ==
    ASSUME SyncInv, NEW p \in Probers, ProbeFails(p)
    PROVE  SyncInv'
<1>1. /\ ProberAt(p, "probing") \/ ProberAt(p, "again")
      /\ now' = now /\ provider' = provider /\ entry' = entry /\ row' = row /\ sample' = sample /\ asked' = asked
  BY Zenon DEF ProbeFails
<1>2. PICK error \in {"cancelled", "other"} : Finished(p, [NoReport EXCEPT !.error = error])
  BY Zenon DEF ProbeFails
<1>3. error \in {"no", "unauthorized", "other", "cancelled"}
  OBVIOUS
<1>4. [NoReport EXCEPT !.error = error] \in Report
  BY <1>3, ReportTypes, Zenon DEF Report
<1>5. prober[p].pc \in {"probing", "again"} /\ asked' \in Horizon
  BY <1>1, SyncParts DEF ProberAt
<1> QED
  BY <1>1, <1>2, <1>4, <1>5, FinishedKept

LEMMA SamplesKept ==
    ASSUME SyncInv, NEW p \in Probers, StoreSamples(p)
    PROVE  SyncInv' /\ \A k \in Kinds : sample'[k] >= sample[k]
<1> DEFINE r == prober[p].report
<1>1. PICK lost \in SUBSET r.windows :
         /\ sample' = [k \in Kinds |-> IF k \in r.windows \ lost THEN Max({sample[k], r.observed}) ELSE sample[k]]
         /\ prober' = [prober EXCEPT ![p].pc = IF lost = {} THEN "stored" ELSE "partly"]
  BY Zenon DEF StoreSamples
<1>2. ProberAt(p, "report") /\ now' = now /\ provider' = provider /\ entry' = entry /\ row' = row /\ asked' = asked
  BY Zenon DEF StoreSamples
<1>3. /\ sample \in [Kinds -> Time] /\ prober[p] \in Prober /\ prober \in [Probers -> Prober]
      /\ r.observed \in Time /\ r.windows \in SUBSET Kinds /\ r \in Report
  BY SyncTypes
<1>4. /\ prober[p].pc = "report" /\ asked <= now /\ r.error = "no" /\ row.observed <= r.observed /\ r.observed <= now
      /\ CompleteOK(row, sample)
  BY <1>2, SyncParts DEF ReportOK, ProberAt
<1> DEFINE pc == IF lost = {} THEN "stored" ELSE "partly"
           q == [prober[p] EXCEPT !.pc = pc]
<1>5. /\ pc \in {"idle", "listed", "probing", "again", "error", "report", "stored", "partly"}
      /\ pc \in {"stored", "partly"} /\ (pc = "stored" => lost = {})
  OBVIOUS
<1>6. q \in Prober /\ q.pc = pc /\ q.report = r /\ prober' = [prober EXCEPT ![p] = q]
  BY <1>1, <1>3, <1>5, Zenon DEF Prober
<1> HIDE DEF q, pc, r
<1>7. \A k \in Kinds : /\ sample'[k] \in Time /\ sample'[k] >= sample[k]
                       /\ k \in r.windows \ lost => sample'[k] >= r.observed
  <2> SUFFICES ASSUME NEW k \in Kinds
               PROVE  /\ sample'[k] \in Time /\ sample'[k] >= sample[k]
                      /\ k \in r.windows \ lost => sample'[k] >= r.observed
    OBVIOUS
  <2>1. sample'[k] = IF k \in r.windows \ lost THEN Max({sample[k], r.observed}) ELSE sample[k]
    BY <1>1, Zenon
  <2>2. sample[k] \in Time /\ sample[k] \in Nat /\ r.observed \in Nat
    BY <1>3, SyncFacts DEF Time
  <2>3. /\ Max({sample[k], r.observed}) \in {sample[k], r.observed}
        /\ Max({sample[k], r.observed}) >= sample[k] /\ Max({sample[k], r.observed}) >= r.observed
    BY <2>2, MaxOfTwo
  <2> QED
    BY <1>3, <2>1, <2>2, <2>3
<1>8. sample' \in [Kinds -> Time]
  <2>1. sample' = [k \in Kinds |-> sample'[k]]
    BY <1>1, Zenon
  <2> QED
    BY <1>7, <2>1, Zenon
<1>9. CompleteOK(row', sample')
  <2>1. row.windows \in SUBSET Kinds /\ row.snapshot \in Time
    BY SyncTypes, Zenon DEF Row
  <2>2. row.status = "supported" => \A k \in row.windows : sample'[k] >= row.snapshot
    BY <1>3, <1>4, <1>7, <1>8, <2>1, SyncFacts DEF CompleteOK, Time
  <2> QED
    BY <1>2, <2>2, Zenon DEF CompleteOK
<1>10. q.pc \in Busy /\ prober[p].pc \in Busy /\ ReportOK(q, now', row', sample', asked')
  BY <1>2, <1>3, <1>4, <1>5, <1>6, <1>7 DEF ReportOK, Busy
<1>11. SyncInv'
  BY <1>2, <1>6, <1>8, <1>9, <1>10, SyncParts, WorkKept, Zenon
<1> QED
  BY <1>7, <1>11

\* finish: the entry of a failed probe holds off for as long as the provider
\* asked.
LEMMA FinishKept ==
    ASSUME SyncInv, NEW report \in Report, finish(report),
           asked <= now + report.wait, report.error \in {"no", "cancelled"} => asked <= now
    PROVE  entry' \in Entry /\ ~entry'.running /\ HeldOff(entry', now, asked)
<1>1. now \in Nat /\ now <= MaxTime /\ asked \in Nat /\ entry.delay \in Nat
  BY SyncTypes, Zenon
<1>2. report.wait \in Nat /\ report.wait <= Max(Waits)
  BY WaitFacts, Zenon
<1>3. CASE report.error \in {"no", "cancelled"}
  <2>1. entry' = NoEntry
    BY <1>3, Zenon DEF finish
  <2>2. NoEntry \in Entry /\ ~NoEntry.running
    BY SyncFacts DEF NoEntry, Entry, Horizon
  <2>3. HeldOff(entry', now, asked)
    BY <1>3, Zenon DEF HeldOff
  <2> QED
    BY <2>1, <2>2, <2>3, Zenon
<1>4. CASE report.error \notin {"no", "cancelled"}
  <2> DEFINE delay == Min({Max({Minimum, 2 * entry.delay}), MaxDelay})
  <2>1. PICK jitter \in 0..1 :
           entry' = [running |-> FALSE, delay |-> delay, retryAt |-> Max({now + delay + jitter, now + report.wait})]
    BY <1>4, Zenon DEF finish
  <2>2. Minimum \in Nat /\ 2 * entry.delay \in Nat
    BY <1>1, SyncFacts DEF Minimum
  <2>3. Max({Minimum, 2 * entry.delay}) \in Nat
    <3>1. Max({Minimum, 2 * entry.delay}) \in {Minimum, 2 * entry.delay}
      BY <2>2, MaxOfTwo
    <3> QED
      BY <2>2, <3>1
  <2>4. delay \in 0..MaxDelay
    <3> DEFINE larger == Max({Minimum, 2 * entry.delay})
    <3>1. larger \in Nat /\ MaxDelay \in Nat
      BY <2>3, SyncFacts
    <3> HIDE DEF larger
    <3>2. Min({larger, MaxDelay}) \in {larger, MaxDelay} /\ Min({larger, MaxDelay}) <= MaxDelay
      BY <3>1, MinOfTwo
    <3>3. Min({larger, MaxDelay}) \in 0..MaxDelay
      BY <3>1, <3>2
    <3> QED
      BY <3>3 DEF larger
  <2> HIDE DEF delay
  <2> DEFINE own == now + delay + jitter
             wanted == now + report.wait
  <2>5. own \in Nat /\ wanted \in Nat /\ own <= MaxTime + 2 * MaxDelay /\ wanted <= MaxTime + Max(Waits)
    BY <1>1, <1>2, <2>4, SyncFacts
  <2> HIDE DEF own, wanted
  <2>6. Max({own, wanted}) \in {own, wanted} /\ Max({own, wanted}) >= wanted
    BY <2>5, MaxOfTwo
  <2>7. Max({own, wanted}) \in Horizon
    BY <2>5, <2>6, SyncFacts DEF Horizon
  <2>8. entry' = [running |-> FALSE, delay |-> delay, retryAt |-> Max({own, wanted})]
    BY <2>1, Zenon DEF own, wanted
  <2>9. entry' \in Entry /\ ~entry'.running /\ entry'.retryAt = Max({own, wanted})
    BY <2>4, <2>7, <2>8 DEF Entry
  <2>10. asked <= Max({own, wanted})
    <3>1. asked <= wanted
      BY DEF wanted
    <3> QED
      BY <1>1, <2>5, <2>6, <3>1
  <2> QED
    BY <2>9, <2>10, Zenon DEF HeldOff
<1> QED
  BY <1>3, <1>4

\* The end of a probe, whatever it leaves in the row.
LEMMA EndKept ==
    ASSUME SyncInv, NEW p \in Probers, prober[p].pc \in {"error", "stored", "partly"},
           Answered(p), finish(prober[p].report),
           now' = now, provider' = provider, sample' = sample, asked' = asked,
           row' \in Row, row'.observed <= now', CompleteOK(row', sample')
    PROVE  SyncInv'
<1>1. ReportOK(prober[p], now, row, sample, asked) /\ prober[p].report \in Report
  BY SyncParts, SyncTypes, Zenon
<1>2. now \in Nat /\ asked \in Nat /\ prober[p].report.wait \in Nat
  BY SyncTypes, Zenon
<1>3. /\ asked <= now + prober[p].report.wait
      /\ prober[p].report.error \in {"no", "cancelled"} => asked <= now
  BY <1>1, <1>2 DEF ReportOK
<1>4. entry' \in Entry /\ ~entry'.running /\ HeldOff(entry', now, asked)
  BY <1>1, <1>3, FinishKept, Zenon
<1>5. NoProbe \in Prober /\ NoProbe.pc \notin Busy /\ prober[p].pc \in Busy /\ prober' = [prober EXCEPT ![p] = NoProbe]
  BY ReportTypes DEF Busy, Answered
<1>6. ReportOK(NoProbe, now', row', sample', asked')
  BY <1>5, NotBusy
<1>7. entry'.running <=> (NoProbe.pc \in Busy \/ (entry.running /\ prober[p].pc \notin Busy))
  BY <1>4, <1>5, Zenon
<1>8. sample' \in [Kinds -> Time] /\ asked' \in Horizon
  BY SyncParts, Zenon
<1> QED
  BY <1>4, <1>5, <1>6, <1>7, <1>8, ProberKept, Zenon

LEMMA ErrorKept ==
    ASSUME SyncInv, NEW p \in Probers, StoreError(p)
    PROVE  SyncInv' /\ row'.observed = row.observed
<1> DEFINE read == prober[p].read
           profile == prober[p].report.profile
           snapshot == IF profile THEN read.snapshot ELSE row.snapshot
           windows == IF profile THEN read.windows ELSE row.windows
<1>1. /\ ProberAt(p, "error") /\ finish(prober[p].report) /\ Answered(p)
      /\ row' = [row EXCEPT !.supported = read.supported, !.status = "error", !.snapshot = snapshot, !.windows = windows]
      /\ now' = now /\ provider' = provider /\ sample' = sample /\ asked' = asked
  BY Zenon DEF StoreError
<1>2. row \in Row /\ read \in Row /\ "error" \in Statuses
  BY SyncTypes DEF Statuses
<1>3. read.supported \in BOOLEAN /\ snapshot \in Time /\ windows \in SUBSET Kinds
  BY <1>2, Zenon DEF Row
<1> HIDE DEF read, snapshot, windows
<1>4. row' \in Row /\ row'.observed = row.observed /\ row'.status = "error"
  BY <1>1, <1>2, <1>3, Zenon DEF Row
<1>5. row'.observed <= now'
  BY <1>1, <1>4, SyncParts, Zenon
<1>6. CompleteOK(row', sample') /\ prober[p].pc \in {"error", "stored", "partly"}
  BY <1>1, <1>4 DEF CompleteOK, ProberAt
<1>7. SyncInv'
  BY <1>1, <1>4, <1>5, <1>6, EndKept, Zenon
<1> QED
  BY <1>4, <1>7

LEMMA ReportKept ==
    ASSUME SyncInv, NEW p \in Probers, StoreReport(p)
    PROVE  SyncInv' /\ row'.observed >= row.observed
<1> DEFINE r == prober[p].report
           status == IF ~r.supported THEN "unsupported" ELSE IF ProberAt(p, "partly") THEN "error" ELSE "supported"
           new == [supported |-> r.supported, status |-> status,
                   observed |-> r.observed, snapshot |-> r.observed, windows |-> r.windows]
<1>1. /\ ProberAt(p, "stored") \/ ProberAt(p, "partly")
      /\ row' = new \/ row' = row
      /\ finish(prober[p].report) /\ Answered(p)
      /\ now' = now /\ provider' = provider /\ sample' = sample /\ asked' = asked
  BY Zenon DEF StoreReport
<1>2. prober[p].pc \in {"stored", "partly"} /\ prober[p].pc \in {"error", "stored", "partly"}
  BY <1>1 DEF ProberAt
<1>3. /\ row.observed <= r.observed /\ r.observed <= now
      /\ prober[p].pc = "stored" => \A k \in r.windows : sample[k] >= r.observed
  BY <1>2, SyncParts DEF ReportOK
<1>4. r \in Report /\ row.observed \in Nat /\ row \in Row /\ r.observed \in Nat
  BY SyncTypes, SyncFacts DEF Time
<1>5. CASE row' = row
  <2>1. row' \in Row /\ row'.observed <= now' /\ CompleteOK(row', sample')
    BY <1>1, <1>5, SyncParts, Zenon
  <2>2. row'.observed >= row.observed
    BY <1>4, <1>5
  <2> QED
    BY <1>1, <1>2, <2>1, <2>2, EndKept, Zenon
<1>6. CASE row' = new
  <2>1. status \in Statuses /\ (status = "supported" => prober[p].pc = "stored")
    BY <1>2 DEF Statuses, ProberAt
  <2>2. r.supported \in BOOLEAN /\ r.observed \in Time /\ r.windows \in SUBSET Kinds
    BY <1>4, Zenon DEF Report
  <2> HIDE DEF r, status
  <2>3. /\ new \in Row /\ new.observed = r.observed /\ new.snapshot = r.observed
        /\ new.windows = r.windows /\ new.status = status
    BY <2>1, <2>2, Zenon DEF Row
  <2> HIDE DEF new
  <2>4. row'.observed <= now' /\ row'.observed >= row.observed
    BY <1>1, <1>3, <1>4, <1>6, <2>3
  <2>5. CompleteOK(row', sample')
    BY <1>1, <1>3, <1>6, <2>1, <2>3 DEF CompleteOK
  <2>6. row' \in Row
    BY <1>6, <2>3
  <2> QED
    BY <1>1, <1>2, <2>4, <2>5, <2>6, EndKept, Zenon
<1> QED
  BY <1>1, <1>5, <1>6

LEMMA TickKept ==
    ASSUME SyncInv, Tick
    PROVE  SyncInv'
<1>1. /\ now < MaxTime /\ now' = now + 1 /\ asked' = IF asked > now' THEN asked ELSE 0
      /\ provider' = provider /\ entry' = entry /\ row' = row /\ sample' = sample /\ prober' = prober
  BY Zenon DEF Tick
<1>2. now \in Nat /\ asked \in Nat /\ asked \in Horizon /\ entry.retryAt \in Nat /\ row.observed \in Nat
  BY SyncTypes, SyncParts
<1>3. now' \in Time /\ now' \in Nat /\ now <= now'
  BY <1>1, <1>2, SyncFacts DEF Time
<1>4. asked' \in {asked, 0} /\ asked' \in Horizon /\ asked' <= asked /\ asked' \in Nat
  BY <1>1, <1>2, SyncFacts DEF Horizon
<1>5. SyncTypeOK'
  BY <1>1, <1>3, <1>4, Zenon DEF SyncInv, SyncTypeOK
<1>6. HeldOff(entry', now', asked') /\ row'.observed <= now'
  BY <1>1, <1>2, <1>3, <1>4, SyncParts DEF HeldOff
<1>7. CompleteOK(row', sample')
  BY <1>1, SyncParts, Zenon
<1>8. ASSUME NEW p \in Probers
      PROVE  ReportOK(prober'[p], now', row', sample', asked')
  <2>1. ReportOK(prober[p], now, row, sample, asked)
    BY SyncParts
  <2>2. prober[p].report.wait \in Nat /\ prober[p].report.observed \in Nat
    BY SyncTypes, SyncFacts DEF Time
  <2>3. ReportOK(prober[p], now', row, sample, asked')
    BY <1>2, <1>3, <1>4, <2>1, <2>2 DEF ReportOK
  <2> QED
    BY <1>1, <2>3, Zenon
<1>9. FlagOK(prober', entry'.running)
  BY <1>1, Zenon DEF SyncInv
<1> QED
  BY <1>5, <1>6, <1>7, <1>8, <1>9, Zenon DEF SyncInv

\* Nobody is at work, and nobody was asked to wait.
LEMMA FreshTable ==
    ASSUME NEW probers, NEW time, NEW saved, NEW samples, probers = [p \in Probers |-> NoProbe], time \in Nat
    PROVE  /\ probers \in [Probers -> Prober] /\ NoEntry \in Entry /\ 0 \in Horizon
           /\ FlagOK(probers, NoEntry.running) /\ HeldOff(NoEntry, time, 0)
           /\ \A p \in Probers : ReportOK(probers[p], time, saved, samples, 0)
<1>1. NoEntry \in Entry /\ ~NoEntry.running /\ 0 \in Horizon
  BY SyncFacts DEF NoEntry, Entry, Horizon
<1>2. NoProbe \in Prober /\ NoProbe.pc \notin Busy
  BY ReportTypes DEF Busy
<1>3. \A p \in Probers : probers[p] = NoProbe
  BY Zenon
<1>4. probers \in [Probers -> Prober]
  BY <1>2, Zenon
<1>5. FlagOK(probers, NoEntry.running)
  BY <1>1, <1>2, <1>3, Zenon DEF FlagOK
<1>6. HeldOff(NoEntry, time, 0)
  BY DEF HeldOff
<1>7. \A p \in Probers : ReportOK(probers[p], time, saved, samples, 0)
  BY <1>2, <1>3, NotBusy, Zenon
<1> QED
  BY <1>1, <1>4, <1>5, <1>6, <1>7

LEMMA RestartKept ==
    ASSUME SyncInv, Restart
    PROVE  SyncInv'
<1>1. /\ entry' = NoEntry /\ asked' = 0 /\ prober' = [p \in Probers |-> NoProbe]
      /\ now' = now /\ provider' = provider /\ row' = row /\ sample' = sample
  BY Zenon DEF Restart
<1>2. now' \in Nat
  BY <1>1, SyncTypes
<1>3. /\ prober' \in [Probers -> Prober] /\ NoEntry \in Entry /\ 0 \in Horizon
      /\ FlagOK(prober', NoEntry.running) /\ HeldOff(NoEntry, now', 0)
      /\ \A p \in Probers : ReportOK(prober'[p], now', row', sample', 0)
  BY <1>1, <1>2, FreshTable
<1>4. SyncTypeOK'
  BY <1>1, <1>3, Zenon DEF SyncInv, SyncTypeOK
<1>5. row'.observed <= now' /\ CompleteOK(row', sample')
  BY <1>1, SyncParts, Zenon
<1> QED
  BY <1>1, <1>3, <1>4, <1>5, Zenon DEF SyncInv

LEMMA SyncStarts ==
    ASSUME SyncInit
    PROVE  SyncInv
<1>1. /\ now = 1 /\ provider \in Providers /\ entry = NoEntry /\ row = NoRow
      /\ sample = [k \in Kinds |-> 0] /\ prober = [p \in Probers |-> NoProbe] /\ asked = 0
  BY Zenon DEF SyncInit
<1>2. 1 \in Time /\ 0 \in Time /\ 1 \in Nat
  BY SyncFacts DEF Time
<1>3. /\ prober \in [Probers -> Prober] /\ NoEntry \in Entry /\ 0 \in Horizon
      /\ FlagOK(prober, NoEntry.running) /\ HeldOff(NoEntry, now, 0)
      /\ \A p \in Probers : ReportOK(prober[p], now, row, sample, 0)
  BY <1>1, <1>2, FreshTable
<1>4. sample \in [Kinds -> Time]
  BY <1>1, <1>2, Zenon
<1>5. SyncTypeOK
  BY <1>1, <1>2, <1>3, <1>4, ReportTypes, Zenon DEF SyncTypeOK
<1>6. row.observed <= now /\ CompleteOK(row, sample)
  BY <1>1, ReportTypes DEF CompleteOK
<1> QED
  BY <1>1, <1>3, <1>5, <1>6, Zenon DEF SyncInv

\* Every step keeps the invariant, lets a probe through only after the time
\* the provider asked for, and puts no clock back.
LEMMA SyncStep ==
    ASSUME SyncInv, [SyncNext]_syncVars
    PROVE  /\ SyncInv'
           /\ \A p \in Probers : ProberAt(p, "listed") /\ prober'[p].pc = "probing" => now >= asked
           /\ row'.observed >= row.observed /\ \A k \in Kinds : sample'[k] >= sample[k]
<1> DEFINE Waited == \A p \in Probers : ProberAt(p, "listed") /\ prober'[p].pc = "probing" => now >= asked
           SameClocks == row' = row /\ sample' = sample
           Advance == row'.observed >= row.observed /\ \A k \in Kinds : sample'[k] >= sample[k]
           \* Only p moves.
           Moves(p) == \A c \in Probers \ {p} : prober'[c] = prober[c]
<1>1. prober \in [Probers -> Prober] /\ row.observed \in Nat /\ \A k \in Kinds : sample[k] \in Nat
  BY SyncTypes, SyncFacts DEF Time
<1>2. SameClocks => Advance
  BY <1>1
<1>3. ASSUME NEW p \in Probers, Moves(p), ~ProberAt(p, "listed") \/ (prober'[p].pc = "probing" => now >= asked)
      PROVE  Waited
  <2>1. ASSUME NEW c \in Probers \ {p}, ProberAt(c, "listed")
        PROVE  prober'[c].pc # "probing"
    <3>1. prober'[c].pc = prober[c].pc
      BY <1>3
    <3> QED
      BY <2>1, <3>1 DEF ProberAt
  <2> QED
    BY <1>3, <2>1, Zenon
<1>4. ASSUME NEW p \in Probers, NEW q, prober' = [prober EXCEPT ![p] = q]
      PROVE  Moves(p)
  BY <1>1, <1>4, Zenon
<1> HIDE DEF Moves
<1>6. ASSUME NEW p \in Probers, ProberAt(p, "idle") \/ ProberAt(p, "probing") \/ ProberAt(p, "again") \/ ProberAt(p, "error")
                \/ ProberAt(p, "report") \/ ProberAt(p, "stored") \/ ProberAt(p, "partly")
      PROVE  ~ProberAt(p, "listed")
  BY <1>6 DEF ProberAt
<1>7. ASSUME NEW p \in Probers, ListParent(p)
      PROVE  SyncInv' /\ Waited /\ Advance
  <2>1. ProberAt(p, "idle") /\ SameClocks /\ Moves(p)
    BY <1>4, <1>7, Zenon DEF ListParent
  <2> QED
    BY <1>2, <1>3, <1>6, <1>7, <2>1, ListKept, Zenon
<1>8. ASSUME NEW p \in Probers, StartProbe(p)
      PROVE  SyncInv' /\ Waited /\ Advance
  <2>1. SameClocks
    BY <1>8, Zenon DEF StartProbe
  <2>2. \/ prober' = [prober EXCEPT ![p] = NoProbe]
        \/ prober' = [prober EXCEPT ![p].pc = "probing"]
    BY <1>8, Zenon DEF StartProbe, Answered
  <2>3. Moves(p)
    BY <1>1, <2>2, Zenon DEF Moves
  <2> QED
    BY <1>2, <1>3, <1>8, <2>1, <2>3, StartKept, Zenon
<1>9. ASSUME NEW p \in Probers, probeQuotaWithRefresh(p)
      PROVE  SyncInv' /\ Waited /\ Advance
  <2>1. SameClocks /\ (ProberAt(p, "probing") \/ ProberAt(p, "again"))
    BY <1>9, Zenon DEF probeQuotaWithRefresh
  <2>2. Moves(p)
    BY <1>1, <1>9, Zenon DEF probeQuotaWithRefresh, Finished, Moves
  <2> QED
    BY <1>2, <1>3, <1>6, <1>9, <2>1, <2>2, ProbeKept, Zenon
<1>10. ASSUME NEW p \in Probers, RefreshAndRetry(p)
       PROVE  SyncInv' /\ Waited /\ Advance
  <2>1. SameClocks /\ ProberAt(p, "probing") /\ prober' = [prober EXCEPT ![p].pc = "again"]
    BY <1>10, Zenon DEF RefreshAndRetry
  <2>2. Moves(p)
    BY <1>1, <2>1, Zenon DEF Moves
  <2> QED
    BY <1>2, <1>3, <1>6, <1>10, <2>1, <2>2, RefreshKept, Zenon
<1>11. ASSUME NEW p \in Probers, ProbeFails(p)
       PROVE  SyncInv' /\ Waited /\ Advance
  <2>1. SameClocks /\ (ProberAt(p, "probing") \/ ProberAt(p, "again"))
    BY <1>11, Zenon DEF ProbeFails
  <2>2. Moves(p)
    BY <1>1, <1>11, Zenon DEF ProbeFails, Finished, Moves
  <2> QED
    BY <1>2, <1>3, <1>6, <1>11, <2>1, <2>2, FailKept, Zenon
<1>12. ASSUME NEW p \in Probers, StoreError(p)
       PROVE  SyncInv' /\ Waited /\ Advance
  <2>1. ProberAt(p, "error") /\ sample' = sample /\ Moves(p)
    BY <1>4, <1>12, Zenon DEF StoreError, Answered
  <2>2. SyncInv' /\ row'.observed = row.observed
    BY <1>12, ErrorKept
  <2>3. Advance
    BY <1>1, <2>1, <2>2
  <2> QED
    BY <1>3, <1>6, <2>1, <2>2, <2>3, Zenon
<1>13. ASSUME NEW p \in Probers, StoreSamples(p)
       PROVE  SyncInv' /\ Waited /\ Advance
  <2>1. ProberAt(p, "report") /\ row' = row
    BY <1>13, Zenon DEF StoreSamples
  <2>2. Moves(p)
    BY <1>1, <1>13, Zenon DEF StoreSamples, Moves
  <2>3. SyncInv' /\ \A k \in Kinds : sample'[k] >= sample[k]
    BY <1>13, SamplesKept
  <2>4. Advance
    BY <1>1, <2>1, <2>3
  <2> QED
    BY <1>3, <1>6, <2>1, <2>2, <2>3, <2>4, Zenon
<1>14. ASSUME NEW p \in Probers, StoreReport(p)
       PROVE  SyncInv' /\ Waited /\ Advance
  <2>1. (ProberAt(p, "stored") \/ ProberAt(p, "partly")) /\ sample' = sample /\ Moves(p)
    BY <1>4, <1>14, Zenon DEF StoreReport, Answered
  <2>2. SyncInv' /\ row'.observed >= row.observed
    BY <1>14, ReportKept
  <2>3. Advance
    BY <1>1, <2>1, <2>2
  <2> QED
    BY <1>3, <1>6, <2>1, <2>2, <2>3, Zenon
<1>15. ASSUME Tick
       PROVE  SyncInv' /\ Waited /\ Advance
  <2>1. SameClocks /\ prober' = prober
    BY <1>15, Zenon DEF Tick
  <2>2. Waited
    BY <2>1 DEF ProberAt
  <2> QED
    BY <1>2, <1>15, <2>1, <2>2, TickKept
<1>16. ASSUME Restart
       PROVE  SyncInv' /\ Waited /\ Advance
  <2>1. SameClocks /\ \A p \in Probers : prober'[p] = NoProbe
    BY <1>16, Zenon DEF Restart
  <2>2. Waited
    BY <2>1, ReportTypes DEF ProberAt
  <2> QED
    BY <1>2, <1>16, <2>1, <2>2, RestartKept
<1>17. ASSUME UNCHANGED syncVars
       PROVE  SyncInv' /\ Waited /\ Advance
  <2>1. /\ now' = now /\ provider' = provider /\ entry' = entry /\ row' = row /\ sample' = sample
        /\ prober' = prober /\ asked' = asked
    BY <1>17, Zenon DEF syncVars
  <2>2. SyncTypeOK'
    BY <2>1, Zenon DEF SyncInv, SyncTypeOK
  <2>3. SyncInv'
    BY <2>1, <2>2, Zenon DEF SyncInv
  <2>4. Waited
    BY <2>1 DEF ProberAt
  <2> QED
    BY <1>2, <2>1, <2>3, <2>4
<1> HIDE DEF Waited, Advance
<1>18. SyncInv' /\ Waited /\ Advance
  BY <1>7, <1>8, <1>9, <1>10, <1>11, <1>12, <1>13, <1>14, <1>15, <1>16, <1>17, Zenon DEF SyncNext, syncParentQuota
<1> QED
  BY <1>18, Zenon DEF Waited, Advance

-----------------------------------------------------------------------------
(* The theorems *)

\* begin, finish and what syncParentQuota stores: the inductive invariant.
THEOREM SyncInvariant == QuotaSync => []SyncInv
<1>1. SyncInit => SyncInv
  BY SyncStarts
<1>2. SyncInv /\ [SyncNext]_syncVars => SyncInv'
  BY SyncStep
<1> QED
  BY <1>1, <1>2, PTL DEF QuotaSync

LEMMA InvOrders ==
    ASSUME SyncInv
    PROVE  ProbesKeepOrder
<1>1. SyncTypeOK /\ SupportedIsComplete
  BY Zenon DEF SyncInv, CompleteOK, SupportedIsComplete
<1> DEFINE working == {p \in Probers : Working(p)}
<1>2. \A p \in Probers : Working(p) <=> prober[p].pc \in Busy
  BY Zenon DEF Working, Busy
<1>3. entry.running <=> \E p \in Probers : Working(p)
  BY <1>2, Zenon DEF SyncInv, FlagOK
<1>4. \A p, q \in working : p = q
  BY <1>2, Zenon DEF SyncInv, FlagOK
<1>5. working = {} \/ \E p \in working : working = {p}
  BY <1>4, Zenon
<1> HIDE DEF working
<1>6. Cardinality(working) <= 1
  BY <1>5, FS_EmptySet, FS_Singleton
<1> QED
  BY <1>1, <1>3, <1>6, Zenon DEF ProbesKeepOrder, OneProbeAtATime, working

\* begin, finish and StoreReport: one probe of a credential at a time, a table
\* entry that says so, and a row that never claims samples which were not
\* stored, for any number of requests and jobs.
THEOREM ProbesCorrect == QuotaSync => []ProbesKeepOrder
BY SyncInvariant, InvOrders, PTL

\* begin and finish: nobody asks a provider again before the time a 429 asked
\* for, whatever waits the providers ask for.
THEOREM WaitsCorrect == QuotaSync => RetryAfterKept
<1>1. SyncInv /\ [SyncNext]_syncVars =>
         [\A p \in Probers : ProberAt(p, "listed") /\ prober'[p].pc = "probing" => now >= asked]_syncVars
  BY SyncStep
<1> QED
  BY <1>1, SyncInvariant, PTL DEF QuotaSync, RetryAfterKept

\* UpdateParentQuotaProbe and RecordParentQuotaObservation under the table:
\* usage clocks only advance.
THEOREM ClocksCorrect == QuotaSync => ObservationsAdvance
<1>1. SyncInv /\ [SyncNext]_syncVars =>
         [row'.observed >= row.observed /\ \A k \in Kinds : sample'[k] >= sample[k]]_syncVars
  BY SyncStep
<1> QED
  BY <1>1, SyncInvariant, PTL DEF QuotaSync, ObservationsAdvance

=============================================================================
