# A TLA+ development of RelayAPI

RelayAPI is a multi-tenant gateway in front of upstream AI subscriptions. Tenants
send HTTP requests or open WebSocket sessions; the gateway admits them against a
share of an upstream subscription's quota or against a prepaid balance, forwards
them through an embedded runtime, and charges what they cost. `rai` is its command
line client: it logs a machine in and points agent clients at the gateway. This
directory models what the correctness of both rests on: who may spend what, that
every hold and charge is accounted for exactly once, that credentials, prices,
settings and client files are what the last successful change made them although
changes overlap and fail, and that nothing waits for ever.

Paths below are relative to `src/`. `S` is `internal/store/subscriptions.go`.

## 1. Inventory

| Component | State | Operations | Hard because |
|---|---|---|---|
| Subscriptions, `S` 115-830 | parents, their windows and samples; children (shares) and their windows | upsert, synchronise, sample, convert, grant, share, move, delete, remove a missing credential | samples, conversions and snapshots come from different jobs with different notions of the reset time |
| Reservations and ledger, `S` 1014-1570, `internal/store/store.go` | reservations, turns, ledger, balances | reserve, settle, release, expire, accrue a turn, credit | four actors finish the same reservation; two sources of funding |
| Request handlers and reclaimer, `internal/app/{public,inference,native_websocket,app}.go` | a goroutine per request, a session's running total, the reclaimer's list | choose a candidate, serve, persist a turn, finish, reclaim | candidates and lists are stale when used; acknowledgements and processes get lost |
| Gateway admission, `internal/gateway/admission.go` | slots, waiters, body semaphore, breaker | acquire, release, record an outcome | nine ways out of `acquire`; one flag shared by all probes |
| Serving, `internal/app/{public,inference,limits,rate,request_logging}.go`, `internal/store/hotpath.go` | leases, price look-ups, sliding minutes, daily counters, finalizer slots | authenticate, look up, limit, admit, serve, price, settle, shut down | three goroutines per request; minute and midnight; shutdown under finalizers |
| WebSocket sessions, `internal/app/native_websocket.go` | two pumps, pending frames, seen turns | upgrade, prepare, store a turn, forward, close | frames sent ahead, events repeated, a peer that never closes |
| Prices, `internal/pricing`, `internal/billing`, `internal/store/{store,model_settings}.go` | price, catalogue, alias and rule tables, compiled snapshot, capability index | change, synchronise, compile, resolve, cost | four reads per snapshot, map order of a feed, rounding and saturation |
| Accounts, `internal/store/{store,github}.go`, `internal/app/{api,app,github_auth}.go` | tenants, keys, invitations, cookies, GitHub links | register, sign in, reset, invite, bind | a request authenticates in one statement and acts in another |
| Device authorisation, `internal/store/rai_*.go`, `internal/app/rai_*.go` | authorisations, OAuth sessions, keys of devices | ask, approve, deny, exchange, refresh, revoke, sweep | an approval reads the account without a lock; tokens rotate |
| Quota synchronisation, `internal/app/quota_*.go`, `internal/gateway/quota_*.go` | back-off table, cached observation, row and samples | probe, refresh, fall back, store | two callers, several endpoints, several transactions per probe |
| Upstream credentials, `internal/app/{native_providers,provider_oauth,native_runtime_start,embedded_cpa}.go` | sealed rows, the runtime's copy, OAuth sessions, derived parents | add, change, delete, authorise, discover, reload, refresh | whole rows are read and written back by five handlers and a hook, without a lock |
| Settings, proxies, start, importer, `internal/app/{native_settings,proxies,embedded_cpa}.go`, `internal/cpaimport` | stored settings, memory, admission, runtime; proxies; older databases | change, undo, delete, assign, import, migrate | four copies of the settings; a start that is cut off |
| Retention and reports, `internal/store/{retention,store,heatmap}.go` | logs, details, events, rollups, other old rows | select and delete a batch, compact, report | jobs of several servers; reports that read while rows move |
| `rai` login, `internal/rai/{app,oauth,credential,client}.go` | keyring, file, lock file | login, logout, helper | processes that are killed, answers that are lost, a token that may be spent once |
| `rai` configuration, `internal/rai/{client_config_*,codex_*,agent_config_*}.go` | client files and a journal beside each | configure, unconfigure, temporary session | several files without a transaction, edited by the user meanwhile |
| Everything else | see `PROJECT.json` | | presentation, parsing, observability, third-party code |

How they interact: a handler acquires a lease of the gateway admission controller,
looks its price up in the compiled snapshot, checks the limits and calls
`AdmitRequest`, which reads the candidate children without a lock and tries them one
transaction at a time. The response is priced by a finalizer that settles in one
transaction with the request log; a session charges each terminal response in a
transaction of its own, before it forwards it, and settles its in-memory total at
the end. Beside the handlers run administrators, the credential and quota
synchronisation, and the maintenance loop with reclaimer, price refresh and
retention. They share the database rows, the price snapshot, the settings in memory
and the embedded runtime. `rai` talks to the device authorisation, whose keys and
tokens requests are authenticated with.

What makes each part correct is what its properties in section 3 say. The hazards,
each at its line, are listed in `PROJECT.json`.

## 2. Modules

```
Subscriptions -- Reservations -- RequestLifecycle     GatewayAdmission
                  |    |    |          |       |         |        |
                Sums   |  MCReserva-   |  MCLifecycle   Sums  GatewayProofs -- Retention
                       |    tions      |                          |
                 ReservationsProofs                           SumsProofs
                   |
               SumsProofs

Billing -- Pricing -- Serving -- WebSocketSession -- MCServing
                         |              |
                       Sums       ServingProofs -- SumsProofs

DeviceGrant <~ DeviceAuthorization -- RaiClient -- MCRaiClient
                 |      |                 |
          Accounts  MCDevice         DeviceProofs

Credentials -- MCCredentials     ClientConfig -- MCClientConfig
    |                                 |
CredentialsProofs                ClientConfigProofs

QuotaSync -- OperationsProofs -- RuntimeSettings --+-- MCOperations
                GatewayProofs -- Retention ---------+
```

A line is EXTENDS, upwards or to the left; `<~` is refinement.

**Subscriptions** models the transactions on parents, children and their windows.
Each action is one database transaction of the function of the same name. A
missing row is `present = FALSE`, `state # "present"` or `resetsAt = 0`. The
calibration arithmetic is abstracted to its result: a sample is accepted or not,
and an accepted one yields an estimate from `Estimates`.

**Reservations** adds admission (`Reserve` is a successful `reserveCandidate`),
`finishReservationTx` with its callers, `AccrueWebSocketTurn`, `Credit`, and every
deletion with the foreign keys of `internal/db/migrations.go`. Two operations span
several transactions or statements and are several actions:
`DeleteChildSubscription` and `MarkMissingParentSubscriptions`. It is the abstract
specification of the store: any caller may call any operation at any time, with
any amount.

**RequestLifecycle** says who calls what. `handler[r]` is a request's goroutine,
`reclaim` the list the reclaimer read. `HandlerLost` is a crash, or a final
transaction that failed and was only logged; `PersistTurnAckLost` is a commit whose
acknowledgement was lost. That it *implements* the store is `ImplementsStore`.

**GatewayAdmission** models the controller at the grain of one channel operation,
semaphore call or critical section: the slots channel with its parked senders, the
waiters channel, the weighted semaphore with its first-in-first-out queue, the
breaker, and the lease. `internal/cpa/admission.go` is a near copy of the same code.

**Billing** holds the pure part as operators: `Resolve` with aliases, fallbacks,
rules, tiers and long prompts, `readUsage` and `ParseResponse` over a response's
events, `CostNanoUSD` with its rounding and saturation (at `MaxInt64`, a small
number in the run), `Assess`, and the choice of one entry per model from a feed.

**Pricing** is the state around it: handlers and the refresh of the maintenance loop
write a table and rebuild the snapshot from four reads under `pricingMu`, or the
capability index from three reads under no lock. Reads fail, the process restarts.

**Serving** takes a request from its key to its log: lease, two price look-ups (one
detached), limits, admission, the response, the finalizer in a slot or inline, the
settlement; and the process through draining and closing or a crash. The controller
and the reservation grant or refuse here; they have their own modules.

**WebSocketSession** is what `Serving` hands a socket to. A pump's transform is one
step and its write another; frames are numbered, the runtime answers them in order
and may repeat itself.

**Accounts** and **DeviceAuthorization** split a request into the step that
authenticates and the step that acts. `cut` and `joined` are history: the grants that
were cut and how accounts came to be. **DeviceGrant** is the abstract life of a grant
(asked, ready, held, over), which `DeviceAuthorization` implements under the mapping
`GrantState`.

**RaiClient** runs helpers, logins and logouts as processes against
`DeviceAuthorization`. A process may be killed between any two steps, an answer may be
lost, the keyring may fail and send a value to the file.

**QuotaSync** is one credential: the table that lets one probe run, the cached
observation, the endpoints of each provider with their fallbacks and the refresh after
a 401, and the transactions that store the outcome.

**Credentials** has a row, the runtime's copy, a parent and a refresher per
credential, and one program counter per administration request: every statement of a
handler is a step, with its rollback.

**RuntimeSettings** does the same for settings and proxies, and starts the process
from any database an older version or another program may have left.

**Retention** has the rows of all tables retention touches, jobs that select and
commit, and reports that read logs and rollups in one statement or in two.

**ClientConfig** has two files with a journal each, commands in several processes,
the user's edits and `own`, the history of what each file would hold without `rai`.

### Several instances in one run

A run that needs different instances for different questions chooses among them in
the initial state. In `MCReservations` and `MCLifecycle` a `scope` says which inputs
a behaviour uses; `ScopedNext` is `Next` with its inputs taken from there, so every
behaviour is one of the specification that is proved about. `MCServing` chooses a
scenario (which operations the workers run, what is asked for, whether the process
stops or crashes), `MCDevice` a deployment, `MCOperations` a history of the database
or a plan for retention. Tenants, requests and administrators are permuted where the
choice is closed under the permutation.

### Abstractions

- One transaction is one step, unless its isolation shows (approval, retention). A
  transaction that fails or is rolled back is no step, deadlock aborts included.
- `MarkMissingParentSubscriptions` handles one parent per step sequence, and its
  condition `last_synced_at < syncStartedAt` is the flag `synced`.
- Instants are ticks longer than `quotaResetJitterTolerance`; clocks stop at a bound.
- In the gateway, the accounts and the device flow the clock is abstracted: what has
  a deadline may meet it at any time.
- In `Reservations` costs and holds are inputs; `Serving` computes them with `Billing`.
- The ledger properties speak of requests whose rows are kept; what retention deletes
  is in `Retention`.
- The candidates of a request are a set from which the first is taken, as the ordering
  says; a lifecycle event is a leftover of an older version, since nothing inserts or
  processes them any more (`internal/store/store.go:931`).
- Names, texts, tokens, passwords, ciphertexts and wire formats are model values.
- A history variable (`cut`, `disturbed`, `torn`, `spans`, `unsettled`...) records that
  the code's own exclusions were left; a property that holds only without them says so
  in its comment, and the behaviour that needs the exception is described in section 4.

## 3. Runs

| Run | Instance | Properties |
|---|---|---|
| `windows` | 3 HTTP requests on one child with 2 window kinds and 2 generations; or 1 request with samples, 2 conversions, idle probes, 2 instants, 3 generations | `WindowsExact`, `ShareRespected`, `GenerationsAdvance` |
| `accounts` | 2 tenants, 2 children, a session and an HTTP request, credits, both capacity modes; or a session whose child moves between 2 parents that may vanish | `OwnChild`, `ChildHasParent`, `LedgerExact`, `BalanceExact`, `FinishedForever` |
| `lifecycle` | an HTTP request and a session with 2 turns on the balance; a request or a session on a share whose credential may vanish; a choice between 2 grants for one of 2 models | `ChargesMatchDetails`, `ImplementsStore`, `SubscriptionBeforeBalance`, `HoldsEnd` |
| `gateway` | 3 callers, 2 slots, 1 place in the queue, 2 bytes, breaker at 1 failure | `ResourcesExact`, `ProbeOwned`, `AcquireAnswers` |
| `device` | 3 accounts, 2 browsers, 1 key, 1 invitation, 1 grant, 1 GitHub identity, 1 reset; a new installation or one in use | `AccountsConsistent`, `CutStaysCut`, `BindsWithCurrentPassword`, `GrantsKeepTheirPromise` |
| `rai_client` | 2 helpers, 1 login, 1 logout, 1 grant, 2 rotations, all faults | `NoGrantWasted`, `CommandsEnd` |
| `quota_sync` | 2 probers, 5 providers, waits of 2, cache and delay of 2, 4 instants, restart | `ProbesKeepOrder`, `RetryAfterKept`, `ObservationsAdvance`, `ProbesEnd` |
| `credentials` | 2 credentials, 2 requests of any kind, 3 tokens, 2 catalogues, 1 fault; `EventBound` says how many of them meet | `StoredTokenUsable`, `RuntimeAndRowsAgree`, `ParentsFollowCredentials` |
| `client_config` | Codex or a client with 2 files, 2 processes, 3 commands, 1 edit, 1 fault | `NoForeignCredential`, `NothingLeftBehind` |
| `serving` | all pairs of 8 price and of 9 catalogue operations; HTTP requests beside a price change, beside shutdown, across a minute and a midnight; a Responses and a Realtime socket | `PricesAddUp`, `LimitsKept`, `ChargedForUsage`, `TurnsInOrder`, `CloseWaitsForCharges`, `SessionsEnd` |
| `operations` | 3 proxies, 2 addresses, 2 accounts, 3 of 9 kinds of requests, 2 at a time, and 1 fault; 126 databases of older versions or with files to import and 2 faults; 7 rows, 2 jobs, batches of 1, 4 days | `SettingsConsistent`, `ProxiesKept`, `UsageKept`, `ReportsCoverUsage` |
| `stale_reclaim` | 1 session, 2 turns | *violated*, see section 4 |

What the properties say:

- *Windows*: the counters of a child window are exactly the holds and charges of the
  requests admitted in its generation; requests that race stay within the share; a
  window never goes back to an older generation. `ShareRespected` is stated for HTTP
  requests that cost what they reserve under one limit and one share: a session's
  turns, a costlier response and a lowered estimate may exceed a share.
- *Money*: the ledger explains the balance; a request's ledger rows add up to its
  hold plus its charges while it runs and to its charge when it is over; a finished
  request never moves money again; charges and billing details agree; what a priced
  response reported is charged once, at a price that was in force since it came; what a
  session settles is the sum of its logged turns.
- *Ownership*: a request charges an existing child of its own tenant, a child has a
  parent, a model some child claims is not billed to the plain balance.
- *Access*: one administrator, invitations spent once or revoked, no keys without an
  account; a grant that was revoked, whose key was deleted or that met a password reset
  never gives access again; a GitHub identity is bound under the password of the moment.
- *Agreement of copies*: rows, runtime and parents (`credentials`); stored settings,
  memory, admission and runtime (`operations`); price tables, snapshot and capability
  index (`serving`); the user's files and what `rai` recorded (`client_config`).
- *Usage*: compaction loses and invents nothing, a run leaves nothing old, a report
  never shows less than was used, the heatmap shows exactly that.
- *Progress*: a hold ends though handlers and reclaimers die; `acquire` returns though
  leases never end; a probe ends and frees its entry; every `rai` command ends; a
  session ends when one side is gone; the database closes after the finalizers.

Why the bounds are enough: late settlement and moves need two generations (three so
that a conversion can be ahead of a sample and be cleared); a race needs two requests
(three, so that a settled, a running and a new one meet); the stale list needs one
turn more than the row had; overlap of handlers needs two administrators, of which
each may meet the other between any two statements, and one fault anywhere in them;
rotation needs two refreshes, so that a token can be spent behind a helper that read
it; a captured document needs a third token to be spent by the runtime; compaction needs batches smaller than the table and two jobs. Deadlock is checked in
the gateway only: the other instances really stop, because requests, commands, clocks
or faults are used up.

### Fairness

- `JobFairness` and `ClockFairness`: the maintenance loop keeps ticking and the clock
  runs (strong fairness, because the model stops everything during the removal of a
  credential while row locks in fact stop neither), a transaction that holds locks
  ends, and a reservation that is listed again and again is reached. Nothing is assumed
  of clients, upstreams or handlers.
- `FairAdmissionControl`: a runnable goroutine runs and timers fire. Leases may be held
  for ever.
- `QuotaSync`: a prober that was let through goes on (every call it makes has a
  timeout). Nothing makes one start.
- `RaiClient`: a command that can go on does, an approval in progress ends, an
  authorisation expires. Users need not decide anything.
- `SessionFairness`: the timer of the close handshake fires and the handler's last
  step comes. Neither peer nor runtime need do anything.

## 4. Disagreements found

- `stale_reclaim` (code): `ReclaimExpiredReservations` settles with the charge it
  read in its list (`S:1449`); a turn accrued in between is refunded although its log
  stays, while `S:1307` says the turn is charged durably.

Met while modelling, without a run of their own:

- A session is admitted once, and `AccrueWebSocketTurn` (`S:1310`) compares nothing with
  a limit, so the next turn is not "subject to quota enforcement" as
  `docs/architecture.md:15-16` says. A balance below zero then also refuses requests
  that quota funds (`S:1193`).
- The outcome of a caller admitted before the circuit opened clears the flag of the
  probe in flight (`internal/gateway/admission.go:195`), and after the next cool-down a
  second probe starts beside it; `internal/gateway/admission_test.go:66` is named
  TestCircuitBreakerAllowsSingleRecoveryProbe.
- `docs/subscriptions.md:15` says that enabled allocations may not exceed the oversell
  limit; `S:126-127` says of the same number "It is not an enforcement limit", and
  nothing adds shares up.
- Clearing a conversion re-creates a parent window from the latest sample
  (`S:355-380`) without the comparison behind "quota window resets_at cannot move
  backwards" (`S:327`); admission is then "unavailable" until the parent catches up.
- `rai logout` takes no lock: it reads the refresh token, and when a helper rotates it
  before the revocation, `RevokeRAIOAuth` finds no session, answers success, and the
  local copy is deleted while the session lives on. `docs/rai-architecture.md:51` says
  the server's session is revoked first.
- The hook that stores a rotated token reads the row and writes it back whole
  (`internal/app/native_runtime_start.go:133`): an administrator's change in between is
  lost, or the administrator's older document overwrites the rotated token, which
  `docs/credential-refresh.md:16-17` says is persisted. `StoredTokenUsable` excludes
  such overlaps (`disturbed`).
- `adminProviderOAuthFinalize` (`internal/app/provider_oauth.go`) removes the session
  only when everything has succeeded. When its last step fails, the runtime may
  meanwhile have refreshed, and so spent, the token of the captured document; a second
  finalize stores that document all the same. `StoredTokenUsable` excludes a document
  that was finalized twice (`repeated`); the proof showed that it has to.
- Two overlapping changes of the settings may leave one stored and the other in force
  until the next start; a failed undoing is not repaired before it; a selection of a
  proxy that overlaps its deletion leaves a reference to nothing
  (`internal/app/native_settings.go:398`, `proxies.go:68`).
- A first start that is cut off after it has rewritten an account that went out
  directly, and before it has stored the settings, gives that account the global proxy
  at the next start, against `README.md:90-91`; an imported account that was deleted
  comes back while its file is there.
- Two operations on the capability index that overlap may publish the older one
  (`internal/app/app.go:160`); the next one repairs it.
- A request logged on another day than it started restarts the daily counter of that
  day (`internal/store/hotpath.go:77-88`): `LimitsKept` excludes it.
- `UsageReport` and `Dashboard` may count a request twice while it is being compacted;
  `internal/store/heatmap.go:62-63` names the danger and avoids it.
- A `rai configure` over an earlier one that is killed between the journal and the
  file, or while it puts both back, can leave a record that no longer fits the file;
  `NothingLeftBehind` excludes these cuts (`torn`).

## 5. Proofs

TLAPS proves the following for every value of the constants that satisfies the named
assumptions of the modules. TLC evaluates every one of these assumptions in a run.

| Theorem | Statement |
|---|---|
| `TypeCorrect` | `Spec => []TypeOK` |
| `LedgerCorrect` | `Spec => []LedgerExact` |
| `BalanceCorrect` | `Spec => []BalanceExact` |
| `WindowsCorrect` | `Spec => []WindowsExact` |
| `OwnershipCorrect` | `Spec => []OwnChild` |
| `ParentsCorrect` | `Spec => []ChildHasParent` |
| `FinishedCorrect` | `Spec => FinishedForever` |
| `GenerationsCorrect` | `Spec => GenerationsAdvance` |
| `StoreImplemented` | `LifecycleSpec => ImplementsStore` |
| `ChargesCorrect` | `LifecycleSpec => []ChargesMatchDetails` |
| `SubscriptionsFirst` | `LifecycleSpec => SubscriptionBeforeBalance` |
| `ProbeCorrect` | `AdmissionSpec => []ProbeOwned` |
| `ResourcesCorrect` | `AdmissionSpec => []ResourcesExact` |
| `AccountsCorrect` | `DeviceAuthorization => []AccountsConsistent` |
| `CutCorrect` | `DeviceAuthorization => []CutStaysCut` |
| `BindingCorrect` | `DeviceAuthorization => BindsWithCurrentPassword` |
| `PromiseKept` | `DeviceAuthorization => GrantsKeepTheirPromise` |
| `CommandsAreDevices` | `RaiClient => DeviceAuthorization` |
| `GrantsNotWasted` | `RaiClient => []NoGrantWasted` |
| `ShutdownWaits` | `WebSocketSpec => CloseWaitsForCharges` |
| `TurnsStoredInOrder` | `WebSocketSpec => []TurnsInOrder` |
| `LimitsAlwaysKept` | `WebSocketSpec => []LimitsKept` |
| `UsageIsCharged` | `WebSocketSpec => []ChargedForUsage` |
| `ProbesCorrect` | `QuotaSync => []ProbesKeepOrder` |
| `WaitsCorrect` | `QuotaSync => RetryAfterKept` |
| `ClocksCorrect` | `QuotaSync => ObservationsAdvance` |
| `TokensUsable` | `Credentials => []StoredTokenUsable` |
| `RowsServed` | `Credentials => []RuntimeAndRowsAgree` |
| `ParentsFollow` | `Credentials => []ParentsFollowCredentials` |
| `UsageCorrect` | `Retention => []UsageKept` |
| `ReportsCorrect` | `Retention => []ReportsCoverUsage` |
| `SettingsCorrect` | `RuntimeSettings => []SettingsConsistent` |
| `ProxiesCorrect` | `RuntimeSettings => []ProxiesKept` |
| `CredentialsApart` | `ClientConfig => []NoForeignCredential` |
| `FilesReturned` | `ClientConfig => []NothingLeftBehind` |

**Sums.** The totals of requests, callers and rows are stated without recursion:
`Total(f, S)` is the number of elements of a disjoint union with `f[x]` elements for each
`x` (less the same for negative values), so that what a total does when one term changes
follows from the library's facts on cardinality (`SumsProofs`). `MCReservations` lets TLC
compare it with the community modules' sum.

**Store** (`ReservationsProofs`; `BoundsAssumption`, `InputAssumption`, `AmountAssumption`, `RowAssumption`: bounds and amounts are numbers,
a granted share is positive, inputs are well formed, requests are finitely many). The
inductive invariant is `StoreInv == TypeOK /\ ChildHasParent /\ OwnChild /\ LedgerExact
/\ BlankRows`. `ChildHasParent` is needed by the types already: admission and sampling
index the parents' tables with `child[c].parent`. `BlankRows` says that a reservation
never admitted or purged is empty and has no ledger rows; without it the first hold of a
request could start from a ledger that is not zero. `LedgerExact` is preserved step by
step: the lemma `Transactions` reduces every step of `Next` to one of a few kinds, and a
refund is the difference of the two sides of the equation. `AccountingInv` adds
`BalanceExact`, `WindowsExact` and `HeldGenerations`: a request's windows are of a
generation that its child has reached. That is what makes the clamp at zero in
`finishReservationTx` harmless: the counters it lowers contain the hold it takes off,
and a hold of an older generation is not taken off at all. `SyncAdvances` and the
comparison in `Over` show that no write lowers a child window's reset time.

**Handlers** (`ReservationsProofs`; `TurnAssumption`: a session's turns are finitely many and
what they cost together is an amount). `LifecycleInv` is `StoreInv` with, for every
handler, what its phase says of its candidates and of its reservation: candidates were
children of its tenant, and such a row is never given to another tenant (`KeptFor`); a
session's running total and its rows agree unless a commit's acknowledgement was lost;
a listed expiry is of a request that was admitted. The refinement then needs for every
step of a handler only that its arguments are ones the store accepts.

**Gateway** (`GatewayProofs`; `AdmissionAssumption`). `ProbeInv` strengthens
`ProbeOwned` with "a caller that is idle or leaving is not the probe": all steps but
`allow` and `cancelProbe` are `Quiet`, which preserves it. `AdmissionInv` counts slots,
places and bytes by callers and says of the two queues that they hold each parked
caller once. It is needed because a release hands a slot or bytes to the caller at the
head of a queue: that caller must be parked and have none yet.

**Accounts and devices** (`DeviceProofs`; `AccountsAssumption`, `DeviceAssumption`).
`AccountsInv` relates a request in progress to the rows: whom it authenticated as, that
a registration holds the lock or the invitation it read, that an administrator's request
comes from an enabled administrator. `DeviceInv` adds for each grant how authorisation,
lock, session, key and the history `cut` fit together (`GrantHere`): an approval in
progress holds its row's lock and is stale if the password has moved on since; a cut
grant has no session of the account's current version and no key that is enabled. The
refinement `PromiseKept` follows the four states of `GrantState` through every step.

**rai commands** (`DeviceProofs`; `ClientAssumption`). `ClientInv` is `DeviceInv` with what
the machine knows: only the owner of the lock file has a refresh in flight, a token that a
login received is known to no other process until it is saved, and a grant whose tokens
nobody was given was never refreshed. Without a kill, a lost answer or a failed write, the
saved token is the last one its session issued, or the owner of the lock holds the newer
one and is about to save it. Every step is taken apart into what the gateway does, which
is a step of `DeviceAuthorization` or none (`CommandsAreDevices`), and what the machine
does.

**Serving and sessions** (`ServingProofs`; `ServingAssumption`, `AnswersAssumption`,
`FramesAssumption`: limits and periods are numbers, a request names a key and a model,
an answer is a sequence of events with counters in range, a session's frames a sequence).
`WebSocketSpec` is the whole of it: requests, finalizers, sessions, price changes, the
clock, shutdown and crashes. The proof goes by layers, each using those before it:

- `Shape` and `Life`: what is asked for never changes; a request's fields fit its step;
  whoever has a slot is a finalizer at work and the wait group knows of it. A slot is
  therefore free when the group is empty, which is what `Close` waits for.
- `Sessions`: steps that wait are the frames asked for and not answered yet, in order;
  the runtime's events answer a prefix of them; an event that no turn was stored for
  answers the step that is current when it gets there, events that were repeated before
  it notwithstanding; nothing that is being forwarded or was delivered is unstored. Of
  `TurnsInOrder` alone none of this follows: the property speaks of stored turns, and
  which step a turn will be accounted to is decided when its frame is sent, by the other
  pump.
- `RatesKept`: what a key's sliding minute holds is the end of all times it was granted,
  and whatever was dropped from the front is older than a minute. So the list may be
  pruned or swept without a key being granted more than its limit in any minute. (A
  crash forgets the lists; what is claimed is for one life of the process.)
- `Counted`: a daily counter holds what was logged on the day it stands for and nothing
  was logged on a later one. That is more than `LimitsKept` says, which speaks of today:
  a counter that has not been touched since yesterday must be known to start again from
  nothing. A request logged on another day than it started (`spans`) breaks it.
- `Priced`: every price a request carries was resolved, for what it asks for, in a
  snapshot that was in force since it came, and the snapshot in force now is one of these
  as long as a look-up is still going to happen. The detached look-up outlives the
  handler, so this has to be said of answered look-ups as well as of those under way.
- `Billed`: a log row says what its request would be charged now, so nothing that the
  charge depends on moves after the row was written.

`Charge` is unfolded as far as the property goes: which price, which usage, rounded once
and saturated. What a resolved price is made of is not, so no fold is unfolded. Two things
in the model changed for these proofs. A response's counters are stated as the
largest an event reported, and a pruned minute by the prefix that is dropped, where there
were folds. And the attempt to prove `Priced` showed that a crash of the model kept the detached look-up of a
request that had been answered already, which then could find a price in the restarted
process; a crash ends it with the others.

**Quota synchronisation** (`OperationsProofs`; `QuotaSyncAssumption`: there is a longest
wait). `SyncInv`: the flag of the entry is set exactly while one prober works (`FlagOK`),
the entry holds everybody off until the time last asked for, or its owner is about to
record it (`HeldOff`), and what a working prober carries is not newer than the clock, not
older than the row, and complete as far as it has stored (`ReportOK`).

**Upstream credentials** (`CredentialsProofs`; `CredentialsAssumption`: credentials and
requests are finitely many, at most one OAuth account is there at first).
`CredentialsInv` says of every request in flight what is still to come of it. The runtime
serves the rows, apart from a document whose hook has not stored it yet, unless some
request is going to replace its copy (`ServedInv`); the parents show the rows unless some
request is going to synchronise (`ParentsInv`). A row without models is there because some
request has added it and not found its models yet; since an update or a reauthorisation
may meanwhile give the row models and take them back, `ActivationInv` counts: requests
that may take models back, plus one if the row has none, are never more than the requests
that added it. For the tokens, `TokensOK` keeps a map from every token to the one
credential it belongs to (`Owns`): that a refresh of one credential spends no token
that another row, list, hook or rollback still holds is what makes `StoredTokenUsable`
inductive. A token a finalize may go back to is usable as long as the document that
replaced it is the stored one (`GoesBack`).

**Retention** (`GatewayProofs`; `RetentionAssumption`, `PlansAssumption`: rows are
finitely many and details belong to logs). `RetentionInv`: a job that has selected holds
the lock and its batch is still there and still due (`JobsOK`), because only the holder of
the lock deletes and what closes or is written is not in it; the usage of a day is the
number of its logs still there plus its rollup (`UsageConserved`, by cardinality of
disjoint unions); a row due when a run began is due until the run deletes it, so a round
that does nothing has nothing left; a report that has read logs first has seen every
request that was in the rollups or still in the table (`ReportsOK`).

**Settings and proxies** (`OperationsProofs`; `RuntimeSettingsAssumption`,
`HistoriesAssumption`: an initial database is one that some version of the program can
have left, and requests have arguments of their types). The two properties speak of
quiet states and of a server that has come up, so `SettingsInv` says what is true on the
way there:

- `Typed` and `Overlaps`: the steps each kind of request can be at, and that two requests
  of kinds that are under way together have left their pair in `taints`. The second is
  what makes "without overlapping updates" mean that an update in flight is the only one.
- `Agree` and `BootAgrees`: the only update in flight knows how far it is. What is stored is its
  new document, and memory and budget are the new or the previous one according to
  the step it is at; that includes the steps of an undoing. During a start the same holds
  of what the start has read and is going to store.
- `ForeignKeys` and `InUse`: accounts select existing proxies; the stored settings, those
  in memory and those an update has checked or may go back to select existing proxies,
  and a deletion under way is of one that none of them selects.
- `Follows`: the runtime has the settings in memory and the present address of the
  system proxy, or there is a request that is going to apply them, and what it carries
  is then still right (`Leads`). A change of an address is one of these, which is why an
  overlap of the two has to be excluded.
- `Reloaded`: the runtime's accounts fit the rows, or are known to be `stale`, or some
  request is before its reload; between the listing of accounts and of proxies it holds
  the lists that were current.
- `Migration`: every account, imported or not, is on its way to its former route: it
  still has its former address, or the proxy with that address, or it is covered by the
  global address that the settings keep until the start has stored them. It holds at
  every step of every start, so a start may be cut off anywhere. The proof needs the
  exception the property makes (`{"migration"} \in taints`): an account that went out directly and was
  rewritten before the settings were stored can no longer be told from one without an
  address of its own.

**Client configuration** (`ClientConfigProofs`; `ClientConfigAssumption`: what `rai`
installs can be told from what a user writes). Both properties speak of the file as it
reads now, but while `rai` manages it the file holds `rai`'s values. `ConfigInv` therefore
speaks of what the records make of a file: `Through(x, r, j)` is the content `x` with the
record `r` of a desktop switch and then the journal's `j` undone, and with no command at
work this is `Good`: what the user alone would have, but for a group the user took apart.
While a command works, `View` says for each of its files how far it has come:

- `Untouched`: the file and record are as the command loaded them, but for edits since
  (`From`: an edit never writes a value of `rai`'s, so a version in the file was there
  when it was loaded);
- `Begun`: the new record is written and the file is not. The file is still good through
  the *old* record. A first record fits as well (`CutFirst`: undoing it over the file as
  loaded changes nothing), one that replaces an earlier record need not: the window that
  `torn` records (`CutAgain` still keeps the credentials apart);
- `Installed`: good through the new record (`InstalledGood`), and putting the loaded file
  back is good through the old one (`PutBackLoaded`, `PutBackInstalled`);
- a restored file is good with its record and without it (`RestoredGood`), so that a
  command may be killed before the record is removed, and the next one restores once more.

`OneHolder` says that at most one command works: it has the lock, or, for Codex, the
others are idle or wait for the restore of a desktop switch. The rest is one lemma per
step and per file, and one per action that puts the files together.

Only model-checked, and why:

- liveness (`HoldsEnd`, `AcquireAnswers`, `ProbesEnd`, `CommandsEnd`, `SessionsEnd`):
  fairness and `ENABLED` are out of the prover's reach;
- `ShareRespected`, which speaks of the inputs a run chooses (`scope`);
- `PricesAddUp`: `PricesConsistent` compares snapshots with what the folds of `Billing`
  make of feeds and rules; `AccruedIsLogged` (what a session settles is the sum of its
  logged turns) needs that a cost is a number, which a price is only if the product of the
  multipliers of its rules is one; both need induction over data;
- what the folds and recursive functions of `Billing` compute, for the same reason.

## 6. Not modelled

- `internal/upstream`: `startNativeRuntime` has no caller in the program any more; the
  embedded runtime has taken its place. Protocol translation there and in the embedded
  runtime is data conversion.
- The embedded runtime and its executors are third-party code; their effect (answers,
  events, refreshes, replaced credentials) is part of the models that use them.
- `internal/store/pricing_backfill.go`, a one-off repair of stored logs.
- Row locks as such: a deadlock that PostgreSQL breaks is a failed transaction.
- Listings, parsing of requests and provider answers, web UI, metrics, tracing,
  configuration, installation scripts.
- The credential file of `rai` shared by several profiles, its local proxy, and the
  syntax of each client's configuration.

## 7. Next

The parts of `PricesConsistent` that relate tables and snapshot without the folds;
`AccruedIsLogged`, with the product of multipliers stated like `Total`; the pricing
backfill.
