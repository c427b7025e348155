----------------------------- MODULE QuotaSync -----------------------------
(***************************************************************************)
(* Quota synchronisation: internal/app/quota_sync.go and quota_backoff.go, *)
(* and the probes of internal/gateway (native_quota.go, quota_claude.go,   *)
(* quota_codex.go, quota_kimi.go, quota_xai.go, quota_http.go).            *)
(* Administrators' requests and the periodic job probe the providers for   *)
(* the usage of a credential.  A table in memory lets one probe run at a   *)
(* time and spaces failed ones out; the outcome goes to the parent's row,  *)
(* and each window to a sample (RecordParentQuotaObservation, which        *)
(* Subscriptions models in detail).                                        *)
(*                                                                         *)
(* Abstractions: an endpoint's answer is its class and a Retry-After; what *)
(* a response says is the time it was asked for and whether it has windows *)
(* at all; time is counted in steps.  One credential stands for all, since *)
(* nothing is shared between two but the workers: the provider is chosen   *)
(* in the beginning.                                                       *)
(***************************************************************************)
EXTENDS Naturals, FiniteSets, FiniteSetsExt

CONSTANTS
    Probers,        \* requests of administrators and runs of the periodic job
    Kinds,          \* enforceable windows a provider reports
    Providers,      \* providers to try, of "claude", "codex", "kimi", "xai", "other"
    Waits,          \* waits a provider may ask for with Retry-After, 0 for none
    CacheTime,      \* a Claude observation is not repeated for so long
    MaxDelay,       \* cap of the back-off
    MaxTime         \* bound of the clock

ASSUME QuotaSyncAssumption ==
    /\ Providers \subseteq {"claude", "codex", "kimi", "xai", "other"}
    /\ Waits \subseteq Nat /\ 0 \in Waits
    /\ \E longest \in Waits : \A wait \in Waits : longest >= wait
    /\ CacheTime \in Nat /\ MaxDelay \in Nat \ {0} /\ MaxTime \in Nat \ {0}

VARIABLES
    now,
    provider,      \* of the credential
    entry,         \* its entry of quotaProbeBackoff
    row,           \* the quota columns of the parent's row
    sample,        \* time of the last sample of each window
    prober,        \* what each prober does
    asked          \* history: until when a 429 asked not to be probed

syncVars == <<now, provider, entry, row, sample, prober, asked>>

-----------------------------------------------------------------------------
Time == 0..MaxTime
Horizon == 0..(MaxTime + 2 * MaxDelay + Max(Waits))
Statuses == {"unknown", "supported", "unsupported", "error"}

Row == [supported : BOOLEAN, status : Statuses, observed : Time, snapshot : Time, windows : SUBSET Kinds]
Entry == [running : BOOLEAN, delay : 0..MaxDelay, retryAt : Horizon]
NoEntry == [running |-> FALSE, delay |-> 0, retryAt |-> 0]

Answers == {"ok", "empty", "unauthorized", "limited", "down", "none"}
Answer == [code : Answers, wait : Waits]

\* What a probe returns: an error or a report; subscription is Claude's profile.
Report == [error : {"no", "unauthorized", "other", "cancelled"}, wait : Waits, supported : BOOLEAN,
           windows : SUBSET Kinds, profile : BOOLEAN, observed : Time]
NoReport == [error |-> "no", wait |-> 0, supported |-> FALSE, windows |-> {}, profile |-> FALSE, observed |-> 0]

\* A prober: where it is, the row it has read and the report it has.
Prober == [pc : {"idle", "listed", "probing", "again", "error", "report", "stored", "partly"},
           read : Row, report : Report]

NoRow == [supported |-> FALSE, status |-> "unknown", observed |-> 0, snapshot |-> 0, windows |-> {}]
NoProbe == [pc |-> "idle", read |-> NoRow, report |-> NoReport]

SyncInit ==
    /\ now = 1
    /\ provider \in Providers
    /\ entry = NoEntry
    /\ row = NoRow
    /\ sample = [k \in Kinds |-> 0]
    /\ prober = [p \in Probers |-> NoProbe]
    /\ asked = 0

ProberAt(p, pc) == prober[p].pc = pc
Claude == provider = "claude"

-----------------------------------------------------------------------------
(* The probes: what the answers of its endpoints make of a report.         *)

Failed(a) == a.code # "ok"
Fails(a) == [NoReport EXCEPT !.error = IF a.code = "unauthorized" THEN a.code ELSE "other",
                             !.wait = IF a.code \in {"limited", "down"} THEN a.wait ELSE 0]
Reports(windows) == [NoReport EXCEPT !.supported = TRUE, !.windows = windows]

\* Two endpoints failed: the joined error is unauthorized when either is, and
\* carries the first one's Retry-After.
BothFail(a, b) ==
    [Fails(IF a.code = "empty" THEN b ELSE a) EXCEPT !.error = IF "unauthorized" \in {a.code, b.code} THEN "unauthorized" ELSE "other"]

\* The usage decides; the profile is asked afterwards whatever it said.
probeClaudeAccount(usage, profile, windows) ==
    [(IF Failed(usage) THEN Fails(usage) ELSE Reports(windows)) EXCEPT !.profile = ~Failed(profile)]

probeCodexQuota(usage, windows) == IF Failed(usage) THEN Fails(usage) ELSE Reports(windows)

\* The second endpoint is a fallback, but not when the first one is limited.
probeKimiQuota(cn, global, windows) ==
    IF ~Failed(cn) THEN Reports(windows)
    ELSE IF cn.code = "limited" THEN Fails(cn)
    ELSE IF ~Failed(global) THEN Reports(windows)
    ELSE IF global.code = "limited" THEN Fails(global)
    ELSE BothFail(cn, global)

\* Either endpoint will do, but neither may be limited; "none": the account
\* has no billing.
probeXAIQuota(creditsA, billing, windows) ==
    IF creditsA.code = "limited" THEN Fails(creditsA)
    ELSE IF billing.code = "limited" THEN Fails(billing)
    ELSE IF {creditsA.code, billing.code} = {"none"} THEN NoReport
    ELSE IF ~Failed(creditsA) \/ ~Failed(billing) THEN Reports(windows)
    ELSE IF creditsA.code = "none" THEN Fails(billing)
    ELSE IF billing.code = "none" THEN Fails(creditsA)
    ELSE BothFail(creditsA, billing)

\* ProbeQuota of provider v: the endpoints answer a and b.
ProbeQuota(v, a, b, windows) ==
    CASE v = "claude" -> probeClaudeAccount(a, b, windows)
      [] v = "codex" -> probeCodexQuota(a, windows)
      [] v = "kimi" -> probeKimiQuota(a, b, windows)
      [] v = "xai" -> probeXAIQuota(a, b, windows)
      [] OTHER -> NoReport

\* The endpoints that are asked for usage: a, and b where there are two.
UsageAnswers(v, a, b) ==
    CASE v \in {"claude", "codex"} -> {a}
      [] v = "kimi" -> IF a.code \in {"ok", "limited"} THEN {a} ELSE {a, b}
      [] v = "xai" -> IF a.code = "limited" THEN {a} ELSE {a, b}
      [] OTHER -> {}

\* Reports a probe may yield, with the waits that 429s asked for.
Outcomes ==
    LET plausible == {a \in Answer : a.code \in {"limited", "down"} \/ a.wait = 0}
    IN  [v \in Providers |->
            {[report |-> ProbeQuota(v, a, b, windows),
              waits |-> {x.wait : x \in {y \in UsageAnswers(v, a, b) : y.code = "limited"}}] :
                a \in plausible, b \in plausible, windows \in SUBSET Kinds}]

-----------------------------------------------------------------------------
(* The back-off table.                                                     *)

\* Mutant of begin: a running probe is not looked at.
BeginAnyway == now >= entry.retryAt

begin == ~entry.running /\ now >= entry.retryAt

\* The delay doubles; up to a fifth of it is added at random (here, one step).
Minimum == IF Claude THEN CacheTime ELSE 1

\* Mutant of finish: what the provider asked for is not looked at.
FinishOwnDelay(report) ==
    IF report.error \in {"no", "cancelled"} THEN entry' = NoEntry
    ELSE LET delay == Min({Max({Minimum, 2 * entry.delay}), MaxDelay})
         IN  \E jitter \in 0..1 :
                entry' = [running |-> FALSE, delay |-> delay, retryAt |-> now + delay + jitter]

finish(report) ==
    IF report.error \in {"no", "cancelled"} THEN entry' = NoEntry
    ELSE LET delay == Min({Max({Minimum, 2 * entry.delay}), MaxDelay})
         IN  \E jitter \in 0..1 :
                entry' = [running |-> FALSE, delay |-> delay, retryAt |-> Max({now + delay + jitter, now + report.wait})]

-----------------------------------------------------------------------------
(* syncParentQuota, by a request or by a worker of the periodic job.       *)

\* The row is read: for a batch, all rows before the first is probed.
ListParent(p) ==
    /\ ProberAt(p, "idle")
    /\ prober' = [prober EXCEPT ![p] = [NoProbe EXCEPT !.pc = "listed", !.read = [row EXCEPT !.status = "unknown"]]]
    /\ UNCHANGED <<now, provider, entry, row, sample, asked>>

Cached(r) == Claude /\ r.observed # 0 /\ r.supported /\ r.observed + CacheTime > now

Answered(p) == prober' = [prober EXCEPT ![p] = NoProbe]

\* Answered from the row, refused by the table, or let through.
StartProbe(p) ==
    /\ ProberAt(p, "listed")
    /\ IF Cached(prober[p].read) \/ ~begin THEN Answered(p) /\ UNCHANGED entry
       ELSE /\ entry' = [entry EXCEPT !.running = TRUE]
            /\ prober' = [prober EXCEPT ![p].pc = "probing"]
    /\ UNCHANGED <<now, provider, row, sample, asked>>

Finished(p, report) ==
    prober' = [prober EXCEPT ![p] =
        IF report.error = "no" THEN [pc |-> "report", read |-> NoRow, report |-> [report EXCEPT !.observed = now]]
        ELSE [@ EXCEPT !.pc = "error", !.report = report]]

\* probeQuotaWithRefresh: the answers count, a 401 too when the token cannot
\* be refreshed.
probeQuotaWithRefresh(p) ==
    /\ ProberAt(p, "probing") \/ ProberAt(p, "again")
    /\ \E outcome \in Outcomes[provider] :
         /\ Finished(p, outcome.report)
         /\ asked' = Max({asked} \cup {now + wait : wait \in outcome.waits})
    /\ UNCHANGED <<now, provider, entry, row, sample>>

\* A 401: the token is refreshed and the provider is asked again, once.
RefreshAndRetry(p) ==
    /\ ProberAt(p, "probing") /\ \E outcome \in Outcomes[provider] : outcome.report.error = "unauthorized"
    /\ prober' = [prober EXCEPT ![p].pc = "again"]
    /\ UNCHANGED <<now, provider, entry, row, sample, asked>>

\* No credential, no proxy, or the request is given up: the caller went away
\* or the thirty seconds are over.
ProbeFails(p) ==
    /\ ProberAt(p, "probing") \/ ProberAt(p, "again")
    /\ \E error \in {"cancelled", "other"} : Finished(p, [NoReport EXCEPT !.error = error])
    /\ UNCHANGED <<now, provider, entry, row, sample, asked>>

\* Mutant of StoreError: the row is written back as it was read.
StoreReadRow(p) ==
    /\ ProberAt(p, "error")
    /\ row' = [prober[p].read EXCEPT !.status = "error"]
    /\ finish(prober[p].report)
    /\ Answered(p)
    /\ UNCHANGED <<now, provider, sample, asked>>

\* Mutant of StoreError: a failed probe is repeated at once.
RetryAtOnce(p) ==
    /\ ProberAt(p, "error")
    /\ row' = [row EXCEPT !.status = "error"]
    /\ prober' = [prober EXCEPT ![p].pc = "probing"]
    /\ UNCHANGED <<now, provider, entry, sample, asked>>

\* Only the status changes, and the profile: it is merged into the snapshot
\* that was read with the row.
StoreError(p) ==
    /\ ProberAt(p, "error")
    /\ LET read == prober[p].read IN
       row' = [row EXCEPT !.supported = read.supported, !.status = "error",
                          !.snapshot = IF prober[p].report.profile THEN read.snapshot ELSE @,
                          !.windows = IF prober[p].report.profile THEN read.windows ELSE @]
    /\ finish(prober[p].report)
    /\ Answered(p)
    /\ UNCHANGED <<now, provider, sample, asked>>

\* Each window's sample is a transaction of its own; those in lost fail.
StoreSamples(p) ==
    /\ ProberAt(p, "report")
    /\ \E lost \in SUBSET prober[p].report.windows :
         /\ sample' = [k \in Kinds |-> IF k \in prober[p].report.windows \ lost
                                       THEN Max({sample[k], prober[p].report.observed}) ELSE sample[k]]
         /\ prober' = [prober EXCEPT ![p].pc = IF lost = {} THEN "stored" ELSE "partly"]
    /\ UNCHANGED <<now, provider, entry, row, asked>>

\* The row last; the write itself may fail, and changes nothing then.
StoreReport(p) ==
    /\ ProberAt(p, "stored") \/ ProberAt(p, "partly")
    /\ LET r == prober[p].report IN
       \/ row' = [supported |-> r.supported,
                  status |-> IF ~r.supported THEN "unsupported" ELSE IF ProberAt(p, "partly") THEN "error" ELSE "supported",
                  observed |-> r.observed, snapshot |-> r.observed, windows |-> r.windows]
       \/ UNCHANGED row
    /\ finish(prober[p].report)
    /\ Answered(p)
    /\ UNCHANGED <<now, provider, sample, asked>>

-----------------------------------------------------------------------------
(* The world.                                                              *)

Tick ==
    /\ now < MaxTime
    /\ now' = now + 1
    /\ asked' = IF asked > now' THEN asked ELSE 0
    /\ UNCHANGED <<provider, entry, row, sample, prober>>

\* The table is in memory: with the process it goes, and what it knew.
Restart ==
    /\ entry' = NoEntry /\ asked' = 0
    /\ prober' = [p \in Probers |-> NoProbe]
    /\ UNCHANGED <<now, provider, row, sample>>

syncParentQuota(p) ==
    \/ StartProbe(p) \/ probeQuotaWithRefresh(p) \/ RefreshAndRetry(p) \/ ProbeFails(p)
    \/ StoreError(p) \/ StoreSamples(p) \/ StoreReport(p)

SyncNext ==
    \/ \E p \in Probers : ListParent(p) \/ syncParentQuota(p)
    \/ Tick \/ Restart

\* A started probe goes on; nobody has to start one.
QuotaSync == SyncInit /\ [][SyncNext]_syncVars /\ \A p \in Probers : WF_syncVars(syncParentQuota(p))

-----------------------------------------------------------------------------
SyncTypeOK ==
    /\ now \in Time /\ provider \in Providers
    /\ entry \in Entry /\ row \in Row /\ sample \in [Kinds -> Time]
    /\ prober \in [Probers -> Prober]
    /\ asked \in Horizon

Working(p) == prober[p].pc \in {"probing", "again", "error", "report", "stored", "partly"}

\* begin and the deferred finish: the table's flag is set exactly while one
\* prober works on the credential, so no two ask the provider or write the
\* row at the same time and the flag is never left behind.
OneProbeAtATime ==
    /\ Cardinality({p \in Probers : Working(p)}) <= 1
    /\ entry.running <=> \E p \in Probers : Working(p)

\* begin and finish: a provider that answered 429 with Retry-After is not
\* asked again before that time, by a request or by the periodic job,
\* whatever failures, refreshes and fallbacks come in between.
RetryAfterKept == [][\A p \in Probers : ProberAt(p, "listed") /\ prober'[p].pc = "probing" => now >= asked]_syncVars

\* StoreReport: a status "supported" means that every window of the stored
\* snapshot has a sample of that observation, also when one of several
\* transactions failed or another prober wrote before.
SupportedIsComplete ==
    row.status = "supported" => \A k \in row.windows : sample[k] >= row.snapshot

\* UpdateParentQuotaProbe under the table: the usage clock of a row and the
\* samples behind it only advance.
ObservationsAdvance ==
    [][row'.observed >= row.observed /\ \A k \in Kinds : sample'[k] >= sample[k]]_syncVars

\* syncParentQuota: a probe that was let through ends and clears the flag.
ProbesEnd == entry.running ~> ~entry.running

\* begin, finish and StoreReport together: one probe of a credential at a
\* time, a table entry that says so, and a row that never claims samples
\* which were not stored.
ProbesKeepOrder == SyncTypeOK /\ OneProbeAtATime /\ SupportedIsComplete
=============================================================================
