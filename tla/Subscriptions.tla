--------------------------- MODULE Subscriptions ---------------------------
(***************************************************************************)
(* Parent subscriptions (one per upstream credential), the child           *)
(* subscriptions granted to tenants, and the quota windows of both:        *)
(* internal/store/subscriptions.go without admission and settlement, which *)
(* module Reservations adds.  Every action is one database transaction; a  *)
(* transaction that returns an error is rolled back and is a stutter here. *)
(*                                                                         *)
(* Rows that can be absent or NULL are numbered from 1 and 0 is NULL.      *)
(* Instants are ticks.  One tick is longer than quotaResetJitterTolerance, *)
(* so two reset times within the tolerance are the same tick: a window's   *)
(* generation IS its resets_at, as in the code.  A window with resetsAt 0  *)
(* has no row.  child_quota_windows.limit_nano_usd is left out: every      *)
(* reader recomputes it from the parent's window and the child's share.    *)
(***************************************************************************)
EXTENDS Integers, FiniteSets

CONSTANTS
    Tenants,      \* tenant ids
    MaxParents,   \* upstream credentials are 1..MaxParents
    MaxChildren,  \* child rows are 1..MaxChildren, in order of creation
    Kinds,        \* quota window kinds ("5h", "7d", ...)
    FiveHour,     \* the kind claudeQuotaWindowIdle looks for
    Models,       \* model names
    Estimates,    \* capacities a calibration sample can yield
    Conversions,  \* limits an administrator sets by hand
    GrantInputs,  \* the child rows an administrator submits
    ParentInputs, \* the parent rows an administrator submits
    SyncReports,  \* what the runtime says of a credential: <<unavailable?, models>>
    ProbeReports, \* outcomes of a quota probe: <<status, snapshot>>
    TenantInputs, \* values of "enabled" an administrator gives a tenant
    MaxTime,      \* the clock stops here
    MaxGen        \* the latest reset time a provider reports

Million == 1000000
Parents == 1..MaxParents
Children == 1..MaxChildren
Times == 0..MaxTime
Gens == 1..MaxGen
CapacityModes == {"unmetered", "observed"}

GrantType == [ppm: Nat, priority: Nat, enabled: BOOLEAN, models: SUBSET Models,
              startsAt: Nat, expiresAt: Nat]
ParentInputType == [mode: CapacityModes, enabled: BOOLEAN, models: SUBSET Models]

ASSUME BoundsAssumption ==
    /\ MaxParents \in Nat
    /\ MaxChildren \in Nat
    /\ MaxTime \in Nat
    /\ MaxGen \in Nat

ASSUME InputAssumption ==
    /\ Estimates \subseteq Nat \ {0}
    /\ Conversions \subseteq Nat \ {0}
    /\ ProbeReports \subseteq {"supported", "unsupported", "error"} \X {"kept", "idle", "active"}
    /\ TenantInputs \subseteq BOOLEAN
    /\ SyncReports \subseteq BOOLEAN \X SUBSET Models
    /\ ParentInputs \subseteq ParentInputType
    /\ GrantInputs \subseteq GrantType
    /\ \A g \in GrantInputs : g.ppm > 0 /\ (g.expiresAt = 0 \/ g.expiresAt > g.startsAt)

VARIABLES
    now,          \* wall clock
    tenant,       \* tenants: does the row exist, is it enabled
    parent,       \* parent_subscriptions
    parentWindow, \* parent_quota_windows
    samples,      \* parent_quota_observations: the latest sample, the estimate per generation
    child,        \* child_subscriptions
    childWindow   \* child_quota_windows

subscriptionVars == <<now, tenant, parent, parentWindow, samples, child, childWindow>>

-----------------------------------------------------------------------------
(* Rows *)

TenantType == [present: BOOLEAN, enabled: BOOLEAN]

\* unsupported: quota_probe_status = "unsupported".  idleAt: when the stored
\* snapshot saw an idle Claude five-hour window, 0 if it does not report one.
ParentType == [present: BOOLEAN, enabled: BOOLEAN, unavailable: BOOLEAN,
               mode: CapacityModes, models: SUBSET Models, upstreamModels: SUBSET Models,
               unsupported: BOOLEAN, idleAt: Nat, synced: BOOLEAN]
ParentWindowType == [resetsAt: Nat, limit: Nat, manual: BOOLEAN]
SamplesType == [latest: Gens \cup {0}, at: Nat, accepted: BOOLEAN, estimate: [Gens -> Nat]]
ChildType == [state: {"unused", "present", "deleted"}, owner: Tenants \cup {0},
              parent: Parents \cup {0}, ppm: Nat, priority: Nat, enabled: BOOLEAN,
              models: SUBSET Models, startsAt: Nat, expiresAt: Nat]
ChildWindowType == [resetsAt: Nat, settled: Nat, reserved: Nat]

NoParent == [present |-> FALSE, enabled |-> FALSE, unavailable |-> FALSE,
             mode |-> "unmetered", models |-> {}, upstreamModels |-> {},
             unsupported |-> FALSE, idleAt |-> 0, synced |-> FALSE]
NoParentWindow == [resetsAt |-> 0, limit |-> 0, manual |-> FALSE]
NoSamples == [latest |-> 0, at |-> 0, accepted |-> FALSE, estimate |-> [g \in Gens |-> 0]]
NoChild(state) == [state |-> state, owner |-> 0, parent |-> 0, ppm |-> 0, priority |-> 0,
                   enabled |-> FALSE, models |-> {}, startsAt |-> 0, expiresAt |-> 0]
EmptyWindow(gen) == [resetsAt |-> gen, settled |-> 0, reserved |-> 0]
NoChildWindow == EmptyWindow(0)

SubscriptionTypeOK ==
    /\ now \in Times
    /\ tenant \in [Tenants -> TenantType]
    /\ parent \in [Parents -> ParentType]
    /\ parentWindow \in [Parents -> [Kinds -> ParentWindowType]]
    /\ samples \in [Parents -> [Kinds -> SamplesType]]
    /\ child \in [Children -> ChildType]
    /\ childWindow \in [Children -> [Kinds -> ChildWindowType]]

SubscriptionInit ==
    /\ now = 0
    /\ tenant = [t \in Tenants |-> [present |-> TRUE, enabled |-> TRUE]]
    /\ parent = [p \in Parents |-> NoParent]
    /\ parentWindow = [p \in Parents |-> [k \in Kinds |-> NoParentWindow]]
    /\ samples = [p \in Parents |-> [k \in Kinds |-> NoSamples]]
    /\ child = [c \in Children |-> NoChild("unused")]
    /\ childWindow = [c \in Children |-> [k \in Kinds |-> NoChildWindow]]

-----------------------------------------------------------------------------
(* Helpers *)

\* The share of a parent's limit that ppm parts per million are worth.  The
\* source's saturation at 2^63-1 is out of reach of the limits modelled.
fraction(value, ppm) == IF value <= 0 \/ ppm <= 0 THEN 0 ELSE (value * ppm) \div Million

\* An empty allowlist admits every model.  Patterns are abstracted to the
\* models they match.
modelAllowed(model, list) == list = {} \/ model \in list

ChildrenOf(p) == {c \in Children : child[c].state = "present" /\ child[c].parent = p}

\* A model list that a balance-settled parent ignores.
EffectiveModels(c) == IF parent[child[c].parent].mode = "unmetered" THEN {} ELSE child[c].models

\* An unmetered parent's children are plain access grants.
canonicalBalanceGrant(grant, startsAt) ==
    [ppm |-> Million, priority |-> 100, enabled |-> grant.enabled, models |-> {},
     startsAt |-> startsAt, expiresAt |-> 0]

GrantFor(p, grant, startsAt) ==
    IF parent[p].mode = "unmetered" THEN canonicalBalanceGrant(grant, startsAt) ELSE grant

ChildRow(t, p, grant) ==
    [state |-> "present", owner |-> t, parent |-> p, ppm |-> grant.ppm,
     priority |-> grant.priority, enabled |-> grant.enabled, models |-> grant.models,
     startsAt |-> grant.startsAt, expiresAt |-> grant.expiresAt]

\* The rows the next n inserts create, in creation order.
NextChildren(n) ==
    LET unused == {c \in Children : child[c].state = "unused"}
    IN {c \in unused : Cardinality({d \in unused : d < c}) < n}

\* Mutant of syncChildQuotaWindowGeneration: any other generation replaces
\* the child's, an older one too.
syncAnyGeneration(p, gen) ==
    [c \in Children |-> [k \in Kinds |->
        IF c \in ChildrenOf(p) /\ gen[k] # 0 /\ childWindow[c][k].resetsAt # gen[k]
        THEN EmptyWindow(gen[k]) ELSE childWindow[c][k]]]

\* syncChildQuotaWindowGeneration for every kind whose parent window was
\* written with generation gen[k] (0: not written).  A missing or older child
\* window starts the generation from zero; the same generation keeps its
\* counters; an older generation is ignored.
syncChildQuotaWindowGeneration(p, gen) ==
    [c \in Children |-> [k \in Kinds |->
        IF c \in ChildrenOf(p) /\ childWindow[c][k].resetsAt < gen[k]
        THEN EmptyWindow(gen[k]) ELSE childWindow[c][k]]]

\* child_quota_windows CHECKs limit_nano_usd > 0: a child whose share of the
\* limit rounds to nothing makes the whole transaction fail, unless its own
\* window is newer and is left alone.
SharesPositive(p, k, limit, gen) ==
    \A c \in ChildrenOf(p) :
        childWindow[c][k].resetsAt <= gen => fraction(limit, child[c].ppm) > 0

\* A Claude five-hour window that ended and that a later probe saw idle.
claudeQuotaWindowIdle(p, k) ==
    /\ k = FiveHour
    /\ parentWindow[p][k].resetsAt <= now
    /\ parent[p].idleAt > parentWindow[p][k].resetsAt
    /\ parent[p].idleAt <= now

-----------------------------------------------------------------------------
(* Parents *)

Tick ==
    /\ now < MaxTime
    /\ now' = now + 1
    /\ UNCHANGED <<tenant, parent, parentWindow, samples, child, childWindow>>

\* What a synchronisation pass refreshes of a parent, what an administrator
\* edits of it, and what a probe stores.
Refreshed(row, unavailable, reported) ==
    [row EXCEPT !.unavailable = unavailable, !.upstreamModels = reported, !.synced = TRUE]
Edited(row, input) ==
    [row EXCEPT !.enabled = input.enabled, !.mode = input.mode, !.models = input.models]
Probed(row, status, snapshot) ==
    [row EXCEPT !.unsupported = (status = "unsupported"),
                !.idleAt = CASE snapshot = "kept" -> @
                             [] snapshot = "idle" -> now
                             [] snapshot = "active" -> 0]

\* The credential synchronisation inserts an unmetered, enabled parent, and
\* on an existing one refreshes only availability and the published models.
SyncNativeParentSubscription(p, unavailable, reported) ==
    LET row == IF parent[p].present THEN parent[p]
               ELSE [NoParent EXCEPT !.present = TRUE, !.enabled = TRUE]
    IN
    /\ parent' = [parent EXCEPT ![p] = Refreshed(row, unavailable, reported)]
    /\ UNCHANGED <<now, tenant, parentWindow, samples, child, childWindow>>

\* An administrator's POST: it also clears upstream_unavailable and
\* last_synced_at, and leaves existing children as they are.
Posted(row) == [row EXCEPT !.present = TRUE, !.unavailable = FALSE, !.synced = FALSE]
UpsertParentSubscription(p, input) ==
    /\ parent' = [parent EXCEPT ![p] = Posted(Edited(@, input))]
    /\ UNCHANGED <<now, tenant, parentWindow, samples, child, childWindow>>

\* Turning a parent unmetered rewrites its children into access grants.
AccessOnly(row) ==
    [row EXCEPT !.ppm = Million, !.priority = 100, !.models = {}, !.startsAt = now, !.expiresAt = 0]
UpdateParentSubscription(p, input) ==
    /\ parent[p].present
    /\ parent' = [parent EXCEPT ![p] = Edited(@, input)]
    /\ child' = [c \in Children |->
          IF input.mode = "unmetered" /\ c \in ChildrenOf(p) THEN AccessOnly(child[c]) ELSE child[c]]
    /\ UNCHANGED <<now, tenant, parentWindow, samples, childWindow>>

\* A probe's outcome.  The snapshot that comes with it, if any, replaces the
\* stored one and shows the five-hour window idle or not; it is stored even
\* when the samples it was taken with could not be recorded ("error").
UpdateParentQuotaProbe(p, status, snapshot) ==
    /\ parent[p].present
    /\ parent' = [parent EXCEPT ![p] = Probed(@, status, snapshot)]
    /\ UNCHANGED <<now, tenant, parentWindow, samples, child, childWindow>>

\* An upstream quota sample: the generation it belongs to, when it was taken,
\* and the estimate the generation has after it (0: the sample was not
\* accepted).  Only a sample of the same generation as its predecessor can be
\* accepted.  A repetition of its predecessor is not stored and stands for it.
\* A manual conversion keeps its limit, an unaccepted sample keeps the
\* window's limit, and a reset time before the current window's is refused.
\* Samples must be newer than their predecessor; two may fall in one tick.
RecordParentQuotaObservation(p, k, resetsAt, observedAt, estimate, unchanged) ==
    LET window == parentWindow[p][k]
        previous == samples[p][k]
        estimated == IF unchanged /\ previous.accepted THEN previous.estimate[resetsAt] ELSE estimate
        limit == IF window.manual \/ estimated = 0 THEN window.limit ELSE estimated
    IN
    /\ parent[p].present
    /\ observedAt <= now
    /\ observedAt >= previous.at
    /\ resetsAt > observedAt
    /\ resetsAt >= window.resetsAt
    /\ unchanged => estimate = 0
    /\ unchanged \/ estimate > 0 => previous.latest = resetsAt
    /\ samples' = IF unchanged THEN samples ELSE [samples EXCEPT ![p][k] =
          [latest |-> resetsAt, at |-> observedAt, accepted |-> estimate > 0,
           estimate |-> [previous.estimate EXCEPT ![resetsAt] = IF estimate > 0 THEN estimate ELSE @]]]
    /\ IF limit > 0
       THEN /\ SharesPositive(p, k, limit, resetsAt)
            /\ parentWindow' = [parentWindow EXCEPT ![p][k] =
                  [resetsAt |-> resetsAt, limit |-> limit, manual |-> window.manual]]
            /\ childWindow' = syncChildQuotaWindowGeneration(p,
                  [j \in Kinds |-> IF j = k THEN resetsAt ELSE 0])
       ELSE UNCHANGED <<parentWindow, childWindow>>
    /\ UNCHANGED <<now, tenant, parent, child>>

\* Administrator conversions for the kinds ks, all or nothing, with the reset
\* times of the stored snapshot (written apart from the samples, so nothing
\* ties the two).  Conversions of other kinds are dropped, and where the
\* latest sample's generation has not ended its estimate takes their place.
SetParentQuotaWindows(p, ks, limits, resets) ==
    LET learned(k) == samples[p][k].latest
        reveal(k) == /\ k \notin ks
                     /\ parentWindow[p][k].manual
                     /\ learned(k) > now
                     /\ samples[p][k].estimate[learned(k)] > 0
    IN
    /\ parent[p].present
    /\ \A k \in ks : /\ resets[k] > now
                     /\ resets[k] >= parentWindow[p][k].resetsAt
                     /\ SharesPositive(p, k, limits[k], resets[k])
    /\ \A k \in Kinds : reveal(k) => SharesPositive(p, k, samples[p][k].estimate[learned(k)], learned(k))
    /\ parentWindow' = [parentWindow EXCEPT ![p] = [k \in Kinds |->
          CASE k \in ks -> [resetsAt |-> resets[k], limit |-> limits[k], manual |-> TRUE]
            [] reveal(k) -> [resetsAt |-> learned(k),
                             limit |-> samples[p][k].estimate[learned(k)], manual |-> FALSE]
            [] k \notin ks /\ @[k].manual /\ ~reveal(k) -> NoParentWindow
            [] OTHER -> @[k]]]
    /\ childWindow' = syncChildQuotaWindowGeneration(p, [k \in Kinds |->
          IF k \in ks THEN resets[k] ELSE IF reveal(k) THEN learned(k) ELSE 0])
    /\ UNCHANGED <<now, tenant, parent, samples, child>>

-----------------------------------------------------------------------------
(* Children *)

UpdateTenant(t, enabled) ==
    /\ tenant[t].present
    /\ tenant' = [tenant EXCEPT ![t].enabled = enabled]
    /\ UNCHANGED <<now, parent, parentWindow, samples, child, childWindow>>

\* An enabled child needs a parent that can serve.
Grantable(p, grant) ==
    /\ parent[p].present
    /\ grant.enabled => parent[p].enabled /\ ~parent[p].unavailable

CreateChildSubscription(t, p, grant) ==
    /\ tenant[t].present
    /\ Grantable(p, grant)
    /\ \E c \in NextChildren(1) :
          child' = [child EXCEPT ![c] = ChildRow(t, p, GrantFor(p, grant, grant.startsAt))]
    /\ UNCHANGED <<now, tenant, parent, parentWindow, samples, childWindow>>

\* The same share for several tenants in one transaction.
CreateSharedSubscriptionGrants(ts, p, grant) ==
    LET rows == NextChildren(Cardinality(ts))
    IN
    /\ ts # {}
    /\ parent[p].mode = "observed"
    /\ \A t \in ts : tenant[t].present /\ tenant[t].enabled
    /\ Grantable(p, grant)
    /\ Cardinality(rows) = Cardinality(ts)
    /\ \E owner \in [rows -> ts] :
          /\ {owner[c] : c \in rows} = ts
          /\ child' = [c \in Children |-> IF c \in rows THEN ChildRow(owner[c], p, grant) ELSE child[c]]
    /\ UNCHANGED <<now, tenant, parent, parentWindow, samples, childWindow>>

\* An update may move the child to another parent; its windows stay.
UpdateChildSubscription(c, p, grant) ==
    /\ child[c].state = "present"
    /\ Grantable(p, grant)
    /\ child' = [child EXCEPT ![c] = ChildRow(@.owner, p, GrantFor(p, grant, @.startsAt))]
    /\ UNCHANGED <<now, tenant, parent, parentWindow, samples, childWindow>>

\* Access for every tenant in ts: the oldest grant of each is re-enabled,
\* a missing one is created.
GrantBalanceSubscriptionAccess(ts, p) ==
    LET grants(t) == {c \in ChildrenOf(p) : child[c].owner = t}
        oldest == {c \in ChildrenOf(p) : child[c].owner \in ts /\ \A d \in grants(child[c].owner) : c <= d}
        fresh == {t \in ts : grants(t) = {}}
        rows == NextChildren(Cardinality(fresh))
        access == canonicalBalanceGrant([enabled |-> TRUE], now)
    IN
    /\ ts # {}
    /\ parent[p].present
    /\ parent[p].mode = "unmetered"
    /\ parent[p].enabled /\ ~parent[p].unavailable
    /\ \A t \in ts : tenant[t].present /\ tenant[t].enabled
    /\ Cardinality(rows) = Cardinality(fresh)
    /\ \E owner \in [rows -> fresh] :
          /\ {owner[c] : c \in rows} = fresh
          /\ child' = [c \in Children |->
                CASE c \in rows -> ChildRow(owner[c], p, access)
                  [] c \in oldest -> ChildRow(child[c].owner, p, access)
                  [] OTHER -> child[c]]
    /\ UNCHANGED <<now, tenant, parent, parentWindow, samples, childWindow>>

-----------------------------------------------------------------------------
\* Everything an administrator, a quota probe or the clock can do.
SubscriptionNext ==
    \/ Tick
    \/ \E p \in Parents :
          \/ \E report \in SyncReports : SyncNativeParentSubscription(p, report[1], report[2])
          \/ \E input \in ParentInputs : UpsertParentSubscription(p, input)
          \/ \E input \in ParentInputs : UpdateParentSubscription(p, input)
          \/ \E report \in ProbeReports : UpdateParentQuotaProbe(p, report[1], report[2])
          \/ \E k \in Kinds, resetsAt \in Gens, observedAt \in Times,
                estimate \in Estimates \cup {0}, unchanged \in BOOLEAN :
                RecordParentQuotaObservation(p, k, resetsAt, observedAt, estimate, unchanged)
          \/ \E ks \in SUBSET Kinds : \E limits \in [ks -> Conversions], resets \in [ks -> Gens] :
                SetParentQuotaWindows(p, ks, limits, resets)
          \/ \E t \in Tenants, grant \in GrantInputs : CreateChildSubscription(t, p, grant)
          \/ \E ts \in SUBSET Tenants, grant \in GrantInputs :
                CreateSharedSubscriptionGrants(ts, p, grant)
          \/ \E c \in Children, grant \in GrantInputs : UpdateChildSubscription(c, p, grant)
          \/ \E ts \in SUBSET Tenants : GrantBalanceSubscriptionAccess(ts, p)
    \/ \E t \in Tenants, enabled \in TenantInputs : UpdateTenant(t, enabled)

-----------------------------------------------------------------------------
\* A grant never outlives its parent: whatever is deleted, moved or granted
\* around the removal of a credential, every child row has a parent row
\* (MarkMissingParentSubscriptions, the locks of Create and Update).
ChildHasParent ==
    \A c \in Children : child[c].state = "present" =>
        child[c].parent \in Parents /\ parent[child[c].parent].present

=============================================================================
