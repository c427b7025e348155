------------------------- MODULE ReservationsProofs -------------------------
(***************************************************************************)
(* What the store guarantees for every number of tenants, parents,         *)
(* children, window kinds and requests, and every order of transactions;   *)
(* and that the handlers and the reclaimer drive it only through its       *)
(* transactions, so that whoever finishes a request, its charge is what    *)
(* its log shows.                                                          *)
(***************************************************************************)
EXTENDS RequestLifecycle, SumsProofs, TLAPS

-----------------------------------------------------------------------------
(* Subscriptions: administration keeps the tables well typed, takes no     *)
(* child window back and does not change who owns a child.                 *)

\* The ranges of instants and amounts.
LEMMA Ranges ==
    /\ Gens \subseteq Nat
    /\ Times \subseteq Nat
    /\ \A g \in Gens \cup {0}, n \in Nat : g > n => g \in Gens
    /\ Gens \cup {0} \subseteq Nat
    /\ Estimates \subseteq Nat
    /\ Conversions \subseteq Nat
<1>1. Estimates \subseteq Nat /\ Conversions \subseteq Nat
  BY InputAssumption, Zenon
<1> QED
  BY <1>1, BoundsAssumption, SMT DEF Gens, Times

\* The empty rows are rows.
LEMMA EmptyRows ==
    /\ NoParent \in ParentType
    /\ NoParentWindow \in ParentWindowType
    /\ NoSamples \in SamplesType
    /\ NoChild("unused") \in ChildType
    /\ NoChild("deleted") \in ChildType
    /\ NoChildWindow \in ChildWindowType
    /\ \A gen \in Nat : EmptyWindow(gen) \in ChildWindowType
  BY DEF NoParent, ParentType, NoParentWindow, ParentWindowType, NoSamples, SamplesType,
         NoChild, ChildType, NoChildWindow, ChildWindowType, EmptyWindow, CapacityModes

\* A row written for tenant t from a grant is a child row.
LEMMA ChildRowType ==
    ASSUME NEW t \in Tenants \cup {0}, NEW p \in Parents, NEW grant \in GrantType
    PROVE  ChildRow(t, p, grant) \in ChildType
  BY DEF ChildRow, ChildType, GrantType

\* Canonicalising a grant yields a grant.
LEMMA GrantForType ==
    ASSUME NEW p, NEW grant \in GrantType, NEW startsAt \in Nat
    PROVE  GrantFor(p, grant, startsAt) \in GrantType
  BY DEF GrantFor, canonicalBalanceGrant, GrantType, Million

\* Bringing children to a parent's generations keeps their windows well typed.
LEMMA SyncType ==
    ASSUME NEW p, NEW gen \in [Kinds -> Nat],
           childWindow \in [Children -> [Kinds -> ChildWindowType]]
    PROVE  syncChildQuotaWindowGeneration(p, gen) \in [Children -> [Kinds -> ChildWindowType]]
  BY EmptyRows DEF syncChildQuotaWindowGeneration

\* The rewritten parent and child rows are rows.
LEMMA RefreshedType ==
    ASSUME NEW row \in ParentType, NEW unavailable \in BOOLEAN, NEW reported \in SUBSET Models
    PROVE  Refreshed(row, unavailable, reported) \in ParentType
  BY Zenon DEF Refreshed, ParentType

\* An administrator's edit leaves a parent row a parent row.
LEMMA EditedType ==
    ASSUME NEW row \in ParentType, NEW input \in ParentInputType
    PROVE  Edited(row, input) \in ParentType
<1>1. input.enabled \in BOOLEAN /\ input.mode \in CapacityModes /\ input.models \in SUBSET Models
  BY DEF ParentInputType
<1> QED
  BY <1>1, Zenon DEF Edited, ParentType

\* So does what a POST adds to it,
LEMMA PostedType ==
    ASSUME NEW row \in ParentType
    PROVE  Posted(row) \in ParentType
  BY Zenon DEF Posted, ParentType

\* and so does storing a probe's outcome.
LEMMA ProbedType ==
    ASSUME NEW row \in ParentType, NEW status, NEW snapshot \in {"kept", "idle", "active"}, now \in Nat
    PROVE  Probed(row, status, snapshot) \in ParentType
<1> DEFINE idleAt == CASE snapshot = "kept" -> row.idleAt
                       [] snapshot = "idle" -> now
                       [] snapshot = "active" -> 0
<1>1. idleAt \in Nat
  BY DEF ParentType
<1>2. (status = "unsupported") \in BOOLEAN
  OBVIOUS
<1>3. Probed(row, status, snapshot) = [row EXCEPT !.unsupported = (status = "unsupported"), !.idleAt = idleAt]
  BY Zenon DEF Probed
<1> HIDE DEF idleAt
<1> QED
  BY <1>1, <1>2, <1>3, Zenon DEF ParentType

\* Rewriting a child into an access grant leaves it a child row.
LEMMA AccessOnlyType ==
    ASSUME NEW row \in ChildType, now \in Nat
    PROVE  AccessOnly(row) \in ChildType
<1>1. Million \in Nat /\ 100 \in Nat /\ 0 \in Nat
  BY DEF Million
<1> QED
  BY <1>1, Zenon DEF AccessOnly, ChildType

-----------------------------------------------------------------------------
(* Type preservation, operation by operation *)

\* The parent operations keep the subscription tables well typed.
LEMMA ParentStepsType ==
    ASSUME SubscriptionTypeOK, NEW p \in Parents
    PROVE  /\ \A report \in SyncReports :
                 SyncNativeParentSubscription(p, report[1], report[2]) => SubscriptionTypeOK'
           /\ \A input \in ParentInputs : UpsertParentSubscription(p, input) => SubscriptionTypeOK'
           /\ \A input \in ParentInputs : UpdateParentSubscription(p, input) => SubscriptionTypeOK'
           /\ \A report \in ProbeReports :
                 UpdateParentQuotaProbe(p, report[1], report[2]) => SubscriptionTypeOK'
<1>0. now \in Nat /\ parent[p] \in ParentType
  BY BoundsAssumption DEF SubscriptionTypeOK, Times
<1>1. ASSUME NEW report \in SyncReports, SyncNativeParentSubscription(p, report[1], report[2])
      PROVE  SubscriptionTypeOK'
  <2>1. report[1] \in BOOLEAN /\ report[2] \in SUBSET Models
    BY InputAssumption
  <2> DEFINE row == IF parent[p].present THEN parent[p]
                    ELSE [NoParent EXCEPT !.present = TRUE, !.enabled = TRUE]
  <2>2. [NoParent EXCEPT !.present = TRUE, !.enabled = TRUE] \in ParentType
    BY EmptyRows, Zenon DEF ParentType
  <2>3. row \in ParentType
    BY <2>2, <1>0, Zenon
  <2>4. parent' = [parent EXCEPT ![p] = Refreshed(row, report[1], report[2])]
    BY <1>1, Zenon DEF SyncNativeParentSubscription
  <2> HIDE DEF row
  <2>5. Refreshed(row, report[1], report[2]) \in ParentType
    BY <2>1, <2>3, RefreshedType
  <2>6. UNCHANGED <<now, tenant, parentWindow, samples, child, childWindow>>
    BY <1>1, Zenon DEF SyncNativeParentSubscription
  <2> QED
    BY <2>4, <2>5, <2>6 DEF SubscriptionTypeOK
<1>2. ASSUME NEW input \in ParentInputs, UpsertParentSubscription(p, input)
      PROVE  SubscriptionTypeOK'
  <2>1. Posted(Edited(parent[p], input)) \in ParentType
    BY <1>0, EditedType, PostedType, InputAssumption
  <2> QED
    BY <1>2, <2>1 DEF UpsertParentSubscription, SubscriptionTypeOK
<1>3. ASSUME NEW input \in ParentInputs, UpdateParentSubscription(p, input)
      PROVE  SubscriptionTypeOK'
  <2>1. Edited(parent[p], input) \in ParentType
    BY <1>0, EditedType, InputAssumption
  <2>2. \A c \in Children : AccessOnly(child[c]) \in ChildType
    BY <1>0, AccessOnlyType DEF SubscriptionTypeOK
  <2> QED
    BY <1>3, <2>1, <2>2 DEF UpdateParentSubscription, SubscriptionTypeOK
<1>4. ASSUME NEW report \in ProbeReports, UpdateParentQuotaProbe(p, report[1], report[2])
      PROVE  SubscriptionTypeOK'
  <2>1. report[2] \in {"kept", "idle", "active"}
    BY InputAssumption
  <2>2. Probed(parent[p], report[1], report[2]) \in ParentType
    BY <1>0, <2>1, ProbedType
  <2> QED
    BY <1>4, <2>2 DEF UpdateParentQuotaProbe, SubscriptionTypeOK
<1> QED
  BY <1>1, <1>2, <1>3, <1>4

\* A recorded sample keeps the subscription tables well typed.
LEMMA ObservationType ==
    ASSUME SubscriptionTypeOK, NEW p \in Parents, NEW k \in Kinds, NEW resetsAt \in Gens,
           NEW observedAt \in Times, NEW estimate \in Estimates \cup {0}, NEW unchanged \in BOOLEAN,
           RecordParentQuotaObservation(p, k, resetsAt, observedAt, estimate, unchanged)
    PROVE  SubscriptionTypeOK'
<1>1. resetsAt \in Nat /\ observedAt \in Nat /\ estimate \in Nat
  BY Ranges
<1>2. samples' \in [Parents -> [Kinds -> SamplesType]]
  <2>1. CASE unchanged
    BY <2>1 DEF RecordParentQuotaObservation, SubscriptionTypeOK
  <2>2. CASE ~unchanged
    <3> DEFINE old == samples[p][k].estimate
               new == [old EXCEPT ![resetsAt] = IF estimate > 0 THEN estimate ELSE @]
               row == [latest |-> resetsAt, at |-> observedAt, accepted |-> estimate > 0, estimate |-> new]
    <3>1. samples' = [samples EXCEPT ![p][k] = row]
      BY <2>2 DEF RecordParentQuotaObservation
    <3>2. old \in [Gens -> Nat]
      BY DEF SubscriptionTypeOK, SamplesType
    <3>3. new \in [Gens -> Nat]
      BY <1>1, <3>2
    <3> HIDE DEF new
    <3>4. row \in SamplesType
      BY <1>1, <3>3 DEF SamplesType
    <3> HIDE DEF row
    <3> QED
      BY <3>1, <3>4 DEF SubscriptionTypeOK
  <2> QED
    BY <2>1, <2>2
<1>3. /\ parentWindow' \in [Parents -> [Kinds -> ParentWindowType]]
      /\ childWindow' \in [Children -> [Kinds -> ChildWindowType]]
  <2> DEFINE estimated == IF unchanged /\ samples[p][k].accepted
                          THEN samples[p][k].estimate[resetsAt] ELSE estimate
             limit == IF parentWindow[p][k].manual \/ estimated = 0
                      THEN parentWindow[p][k].limit ELSE estimated
             gen == [j \in Kinds |-> IF j = k THEN resetsAt ELSE 0]
  <2>1. limit \in Nat /\ parentWindow[p][k].manual \in BOOLEAN
    BY <1>1 DEF SubscriptionTypeOK, SamplesType, ParentWindowType
  <2>2. gen \in [Kinds -> Nat]
    BY <1>1
  <2>3. CASE limit > 0
    <3>1. parentWindow' = [parentWindow EXCEPT ![p][k] =
             [resetsAt |-> resetsAt, limit |-> limit, manual |-> parentWindow[p][k].manual]]
      BY <2>3 DEF RecordParentQuotaObservation
    <3>2. childWindow' = syncChildQuotaWindowGeneration(p, gen)
      BY <2>3 DEF RecordParentQuotaObservation
    <3> HIDE DEF limit, gen
    <3>3. parentWindow' \in [Parents -> [Kinds -> ParentWindowType]]
      BY <3>1, <1>1, <2>1 DEF SubscriptionTypeOK, ParentWindowType
    <3> QED
      BY <3>2, <3>3, <2>2, SyncType DEF SubscriptionTypeOK
  <2>4. CASE ~(limit > 0)
    <3>1. parentWindow' = parentWindow /\ childWindow' = childWindow
      BY <2>4, Zenon DEF RecordParentQuotaObservation
    <3> QED
      BY <3>1, Zenon DEF SubscriptionTypeOK
  <2> QED
    BY <2>3, <2>4
<1> QED
  BY <1>2, <1>3 DEF RecordParentQuotaObservation, SubscriptionTypeOK

\* Conversions keep the subscription tables well typed.
LEMMA ConversionType ==
    ASSUME SubscriptionTypeOK, NEW p \in Parents, NEW ks \in SUBSET Kinds,
           NEW limits \in [ks -> Conversions], NEW resets \in [ks -> Gens],
           SetParentQuotaWindows(p, ks, limits, resets)
    PROVE  SubscriptionTypeOK'
<1> DEFINE learned(k) == samples[p][k].latest
           reveal(k) == /\ k \notin ks
                        /\ parentWindow[p][k].manual
                        /\ learned(k) > now
                        /\ samples[p][k].estimate[learned(k)] > 0
           gen == [k \in Kinds |->
                     IF k \in ks THEN resets[k] ELSE IF reveal(k) THEN learned(k) ELSE 0]
<1>1. \A k \in ks : limits[k] \in Nat /\ resets[k] \in Nat
  BY Ranges
<1>2. ASSUME NEW k \in Kinds
      PROVE  /\ learned(k) \in Nat
             /\ reveal(k) => samples[p][k].estimate[learned(k)] \in Nat
  <2>1. samples[p][k] \in SamplesType /\ now \in Nat
    BY Ranges DEF SubscriptionTypeOK
  <2>2. /\ samples[p][k].latest \in Gens \cup {0}
        /\ samples[p][k].estimate \in [Gens -> Nat]
    BY <2>1 DEF SamplesType
  <2>3. learned(k) \in Nat /\ (learned(k) > now => learned(k) \in Gens)
    BY <2>1, <2>2, Ranges
  <2> QED
    BY <2>2, <2>3
<1>3. \A k \in Kinds : learned(k) \in Nat /\ (reveal(k) => samples[p][k].estimate[learned(k)] \in Nat)
  BY <1>2
<1> HIDE DEF learned
<1>4. gen \in [Kinds -> Nat]
  BY <1>1, <1>3
<1> USE DEF learned
<1>5. childWindow' = syncChildQuotaWindowGeneration(p, gen)
  BY DEF SetParentQuotaWindows
<1>6. childWindow' \in [Children -> [Kinds -> ChildWindowType]]
  BY <1>4, <1>5, SyncType DEF SubscriptionTypeOK
<1>7. \A k \in Kinds : parentWindow'[p][k] \in ParentWindowType
  BY <1>1, <1>3, EmptyRows, SMTT(40) DEF SetParentQuotaWindows, SubscriptionTypeOK, ParentWindowType
<1>8. parentWindow' \in [Parents -> [Kinds -> ParentWindowType]]
  BY <1>7, SMTT(30) DEF SetParentQuotaWindows, SubscriptionTypeOK
<1>9. UNCHANGED <<now, tenant, parent, samples, child>>
  BY ZenonT(60) DEF SetParentQuotaWindows
<1> QED
  BY <1>6, <1>8, <1>9, Zenon DEF SubscriptionTypeOK

\* The child operations keep the subscription tables well typed.
LEMMA ChildStepsType ==
    ASSUME SubscriptionTypeOK, NEW p \in Parents
    PROVE  /\ \A t \in Tenants, grant \in GrantInputs :
                 CreateChildSubscription(t, p, grant) => SubscriptionTypeOK'
           /\ \A ts \in SUBSET Tenants, grant \in GrantInputs :
                 CreateSharedSubscriptionGrants(ts, p, grant) => SubscriptionTypeOK'
           /\ \A c \in Children, grant \in GrantInputs :
                 UpdateChildSubscription(c, p, grant) => SubscriptionTypeOK'
           /\ \A ts \in SUBSET Tenants : GrantBalanceSubscriptionAccess(ts, p) => SubscriptionTypeOK'
<1>0. /\ GrantInputs \subseteq GrantType
      /\ \A grant \in GrantType : grant.startsAt \in Nat
      /\ \A c \in Children : child[c] \in ChildType
      /\ \A c \in Children : child[c].startsAt \in Nat /\ child[c].owner \in Tenants \cup {0}
  <2>1. GrantInputs \subseteq GrantType
    BY InputAssumption, Zenon
  <2>2. \A grant \in GrantType : grant.startsAt \in Nat
    BY DEF GrantType
  <2>3. \A c \in Children : child[c] \in ChildType
    BY DEF SubscriptionTypeOK
  <2> QED
    BY <2>1, <2>2, <2>3 DEF ChildType
<1>1. ASSUME NEW t \in Tenants, NEW grant \in GrantInputs, CreateChildSubscription(t, p, grant)
      PROVE  SubscriptionTypeOK'
  <2>1. ChildRow(t, p, GrantFor(p, grant, grant.startsAt)) \in ChildType
    BY <1>0, GrantForType, ChildRowType
  <2>2. NextChildren(1) \subseteq Children
    BY DEF NextChildren
  <2> QED
    BY <1>1, <2>1, <2>2 DEF CreateChildSubscription, SubscriptionTypeOK
<1>2. ASSUME NEW ts \in SUBSET Tenants, NEW grant \in GrantInputs,
             CreateSharedSubscriptionGrants(ts, p, grant)
      PROVE  SubscriptionTypeOK'
  <2>1. \A t \in Tenants : ChildRow(t, p, grant) \in ChildType
    BY <1>0, ChildRowType
  <2>2. PICK owner \in [NextChildren(Cardinality(ts)) -> ts] :
           child' = [c \in Children |-> IF c \in NextChildren(Cardinality(ts))
                                        THEN ChildRow(owner[c], p, grant) ELSE child[c]]
    BY <1>2 DEF CreateSharedSubscriptionGrants
  <2>3. child' \in [Children -> ChildType]
    BY <1>0, <2>1, <2>2
  <2> QED
    BY <1>2, <2>3 DEF CreateSharedSubscriptionGrants, SubscriptionTypeOK
<1>3. ASSUME NEW c \in Children, NEW grant \in GrantInputs, UpdateChildSubscription(c, p, grant)
      PROVE  SubscriptionTypeOK'
  <2>1. ChildRow(child[c].owner, p, GrantFor(p, grant, child[c].startsAt)) \in ChildType
    BY <1>0, GrantForType, ChildRowType
  <2> QED
    BY <1>3, <2>1 DEF UpdateChildSubscription, SubscriptionTypeOK
<1>4. ASSUME NEW ts \in SUBSET Tenants, GrantBalanceSubscriptionAccess(ts, p)
      PROVE  SubscriptionTypeOK'
  <2> DEFINE access == canonicalBalanceGrant([enabled |-> TRUE], now)
             grants(t) == {c \in ChildrenOf(p) : child[c].owner = t}
             oldest == {c \in ChildrenOf(p) : child[c].owner \in ts /\ \A d \in grants(child[c].owner) : c <= d}
             fresh == {t \in ts : grants(t) = {}}
             rows == NextChildren(Cardinality(fresh))
  <2>1. access \in GrantType
    BY Ranges DEF canonicalBalanceGrant, GrantType, Million, SubscriptionTypeOK
  <2>2. PICK owner \in [rows -> fresh] :
           child' = [c \in Children |->
              CASE c \in rows -> ChildRow(owner[c], p, access)
                [] c \in oldest -> ChildRow(child[c].owner, p, access)
                [] OTHER -> child[c]]
    BY <1>4 DEF GrantBalanceSubscriptionAccess
  <2> HIDE DEF access, rows, oldest
  <2>3. \A t \in Tenants \cup {0} : ChildRow(t, p, access) \in ChildType
    BY <2>1, ChildRowType
  <2>4. \A c \in rows : owner[c] \in Tenants
    OBVIOUS
  <2>5. child' \in [Children -> ChildType]
    BY <1>0, <2>2, <2>3, <2>4
  <2> QED
    BY <1>4, <2>5 DEF GrantBalanceSubscriptionAccess, SubscriptionTypeOK
<1> QED
  BY <1>1, <1>2, <1>3, <1>4

\* Administration, probes and the clock keep the subscription tables well
\* typed.
LEMMA AdministrationType ==
    ASSUME SubscriptionTypeOK, SubscriptionNext
    PROVE  SubscriptionTypeOK'
<1>1. CASE Tick
  BY <1>1, BoundsAssumption DEF Tick, SubscriptionTypeOK, Times
<1>2. ASSUME NEW p \in Parents,
             \/ \E report \in SyncReports : SyncNativeParentSubscription(p, report[1], report[2])
             \/ \E input \in ParentInputs : UpsertParentSubscription(p, input)
             \/ \E input \in ParentInputs : UpdateParentSubscription(p, input)
             \/ \E report \in ProbeReports : UpdateParentQuotaProbe(p, report[1], report[2])
      PROVE  SubscriptionTypeOK'
  BY <1>2, ParentStepsType
<1>3. ASSUME NEW p \in Parents, NEW k \in Kinds, NEW resetsAt \in Gens, NEW observedAt \in Times,
             NEW estimate \in Estimates \cup {0}, NEW unchanged \in BOOLEAN,
             RecordParentQuotaObservation(p, k, resetsAt, observedAt, estimate, unchanged)
      PROVE  SubscriptionTypeOK'
  BY <1>3, ObservationType
<1>4. ASSUME NEW p \in Parents, NEW ks \in SUBSET Kinds, NEW limits \in [ks -> Conversions],
             NEW resets \in [ks -> Gens], SetParentQuotaWindows(p, ks, limits, resets)
      PROVE  SubscriptionTypeOK'
  BY <1>4, ConversionType
<1>5. ASSUME NEW p \in Parents,
             \/ \E t \in Tenants, grant \in GrantInputs : CreateChildSubscription(t, p, grant)
             \/ \E ts \in SUBSET Tenants, grant \in GrantInputs :
                   CreateSharedSubscriptionGrants(ts, p, grant)
             \/ \E c \in Children, grant \in GrantInputs : UpdateChildSubscription(c, p, grant)
             \/ \E ts \in SUBSET Tenants : GrantBalanceSubscriptionAccess(ts, p)
      PROVE  SubscriptionTypeOK'
  BY <1>5, ChildStepsType
<1>6. ASSUME NEW t \in Tenants, NEW enabled \in TenantInputs, UpdateTenant(t, enabled)
      PROVE  SubscriptionTypeOK'
  <2>1. enabled \in BOOLEAN
    BY InputAssumption, Zenon
  <2> QED
    BY <1>6, <2>1 DEF UpdateTenant, SubscriptionTypeOK, TenantType
<1> QED
  BY <1>1, <1>2, <1>3, <1>4, <1>5, <1>6, Zenon DEF SubscriptionNext

-----------------------------------------------------------------------------
(* What administration never does *)

\* The window of c and k stays as it is, or starts a later generation from zero.
KeptOrRestarted(c, k) ==
    \/ childWindow'[c][k] = childWindow[c][k]
    \/ \E g \in Nat : childWindow[c][k].resetsAt < g /\ childWindow'[c][k] = EmptyWindow(g)

\* Bringing children to a parent's generations only starts later ones.
LEMMA SyncRestarts ==
    ASSUME SubscriptionTypeOK, NEW p, NEW gen \in [Kinds -> Nat],
           childWindow' = syncChildQuotaWindowGeneration(p, gen)
    PROVE  \A c \in Children, k \in Kinds : KeptOrRestarted(c, k)
<1> SUFFICES ASSUME NEW c \in Children, NEW k \in Kinds
             PROVE  KeptOrRestarted(c, k)
  OBVIOUS
<1>1. childWindow[c][k].resetsAt \in Nat /\ gen[k] \in Nat
  BY DEF SubscriptionTypeOK, ChildWindowType
<1>2. childWindow'[c][k] = IF c \in ChildrenOf(p) /\ childWindow[c][k].resetsAt < gen[k]
                          THEN EmptyWindow(gen[k]) ELSE childWindow[c][k]
  BY DEF syncChildQuotaWindowGeneration
<1> QED
  BY <1>1, <1>2 DEF KeptOrRestarted

\* No probe, conversion or administrative edit does anything else to a window.
LEMMA AdministrationRestarts ==
    ASSUME SubscriptionTypeOK, SubscriptionNext
    PROVE  \A c \in Children, k \in Kinds : KeptOrRestarted(c, k)
<1>0. ASSUME UNCHANGED childWindow
      PROVE  \A c \in Children, k \in Kinds : KeptOrRestarted(c, k)
  BY <1>0 DEF KeptOrRestarted
<1>1. ASSUME NEW p \in Parents, NEW k \in Kinds, NEW resetsAt \in Gens, NEW observedAt \in Times,
             NEW estimate \in Estimates \cup {0}, NEW unchanged \in BOOLEAN,
             RecordParentQuotaObservation(p, k, resetsAt, observedAt, estimate, unchanged)
      PROVE  \A c \in Children, j \in Kinds : KeptOrRestarted(c, j)
  <2> DEFINE gen == [j \in Kinds |-> IF j = k THEN resetsAt ELSE 0]
  <2>1. gen \in [Kinds -> Nat]
    BY Ranges
  <2>2. childWindow' = syncChildQuotaWindowGeneration(p, gen) \/ UNCHANGED childWindow
    BY <1>1 DEF RecordParentQuotaObservation
  <2> HIDE DEF gen
  <2> QED
    BY <2>1, <2>2, <1>0, SyncRestarts
<1>2. ASSUME NEW p \in Parents, NEW ks \in SUBSET Kinds, NEW limits \in [ks -> Conversions],
             NEW resets \in [ks -> Gens], SetParentQuotaWindows(p, ks, limits, resets)
      PROVE  \A c \in Children, k \in Kinds : KeptOrRestarted(c, k)
  <2> DEFINE learned(k) == samples[p][k].latest
             reveal(k) == /\ k \notin ks
                          /\ parentWindow[p][k].manual
                          /\ learned(k) > now
                          /\ samples[p][k].estimate[learned(k)] > 0
             gen == [k \in Kinds |->
                       IF k \in ks THEN resets[k] ELSE IF reveal(k) THEN learned(k) ELSE 0]
  <2>1. \A k \in Kinds : learned(k) \in Nat
    <3>1. \A k \in Kinds : samples[p][k] \in SamplesType
      BY DEF SubscriptionTypeOK
    <3>2. \A k \in Kinds : learned(k) \in Gens \cup {0}
      BY <3>1 DEF SamplesType
    <3> QED
      BY <3>2, Ranges
  <2>2. childWindow' = syncChildQuotaWindowGeneration(p, gen)
    BY <1>2 DEF SetParentQuotaWindows
  <2> HIDE DEF learned, reveal
  <2>3. gen \in [Kinds -> Nat]
    BY <2>1, Ranges
  <2> HIDE DEF gen
  <2> QED
    BY <2>2, <2>3, SyncRestarts
<1>3. CASE UNCHANGED childWindow
  BY <1>0, <1>3
<1> QED
  BY <1>1, <1>2, <1>3, Zenon
     DEF SubscriptionNext, Tick, SyncNativeParentSubscription, UpsertParentSubscription,
         UpdateParentSubscription, UpdateParentQuotaProbe, CreateChildSubscription,
         CreateSharedSubscriptionGrants, UpdateChildSubscription, GrantBalanceSubscriptionAccess,
         UpdateTenant

\* So none takes a window back to an older generation.
LEMMA AdministrationAdvances ==
    ASSUME SubscriptionTypeOK, SubscriptionNext
    PROVE  \A c \in Children, k \in Kinds : childWindow'[c][k].resetsAt >= childWindow[c][k].resetsAt
<1> SUFFICES ASSUME NEW c \in Children, NEW k \in Kinds
             PROVE  childWindow'[c][k].resetsAt >= childWindow[c][k].resetsAt
  OBVIOUS
<1>1. childWindow[c][k].resetsAt \in Nat
  BY DEF SubscriptionTypeOK, ChildWindowType
<1>2. KeptOrRestarted(c, k)
  BY AdministrationRestarts
<1>3. \A g : EmptyWindow(g).resetsAt = g
  BY DEF EmptyWindow
<1>4. CASE childWindow'[c][k] = childWindow[c][k]
  BY <1>1, <1>4
<1>5. ASSUME NEW g \in Nat, childWindow[c][k].resetsAt < g, childWindow'[c][k] = EmptyWindow(g)
      PROVE  childWindow'[c][k].resetsAt >= childWindow[c][k].resetsAt
  BY <1>1, <1>3, <1>5
<1> QED
  BY <1>2, <1>4, <1>5 DEF KeptOrRestarted

\* The operations that write child rows.
LEMMA ChildWriters ==
    ASSUME SubscriptionNext
    PROVE  \/ UNCHANGED child
           \/ \E p \in Parents :
                 \/ \E input \in ParentInputs : UpdateParentSubscription(p, input)
                 \/ \E t \in Tenants, grant \in GrantInputs : CreateChildSubscription(t, p, grant)
                 \/ \E ts \in SUBSET Tenants, grant \in GrantInputs :
                       CreateSharedSubscriptionGrants(ts, p, grant)
                 \/ \E d \in Children, grant \in GrantInputs : UpdateChildSubscription(d, p, grant)
                 \/ \E ts \in SUBSET Tenants : GrantBalanceSubscriptionAccess(ts, p)
<1>1. \A p, report : SyncNativeParentSubscription(p, report[1], report[2]) => UNCHANGED child
  BY DEF SyncNativeParentSubscription
<1>2. \A p, input : UpsertParentSubscription(p, input) => UNCHANGED child
  BY DEF UpsertParentSubscription
<1>3. \A p, report : UpdateParentQuotaProbe(p, report[1], report[2]) => UNCHANGED child
  BY DEF UpdateParentQuotaProbe
<1>4. \A p, k, resetsAt, observedAt, estimate, unchanged :
        RecordParentQuotaObservation(p, k, resetsAt, observedAt, estimate, unchanged)
           => UNCHANGED child
  BY DEF RecordParentQuotaObservation
<1>5. \A p, ks, limits, resets : SetParentQuotaWindows(p, ks, limits, resets) => UNCHANGED child
  BY ZenonT(60) DEF SetParentQuotaWindows
<1>6. (\A t, enabled : UpdateTenant(t, enabled) => UNCHANGED child) /\ (Tick => UNCHANGED child)
  BY DEF UpdateTenant, Tick
<1> QED
  BY <1>1, <1>2, <1>3, <1>4, <1>5, <1>6, Zenon DEF SubscriptionNext

\* Administration never takes a child from its tenant.
LEMMA AdministrationKeepsOwners ==
    ASSUME SubscriptionTypeOK, SubscriptionNext
    PROVE  \A c \in Children : child[c].state = "present" =>
              child'[c].state = "present" /\ child'[c].owner = child[c].owner
<1> SUFFICES ASSUME NEW c \in Children, child[c].state = "present"
             PROVE  child'[c].state = "present" /\ child'[c].owner = child[c].owner
  OBVIOUS
<1>0. \A n : c \notin NextChildren(n)
  BY DEF NextChildren
<1>1. \A t, p, grant : ChildRow(t, p, grant).state = "present" /\ ChildRow(t, p, grant).owner = t
  BY DEF ChildRow
<1>2. CASE UNCHANGED child
  BY <1>2
<1>3. ASSUME NEW p \in Parents, NEW input \in ParentInputs, UpdateParentSubscription(p, input)
      PROVE  child'[c].state = "present" /\ child'[c].owner = child[c].owner
  <2>1. child[c] \in ChildType
    BY DEF SubscriptionTypeOK
  <2>2. AccessOnly(child[c]).state = child[c].state /\ AccessOnly(child[c]).owner = child[c].owner
    BY <2>1 DEF AccessOnly, ChildType
  <2> QED
    BY <1>3, <2>2 DEF UpdateParentSubscription
<1>4. ASSUME NEW p \in Parents, NEW t \in Tenants, NEW grant \in GrantInputs,
             CreateChildSubscription(t, p, grant)
      PROVE  child'[c].state = "present" /\ child'[c].owner = child[c].owner
  BY <1>0, <1>4 DEF CreateChildSubscription, SubscriptionTypeOK
<1>5. ASSUME NEW p \in Parents, NEW ts \in SUBSET Tenants, NEW grant \in GrantInputs,
             CreateSharedSubscriptionGrants(ts, p, grant)
      PROVE  child'[c].state = "present" /\ child'[c].owner = child[c].owner
  BY <1>0, <1>5 DEF CreateSharedSubscriptionGrants
<1>6. ASSUME NEW p \in Parents, NEW d \in Children, NEW grant \in GrantInputs,
             UpdateChildSubscription(d, p, grant)
      PROVE  child'[c].state = "present" /\ child'[c].owner = child[c].owner
  BY <1>1, <1>6 DEF UpdateChildSubscription, SubscriptionTypeOK
<1>7. ASSUME NEW p \in Parents, NEW ts \in SUBSET Tenants, GrantBalanceSubscriptionAccess(ts, p)
      PROVE  child'[c].state = "present" /\ child'[c].owner = child[c].owner
  <2> DEFINE grants(t) == {d \in ChildrenOf(p) : child[d].owner = t}
             oldest == {d \in ChildrenOf(p) : child[d].owner \in ts /\ \A e \in grants(child[d].owner) : d <= e}
             fresh == {t \in ts : grants(t) = {}}
             rows == NextChildren(Cardinality(fresh))
             access == canonicalBalanceGrant([enabled |-> TRUE], now)
  <2>1. \E owner \in [rows -> fresh] :
           child' = [d \in Children |->
              CASE d \in rows -> ChildRow(owner[d], p, access)
                [] d \in oldest -> ChildRow(child[d].owner, p, access)
                [] OTHER -> child[d]]
    BY <1>7 DEF GrantBalanceSubscriptionAccess
  <2>2. c \notin rows
    BY <1>0
  <2> HIDE DEF rows, oldest, access
  <2>3. child'[c] = ChildRow(child[c].owner, p, access) \/ child'[c] = child[c]
    BY <2>1, <2>2
  <2> QED
    BY <1>1, <2>3
<1> QED
  BY <1>2, <1>3, <1>4, <1>5, <1>6, <1>7, ChildWriters, Zenon

\* A deleted child stays deleted: no operation reuses its row.
LEMMA AdministrationKeepsDeleted ==
    ASSUME SubscriptionTypeOK, SubscriptionNext
    PROVE  \A c \in Children : child[c].state = "deleted" => child'[c].state = "deleted"
<1> SUFFICES ASSUME NEW c \in Children, child[c].state = "deleted"
             PROVE  child'[c].state = "deleted"
  OBVIOUS
<1>0. (\A n : c \notin NextChildren(n)) /\ \A p : c \notin ChildrenOf(p)
  BY DEF NextChildren, ChildrenOf
<1>2. CASE UNCHANGED child
  BY <1>2
<1>3. ASSUME NEW p \in Parents, NEW input \in ParentInputs, UpdateParentSubscription(p, input)
      PROVE  child'[c].state = "deleted"
  BY <1>0, <1>3 DEF UpdateParentSubscription
<1>4. ASSUME NEW p \in Parents, NEW t \in Tenants, NEW grant \in GrantInputs,
             CreateChildSubscription(t, p, grant)
      PROVE  child'[c].state = "deleted"
  BY <1>0, <1>4 DEF CreateChildSubscription, SubscriptionTypeOK
<1>5. ASSUME NEW p \in Parents, NEW ts \in SUBSET Tenants, NEW grant \in GrantInputs,
             CreateSharedSubscriptionGrants(ts, p, grant)
      PROVE  child'[c].state = "deleted"
  BY <1>0, <1>5 DEF CreateSharedSubscriptionGrants
<1>6. ASSUME NEW p \in Parents, NEW d \in Children, NEW grant \in GrantInputs,
             UpdateChildSubscription(d, p, grant)
      PROVE  child'[c].state = "deleted"
  <2>1. d # c
    BY <1>6, Zenon DEF UpdateChildSubscription
  <2>2. child'[c] = child[c]
    BY <1>6, <2>1, Zenon DEF UpdateChildSubscription, SubscriptionTypeOK
  <2> QED
    BY <2>2
<1>7. ASSUME NEW p \in Parents, NEW ts \in SUBSET Tenants, GrantBalanceSubscriptionAccess(ts, p)
      PROVE  child'[c].state = "deleted"
  <2> DEFINE grants(t) == {d \in ChildrenOf(p) : child[d].owner = t}
             oldest == {d \in ChildrenOf(p) : child[d].owner \in ts /\ \A e \in grants(child[d].owner) : d <= e}
             fresh == {t \in ts : grants(t) = {}}
             rows == NextChildren(Cardinality(fresh))
             access == canonicalBalanceGrant([enabled |-> TRUE], now)
  <2>1. \E owner \in [rows -> fresh] :
           child' = [d \in Children |->
              CASE d \in rows -> ChildRow(owner[d], p, access)
                [] d \in oldest -> ChildRow(child[d].owner, p, access)
                [] OTHER -> child[d]]
    BY <1>7 DEF GrantBalanceSubscriptionAccess
  <2>2. c \notin rows /\ c \notin oldest
    BY <1>0
  <2> HIDE DEF rows, oldest, access
  <2>3. child'[c] = child[c]
    BY <2>1, <2>2
  <2> QED
    BY <2>3
<1> QED
  BY <1>2, <1>3, <1>4, <1>5, <1>6, <1>7, ChildWriters, Zenon

\* The operations that write parent rows.
LEMMA ParentWriters ==
    ASSUME SubscriptionNext
    PROVE  \/ UNCHANGED parent
           \/ \E p \in Parents :
                 \/ \E report \in SyncReports : SyncNativeParentSubscription(p, report[1], report[2])
                 \/ \E input \in ParentInputs : UpsertParentSubscription(p, input)
                 \/ \E input \in ParentInputs : UpdateParentSubscription(p, input)
                 \/ \E report \in ProbeReports : UpdateParentQuotaProbe(p, report[1], report[2])
<1>1. \A p, k, resetsAt, observedAt, estimate, unchanged :
        RecordParentQuotaObservation(p, k, resetsAt, observedAt, estimate, unchanged)
           => UNCHANGED parent
  BY DEF RecordParentQuotaObservation
<1>2. \A p, ks, limits, resets : SetParentQuotaWindows(p, ks, limits, resets) => UNCHANGED parent
  BY ZenonT(60) DEF SetParentQuotaWindows
<1>3. (\A t, enabled : UpdateTenant(t, enabled) => UNCHANGED parent) /\ (Tick => UNCHANGED parent)
  BY DEF UpdateTenant, Tick
<1>4. \A t, p, grant : CreateChildSubscription(t, p, grant) => UNCHANGED parent
  BY DEF CreateChildSubscription
<1>5. \A ts, p, grant : CreateSharedSubscriptionGrants(ts, p, grant) => UNCHANGED parent
  BY DEF CreateSharedSubscriptionGrants
<1>6. \A c, p, grant : UpdateChildSubscription(c, p, grant) => UNCHANGED parent
  BY DEF UpdateChildSubscription
<1>7. \A ts, p : GrantBalanceSubscriptionAccess(ts, p) => UNCHANGED parent
  BY Zenon DEF GrantBalanceSubscriptionAccess
<1> QED
  BY <1>1, <1>2, <1>3, <1>4, <1>5, <1>6, <1>7, Zenon DEF SubscriptionNext

\* Administration never removes a parent or takes a child from having one.
LEMMA AdministrationKeepsParents ==
    ASSUME SubscriptionTypeOK, ChildHasParent, SubscriptionNext
    PROVE  ChildHasParent'
<1> DEFINE Rooted(row) == row.state = "present" => row.parent \in Parents /\ parent'[row.parent].present
<1>1. \A p \in Parents : parent[p].present => parent'[p].present
  <2> SUFFICES ASSUME NEW p \in Parents, parent[p].present
               PROVE  parent'[p].present
    OBVIOUS
  <2>1. parent[p] \in ParentType /\ parent \in [Parents -> ParentType]
    BY DEF SubscriptionTypeOK
  <2>2. \A row \in ParentType : \A unavailable, reported :
           Refreshed(row, unavailable, reported).present = row.present
    BY DEF Refreshed, ParentType
  <2>3. \A row \in ParentType : \A input : Edited(row, input).present = row.present
    BY DEF Edited, ParentType
  <2>4. \A row \in ParentType : \A status, snapshot : Probed(row, status, snapshot).present = row.present
    BY DEF Probed, ParentType
  <2>5. \A q \in Parents : \A u, m : SyncNativeParentSubscription(q, u, m) => parent'[p].present
    BY <2>1, <2>2 DEF SyncNativeParentSubscription
  <2>6. \A q \in Parents : \A input \in ParentInputs :
           UpsertParentSubscription(q, input) => parent'[p].present
    <3>1. \A input \in ParentInputs : Posted(Edited(parent[p], input)).present
      <4> TAKE input \in ParentInputs
      <4>1. input \in ParentInputType
        BY InputAssumption
      <4>2. Edited(parent[p], input) \in ParentType
        BY <2>1, <4>1, EditedType
      <4> QED
        BY <4>2 DEF Posted, ParentType
    <3> QED
      BY <2>1, <3>1 DEF UpsertParentSubscription
  <2>7. \A q \in Parents : \A input : UpdateParentSubscription(q, input) => parent'[p].present
    BY <2>1, <2>3 DEF UpdateParentSubscription
  <2>8. \A q \in Parents : \A status, snapshot :
           UpdateParentQuotaProbe(q, status, snapshot) => parent'[p].present
    BY <2>1, <2>4 DEF UpdateParentQuotaProbe
  <2>9. UNCHANGED parent => parent'[p].present
    OBVIOUS
  <2> QED
    BY <2>5, <2>6, <2>7, <2>8, <2>9, ParentWriters, Zenon
<1>2. \A c \in Children : Rooted(child[c])
  BY <1>1 DEF ChildHasParent
<1>3. \A t, grant : \A p \in Parents : parent[p].present => Rooted(ChildRow(t, p, grant))
  BY <1>1 DEF ChildRow
<1>4. SUFFICES ASSUME NEW c \in Children
               PROVE  Rooted(child'[c])
  BY DEF ChildHasParent
<1>5. UNCHANGED child => Rooted(child'[c])
  BY <1>2
<1>6. ASSUME NEW p \in Parents, NEW input \in ParentInputs, UpdateParentSubscription(p, input)
      PROVE  Rooted(child'[c])
  <2>1. child[c] \in ChildType
    BY DEF SubscriptionTypeOK
  <2>2. AccessOnly(child[c]).state = child[c].state /\ AccessOnly(child[c]).parent = child[c].parent
    BY <2>1 DEF AccessOnly, ChildType
  <2> QED
    BY <1>2, <1>6, <2>2 DEF UpdateParentSubscription
<1> HIDE DEF Rooted
<1>7. ASSUME NEW p \in Parents, NEW t \in Tenants, NEW grant \in GrantInputs,
             CreateChildSubscription(t, p, grant)
      PROVE  Rooted(child'[c])
  BY <1>2, <1>3, <1>7 DEF CreateChildSubscription, Grantable, SubscriptionTypeOK
<1>8. ASSUME NEW p \in Parents, NEW ts \in SUBSET Tenants, NEW grant \in GrantInputs,
             CreateSharedSubscriptionGrants(ts, p, grant)
      PROVE  Rooted(child'[c])
  BY <1>2, <1>3, <1>8 DEF CreateSharedSubscriptionGrants, Grantable
<1>9. ASSUME NEW p \in Parents, NEW d \in Children, NEW grant \in GrantInputs,
             UpdateChildSubscription(d, p, grant)
      PROVE  Rooted(child'[c])
  BY <1>2, <1>3, <1>9 DEF UpdateChildSubscription, Grantable, SubscriptionTypeOK
<1>10. ASSUME NEW p \in Parents, NEW ts \in SUBSET Tenants, GrantBalanceSubscriptionAccess(ts, p)
       PROVE  Rooted(child'[c])
  <2> DEFINE grants(t) == {d \in ChildrenOf(p) : child[d].owner = t}
             oldest == {d \in ChildrenOf(p) : child[d].owner \in ts /\ \A e \in grants(child[d].owner) : d <= e}
             fresh == {t \in ts : grants(t) = {}}
             rows == NextChildren(Cardinality(fresh))
             access == canonicalBalanceGrant([enabled |-> TRUE], now)
  <2>1. \E owner \in [rows -> fresh] :
           child' = [d \in Children |->
              CASE d \in rows -> ChildRow(owner[d], p, access)
                [] d \in oldest -> ChildRow(child[d].owner, p, access)
                [] OTHER -> child[d]]
    BY <1>10 DEF GrantBalanceSubscriptionAccess
  <2>2. parent[p].present
    BY <1>10 DEF GrantBalanceSubscriptionAccess
  <2> HIDE DEF rows, oldest, access
  <2>3. child'[c] = child[c] \/ \E t : child'[c] = ChildRow(t, p, access)
    BY <2>1
  <2> QED
    BY <1>2, <1>3, <2>2, <2>3
<1> QED
  BY <1>5, <1>6, <1>7, <1>8, <1>9, <1>10, ChildWriters, Zenon

-----------------------------------------------------------------------------
(* Reservations *)

\* The amounts are numbers.
LEMMA AmountTypes ==
    /\ Reserves \subseteq Nat
    /\ Costs \subseteq Nat
    /\ CreditAmounts \subseteq Int
    /\ Amounts \subseteq Nat
    /\ TTL \in Nat
  BY AmountAssumption, Zenon

\* Adding to a column keeps its type.
LEMMA Added ==
    ASSUME NEW S, NEW x, NEW d \in Int
    PROVE  /\ \A f \in [S -> Int] : [f EXCEPT ![x] = @ + d] \in [S -> Int]
           /\ \A f \in [S -> Int] : [f EXCEPT ![x] = @ - d] \in [S -> Int]
           /\ \A f \in [S -> Nat] : d >= 0 => [f EXCEPT ![x] = @ + d] \in [S -> Nat]
<1>1. ASSUME NEW f \in [S -> Int]
      PROVE  [f EXCEPT ![x] = @ + d] \in [S -> Int] /\ [f EXCEPT ![x] = @ - d] \in [S -> Int]
  <2>1. x \in S => f[x] + d \in Int /\ f[x] - d \in Int
    OBVIOUS
  <2> QED
    BY <2>1, Zenon
<1>2. ASSUME NEW f \in [S -> Nat], d >= 0
      PROVE  [f EXCEPT ![x] = @ + d] \in [S -> Nat]
  <2>1. x \in S => f[x] + d \in Nat
    BY <1>2
  <2> QED
    BY <2>1, Zenon
<1> QED
  BY <1>1, <1>2

-----------------------------------------------------------------------------
(* Rows *)

\* An empty reservation row is a row.
LEMMA NoReservationType ==
    NoReservation("none") \in ReservationType /\ NoReservation("purged") \in ReservationType
  BY DEF NoReservation, ReservationType, Finished

\* Closing a reservation leaves it a reservation row,
LEMMA ClosedType ==
    ASSUME NEW row \in ReservationType, NEW status \in Finished, NEW actual \in Nat
    PROVE  Closed(row, status, actual) \in ReservationType
<1>1. status \in Finished \cup {"none", "active", "purged"}
  OBVIOUS
<1> QED
  BY <1>1, Zenon DEF Closed, ReservationType

\* so does charging a turn to it,
LEMMA AccruedType ==
    ASSUME NEW row \in ReservationType, NEW cost \in Nat
    PROVE  Accrued(row, cost) \in ReservationType
<1>1. row.actual + cost \in Nat
  BY DEF ReservationType
<1> QED
  BY <1>1, Zenon DEF Accrued, ReservationType

\* and so do the foreign keys that clear its child and parent.
LEMMA ForgettingType ==
    ASSUME NEW row \in ReservationType, NEW cs, NEW p
    PROVE  Forgetting(row, cs, p) \in ReservationType
<1> DEFINE c == IF row.child \in cs THEN 0 ELSE row.child
           q == IF row.parent = p THEN 0 ELSE row.parent
<1>1. c \in Children \cup {0} /\ q \in Parents \cup {0}
  BY DEF ReservationType
<1>2. Forgetting(row, cs, p) = [row EXCEPT !.child = c, !.parent = q]
  BY Zenon DEF Forgetting
<1> HIDE DEF c, q
<1> QED
  BY <1>1, <1>2, Zenon DEF ReservationType

\* A withdrawn parent is a parent row.
LEMMA WithdrawnType ==
    ASSUME NEW row \in ParentType
    PROVE  Withdrawn(row) \in ParentType
  BY Zenon DEF Withdrawn, ParentType

\* Charging windows keeps them well typed and in their generation.
LEMMA ChargedType ==
    ASSUME NEW window \in ChildWindowType, NEW reservedDelta \in Int, NEW settledDelta \in Int
    PROVE  /\ Charged(window, reservedDelta, settledDelta) \in ChildWindowType
           /\ Charged(window, reservedDelta, settledDelta).resetsAt = window.resetsAt
  BY DEF Charged, ChildWindowType, AtLeastZero

\* Charging windows keeps every window's type and generation.
LEMMA ChargeWindowsType ==
    ASSUME NEW row, NEW reservedDelta \in Int, NEW settledDelta \in Int,
           childWindow \in [Children -> [Kinds -> ChildWindowType]]
    PROVE  /\ ChargeWindows(row, reservedDelta, settledDelta) \in [Children -> [Kinds -> ChildWindowType]]
           /\ \A c \in Children, k \in Kinds :
                 ChargeWindows(row, reservedDelta, settledDelta)[c][k].resetsAt = childWindow[c][k].resetsAt
<1> DEFINE new == [k \in Kinds |->
                     IF HoldsWindow(row, k) THEN Charged(childWindow[row.child][k], reservedDelta, settledDelta)
                     ELSE childWindow[row.child][k]]
<1>1. ASSUME row.child \in Children, NEW k \in Kinds
      PROVE  new[k] \in ChildWindowType /\ new[k].resetsAt = childWindow[row.child][k].resetsAt
  BY <1>1, ChargedType
<1>2. row.child \in Children => new \in [Kinds -> ChildWindowType]
  BY <1>1
<1>3. ChargeWindows(row, reservedDelta, settledDelta) =
         IF row.child = 0 THEN childWindow ELSE [childWindow EXCEPT ![row.child] = new]
  BY Zenon DEF ChargeWindows
<1> HIDE DEF new
<1> QED
  BY <1>1, <1>2, <1>3

\* A window that admission writes is well typed.
LEMMA AdmittedWindowType ==
    ASSUME SubscriptionTypeOK, NEW c \in Children, child[c].parent \in Parents, NEW k \in Kinds,
           NEW reserve \in Nat
    PROVE  /\ AdmittedWindow(c, k, reserve) \in ChildWindowType
           /\ AdmittedWindow(c, k, reserve).resetsAt = parentWindow[child[c].parent][k].resetsAt
<1>1. parentWindow[child[c].parent][k].resetsAt \in Nat
  BY DEF SubscriptionTypeOK, ParentWindowType
<1>2. childWindow[c][k] \in ChildWindowType
  BY DEF SubscriptionTypeOK
<1> QED
  BY <1>1, <1>2 DEF AdmittedWindow, EmptyWindow, ChildWindowType

-----------------------------------------------------------------------------
(* Every step of the store is one of these transactions. *)

\* Settlement, release, expiry and the release of a missing parent's holds:
\* all of them finish one reservation, and at most log its charge.
Finish(r) ==
    \E actual \in Nat, status \in Finished :
        /\ finishReservationTx(r, actual, status)
        /\ UNCHANGED detail \/ detail' = [detail EXCEPT ![r] = @ + actual]
        /\ UNCHANGED <<deleting, missing>>

\* Every caller of finishReservationTx gives it an amount and a final status.
LEMMA Finishing ==
    ASSUME NEW r \in Requests
    PROVE  /\ \A cost \in Costs \cup {0} : SettleRequestWithLog(r, cost) => Finish(r)
           /\ \A actual \in Amounts : SettleRequestReservation(r, actual) => Finish(r)
           /\ ReleaseRequestReservation(r) => Finish(r)
           /\ \A actual \in Amounts : ReclaimReservation(r, actual) => Finish(r)
           /\ MarkMissingRelease(r) => Finish(r)
<1>0. 0 \in Nat /\ "settled" \in Finished /\ "released" \in Finished /\ "expired" \in Finished
  BY DEF Finished
<1>1. \A cost \in Costs \cup {0} : SettleRequestWithLog(r, cost) => Finish(r)
  BY <1>0, AmountTypes, Zenon DEF SettleRequestWithLog, Finish, WriteDetail
<1>2. \A actual \in Amounts : SettleRequestReservation(r, actual) => Finish(r)
  BY <1>0, AmountTypes, Zenon DEF SettleRequestReservation, Finish
<1>3. ReleaseRequestReservation(r) => Finish(r)
  BY <1>0, Zenon DEF ReleaseRequestReservation, Finish
<1>4. \A actual \in Amounts : ReclaimReservation(r, actual) => Finish(r)
  BY <1>0, AmountTypes, Zenon DEF ReclaimReservation, Finish
<1>5. MarkMissingRelease(r) => Finish(r)
  BY <1>0, Zenon DEF MarkMissingRelease, Finish
<1> QED
  BY <1>1, <1>2, <1>3, <1>4, <1>5

\* The transactions of Next, with the ones that finish a reservation as one case.
LEMMA Transactions ==
    ASSUME Next
    PROVE  \/ Administer
           \/ \E r \in Requests, t \in Tenants, reserve \in Nat :
                 \E c \in {0} \cup {d \in Children : child[d].owner = t} : Reserve(r, t, c, reserve)
           \/ \E r \in Requests : Finish(r)
           \/ \E r \in Requests, turn \in Turns, cost \in Nat : AccrueWebSocketTurn(r, turn, cost)
           \/ \E t \in Tenants, amount \in Int : Credit(t, amount)
           \/ \E c \in Children : DeleteChildCount(c)
           \/ \E c \in Children : DeleteChildSubscription(c)
           \/ \E p \in Parents : MarkMissingBegin(p)
           \/ MarkMissingDelete
           \/ \E t \in Tenants : DeleteTenant(t)
<1>1. ASSUME NEW r \in Requests, Bill(r)
      PROVE  \/ \E t \in Tenants, reserve \in Nat :
                   \E c \in {0} \cup {d \in Children : child[d].owner = t} : Reserve(r, t, c, reserve)
             \/ Finish(r)
             \/ \E turn \in Turns, cost \in Nat : AccrueWebSocketTurn(r, turn, cost)
  BY <1>1, Finishing, AmountTypes, Zenon DEF Bill
<1>2. \A r \in Requests : MarkMissingRelease(r) => Finish(r)
  BY Finishing
<1>3. CreditAmounts \subseteq Int
  BY AmountTypes
<1> QED
  BY <1>1, <1>2, <1>3, Zenon DEF Next, Removal

-----------------------------------------------------------------------------
(* Type correctness *)

\* What admission may hold.
LEMMA AdmissionFacts ==
    ASSUME TypeOK, ChildHasParent, NEW r, NEW t \in Tenants, NEW reserve \in Nat,
           NEW c \in Children \cup {0},
           Reserve(r, t, c, reserve)
    PROVE  /\ c # 0 => c \in Children /\ child[c].state = "present" /\ child[c].parent \in Parents
           /\ HeldWindows(c) \subseteq Kinds
           /\ c = 0 => HeldWindows(c) = {}
           /\ HeldWindows(c) # {} => reserve > 0
           /\ \A k \in HeldWindows(c) : WindowVerdict(c, k, reserve) = "ok"
<1>1. ReserveErrors(t, c, reserve) = {}
  BY DEF Reserve
<1>2. c # 0 => Usable(c)
  BY <1>1 DEF ReserveErrors
<1>3. HeldWindows(c) \subseteq Kinds /\ (HeldWindows(c) # {} => Metered(c))
  BY DEF HeldWindows, ActiveWindows
<1>4. Metered(c) => reserve > 0
  BY <1>1, <1>2 DEF ReserveErrors
<1>5. \A k \in HeldWindows(c) : WindowVerdict(c, k, reserve) = "ok"
  <2> DEFINE failing == {k \in HeldWindows(c) : WindowVerdict(c, k, reserve) # "ok"}
  <2>1. failing = {}
    BY <1>1 DEF ReserveErrors
  <2> QED
    BY <2>1
<1>6. Metered(c) => c # 0
  BY DEF Metered
<1> QED
  BY <1>2, <1>3, <1>4, <1>5, <1>6 DEF Usable, ChildHasParent


\* A successful reserveCandidate keeps the types.
LEMMA ReserveType ==
    ASSUME TypeOK, ChildHasParent, NEW r \in Requests, NEW t \in Tenants, NEW reserve \in Nat,
           NEW c \in {0} \cup {d \in Children : child[d].owner = t},
           Reserve(r, t, c, reserve)
    PROVE  TypeOK'
<1> DEFINE held == HeldWindows(c)
           p == IF c = 0 THEN 0 ELSE child[c].parent
           balanceHeld == BalanceHold(c, reserve)
           row == [status |-> "active", owner |-> t, child |-> c, parent |-> p,
                   balanceHeld |-> balanceHeld, quotaHeld |-> IF held = {} THEN 0 ELSE reserve,
                   windows |-> [k \in Kinds |-> IF k \in held THEN parentWindow[p][k].resetsAt ELSE 0],
                   actual |-> 0, expiresAt |-> now + TTL]
           windows == [k \in Kinds |-> IF k \in held THEN AdmittedWindow(c, k, reserve)
                                       ELSE childWindow[c][k]]
<1>1. /\ balance' = [balance EXCEPT ![t] = @ + (-balanceHeld)]
      /\ ledger' = [ledger EXCEPT ![r] = @ - balanceHeld]
      /\ reservation' = [reservation EXCEPT ![r] = row]
      /\ childWindow' = IF c = 0 THEN childWindow ELSE [childWindow EXCEPT ![c] = windows]
      /\ UNCHANGED <<now, tenant, parent, parentWindow, samples, child,
                     credited, turns, detail, deleting, missing>>
  BY Zenon DEF Reserve, MoveBalance
<1>0. /\ c # 0 => c \in Children /\ child[c].parent \in Parents
      /\ c = 0 => HeldWindows(c) = {}
  BY AdmissionFacts
<1>2. balanceHeld \in Nat /\ balanceHeld \in Int /\ -balanceHeld \in Int
  BY DEF BalanceHold
<1>3. row \in ReservationType
  <2>1. c \in Children \cup {0} /\ p \in Parents \cup {0}
    BY <1>0
  <2>2. [k \in Kinds |-> IF k \in held THEN parentWindow[p][k].resetsAt ELSE 0] \in [Kinds -> Nat]
    BY <1>0 DEF TypeOK, SubscriptionTypeOK, ParentWindowType
  <2>3. now + TTL \in Nat
    BY AmountTypes, Ranges DEF TypeOK, SubscriptionTypeOK
  <2>4. (IF held = {} THEN 0 ELSE reserve) \in Nat /\ t \in Tenants \cup {0}
    OBVIOUS
  <2> DEFINE held2 == IF held = {} THEN 0 ELSE reserve
             windows2 == [k \in Kinds |-> IF k \in held THEN parentWindow[p][k].resetsAt ELSE 0]
             deadline == now + TTL
  <2>5. held2 \in Nat /\ windows2 \in [Kinds -> Nat] /\ deadline \in Nat
    BY <2>2, <2>3, <2>4
  <2>6. row = [status |-> "active", owner |-> t, child |-> c, parent |-> p,
               balanceHeld |-> balanceHeld, quotaHeld |-> held2, windows |-> windows2,
               actual |-> 0, expiresAt |-> deadline]
    OBVIOUS
  <2> HIDE DEF p, held, balanceHeld, held2, windows2, deadline, row
  <2> QED
    BY <1>2, <2>1, <2>4, <2>5, <2>6 DEF ReservationType
<1>4. c # 0 => windows \in [Kinds -> ChildWindowType]
  BY <1>0, AdmittedWindowType DEF TypeOK, SubscriptionTypeOK
<1> HIDE DEF held, p, balanceHeld, row, windows
<1>5. childWindow' \in [Children -> [Kinds -> ChildWindowType]]
  BY <1>0, <1>1, <1>4 DEF TypeOK, SubscriptionTypeOK
<1>6. SubscriptionTypeOK'
  BY <1>1, <1>5 DEF TypeOK, SubscriptionTypeOK
<1>7. ReservationTypeOK'
  <2>1. balance' \in [Tenants -> Int] /\ ledger' \in [Requests -> Int]
    BY <1>1, <1>2, Added DEF TypeOK, ReservationTypeOK
  <2>2. reservation' \in [Requests -> ReservationType]
    BY <1>1, <1>3 DEF TypeOK, ReservationTypeOK
  <2> QED
    BY <1>1, <2>1, <2>2 DEF TypeOK, ReservationTypeOK
<1> QED
  BY <1>6, <1>7 DEF TypeOK

\* finishReservationTx keeps the types of what it writes.
LEMMA FinishType ==
    ASSUME TypeOK, NEW r \in Requests, NEW actual \in Nat, NEW status \in Finished,
           finishReservationTx(r, actual, status)
    PROVE  /\ SubscriptionTypeOK'
           /\ balance' \in [Tenants -> Int]
           /\ ledger' \in [Requests -> Int]
           /\ reservation' \in [Requests -> ReservationType]
           /\ UNCHANGED <<credited, turns>>
<1> DEFINE row == reservation[r]
           final == IF status \in {"settled", "expired"} THEN actual ELSE 0
           delta == Refund(row, final)
<1>1. /\ balance' = [balance EXCEPT ![row.owner] = @ + delta]
      /\ ledger' = [ledger EXCEPT ![r] = @ + delta]
      /\ childWindow' = ChargeWindows(row, -row.quotaHeld, final - row.actual)
      /\ reservation' = [reservation EXCEPT ![r] = Closed(@, status, final)]
      /\ UNCHANGED <<now, tenant, parent, parentWindow, samples, child, credited, turns>>
  BY Zenon DEF finishReservationTx, MoveBalance
<1>2. row \in ReservationType
  BY DEF TypeOK, ReservationTypeOK
<1>3. final \in Nat
  OBVIOUS
<1>4. row.balanceHeld \in Nat /\ row.actual \in Nat /\ row.quotaHeld \in Nat
  BY <1>2 DEF ReservationType
<1> HIDE DEF row, final
<1>5. delta \in Int /\ -row.quotaHeld \in Int /\ final - row.actual \in Int
  BY <1>3, <1>4 DEF Refund
<1>6. Closed(row, status, final) \in ReservationType
  BY <1>2, <1>3, ClosedType
<1> HIDE DEF delta
<1>7. childWindow' \in [Children -> [Kinds -> ChildWindowType]]
  BY <1>1, <1>5, ChargeWindowsType DEF TypeOK, SubscriptionTypeOK
<1>8. SubscriptionTypeOK'
  BY <1>1, <1>7 DEF TypeOK, SubscriptionTypeOK
<1>9. balance' \in [Tenants -> Int] /\ ledger' \in [Requests -> Int]
  BY <1>1, <1>5, Added DEF TypeOK, ReservationTypeOK
<1>10. reservation' \in [Requests -> ReservationType]
  BY <1>1, <1>6 DEF TypeOK, ReservationTypeOK, row
<1> QED
  BY <1>1, <1>8, <1>9, <1>10

\* AccrueWebSocketTurn keeps the types.
LEMMA AccrueType ==
    ASSUME TypeOK, NEW r \in Requests, NEW turn \in Turns, NEW cost \in Nat,
           AccrueWebSocketTurn(r, turn, cost)
    PROVE  TypeOK'
<1> DEFINE row == reservation[r]
           debit == IF reservationUsesBalance(row) THEN cost ELSE 0
<1>1. /\ turns' = [turns EXCEPT ![r] = @ \cup {turn}]
      /\ balance' = [balance EXCEPT ![row.owner] = @ + (-debit)]
      /\ ledger' = [ledger EXCEPT ![r] = @ - debit]
      /\ childWindow' = ChargeWindows(row, 0, cost)
      /\ reservation' = [reservation EXCEPT ![r] = Accrued(@, cost)]
      /\ detail' = [detail EXCEPT ![r] = @ + cost]
      /\ UNCHANGED <<now, tenant, parent, parentWindow, samples, child, credited, deleting, missing>>
  BY Zenon DEF AccrueWebSocketTurn, MoveBalance, WriteDetail
<1>2. Accrued(reservation[r], cost) \in ReservationType
  BY AccruedType DEF TypeOK, ReservationTypeOK
<1>3. debit \in Int /\ -debit \in Int /\ cost \in Int /\ 0 \in Int
  OBVIOUS
<1> HIDE DEF row, debit
<1>4. childWindow' \in [Children -> [Kinds -> ChildWindowType]]
  BY <1>1, <1>3, ChargeWindowsType DEF TypeOK, SubscriptionTypeOK
<1>5. SubscriptionTypeOK'
  BY <1>1, <1>4 DEF TypeOK, SubscriptionTypeOK
<1>6. ReservationTypeOK'
  <2>1. balance' \in [Tenants -> Int] /\ ledger' \in [Requests -> Int]
    BY <1>1, <1>3, Added DEF TypeOK, ReservationTypeOK
  <2>2. detail' \in [Requests -> Nat]
    BY <1>1, Added, SMTT(30) DEF TypeOK, ReservationTypeOK
  <2>3. reservation' \in [Requests -> ReservationType] /\ turns' \in [Requests -> SUBSET Turns]
    BY <1>1, <1>2 DEF TypeOK, ReservationTypeOK
  <2> QED
    BY <1>1, <2>1, <2>2, <2>3 DEF TypeOK, ReservationTypeOK
<1> QED
  BY <1>5, <1>6 DEF TypeOK

\* Rows that deletions leave behind are rows.
LEMMA DeletionTypes ==
    ASSUME TypeOK, NEW cs, NEW p
    PROVE  /\ ForgetChildren(cs, p) \in [Requests -> ReservationType]
           /\ RemoveChildren(cs) \in [Children -> ChildType]
           /\ RemoveWindows(cs) \in [Children -> [Kinds -> ChildWindowType]]
<1>1. ForgetChildren(cs, p) \in [Requests -> ReservationType]
  BY ForgettingType DEF ForgetChildren, TypeOK, ReservationTypeOK
<1>2. RemoveChildren(cs) \in [Children -> ChildType]
  BY EmptyRows DEF RemoveChildren, TypeOK, SubscriptionTypeOK
<1>3. RemoveWindows(cs) \in [Children -> [Kinds -> ChildWindowType]]
  BY EmptyRows DEF RemoveWindows, TypeOK, SubscriptionTypeOK
<1> QED
  BY <1>1, <1>2, <1>3


\* Deleting children, or everything of a missing parent or a tenant.
LEMMA DeletionStepsType ==
    ASSUME TypeOK
    PROVE  /\ \A c \in Children : DeleteChildCount(c) => TypeOK'
           /\ \A c \in Children : DeleteChildSubscription(c) => TypeOK'
           /\ \A p \in Parents : MarkMissingBegin(p) => TypeOK'
           /\ MarkMissingDelete => TypeOK'
           /\ \A t \in Tenants : DeleteTenant(t) => TypeOK'
<1>1. ASSUME NEW c \in Children, DeleteChildCount(c)
      PROVE  TypeOK'
  BY <1>1 DEF DeleteChildCount, TypeOK, SubscriptionTypeOK, ReservationTypeOK,
              subscriptionVars, moneyVars
<1>2. ASSUME NEW c \in Children, DeleteChildSubscription(c)
      PROVE  TypeOK'
  <2> DEFINE cs == IF child[c].state = "present" THEN {c} ELSE {}
  <2>1. /\ child' = RemoveChildren(cs)
        /\ childWindow' = RemoveWindows(cs)
        /\ reservation' = ForgetChildren(cs, 0)
        /\ deleting' = deleting \ {c}
        /\ UNCHANGED <<now, tenant, parent, parentWindow, samples, moneyVars, turns, detail, missing>>
    BY <1>2, Zenon DEF DeleteChildSubscription
  <2> HIDE DEF cs
  <2> QED
    BY <2>1, DeletionTypes DEF TypeOK, SubscriptionTypeOK, ReservationTypeOK, moneyVars
<1>3. ASSUME NEW p \in Parents, MarkMissingBegin(p)
      PROVE  TypeOK'
  <2>1. \A c \in Children : [child[c] EXCEPT !.enabled = FALSE] \in ChildType
    BY DEF TypeOK, SubscriptionTypeOK, ChildType
  <2>2. child' \in [Children -> ChildType]
    BY <1>3, <2>1 DEF MarkMissingBegin, TypeOK, SubscriptionTypeOK
  <2>3. parent' \in [Parents -> ParentType]
    BY <1>3, WithdrawnType DEF MarkMissingBegin, TypeOK, SubscriptionTypeOK
  <2>4. SubscriptionTypeOK'
    BY <1>3, <2>2, <2>3 DEF MarkMissingBegin, TypeOK, SubscriptionTypeOK
  <2>5. ReservationTypeOK'
    BY <1>3 DEF MarkMissingBegin, TypeOK, ReservationTypeOK, moneyVars
  <2> QED
    BY <2>4, <2>5 DEF TypeOK
<1>4. ASSUME MarkMissingDelete
      PROVE  TypeOK'
  <2>1. /\ parent' \in [Parents -> ParentType]
        /\ parentWindow' \in [Parents -> [Kinds -> ParentWindowType]]
        /\ samples' \in [Parents -> [Kinds -> SamplesType]]
    BY <1>4, EmptyRows DEF MarkMissingDelete, TypeOK, SubscriptionTypeOK
  <2>2. /\ child' \in [Children -> ChildType]
        /\ childWindow' \in [Children -> [Kinds -> ChildWindowType]]
        /\ reservation' \in [Requests -> ReservationType]
    BY <1>4, DeletionTypes DEF MarkMissingDelete
  <2>3. SubscriptionTypeOK'
    BY <1>4, <2>1, <2>2 DEF MarkMissingDelete, TypeOK, SubscriptionTypeOK
  <2>4. ReservationTypeOK'
    BY <1>4, <2>2 DEF MarkMissingDelete, TypeOK, ReservationTypeOK, moneyVars
  <2> QED
    BY <2>3, <2>4 DEF TypeOK
<1>5. ASSUME NEW t \in Tenants, DeleteTenant(t)
      PROVE  TypeOK'
  <2> DEFINE cs == {c \in Children : child[c].state = "present" /\ child[c].owner = t}
             rs == {r \in Requests : reservation[r].owner = t}
  <2>1. /\ tenant' = [tenant EXCEPT ![t] = [present |-> FALSE, enabled |-> FALSE]]
        /\ child' = RemoveChildren(cs)
        /\ childWindow' = RemoveWindows(cs)
        /\ reservation' = [r \in Requests |-> IF r \in rs THEN NoReservation("purged") ELSE reservation[r]]
        /\ ledger' = [r \in Requests |-> IF r \in rs THEN 0 ELSE ledger[r]]
        /\ turns' = [r \in Requests |-> IF r \in rs THEN {} ELSE turns[r]]
        /\ detail' = [r \in Requests |-> IF r \in rs THEN 0 ELSE detail[r]]
        /\ balance' = [balance EXCEPT ![t] = 0]
        /\ credited' = [credited EXCEPT ![t] = 0]
        /\ UNCHANGED <<now, parent, parentWindow, samples, deleting, missing>>
    BY <1>5, Zenon DEF DeleteTenant
  <2> HIDE DEF cs, rs
  <2>2. tenant' \in [Tenants -> TenantType]
    BY <2>1 DEF TypeOK, SubscriptionTypeOK, TenantType
  <2>3. SubscriptionTypeOK'
    BY <2>1, <2>2, DeletionTypes DEF TypeOK, SubscriptionTypeOK
  <2>4. ReservationTypeOK'
    BY <2>1, NoReservationType DEF TypeOK, ReservationTypeOK
  <2> QED
    BY <2>3, <2>4 DEF TypeOK
<1> QED
  BY <1>1, <1>2, <1>3, <1>4, <1>5

\* Every transaction keeps the types.
LEMMA TypeStep ==
    ASSUME TypeOK, ChildHasParent, Next
    PROVE  TypeOK'
<1>1. Administer => TypeOK'
  BY AdministrationType DEF Administer, TypeOK, ReservationTypeOK, reservationVars
<1>2. ASSUME NEW r \in Requests, Finish(r)
      PROVE  TypeOK'
  <2>1. PICK actual \in Nat, status \in Finished :
           /\ finishReservationTx(r, actual, status)
           /\ UNCHANGED detail \/ detail' = [detail EXCEPT ![r] = @ + actual]
           /\ UNCHANGED <<deleting, missing>>
    BY <1>2 DEF Finish
  <2>2. detail' \in [Requests -> Nat]
    <3>1. actual \in Int /\ actual >= 0 /\ detail \in [Requests -> Nat]
      BY DEF TypeOK, ReservationTypeOK
    <3>2. [detail EXCEPT ![r] = @ + actual] \in [Requests -> Nat]
      BY <3>1, Added
    <3> QED
      BY <2>1, <3>1, <3>2
  <2>3. /\ SubscriptionTypeOK'
        /\ balance' \in [Tenants -> Int]
        /\ ledger' \in [Requests -> Int]
        /\ reservation' \in [Requests -> ReservationType]
        /\ UNCHANGED <<credited, turns>>
    BY <2>1, FinishType
  <2> QED
    BY <2>1, <2>2, <2>3 DEF TypeOK, ReservationTypeOK
<1>3. ASSUME NEW t \in Tenants, NEW amount \in Int, Credit(t, amount)
      PROVE  TypeOK'
  BY <1>3, Added DEF Credit, MoveBalance, TypeOK, SubscriptionTypeOK, ReservationTypeOK, subscriptionVars
<1> QED
  BY <1>1, <1>2, <1>3, ReserveType, AccrueType, DeletionStepsType, Transactions, Zenon


\* The grants that remain after a step have their parents.
LEMMA ParentStep ==
    ASSUME TypeOK, ChildHasParent, Next
    PROVE  ChildHasParent'
<1>1. UNCHANGED <<child, parent>> => ChildHasParent'
  BY DEF ChildHasParent
<1>2. Administer => ChildHasParent'
  BY AdministrationKeepsParents DEF Administer, TypeOK
<1>3. \A cs : child' = RemoveChildren(cs) /\ UNCHANGED parent => ChildHasParent'
  BY DEF RemoveChildren, NoChild, ChildHasParent
<1>4. ASSUME NEW p \in Parents, MarkMissingBegin(p)
      PROVE  ChildHasParent'
  <2>1. \A q \in Parents : parent'[q].present = parent[q].present
    BY <1>4 DEF MarkMissingBegin, Withdrawn, TypeOK, SubscriptionTypeOK, ParentType
  <2>2. \A c \in Children : child'[c].state = child[c].state /\ child'[c].parent = child[c].parent
    BY <1>4 DEF MarkMissingBegin, TypeOK, SubscriptionTypeOK, ChildType
  <2> QED
    BY <2>1, <2>2 DEF ChildHasParent
<1>5. ASSUME MarkMissingDelete
      PROVE  ChildHasParent'
  <2>1. /\ child' = RemoveChildren(ChildrenOf(missing))
        /\ parent' = [parent EXCEPT ![missing] = NoParent]
    BY <1>5 DEF MarkMissingDelete
  <2>2. ASSUME NEW c \in Children, child'[c].state = "present"
        PROVE  child'[c] = child[c] /\ child[c].parent # missing
    BY <2>1, <2>2 DEF RemoveChildren, NoChild, ChildrenOf
  <2>3. \A q \in Parents : q # missing => parent'[q] = parent[q]
    BY <2>1 DEF TypeOK, SubscriptionTypeOK
  <2> QED
    BY <2>2, <2>3 DEF ChildHasParent
<1>6. /\ \A r, t, c, reserve : Reserve(r, t, c, reserve) => UNCHANGED <<child, parent>>
      /\ \A r, turn, cost : AccrueWebSocketTurn(r, turn, cost) => UNCHANGED <<child, parent>>
      /\ \A t, amount : Credit(t, amount) => UNCHANGED <<child, parent>>
      /\ \A c : DeleteChildCount(c) => UNCHANGED <<child, parent>>
  BY DEF Reserve, AccrueWebSocketTurn, Credit, DeleteChildCount, subscriptionVars
<1>7. \A r : Finish(r) => UNCHANGED <<child, parent>>
  BY DEF Finish, finishReservationTx
<1>8. \A c : DeleteChildSubscription(c) => UNCHANGED parent /\ \E cs : child' = RemoveChildren(cs)
  BY Zenon DEF DeleteChildSubscription
<1>9. \A t : DeleteTenant(t) => UNCHANGED parent /\ \E cs : child' = RemoveChildren(cs)
  BY Zenon DEF DeleteTenant
<1> QED
  BY <1>1, <1>2, <1>3, <1>4, <1>5, <1>6, <1>7, <1>8, <1>9, Transactions, Zenon

-----------------------------------------------------------------------------
(* The ledger *)

\* A reservation that was never admitted, or that went with its tenant, holds
\* and owes nothing.  LedgerExact needs it: admission starts from such a row.
BlankRows ==
    \A r \in Requests : reservation[r].status \in {"none", "purged"} =>
        reservation[r].quotaHeld = 0 /\ reservation[r].actual = 0

\* LedgerExact and BlankRows for one row.
Balanced(row, sum) ==
    /\ sum = IF ~reservationUsesBalance(row) THEN 0
             ELSE IF row.status = "active" THEN -(row.balanceHeld + row.actual)
             ELSE -row.actual
    /\ row.status \in {"none", "purged"} => row.quotaHeld = 0 /\ row.actual = 0

\* The two ledger invariants, request by request.
LEMMA LedgerByRow ==
    /\ LedgerExact /\ BlankRows <=> \A r \in Requests : Balanced(reservation[r], ledger[r])
    /\ (LedgerExact /\ BlankRows)' <=> \A r \in Requests : Balanced(reservation'[r], ledger'[r])
  BY Zenon DEF LedgerExact, BlankRows, Balanced, reservationUsesBalance

\* Every transaction keeps each request's ledger and row in agreement.
LEMMA LedgerStep ==
    ASSUME TypeOK, ChildHasParent, LedgerExact, BlankRows, Next
    PROVE  (LedgerExact /\ BlankRows)'
<1>1. \A r \in Requests : reservation[r] \in ReservationType /\ ledger[r] \in Int
  BY DEF TypeOK, ReservationTypeOK
<1>2. \A r \in Requests : Balanced(reservation[r], ledger[r])
  BY LedgerByRow
<1>3. SUFFICES \A r \in Requests : Balanced(reservation'[r], ledger'[r])
  BY LedgerByRow
<1>4. UNCHANGED <<reservation, ledger>> => \A r \in Requests : Balanced(reservation'[r], ledger'[r])
  BY <1>2
<1>5. ASSUME NEW r \in Requests, NEW t \in Tenants, NEW reserve \in Nat,
             NEW c \in {0} \cup {d \in Children : child[d].owner = t}, Reserve(r, t, c, reserve)
      PROVE  \A s \in Requests : Balanced(reservation'[s], ledger'[s])
  <2> DEFINE held == HeldWindows(c)
  <2>1. held # {} => reserve > 0
    BY <1>5, AdmissionFacts
  <2>2. reservation[r].status = "none"
    BY <1>5 DEF Reserve
  <2>3. ledger[r] = 0
    BY <1>1, <1>2, <2>2 DEF Balanced, reservationUsesBalance, ReservationType
  <2>4. /\ ledger'[r] = -(IF held = {} THEN reserve ELSE 0)
        /\ reservation'[r].status = "active"
        /\ reservation'[r].balanceHeld = IF held = {} THEN reserve ELSE 0
        /\ reservation'[r].quotaHeld = IF held = {} THEN 0 ELSE reserve
        /\ reservation'[r].actual = 0
    BY <1>5, <2>3 DEF Reserve, BalanceHold, TypeOK, ReservationTypeOK
  <2>5. \A s \in Requests : s # r => reservation'[s] = reservation[s] /\ ledger'[s] = ledger[s]
    BY <1>5 DEF Reserve, TypeOK, ReservationTypeOK
  <2> HIDE DEF held
  <2>6. Balanced(reservation'[r], ledger'[r])
    BY <2>1, <2>4 DEF Balanced, reservationUsesBalance
  <2> QED
    BY <1>2, <2>5, <2>6
<1>6. ASSUME NEW r \in Requests, Finish(r)
      PROVE  \A s \in Requests : Balanced(reservation'[s], ledger'[s])
  <2>1. PICK actual \in Nat, status \in Finished : finishReservationTx(r, actual, status)
    BY <1>6 DEF Finish
  <2> DEFINE row == reservation[r]
             final == IF status \in {"settled", "expired"} THEN actual ELSE 0
             delta == Refund(row, final)
  <2>2. /\ row.status = "active"
        /\ ledger'[r] = ledger[r] + delta
        /\ reservation'[r] = Closed(row, status, final)
        /\ \A s \in Requests : s # r => reservation'[s] = reservation[s] /\ ledger'[s] = ledger[s]
    BY <2>1 DEF finishReservationTx, StillActive, TypeOK, ReservationTypeOK
  <2>3. final \in Nat
    OBVIOUS
  <2>4. row \in ReservationType /\ Balanced(row, ledger[r]) /\ ledger[r] \in Int
    BY <1>1, <1>2
  <2> HIDE DEF final, row
  <2>5. /\ Closed(row, status, final).status = status
        /\ Closed(row, status, final).actual = final
        /\ Closed(row, status, final).quotaHeld = row.quotaHeld
        /\ Closed(row, status, final).balanceHeld = row.balanceHeld
    BY <2>4 DEF Closed, ReservationType
  <2>6. row.balanceHeld \in Nat /\ row.actual \in Nat /\ row.quotaHeld \in Nat
    BY <2>4 DEF ReservationType
  <2>7. Balanced(reservation'[r], ledger'[r])
    <3>1. status # "active" /\ status \notin {"none", "purged"}
      BY DEF Finished
    <3>2. CASE row.quotaHeld = 0
      <4>1. ledger[r] = -(row.balanceHeld + row.actual)
        BY <2>2, <2>4, <3>2 DEF Balanced, reservationUsesBalance
      <4>2. delta = row.balanceHeld + row.actual - final
        BY <3>2 DEF Refund, reservationUsesBalance
      <4>3. ledger'[r] = -final
        BY <2>2, <2>3, <2>6, <4>1, <4>2
      <4> QED
        BY <2>2, <2>5, <3>1, <3>2, <4>3 DEF Balanced, reservationUsesBalance
    <3>3. CASE row.quotaHeld # 0
      <4>1. ledger[r] = 0 /\ delta = 0
        BY <2>4, <3>3 DEF Balanced, Refund, reservationUsesBalance
      <4>2. ledger'[r] = 0
        BY <2>2, <4>1
      <4> QED
        BY <2>2, <2>5, <3>1, <3>3, <4>2 DEF Balanced, reservationUsesBalance
    <3> QED
      BY <3>2, <3>3
  <2> QED
    BY <1>2, <2>2, <2>7
<1>7. ASSUME NEW r \in Requests, NEW turn \in Turns, NEW cost \in Nat, AccrueWebSocketTurn(r, turn, cost)
      PROVE  \A s \in Requests : Balanced(reservation'[s], ledger'[s])
  <2> DEFINE row == reservation[r]
             debit == IF reservationUsesBalance(row) THEN cost ELSE 0
  <2>1. /\ row.status = "active"
        /\ ledger'[r] = ledger[r] - debit
        /\ reservation'[r] = Accrued(row, cost)
        /\ \A s \in Requests : s # r => reservation'[s] = reservation[s] /\ ledger'[s] = ledger[s]
    BY <1>7 DEF AccrueWebSocketTurn, TypeOK, ReservationTypeOK
  <2>2. row \in ReservationType /\ Balanced(row, ledger[r]) /\ ledger[r] \in Int
    BY <1>1, <1>2
  <2> HIDE DEF row
  <2>3. /\ Accrued(row, cost).status = row.status
        /\ Accrued(row, cost).actual = row.actual + cost
        /\ Accrued(row, cost).quotaHeld = row.quotaHeld
        /\ Accrued(row, cost).balanceHeld = row.balanceHeld
    BY <2>2 DEF Accrued, ReservationType
  <2>4. row.balanceHeld \in Nat /\ row.actual \in Nat /\ row.quotaHeld \in Nat
    BY <2>2 DEF ReservationType
  <2>5. Balanced(reservation'[r], ledger'[r])
    BY <2>1, <2>2, <2>3, <2>4 DEF Balanced, reservationUsesBalance
  <2> QED
    BY <1>2, <2>1, <2>5
<1>8. ASSUME NEW cs, NEW p, reservation' = ForgetChildren(cs, p), UNCHANGED ledger
      PROVE  \A s \in Requests : Balanced(reservation'[s], ledger'[s])
  <2>1. ASSUME NEW row \in ReservationType
        PROVE  /\ Forgetting(row, cs, p).status = row.status
               /\ Forgetting(row, cs, p).actual = row.actual
               /\ Forgetting(row, cs, p).quotaHeld = row.quotaHeld
               /\ Forgetting(row, cs, p).balanceHeld = row.balanceHeld
    BY DEF Forgetting, ReservationType
  <2>2. \A s \in Requests : reservation'[s] = Forgetting(reservation[s], cs, p) /\ ledger'[s] = ledger[s]
    BY <1>8 DEF ForgetChildren
  <2>3. ASSUME NEW s \in Requests
        PROVE  Balanced(Forgetting(reservation[s], cs, p), ledger[s])
    <3> DEFINE row == reservation[s]
               new == Forgetting(row, cs, p)
    <3>1. row \in ReservationType /\ Balanced(row, ledger[s])
      BY <1>1, <1>2
    <3>2. /\ new.status = row.status /\ new.actual = row.actual
          /\ new.quotaHeld = row.quotaHeld /\ new.balanceHeld = row.balanceHeld
      BY <2>1, <3>1
    <3> HIDE DEF row, new
    <3>3. Balanced(new, ledger[s])
      BY <3>1, <3>2 DEF Balanced, reservationUsesBalance
    <3> QED
      BY <3>3 DEF new, row
  <2> QED
    BY <2>2, <2>3, Zenon
<1>9. ASSUME NEW t \in Tenants, DeleteTenant(t)
      PROVE  \A s \in Requests : Balanced(reservation'[s], ledger'[s])
  <2>1. \A s \in Requests :
           \/ reservation'[s] = NoReservation("purged") /\ ledger'[s] = 0
           \/ reservation'[s] = reservation[s] /\ ledger'[s] = ledger[s]
    BY <1>9 DEF DeleteTenant
  <2>2. Balanced(NoReservation("purged"), 0)
    <3> DEFINE blank == NoReservation("purged")
    <3>1. blank.status = "purged" /\ blank.quotaHeld = 0 /\ blank.actual = 0 /\ blank.actual \in Int
      BY DEF NoReservation
    <3> HIDE DEF blank
    <3>2. -blank.actual = 0
      <4>1. \A n \in Int : -n = 0 - n
        OBVIOUS
      <4>2. \A n \in Int : n = 0 => 0 - n = 0
        OBVIOUS
      <4> QED
        BY <3>1, <4>1, <4>2, Zenon
    <3>3. Balanced(blank, 0)
      BY <3>1, <3>2, Zenon DEF Balanced, reservationUsesBalance
    <3> QED
      BY <3>3 DEF blank
  <2> QED
    BY <1>2, <2>1, <2>2
<1>10. /\ Administer => UNCHANGED <<reservation, ledger>>
       /\ \A t, amount : Credit(t, amount) => UNCHANGED <<reservation, ledger>>
       /\ \A c : DeleteChildCount(c) => UNCHANGED <<reservation, ledger>>
       /\ \A p : MarkMissingBegin(p) => UNCHANGED <<reservation, ledger>>
  BY DEF Administer, Credit, DeleteChildCount, MarkMissingBegin, reservationVars, moneyVars
<1>11. /\ MarkMissingDelete => UNCHANGED ledger /\ \E cs, p : reservation' = ForgetChildren(cs, p)
       /\ \A c : DeleteChildSubscription(c) =>
             UNCHANGED ledger /\ \E cs, p : reservation' = ForgetChildren(cs, p)
  BY Zenon DEF MarkMissingDelete, DeleteChildSubscription, moneyVars
<1> QED
  BY <1>4, <1>5, <1>6, <1>7, <1>8, <1>9, <1>10, <1>11, Transactions, Zenon


-----------------------------------------------------------------------------
(* Ownership *)

\* No transaction leaves a request charging a child of somebody else, or a deleted one.
LEMMA OwnStep ==
    ASSUME TypeOK, ChildHasParent, OwnChild, Next
    PROVE  OwnChild'
<1> DEFINE Own(r) == LET c == reservation[r].child IN
                       c # 0 => child[c].state = "present" /\ child[c].owner = reservation[r].owner
           OwnNext(r) == LET c == reservation'[r].child IN
                       c # 0 => child'[c].state = "present" /\ child'[c].owner = reservation'[r].owner
<1>1. \A r \in Requests : Own(r) /\ reservation[r] \in ReservationType
  BY DEF OwnChild, TypeOK, ReservationTypeOK
<1>2. \A r \in Requests : reservation[r].child \in Children \cup {0}
  BY <1>1 DEF ReservationType
<1>3. SUFFICES ASSUME NEW r \in Requests
               PROVE  OwnNext(r)
  BY DEF OwnChild
<1>4. ASSUME reservation'[r].child = reservation[r].child,
             reservation'[r].owner = reservation[r].owner,
             \A c \in Children : child[c].state = "present" =>
                 child'[c].state = "present" /\ child'[c].owner = child[c].owner
      PROVE  OwnNext(r)
  BY <1>1, <1>2, <1>4
<1>5. Administer => OwnNext(r)
  <2>1. Administer => SubscriptionNext /\ UNCHANGED reservation
    BY DEF Administer, reservationVars
  <2> QED
    BY <1>4, <2>1, AdministrationKeepsOwners DEF TypeOK
<1>6. ASSUME NEW q \in Requests, NEW t \in Tenants, NEW reserve \in Nat,
             NEW c \in {0} \cup {d \in Children : child[d].owner = t}, Reserve(q, t, c, reserve)
      PROVE  OwnNext(r)
  <2>1. c # 0 => child[c].state = "present" /\ child[c].owner = t
    BY <1>6 DEF Reserve, ReserveErrors, Usable
  <2>2. reservation'[q].child = c /\ reservation'[q].owner = t
    BY <1>6 DEF Reserve, TypeOK, ReservationTypeOK
  <2>3. q # r => reservation'[r] = reservation[r]
    BY <1>6 DEF Reserve, TypeOK, ReservationTypeOK
  <2>4. UNCHANGED child
    BY <1>6 DEF Reserve
  <2> QED
    BY <1>4, <2>1, <2>2, <2>3, <2>4
<1>7. ASSUME NEW q \in Requests, Finish(q)
      PROVE  OwnNext(r)
  <2>1. PICK actual \in Nat, status \in Finished : finishReservationTx(q, actual, status)
    BY <1>7 DEF Finish
  <2>2. \A s, n : /\ Closed(reservation[r], s, n).child = reservation[r].child
                  /\ Closed(reservation[r], s, n).owner = reservation[r].owner
    BY <1>1 DEF Closed, ReservationType
  <2>3. \/ reservation'[r] = reservation[r]
        \/ \E s, n : reservation'[r] = Closed(reservation[r], s, n)
    BY <2>1 DEF finishReservationTx, TypeOK, ReservationTypeOK
  <2>4. UNCHANGED child
    BY <2>1 DEF finishReservationTx
  <2>5. reservation'[r].child = reservation[r].child /\ reservation'[r].owner = reservation[r].owner
    BY <2>2, <2>3
  <2> QED
    BY <1>4, <2>4, <2>5
<1>8. ASSUME NEW q \in Requests, NEW turn, NEW cost, AccrueWebSocketTurn(q, turn, cost)
      PROVE  OwnNext(r)
  <2>1. Accrued(reservation[r], cost).child = reservation[r].child
        /\ Accrued(reservation[r], cost).owner = reservation[r].owner
    BY <1>1 DEF Accrued, ReservationType
  <2>2. reservation'[r] = reservation[r] \/ reservation'[r] = Accrued(reservation[r], cost)
    BY <1>8 DEF AccrueWebSocketTurn, TypeOK, ReservationTypeOK
  <2>3. UNCHANGED child
    BY <1>8 DEF AccrueWebSocketTurn
  <2> QED
    BY <1>4, <2>1, <2>2, <2>3
<1>9. ASSUME NEW cs, NEW p, reservation' = ForgetChildren(cs, p), child' = RemoveChildren(cs)
      PROVE  OwnNext(r)
  <2>1. reservation'[r] = Forgetting(reservation[r], cs, p)
    BY <1>9 DEF ForgetChildren
  <2>2. /\ reservation'[r].owner = reservation[r].owner
        /\ reservation'[r].child = IF reservation[r].child \in cs THEN 0 ELSE reservation[r].child
    BY <1>1, <2>1 DEF Forgetting, ReservationType
  <2>3. \A c \in Children : c \notin cs => child'[c] = child[c]
    BY <1>9 DEF RemoveChildren
  <2> QED
    BY <1>1, <1>2, <2>2, <2>3
<1>10. ASSUME NEW p \in Parents, MarkMissingBegin(p)
       PROVE  OwnNext(r)
  <2>1. \A c \in Children : child'[c].state = child[c].state /\ child'[c].owner = child[c].owner
    BY <1>10 DEF MarkMissingBegin, TypeOK, SubscriptionTypeOK, ChildType
  <2>2. UNCHANGED reservation
    BY <1>10 DEF MarkMissingBegin
  <2> QED
    BY <1>4, <2>1, <2>2
<1>11. ASSUME NEW t \in Tenants, DeleteTenant(t)
       PROVE  OwnNext(r)
  <2>1. CASE reservation[r].owner = t
    <3>1. reservation'[r] = NoReservation("purged")
      BY <1>11, <2>1 DEF DeleteTenant
    <3> QED
      BY <3>1 DEF NoReservation
  <2>2. CASE reservation[r].owner # t
    <3>1. reservation'[r] = reservation[r]
      BY <1>11, <2>2 DEF DeleteTenant
    <3>2. \A c \in Children : child[c].owner # t => child'[c] = child[c]
      BY <1>11 DEF DeleteTenant, RemoveChildren
    <3> QED
      BY <1>1, <1>2, <2>2, <3>1, <3>2
  <2> QED
    BY <2>1, <2>2
<1>12. UNCHANGED <<reservation, child>> => OwnNext(r)
  BY <1>4
<1>13. /\ \A t, amount : Credit(t, amount) => UNCHANGED <<reservation, child>>
       /\ \A c : DeleteChildCount(c) => UNCHANGED <<reservation, child>>
  BY DEF Credit, DeleteChildCount, subscriptionVars
<1>14. /\ MarkMissingDelete =>
             \E cs, p : reservation' = ForgetChildren(cs, p) /\ child' = RemoveChildren(cs)
       /\ \A c : DeleteChildSubscription(c) =>
             \E cs, p : reservation' = ForgetChildren(cs, p) /\ child' = RemoveChildren(cs)
  BY Zenon DEF MarkMissingDelete, DeleteChildSubscription
<1> HIDE DEF OwnNext
<1> QED
  BY <1>5, <1>6, <1>7, <1>8, <1>9, <1>10, <1>11, <1>12, <1>13, <1>14, Transactions, Zenon


-----------------------------------------------------------------------------
(* Balances *)

\* Any set of requests is finite, and NULL is no tenant.
LEMMA RowSets ==
    /\ \A S : S \subseteq Requests => IsFiniteSet(S)
    /\ 0 \notin Tenants
<1>1. IsFiniteSet(Requests) /\ 0 \notin Tenants
  BY RowAssumption, Zenon
<1> QED
  BY <1>1, FS_Subset

\* Money that moves between one request's ledger rows and its tenant's
\* balance leaves every balance explained.
LEMMA MoneyMoves ==
    ASSUME TypeOK, BalanceExact, NEW r \in Requests, NEW o, NEW d \in Int,
           \A t \in Tenants : balance'[t] = IF t = o THEN balance[t] + d ELSE balance[t],
           \A s \in Requests : ledger'[s] = IF s = r THEN ledger[s] + d ELSE ledger[s],
           UNCHANGED credited,
           reservation'[r].owner = o,
           reservation[r].owner = o \/ ledger[r] = 0,
           \A s \in Requests : s # r => reservation'[s].owner = reservation[s].owner
    PROVE  BalanceExact'
<1> SUFFICES ASSUME NEW t \in Tenants
             PROVE  balance'[t] = credited'[t]
                       + Total(ledger', {s \in Requests : reservation'[s].owner = t})
  BY DEF BalanceExact
<1> DEFINE S == {s \in Requests : reservation[s].owner = t}
           T == {s \in Requests : reservation'[s].owner = t}
<1>1. /\ \A s \in Requests : ledger[s] \in Int
      /\ balance[t] \in Int /\ credited[t] \in Int
  BY DEF TypeOK, ReservationTypeOK
<1>2. \A s \in Requests : ledger'[s] \in Int
  BY <1>1
<1>3. IsFiniteSet(S) /\ IsFiniteSet(T) /\ S \subseteq Requests /\ T \subseteq Requests
  BY RowSets
<1>4. S \ {r} = T \ {r}
  OBVIOUS
<1>5. (r \in S <=> reservation[r].owner = t) /\ (r \in T <=> o = t)
  OBVIOUS
<1>6. balance[t] = credited[t] + Total(ledger, S)
  BY DEF BalanceExact
<1> HIDE DEF S, T
<1>7. /\ Total(ledger, S) \in Int
      /\ Total(ledger', T) \in Int
      /\ Total(ledger', T) = Total(ledger, S) - (IF r \in S THEN ledger[r] ELSE 0)
                                              + (IF r \in T THEN ledger'[r] ELSE 0)
  <2>1. /\ \A y \in S : ledger[y] \in Int
        /\ \A y \in T : ledger'[y] \in Int
        /\ \A y \in S \ {r} : ledger[y] = ledger'[y]
    BY <1>1, <1>2, <1>3
  <2> QED
    BY <1>3, <1>4, <2>1, TotalChange
<1>8. Total(ledger', T) = Total(ledger, S) + (IF t = o THEN d ELSE 0)
  <2>1. ledger[r] \in Int /\ ledger'[r] = ledger[r] + d
    BY <1>1
  <2> QED
    BY <1>5, <1>7, <2>1
<1>9. balance'[t] = credited[t] + Total(ledger', T)
  BY <1>1, <1>6, <1>7, <1>8
<1> QED
  BY <1>9 DEF T

\* Every transaction leaves every balance explained by ledger rows.
LEMMA BalanceStep ==
    ASSUME TypeOK, ChildHasParent, LedgerExact, BlankRows, BalanceExact, Next
    PROVE  BalanceExact'
<1>1. /\ \A s \in Requests : reservation[s] \in ReservationType /\ ledger[s] \in Int
      /\ balance \in [Tenants -> Int] /\ ledger \in [Requests -> Int]
      /\ reservation \in [Requests -> ReservationType]
  BY DEF TypeOK, ReservationTypeOK
<1>2. ASSUME NEW r \in Requests, NEW t \in Tenants, NEW reserve \in Nat,
             NEW c \in {0} \cup {d \in Children : child[d].owner = t}, Reserve(r, t, c, reserve)
      PROVE  BalanceExact'
  <2> DEFINE d == -BalanceHold(c, reserve)
  <2>1. BalanceHold(c, reserve) \in Int /\ d \in Int
    BY DEF BalanceHold
  <2>2. /\ balance' = [balance EXCEPT ![t] = @ + d]
        /\ ledger' = [ledger EXCEPT ![r] = @ - BalanceHold(c, reserve)]
        /\ UNCHANGED credited
        /\ reservation'[r].owner = t
        /\ reservation[r].status = "none"
        /\ \A s \in Requests : s # r => reservation'[s] = reservation[s]
    BY <1>1, <1>2 DEF Reserve, MoveBalance
  <2>3. ledger[r] = 0
    <3>1. Balanced(reservation[r], ledger[r])
      BY LedgerByRow
    <3> QED
      BY <1>1, <2>2, <3>1 DEF Balanced, reservationUsesBalance, ReservationType
  <2>4. \A s \in Requests : ledger'[s] = IF s = r THEN ledger[s] + d ELSE ledger[s]
    BY <1>1, <2>1, <2>2
  <2> HIDE DEF d
  <2>5. \A u \in Tenants : balance'[u] = IF u = t THEN balance[u] + d ELSE balance[u]
    BY <1>1, <2>1, <2>2
  <2> QED
    BY <2>1, <2>2, <2>3, <2>4, <2>5, MoneyMoves
<1>3. ASSUME NEW r \in Requests, Finish(r)
      PROVE  BalanceExact'
  <2>1. PICK actual \in Nat, status \in Finished : finishReservationTx(r, actual, status)
    BY <1>3 DEF Finish
  <2> DEFINE row == reservation[r]
             final == IF status \in {"settled", "expired"} THEN actual ELSE 0
             d == Refund(row, final)
  <2>2. /\ balance' = [balance EXCEPT ![row.owner] = @ + d]
        /\ ledger' = [ledger EXCEPT ![r] = @ + d]
        /\ UNCHANGED credited
        /\ reservation' = [reservation EXCEPT ![r] = Closed(@, status, final)]
    BY <2>1, Zenon DEF finishReservationTx, MoveBalance
  <2>3. final \in Nat /\ row.balanceHeld \in Nat /\ row.actual \in Nat
    BY <1>1 DEF ReservationType
  <2>4. Closed(row, status, final).owner = row.owner
    BY <1>1 DEF Closed, ReservationType
  <2> HIDE DEF final
  <2>5. d \in Int
    BY <2>3 DEF Refund
  <2>6. /\ reservation'[r].owner = row.owner
        /\ \A s \in Requests : s # r => reservation'[s].owner = reservation[s].owner
    BY <1>1, <2>2, <2>4
  <2> HIDE DEF d
  <2>7. \A s \in Requests : ledger'[s] = IF s = r THEN ledger[s] + d ELSE ledger[s]
    BY <1>1, <2>2
  <2>8. \A u \in Tenants : balance'[u] = IF u = row.owner THEN balance[u] + d ELSE balance[u]
    BY <1>1, <2>2
  <2> QED
    BY <2>2, <2>5, <2>6, <2>7, <2>8, MoneyMoves
<1>4. ASSUME NEW r \in Requests, NEW turn \in Turns, NEW cost \in Nat, AccrueWebSocketTurn(r, turn, cost)
      PROVE  BalanceExact'
  <2> DEFINE row == reservation[r]
             debit == IF reservationUsesBalance(row) THEN cost ELSE 0
             d == -debit
  <2>1. /\ balance' = [balance EXCEPT ![row.owner] = @ + d]
        /\ ledger' = [ledger EXCEPT ![r] = @ - debit]
        /\ UNCHANGED credited
        /\ reservation' = [reservation EXCEPT ![r] = Accrued(@, cost)]
    BY <1>4, Zenon DEF AccrueWebSocketTurn, MoveBalance
  <2>2. Accrued(row, cost).owner = row.owner
    BY <1>1 DEF Accrued, ReservationType
  <2>3. debit \in Int /\ d \in Int
    OBVIOUS
  <2>4. /\ reservation'[r].owner = row.owner
        /\ \A s \in Requests : s # r => reservation'[s].owner = reservation[s].owner
    BY <1>1, <2>1, <2>2
  <2> HIDE DEF debit
  <2>5. \A s \in Requests : ledger'[s] = IF s = r THEN ledger[s] + d ELSE ledger[s]
    BY <1>1, <2>1, <2>3
  <2> HIDE DEF d
  <2>6. \A u \in Tenants : balance'[u] = IF u = row.owner THEN balance[u] + d ELSE balance[u]
    BY <1>1, <2>1, <2>3
  <2> QED
    BY <2>1, <2>3, <2>4, <2>5, <2>6, MoneyMoves
<1>5. ASSUME UNCHANGED <<balance, credited, ledger>>,
             \A s \in Requests : reservation'[s].owner = reservation[s].owner
      PROVE  BalanceExact'
  <2>1. \A t : {s \in Requests : reservation'[s].owner = t} = {s \in Requests : reservation[s].owner = t}
    BY <1>5
  <2> QED
    BY <1>5, <2>1 DEF BalanceExact
<1>6. ASSUME NEW t \in Tenants, NEW amount \in Int, Credit(t, amount)
      PROVE  BalanceExact'
  <2> SUFFICES ASSUME NEW u \in Tenants
               PROVE  balance'[u] = credited'[u]
                         + Total(ledger', {s \in Requests : reservation'[s].owner = u})
    BY DEF BalanceExact
  <2> DEFINE S == {s \in Requests : reservation[s].owner = u}
  <2>1. /\ balance' = [balance EXCEPT ![t] = @ + amount]
        /\ credited' = [credited EXCEPT ![t] = @ + amount]
        /\ UNCHANGED <<ledger, reservation>>
    BY <1>6 DEF Credit, MoveBalance
  <2>2. balance[u] = credited[u] + Total(ledger, S)
    BY DEF BalanceExact
  <2>3. Total(ledger, S) \in Int
    BY <1>1, RowSets, TotalType
  <2>4. balance[u] \in Int /\ credited[u] \in Int
    BY DEF TypeOK, ReservationTypeOK
  <2>5. /\ balance'[u] = IF u = t THEN balance[u] + amount ELSE balance[u]
        /\ credited'[u] = IF u = t THEN credited[u] + amount ELSE credited[u]
    BY <2>1 DEF TypeOK, ReservationTypeOK
  <2>6. Total(ledger', {s \in Requests : reservation'[s].owner = u}) = Total(ledger, S)
    BY <2>1
  <2> HIDE DEF S
  <2> QED
    BY <2>2, <2>3, <2>4, <2>5, <2>6
<1>7. ASSUME NEW t \in Tenants, DeleteTenant(t)
      PROVE  BalanceExact'
  <2> SUFFICES ASSUME NEW u \in Tenants
               PROVE  balance'[u] = credited'[u]
                         + Total(ledger', {s \in Requests : reservation'[s].owner = u})
    BY DEF BalanceExact
  <2> DEFINE S == {s \in Requests : reservation[s].owner = u}
             T == {s \in Requests : reservation'[s].owner = u}
  <2>1. /\ balance' = [balance EXCEPT ![t] = 0]
        /\ credited' = [credited EXCEPT ![t] = 0]
        /\ \A s \in Requests :
              IF reservation[s].owner = t
              THEN reservation'[s] = NoReservation("purged") /\ ledger'[s] = 0
              ELSE reservation'[s] = reservation[s] /\ ledger'[s] = ledger[s]
    BY <1>7 DEF DeleteTenant
  <2>2. NoReservation("purged").owner # u
    BY RowSets DEF NoReservation
  <2>3. CASE u = t
    <3>1. T = {}
      BY <2>1, <2>2, <2>3
    <3>2. Total(ledger', T) = 0
      BY <3>1, RowSets, TotalType
    <3>3. balance'[u] = 0 /\ credited'[u] = 0
      BY <2>1, <2>3 DEF TypeOK, ReservationTypeOK
    <3> QED
      BY <3>2, <3>3
  <2>4. CASE u # t
    <3>1. T = S
      BY <2>1, <2>2, <2>4
    <3>2. \A s \in S : ledger[s] = ledger'[s]
      BY <2>1, <2>4
    <3>3. Total(ledger', T) = Total(ledger, S)
      <4> HIDE DEF S, T
      <4> QED
        BY <3>1, <3>2, TotalSame
    <3>4. balance'[u] = balance[u] /\ credited'[u] = credited[u]
      BY <2>1, <2>4 DEF TypeOK, ReservationTypeOK
    <3>5. balance[u] = credited[u] + Total(ledger, S)
      BY DEF BalanceExact
    <3> QED
      BY <3>3, <3>4, <3>5
  <2> QED
    BY <2>3, <2>4
<1>8. ASSUME NEW cs, NEW p, reservation' = ForgetChildren(cs, p)
      PROVE  \A s \in Requests : reservation'[s].owner = reservation[s].owner
  <2>1. \A row \in ReservationType : Forgetting(row, cs, p).owner = row.owner
    BY DEF Forgetting, ReservationType
  <2> QED
    BY <1>1, <1>8, <2>1 DEF ForgetChildren
<1>9. /\ Administer => UNCHANGED <<balance, credited, ledger, reservation>>
      /\ \A c : DeleteChildCount(c) => UNCHANGED <<balance, credited, ledger, reservation>>
      /\ \A p : MarkMissingBegin(p) => UNCHANGED <<balance, credited, ledger, reservation>>
  BY DEF Administer, DeleteChildCount, MarkMissingBegin, reservationVars, moneyVars
<1>10. /\ MarkMissingDelete => UNCHANGED moneyVars /\ \E cs, p : reservation' = ForgetChildren(cs, p)
       /\ \A c : DeleteChildSubscription(c) =>
             UNCHANGED moneyVars /\ \E cs, p : reservation' = ForgetChildren(cs, p)
  BY Zenon DEF MarkMissingDelete, DeleteChildSubscription
<1>11. /\ UNCHANGED <<balance, credited, ledger, reservation>> => BalanceExact'
       /\ (UNCHANGED moneyVars /\ \E cs, p : reservation' = ForgetChildren(cs, p)) => BalanceExact'
  BY <1>5, <1>8, Zenon DEF moneyVars
<1> QED
  BY <1>2, <1>3, <1>4, <1>6, <1>7, <1>9, <1>10, <1>11, Transactions, Zenon

-----------------------------------------------------------------------------
(* The inductive invariant and what follows from it *)

\* ChildHasParent makes admission well typed, BlankRows makes LedgerExact
\* inductive; OwnChild needs only the types.
StoreInv == TypeOK /\ ChildHasParent /\ OwnChild /\ LedgerExact /\ BlankRows

\* The empty tables satisfy it.
LEMMA StoreInit == Init => StoreInv
<1> SUFFICES ASSUME Init
             PROVE  StoreInv
  OBVIOUS
<1>1. SubscriptionTypeOK
  BY EmptyRows, BoundsAssumption DEF Init, SubscriptionInit, SubscriptionTypeOK, Times, TenantType
<1>2. ReservationTypeOK
  BY NoReservationType DEF Init, ReservationInit, ReservationTypeOK
<1>3. ChildHasParent
  BY DEF Init, SubscriptionInit, ChildHasParent, NoChild
<1>4. OwnChild
  BY DEF Init, ReservationInit, OwnChild, NoReservation
<1>5. BlankRows
  BY DEF Init, ReservationInit, BlankRows, NoReservation
<1>6. LedgerExact
  <2>1. \A r \in Requests : /\ ledger[r] = 0
                            /\ reservation[r].status = "none"
                            /\ -reservation[r].actual = 0
    <3>1. \A r \in Requests : reservation[r].actual \in Int /\ reservation[r].actual = 0
      BY DEF Init, ReservationInit, NoReservation
    <3>2. \A n \in Int : -n = 0 - n
      OBVIOUS
    <3>3. \A n \in Int : n = 0 => 0 - n = 0
      OBVIOUS
    <3>4. \A r \in Requests : -reservation[r].actual = 0
      BY <3>1, <3>2, <3>3, Zenon
    <3> QED
      BY <3>4 DEF Init, ReservationInit, NoReservation
  <2> QED
    BY <2>1, Zenon DEF LedgerExact
<1> QED
  BY <1>1, <1>2, <1>3, <1>4, <1>5, <1>6 DEF TypeOK, StoreInv

\* Every transaction keeps it.
LEMMA StoreStep == StoreInv /\ [Next]_storeVars => StoreInv'
<1>1. StoreInv /\ Next => StoreInv'
  BY TypeStep, ParentStep, OwnStep, LedgerStep DEF StoreInv
<1>2. StoreInv /\ UNCHANGED storeVars => StoreInv'
  BY DEF StoreInv, TypeOK, SubscriptionTypeOK, ReservationTypeOK, ChildHasParent, OwnChild,
         LedgerExact, BlankRows, storeVars, subscriptionVars, reservationVars
<1> QED
  BY <1>1, <1>2

\* The store's inductive invariant holds in every reachable state: types,
\* parents of children, owners of charged children, and the ledger of every
\* reservation with the rows that were never admitted or were purged.
THEOREM StoreInvariant == Spec => []StoreInv
  BY StoreInit, StoreStep, PTL DEF Spec

\* Type correctness of the whole store, for every instance: each operation
\* of internal/store/subscriptions.go keeps the rows of every table well
\* formed, although settlement and deletion meet in any order.
THEOREM TypeCorrect == Spec => []TypeOK
<1>1. StoreInv => TypeOK
  BY DEF StoreInv
<1> QED
  BY <1>1, StoreInvariant, PTL

\* Whatever the number of requests and the order of admission, turns,
\* settlement, release, expiry and deletion, a request's ledger rows add up
\* to what it holds and owes (finishReservationTx and its callers).
THEOREM LedgerCorrect == Spec => []LedgerExact
<1>1. StoreInv => LedgerExact
  BY DEF StoreInv
<1> QED
  BY <1>1, StoreInvariant, PTL

\* No order of grants, moves and deletions leaves a request charging a child
\* that is gone or that belongs to another tenant.
THEOREM OwnershipCorrect == Spec => []OwnChild
<1>1. StoreInv => OwnChild
  BY DEF StoreInv
<1> QED
  BY <1>1, StoreInvariant, PTL

\* No grant outlives its parent.
THEOREM ParentsCorrect == Spec => []ChildHasParent
<1>1. StoreInv => ChildHasParent
  BY DEF StoreInv
<1> QED
  BY <1>1, StoreInvariant, PTL

-----------------------------------------------------------------------------
(* Action properties *)

\* One step leaves a finished reservation alone, or purges it.
Kept(r) == \/ reservation'[r].status = "purged"
           \/ /\ reservation'[r].status = reservation[r].status
              /\ reservation'[r].actual = reservation[r].actual
              /\ ledger'[r] = ledger[r]

\* No transaction changes a finished reservation, except deleting its tenant.
LEMMA FinishedStep ==
    ASSUME TypeOK, Next, NEW r \in Requests, reservation[r].status \in Finished
    PROVE  Kept(r)
<1>0. /\ reservation[r].status \notin {"none", "active"}
      /\ reservation[r] \in ReservationType
  BY DEF Finished, TypeOK, ReservationTypeOK
<1>1. reservation'[r] = reservation[r] /\ ledger'[r] = ledger[r] => Kept(r)
  BY DEF Kept
<1>2. ASSUME NEW q \in Requests, NEW t, NEW c, NEW reserve, Reserve(q, t, c, reserve)
      PROVE  Kept(r)
  <2>1. q # r
    BY <1>0, <1>2 DEF Reserve
  <2> QED
    BY <1>1, <1>2, <2>1 DEF Reserve, TypeOK, ReservationTypeOK
<1>3. ASSUME NEW q \in Requests, Finish(q)
      PROVE  Kept(r)
  <2>1. PICK actual \in Nat, status \in Finished : finishReservationTx(q, actual, status)
    BY <1>3 DEF Finish
  <2>2. q # r
    BY <1>0, <2>1 DEF finishReservationTx, StillActive
  <2> QED
    BY <1>1, <2>1, <2>2 DEF finishReservationTx, TypeOK, ReservationTypeOK
<1>4. ASSUME NEW q \in Requests, NEW turn, NEW cost, AccrueWebSocketTurn(q, turn, cost)
      PROVE  Kept(r)
  <2>1. q # r
    BY <1>0, <1>4 DEF AccrueWebSocketTurn
  <2> QED
    BY <1>1, <1>4, <2>1 DEF AccrueWebSocketTurn, TypeOK, ReservationTypeOK
<1>5. ASSUME NEW cs, NEW p, reservation' = ForgetChildren(cs, p), UNCHANGED ledger
      PROVE  Kept(r)
  <2>1. reservation'[r] = Forgetting(reservation[r], cs, p)
    BY <1>5 DEF ForgetChildren
  <2> QED
    BY <1>0, <1>5, <2>1 DEF Forgetting, ReservationType, Kept
<1>6. ASSUME NEW t \in Tenants, DeleteTenant(t)
      PROVE  Kept(r)
  <2>1. \/ reservation'[r] = NoReservation("purged")
        \/ reservation'[r] = reservation[r] /\ ledger'[r] = ledger[r]
    BY <1>6 DEF DeleteTenant
  <2> QED
    BY <1>1, <2>1 DEF NoReservation, Kept
<1>7. UNCHANGED <<reservation, ledger>> => Kept(r)
  BY <1>1
<1>8. /\ Administer => UNCHANGED <<reservation, ledger>>
      /\ \A t, amount : Credit(t, amount) => UNCHANGED <<reservation, ledger>>
      /\ \A c : DeleteChildCount(c) => UNCHANGED <<reservation, ledger>>
      /\ \A p : MarkMissingBegin(p) => UNCHANGED <<reservation, ledger>>
  BY DEF Administer, Credit, DeleteChildCount, MarkMissingBegin, reservationVars, moneyVars
<1>9. /\ MarkMissingDelete => UNCHANGED ledger /\ \E cs, p : reservation' = ForgetChildren(cs, p)
      /\ \A c : DeleteChildSubscription(c) =>
            UNCHANGED ledger /\ \E cs, p : reservation' = ForgetChildren(cs, p)
  BY Zenon DEF MarkMissingDelete, DeleteChildSubscription, moneyVars
<1> QED
  BY <1>2, <1>3, <1>4, <1>5, <1>6, <1>7, <1>8, <1>9, Transactions, Zenon

\* Settlement is final: a handler, the reclaimer or a credential removal that
\* comes late changes neither the status nor the charge.
THEOREM FinishedCorrect == Spec => FinishedForever
<1>1. TypeOK /\ [Next]_storeVars =>
        [\A r \in Requests : reservation[r].status \in Finished =>
            \/ reservation'[r].status = "purged"
            \/ /\ reservation'[r].status = reservation[r].status
               /\ reservation'[r].actual = reservation[r].actual
               /\ ledger'[r] = ledger[r]]_storeVars
  BY FinishedStep, Zenon DEF Kept
<1> QED
  BY <1>1, TypeCorrect, PTL DEF Spec, FinishedForever


\* One step leaves every remaining child window in its generation or moves it
\* to a later one.
LEMMA GenerationStep ==
    ASSUME TypeOK, ChildHasParent, Next, NEW c \in Children, NEW k \in Kinds, child'[c].state = "present"
    PROVE  childWindow'[c][k].resetsAt >= childWindow[c][k].resetsAt
<1> DEFINE Goal == childWindow'[c][k].resetsAt >= childWindow[c][k].resetsAt
<1>0. childWindow[c][k].resetsAt \in Nat
  BY DEF TypeOK, SubscriptionTypeOK, ChildWindowType
<1>1. childWindow'[c][k].resetsAt = childWindow[c][k].resetsAt => Goal
  BY <1>0
<1>2. Administer => Goal
  BY AdministrationAdvances DEF Administer, TypeOK
<1>3. ASSUME NEW r \in Requests, NEW t \in Tenants, NEW reserve \in Nat,
             NEW d \in {0} \cup {e \in Children : child[e].owner = t}, Reserve(r, t, d, reserve)
      PROVE  Goal
  <2>1. /\ d # 0 => d \in Children /\ child[d].parent \in Parents
        /\ \A j \in HeldWindows(d) : WindowVerdict(d, j, reserve) = "ok"
    <3>1. d \in Children \cup {0}
      OBVIOUS
    <3> QED
      BY <1>3, <3>1, AdmissionFacts
  <2>2. \/ childWindow'[c][k] = childWindow[c][k]
        \/ d = c /\ d # 0 /\ k \in HeldWindows(d) /\ childWindow'[c][k] = AdmittedWindow(d, k, reserve)
    BY <1>3, <2>1 DEF Reserve, TypeOK, SubscriptionTypeOK
  <2>3. ASSUME d = c, d # 0, k \in HeldWindows(d), childWindow'[c][k] = AdmittedWindow(d, k, reserve)
        PROVE  Goal
    <3>1. parentWindow[child[c].parent][k].resetsAt \in Nat
      BY <2>1, <2>3 DEF TypeOK, SubscriptionTypeOK, ParentWindowType
    <3>2. WindowVerdict(c, k, reserve) = "ok"
      BY <2>1, <2>3
    <3>3. ~(parentWindow[child[c].parent][k].resetsAt < childWindow[c][k].resetsAt)
      BY <3>2 DEF WindowVerdict, Over
    <3>4. childWindow'[c][k].resetsAt = parentWindow[child[c].parent][k].resetsAt
      BY <2>3 DEF AdmittedWindow
    <3> QED
      BY <1>0, <3>1, <3>3, <3>4
  <2> QED
    BY <1>1, <2>2, <2>3
<1>4. ASSUME NEW r \in Requests, Finish(r)
      PROVE  Goal
  <2>1. PICK actual \in Nat, status \in Finished : finishReservationTx(r, actual, status)
    BY <1>4 DEF Finish
  <2> DEFINE row == reservation[r]
             final == IF status \in {"settled", "expired"} THEN actual ELSE 0
  <2>2. childWindow' = ChargeWindows(row, -row.quotaHeld, final - row.actual)
    BY <2>1, Zenon DEF finishReservationTx
  <2>3. final \in Int /\ row.actual \in Nat /\ row.quotaHeld \in Nat
    BY DEF TypeOK, ReservationTypeOK, ReservationType
  <2> HIDE DEF row, final
  <2>4. -row.quotaHeld \in Int /\ final - row.actual \in Int
    BY <2>3
  <2> QED
    BY <1>1, <2>2, <2>4, ChargeWindowsType DEF TypeOK, SubscriptionTypeOK
<1>5. ASSUME NEW r \in Requests, NEW turn \in Turns, NEW cost \in Nat, AccrueWebSocketTurn(r, turn, cost)
      PROVE  Goal
  <2>1. childWindow' = ChargeWindows(reservation[r], 0, cost)
    BY <1>5, Zenon DEF AccrueWebSocketTurn
  <2>2. 0 \in Int /\ cost \in Int
    OBVIOUS
  <2> QED
    BY <1>1, <2>1, <2>2, ChargeWindowsType DEF TypeOK, SubscriptionTypeOK
<1>6. ASSUME NEW cs, child' = RemoveChildren(cs), childWindow' = RemoveWindows(cs)
      PROVE  Goal
  <2>1. c \notin cs
    BY <1>6 DEF RemoveChildren, NoChild
  <2> QED
    BY <1>1, <1>6, <2>1 DEF RemoveWindows
<1>7. UNCHANGED childWindow => Goal
  BY <1>1
<1>8. /\ \A t, amount : Credit(t, amount) => UNCHANGED childWindow
      /\ \A d : DeleteChildCount(d) => UNCHANGED childWindow
      /\ \A p : MarkMissingBegin(p) => UNCHANGED childWindow
  BY DEF Credit, DeleteChildCount, MarkMissingBegin, subscriptionVars
<1>9. /\ MarkMissingDelete => \E cs : child' = RemoveChildren(cs) /\ childWindow' = RemoveWindows(cs)
      /\ \A d : DeleteChildSubscription(d) =>
            \E cs : child' = RemoveChildren(cs) /\ childWindow' = RemoveWindows(cs)
      /\ \A t : DeleteTenant(t) => \E cs : child' = RemoveChildren(cs) /\ childWindow' = RemoveWindows(cs)
  BY Zenon DEF MarkMissingDelete, DeleteChildSubscription, DeleteTenant
<1> HIDE DEF Goal
<1>10. Goal
  BY <1>2, <1>3, <1>4, <1>5, <1>6, <1>7, <1>8, <1>9, Transactions, Zenon
<1> QED
  BY <1>10 DEF Goal

\* A child's window is never taken back to a generation that is over, so a
\* spent share cannot be spent again: neither samples, conversions and moves
\* between parents nor admission and late settlement do it.
THEOREM GenerationsCorrect == Spec => GenerationsAdvance
<1>1. StoreInv /\ [Next]_storeVars =>
        [\A c \in Children, k \in Kinds :
            child'[c].state = "present" =>
                childWindow'[c][k].resetsAt >= childWindow[c][k].resetsAt]_storeVars
  BY GenerationStep, Zenon DEF StoreInv
<1> QED
  BY <1>1, StoreInvariant, PTL DEF Spec, GenerationsAdvance

-----------------------------------------------------------------------------
(* Window counters *)

\* The two sums of WindowsExact, and what one row contributes to them.
Pledged(c, k) == Total([r \in Requests |-> reservation[r].quotaHeld],
                       {r \in Holders(c, k) : reservation[r].status = "active"})
Spent(c, k) == Total([r \in Requests |-> reservation[r].actual], Holders(c, k))
Exact(c, k) == childWindow[c][k].reserved = Pledged(c, k) /\ childWindow[c][k].settled = Spent(c, k)

Pledge(row, c, k, window) ==
    IF Holds(row, c, k, window) /\ row.status = "active" THEN row.quotaHeld ELSE 0
Spending(row, c, k, window) == IF Holds(row, c, k, window) THEN row.actual ELSE 0

\* No request holds a generation that its child's window has not reached:
\* what starts a generation from zero finds nobody holding it.
HeldGenerations ==
    \A r \in Requests, k \in Kinds :
        LET row == reservation[r] IN
        row.child # 0 /\ row.quotaHeld > 0 /\ row.windows[k] # 0
            => row.windows[k] <= childWindow[row.child][k].resetsAt

\* WindowsExact window by window.
LEMMA ExactByWindow ==
    /\ WindowsExact <=> \A c \in Children, k \in Kinds : Exact(c, k)
    /\ WindowsExact' <=> \A c \in Children, k \in Kinds : Exact(c, k)'
  BY Zenon DEF WindowsExact, Exact, Pledged, Spent

\* A window nobody holds is exact when it is empty.
LEMMA NoHolders ==
    ASSUME NEW c \in Children, NEW k \in Kinds,
           \A s \in Requests : ~Holds(reservation'[s], c, k, childWindow'[c][k]),
           childWindow'[c][k].reserved = 0, childWindow'[c][k].settled = 0
    PROVE  Exact(c, k)'
<1> DEFINE held == [r \in Requests |-> reservation'[r].quotaHeld]
           actual == [r \in Requests |-> reservation'[r].actual]
<1>1. Holders(c, k)' = {}
  BY DEF Holders
<1>2. {r \in Holders(c, k)' : reservation'[r].status = "active"} = {}
  BY <1>1
<1>3. Total(held, {}) = 0 /\ Total(actual, {}) = 0
  <2> HIDE DEF held, actual
  <2> QED
    BY FS_EmptySet, TotalType
<1>4. Pledged(c, k)' = Total(held, {}) /\ Spent(c, k)' = Total(actual, {})
  BY <1>1, <1>2, Zenon DEF Pledged, Spent
<1> QED
  BY <1>3, <1>4 DEF Exact

\* A window keeps its sums when its holders keep what they contribute.
LEMMA SameHolders ==
    ASSUME NEW c \in Children, NEW k \in Kinds, Exact(c, k), childWindow'[c][k] = childWindow[c][k],
           \A s \in Requests :
              /\ Holds(reservation'[s], c, k, childWindow[c][k]) <=> Holds(reservation[s], c, k, childWindow[c][k])
              /\ Holds(reservation[s], c, k, childWindow[c][k]) =>
                    /\ reservation'[s].status = reservation[s].status
                    /\ reservation'[s].quotaHeld = reservation[s].quotaHeld
                    /\ reservation'[s].actual = reservation[s].actual
    PROVE  Exact(c, k)'
<1> DEFINE S == {r \in Holders(c, k) : reservation[r].status = "active"}
           held == [r \in Requests |-> reservation[r].quotaHeld]
           heldNext == [r \in Requests |-> reservation'[r].quotaHeld]
           actual == [r \in Requests |-> reservation[r].actual]
           actualNext == [r \in Requests |-> reservation'[r].actual]
<1>1. Holders(c, k)' = Holders(c, k)
  BY DEF Holders
<1>2. {r \in Holders(c, k)' : reservation'[r].status = "active"} = S
  BY <1>1 DEF Holders
<1>3. (\A r \in S : held[r] = heldNext[r]) /\ (\A r \in Holders(c, k) : actual[r] = actualNext[r])
  BY DEF Holders
<1>4. /\ Pledged(c, k) = Total(held, S) /\ Pledged(c, k)' = Total(heldNext, S)
      /\ Spent(c, k) = Total(actual, Holders(c, k)) /\ Spent(c, k)' = Total(actualNext, Holders(c, k))
  BY <1>1, <1>2, Zenon DEF Pledged, Spent
<1> HIDE DEF S, held, heldNext, actual, actualNext
<1>5. Total(held, S) = Total(heldNext, S) /\ Total(actual, Holders(c, k)) = Total(actualNext, Holders(c, k))
  BY <1>3, TotalSame
<1> QED
  BY <1>4, <1>5 DEF Exact

\* When one request changes in a generation, the sums change by what it
\* contributes, and they were at least as large.
LEMMA OneHolder ==
    ASSUME TypeOK, TypeOK', NEW c \in Children, NEW k \in Kinds, NEW r \in Requests,
           childWindow'[c][k].resetsAt = childWindow[c][k].resetsAt,
           \A s \in Requests : s # r => reservation'[s] = reservation[s]
    PROVE  LET window == childWindow[c][k]
               before == reservation[r]
               after == reservation'[r]
           IN /\ Pledged(c, k) \in Nat /\ Spent(c, k) \in Nat
              /\ Pledge(before, c, k, window) \in Nat /\ Pledge(before, c, k, window) <= Pledged(c, k)
              /\ Spending(before, c, k, window) \in Nat /\ Spending(before, c, k, window) <= Spent(c, k)
              /\ Pledged(c, k)' = Pledged(c, k) - Pledge(before, c, k, window) + Pledge(after, c, k, window)
              /\ Spent(c, k)' = Spent(c, k) - Spending(before, c, k, window) + Spending(after, c, k, window)
<1> DEFINE window == childWindow[c][k]
           before == reservation[r]
           after == reservation'[r]
           held == [s \in Requests |-> reservation[s].quotaHeld]
           heldNext == [s \in Requests |-> reservation'[s].quotaHeld]
           actual == [s \in Requests |-> reservation[s].actual]
           actualNext == [s \in Requests |-> reservation'[s].actual]
           H == {s \in Requests : Holds(reservation[s], c, k, window)}
           G == {s \in Requests : Holds(reservation'[s], c, k, window)}
           A == {s \in H : reservation[s].status = "active"}
           B == {s \in G : reservation'[s].status = "active"}
<1>1. Holders(c, k) = H /\ Holders(c, k)' = G
  BY DEF Holders, Holds
<1>2. /\ Pledged(c, k) = Total(held, A) /\ Pledged(c, k)' = Total(heldNext, B)
      /\ Spent(c, k) = Total(actual, H) /\ Spent(c, k)' = Total(actualNext, G)
  BY <1>1, Zenon DEF Pledged, Spent
<1>3. /\ \A s \in Requests : held[s] \in Nat /\ actual[s] \in Nat
      /\ \A s \in Requests : heldNext[s] \in Nat /\ actualNext[s] \in Nat
  BY DEF TypeOK, ReservationTypeOK, ReservationType
<1>4. /\ IsFiniteSet(H) /\ IsFiniteSet(G) /\ IsFiniteSet(A) /\ IsFiniteSet(B)
      /\ H \subseteq Requests /\ G \subseteq Requests /\ A \subseteq Requests /\ B \subseteq Requests
  BY RowSets
<1>5. H \ {r} = G \ {r} /\ A \ {r} = B \ {r}
  OBVIOUS
<1>6. \A s \in Requests : s # r => held[s] = heldNext[s] /\ actual[s] = actualNext[s]
  OBVIOUS
<1>7. /\ Pledge(before, c, k, window) = IF r \in A THEN held[r] ELSE 0
      /\ Pledge(after, c, k, window) = IF r \in B THEN heldNext[r] ELSE 0
      /\ Spending(before, c, k, window) = IF r \in H THEN actual[r] ELSE 0
      /\ Spending(after, c, k, window) = IF r \in G THEN actualNext[r] ELSE 0
  BY DEF Pledge, Spending
<1> HIDE DEF window, before, after, held, heldNext, actual, actualNext, H, G, A, B
<1>8. /\ \A y \in A : held[y] \in Nat /\ held[y] \in Int
      /\ \A y \in B : heldNext[y] \in Int
      /\ \A y \in H : actual[y] \in Nat /\ actual[y] \in Int
      /\ \A y \in G : actualNext[y] \in Int
      /\ \A y \in A \ {r} : held[y] = heldNext[y]
      /\ \A y \in H \ {r} : actual[y] = actualNext[y]
  BY <1>3, <1>4, <1>6
<1>9. /\ Total(held, A) \in Nat /\ Total(actual, H) \in Nat
      /\ \A y \in A : held[y] <= Total(held, A)
      /\ \A y \in H : actual[y] <= Total(actual, H)
  BY <1>4, <1>8, TotalOfNaturals
<1>10. Total(heldNext, B) = Total(held, A) - (IF r \in A THEN held[r] ELSE 0)
                                           + (IF r \in B THEN heldNext[r] ELSE 0)
  BY <1>4, <1>5, <1>8, TotalChange
<1>11. Total(actualNext, G) = Total(actual, H) - (IF r \in H THEN actual[r] ELSE 0)
                                               + (IF r \in G THEN actualNext[r] ELSE 0)
  BY <1>4, <1>5, <1>8, TotalChange
<1>12. /\ Pledge(before, c, k, window) \in Nat /\ Pledge(before, c, k, window) <= Total(held, A)
       /\ Spending(before, c, k, window) \in Nat /\ Spending(before, c, k, window) <= Total(actual, H)
  BY <1>7, <1>8, <1>9
<1>13. /\ Pledged(c, k) \in Nat /\ Spent(c, k) \in Nat
       /\ Pledge(before, c, k, window) \in Nat /\ Pledge(before, c, k, window) <= Pledged(c, k)
       /\ Spending(before, c, k, window) \in Nat /\ Spending(before, c, k, window) <= Spent(c, k)
       /\ Pledged(c, k)' = Pledged(c, k) - Pledge(before, c, k, window) + Pledge(after, c, k, window)
       /\ Spent(c, k)' = Spent(c, k) - Spending(before, c, k, window) + Spending(after, c, k, window)
  BY <1>2, <1>7, <1>9, <1>10, <1>11, <1>12
<1> QED
  BY <1>13 DEF window, before, after

\* What admission writes for a window: the row it inserts holds the
\* generation the window is in afterwards, and only held kinds.
LEMMA AdmittedRow ==
    ASSUME TypeOK, ChildHasParent, NEW r \in Requests, NEW t \in Tenants, NEW reserve \in Nat,
           NEW c \in {0} \cup {d \in Children : child[d].owner = t}, Reserve(r, t, c, reserve)
    PROVE  /\ reservation'[r].child = c /\ reservation'[r].status = "active" /\ reservation'[r].actual = 0
           /\ \A k \in Kinds : reservation'[r].windows[k] # 0 => k \in HeldWindows(c)
           /\ c # 0 => \A k \in HeldWindows(c) :
                 /\ reservation'[r].quotaHeld = reserve /\ reserve > 0
                 /\ childWindow'[c][k] = AdmittedWindow(c, k, reserve)
                 /\ reservation'[r].windows[k] = childWindow'[c][k].resetsAt
                 /\ childWindow'[c][k].resetsAt = parentWindow[child[c].parent][k].resetsAt
                 /\ childWindow[c][k].resetsAt <= childWindow'[c][k].resetsAt
                 /\ childWindow'[c][k].resetsAt # 0
           /\ \A d \in Children, k \in Kinds :
                 childWindow'[d][k] = childWindow[d][k] \/ (d = c /\ k \in HeldWindows(c))
           /\ \A s \in Requests : s # r => reservation'[s] = reservation[s]
<1> DEFINE held == HeldWindows(c)
           p == IF c = 0 THEN 0 ELSE child[c].parent
<1>1. /\ c # 0 => c \in Children /\ child[c].parent \in Parents
      /\ held \subseteq Kinds
      /\ held # {} => reserve > 0
      /\ c = 0 => held = {}
      /\ \A k \in held : WindowVerdict(c, k, reserve) = "ok"
  <2>1. c \in Children \cup {0}
    OBVIOUS
  <2> QED
    BY <2>1, AdmissionFacts
<1>2. /\ reservation'[r].child = c /\ reservation'[r].status = "active" /\ reservation'[r].actual = 0
      /\ reservation'[r].quotaHeld = (IF held = {} THEN 0 ELSE reserve)
      /\ reservation'[r].windows = [k \in Kinds |-> IF k \in held THEN parentWindow[p][k].resetsAt ELSE 0]
      /\ childWindow' = IF c = 0 THEN childWindow ELSE [childWindow EXCEPT ![c] =
            [k \in Kinds |-> IF k \in held THEN AdmittedWindow(c, k, reserve) ELSE @[k]]]
      /\ \A s \in Requests : s # r => reservation'[s] = reservation[s]
  BY DEF Reserve, TypeOK, ReservationTypeOK
<1>3. \A d \in Children, k \in Kinds :
         childWindow'[d][k] = IF d = c /\ k \in held THEN AdmittedWindow(c, k, reserve) ELSE childWindow[d][k]
  BY <1>1, <1>2 DEF TypeOK, SubscriptionTypeOK
<1>4. ASSUME c # 0, NEW k \in held
      PROVE  /\ AdmittedWindow(c, k, reserve).resetsAt = parentWindow[p][k].resetsAt
             /\ childWindow[c][k].resetsAt <= parentWindow[p][k].resetsAt
             /\ parentWindow[p][k].resetsAt # 0
  <2>1. p = child[c].parent /\ p \in Parents /\ c \in Children /\ k \in Kinds
    BY <1>1, <1>4
  <2>2. parentWindow[p][k].resetsAt \in Nat /\ childWindow[c][k].resetsAt \in Nat
    BY <2>1 DEF TypeOK, SubscriptionTypeOK, ParentWindowType, ChildWindowType
  <2>3. ~(parentWindow[p][k].resetsAt < childWindow[c][k].resetsAt)
    BY <1>1, <1>4, <2>1 DEF WindowVerdict, Over
  <2>4. parentWindow[p][k].resetsAt # 0
    BY <1>4, <2>1 DEF HeldWindows, ActiveWindows
  <2>5. AdmittedWindow(c, k, reserve).resetsAt = parentWindow[p][k].resetsAt
    BY <2>1 DEF AdmittedWindow
  <2> HIDE DEF p
  <2> QED
    BY <2>2, <2>3, <2>4, <2>5
<1>5. \A k \in Kinds : reservation'[r].windows[k] = IF k \in held THEN parentWindow[p][k].resetsAt ELSE 0
  BY <1>2
<1>6. c # 0 => p = child[c].parent
  OBVIOUS
<1> HIDE DEF held, p
<1>7. ASSUME c # 0, NEW k \in held
      PROVE  /\ reservation'[r].quotaHeld = reserve /\ reserve > 0
             /\ childWindow'[c][k] = AdmittedWindow(c, k, reserve)
             /\ reservation'[r].windows[k] = childWindow'[c][k].resetsAt
             /\ childWindow'[c][k].resetsAt = parentWindow[child[c].parent][k].resetsAt
             /\ childWindow[c][k].resetsAt <= childWindow'[c][k].resetsAt
             /\ childWindow'[c][k].resetsAt # 0
  BY <1>1, <1>2, <1>3, <1>4, <1>5, <1>6, <1>7
<1>8. \A k \in Kinds : reservation'[r].windows[k] # 0 => k \in HeldWindows(c)
  BY <1>5 DEF held
<1>9. \A d \in Children, k \in Kinds :
         childWindow'[d][k] = childWindow[d][k] \/ (d = c /\ k \in HeldWindows(c))
  BY <1>3 DEF held
<1> QED
  BY <1>2, <1>7, <1>8, <1>9, Zenon DEF held

\* What a step other than admission leaves of a row: its windows and its hold
\* stay, its child stays or is forgotten; or it is purged.
Remains(before, after) ==
    \/ after.quotaHeld = 0
    \/ /\ after.quotaHeld = before.quotaHeld
       /\ after.windows = before.windows
       /\ after.child \in {before.child, 0}

\* Only admission gives a row windows to hold.
LEMMA OnlyAdmissionHolds ==
    ASSUME TypeOK, Next, NEW s \in Requests
    PROVE  \/ Remains(reservation[s], reservation'[s])
           \/ \E t \in Tenants, reserve \in Nat :
                 \E c \in {0} \cup {d \in Children : child[d].owner = t} : Reserve(s, t, c, reserve)
<1>1. reservation \in [Requests -> ReservationType] /\ reservation[s] \in ReservationType
  BY DEF TypeOK, ReservationTypeOK
<1>2. reservation'[s] = reservation[s] => Remains(reservation[s], reservation'[s])
  BY DEF Remains
<1>3. ASSUME NEW r \in Requests, NEW t \in Tenants, NEW reserve \in Nat,
             NEW c \in {0} \cup {d \in Children : child[d].owner = t}, Reserve(r, t, c, reserve), r # s
      PROVE  reservation'[s] = reservation[s]
  BY <1>1, <1>3 DEF Reserve
<1>4. ASSUME NEW r \in Requests, Finish(r)
      PROVE  Remains(reservation[s], reservation'[s])
  <2>1. \A x, n : Remains(reservation[s], Closed(reservation[s], x, n))
    BY <1>1 DEF Remains, Closed, ReservationType
  <2>2. \/ reservation'[s] = reservation[s]
        \/ \E x, n : reservation'[s] = Closed(reservation[s], x, n)
    BY <1>1, <1>4 DEF Finish, finishReservationTx
  <2> QED
    BY <1>2, <2>1, <2>2
<1>5. ASSUME NEW r \in Requests, NEW turn, NEW cost, AccrueWebSocketTurn(r, turn, cost)
      PROVE  Remains(reservation[s], reservation'[s])
  <2>1. Remains(reservation[s], Accrued(reservation[s], cost))
    BY <1>1 DEF Remains, Accrued, ReservationType
  <2>2. reservation'[s] = reservation[s] \/ reservation'[s] = Accrued(reservation[s], cost)
    BY <1>1, <1>5 DEF AccrueWebSocketTurn
  <2> QED
    BY <1>2, <2>1, <2>2
<1>6. ASSUME NEW cs, NEW p, reservation' = ForgetChildren(cs, p)
      PROVE  Remains(reservation[s], reservation'[s])
  <2>1. Remains(reservation[s], Forgetting(reservation[s], cs, p))
    BY <1>1 DEF Remains, Forgetting, ReservationType
  <2> QED
    BY <1>6, <2>1 DEF ForgetChildren
<1>7. ASSUME NEW t \in Tenants, DeleteTenant(t)
      PROVE  Remains(reservation[s], reservation'[s])
  <2>1. reservation'[s] = NoReservation("purged") \/ reservation'[s] = reservation[s]
    BY <1>7 DEF DeleteTenant
  <2> QED
    BY <1>2, <2>1 DEF NoReservation, Remains
<1>8. /\ Administer => UNCHANGED reservation
      /\ \A t, amount : Credit(t, amount) => UNCHANGED reservation
      /\ \A c : DeleteChildCount(c) => UNCHANGED reservation
      /\ \A p : MarkMissingBegin(p) => UNCHANGED reservation
  BY DEF Administer, Credit, DeleteChildCount, MarkMissingBegin, reservationVars
<1>9. /\ MarkMissingDelete => \E cs, p : reservation' = ForgetChildren(cs, p)
      /\ \A c : DeleteChildSubscription(c) => \E cs, p : reservation' = ForgetChildren(cs, p)
  BY Zenon DEF MarkMissingDelete, DeleteChildSubscription
<1>10. UNCHANGED reservation => Remains(reservation[s], reservation'[s])
  BY <1>2
<1> QED
  BY <1>2, <1>3, <1>4, <1>5, <1>6, <1>7, <1>8, <1>9, <1>10, Transactions, Zenon

\* No step leaves a request ahead of the window it holds.
LEMMA HeldStep ==
    ASSUME TypeOK, TypeOK', ChildHasParent, OwnChild', HeldGenerations, Next
    PROVE  HeldGenerations'
<1> SUFFICES ASSUME NEW r \in Requests, NEW k \in Kinds,
                    reservation'[r].child # 0, reservation'[r].quotaHeld > 0,
                    reservation'[r].windows[k] # 0
             PROVE  reservation'[r].windows[k] <= childWindow'[reservation'[r].child][k].resetsAt
  BY DEF HeldGenerations
<1> DEFINE c == reservation'[r].child
<1>1. /\ c \in Children
      /\ reservation'[r].windows[k] \in Nat
      /\ childWindow'[c][k].resetsAt \in Nat
  BY DEF TypeOK, ReservationTypeOK, ReservationType, SubscriptionTypeOK, ChildWindowType
<1>2. childWindow[c][k].resetsAt \in Nat
  BY <1>1 DEF TypeOK, SubscriptionTypeOK, ChildWindowType
<1>3. child'[c].state = "present"
  BY DEF OwnChild
<1>4. CASE Remains(reservation[r], reservation'[r])
  <2>1. /\ reservation'[r].quotaHeld = reservation[r].quotaHeld
        /\ reservation'[r].windows = reservation[r].windows
        /\ reservation[r].child = c
    BY <1>4 DEF Remains
  <2>2. reservation'[r].windows[k] <= childWindow[c][k].resetsAt
    BY <2>1 DEF HeldGenerations
  <2>3. childWindow'[c][k].resetsAt >= childWindow[c][k].resetsAt
    BY <1>1, <1>3, GenerationStep
  <2> HIDE DEF c
  <2>4. reservation'[r].windows[k] <= childWindow'[c][k].resetsAt
    BY <1>1, <1>2, <2>2, <2>3
  <2> QED
    BY <2>4 DEF c
<1>5. ASSUME NEW t \in Tenants, NEW reserve \in Nat,
             NEW d \in {0} \cup {e \in Children : child[e].owner = t}, Reserve(r, t, d, reserve)
      PROVE  reservation'[r].windows[k] <= childWindow'[c][k].resetsAt
  <2>1. c = d /\ k \in HeldWindows(d) /\ d # 0
    BY <1>5, AdmittedRow
  <2>2. reservation'[r].windows[k] = childWindow'[c][k].resetsAt
    BY <1>5, <2>1, AdmittedRow
  <2> HIDE DEF c
  <2> QED
    BY <1>1, <2>2
<1> QED
  BY <1>4, <1>5, OnlyAdmissionHolds

\* Settlement and accrual: the request moves the counters of the windows it
\* holds by exactly what its own contribution changes, never below zero.
LEMMA ChargesExact ==
    ASSUME TypeOK, TypeOK', WindowsExact, NEW r \in Requests,
           NEW reservedDelta \in Int, NEW settledDelta \in Int,
           childWindow' = ChargeWindows(reservation[r], reservedDelta, settledDelta),
           \A s \in Requests : s # r => reservation'[s] = reservation[s],
           reservation[r].status = "active",
           reservation'[r].child = reservation[r].child,
           reservation'[r].quotaHeld = reservation[r].quotaHeld,
           reservation'[r].windows = reservation[r].windows,
           IF reservation'[r].status = "active" THEN reservedDelta = 0
           ELSE reservedDelta = -reservation[r].quotaHeld,
           reservation'[r].actual = reservation[r].actual + settledDelta
    PROVE  WindowsExact'
<1> SUFFICES ASSUME NEW c \in Children, NEW k \in Kinds
             PROVE  Exact(c, k)'
  BY ExactByWindow
<1> DEFINE before == reservation[r]
           after == reservation'[r]
           window == childWindow[c][k]
           mine == Holds(before, c, k, window)
<1>0. c # 0
  BY DEF Children
<1>1. Exact(c, k)
  BY ExactByWindow
<1>2. childWindow'[c][k] = IF mine THEN Charged(window, reservedDelta, settledDelta) ELSE window
  <2>1. childWindow \in [Children -> [Kinds -> ChildWindowType]]
    BY DEF TypeOK, SubscriptionTypeOK
  <2>2. before.child = c => (HoldsWindow(before, k) <=> mine)
    BY <1>0 DEF HoldsWindow, Holds
  <2>3. mine => before.child = c
    BY DEF Holds
  <2> HIDE DEF before, mine
  <2>4. childWindow'[c][k] = IF before.child = c /\ HoldsWindow(before, k)
                             THEN Charged(window, reservedDelta, settledDelta) ELSE window
    BY <1>0, <2>1 DEF ChargeWindows, before
  <2> QED
    BY <2>2, <2>3, <2>4
<1>3. Holds(after, c, k, window) <=> mine
  BY DEF Holds
<1>4. CASE ~mine
  <2>1. childWindow'[c][k] = childWindow[c][k]
    BY <1>2, <1>4
  <2> QED
    BY <1>1, <1>3, <1>4, <2>1, SameHolders
<1>5. CASE mine
  <2>0. window \in ChildWindowType
    BY DEF TypeOK, SubscriptionTypeOK
  <2>1. childWindow'[c][k] = Charged(window, reservedDelta, settledDelta)
    BY <1>2, <1>5
  <2>2. /\ childWindow'[c][k].resetsAt = window.resetsAt
        /\ childWindow'[c][k].reserved = AtLeastZero(window.reserved + reservedDelta)
        /\ childWindow'[c][k].settled = AtLeastZero(window.settled + settledDelta)
    BY <2>1 DEF Charged
  <2>3. /\ Pledge(before, c, k, window) = before.quotaHeld
        /\ Pledge(after, c, k, window) = IF after.status = "active" THEN before.quotaHeld ELSE 0
        /\ Spending(before, c, k, window) = before.actual
        /\ Spending(after, c, k, window) = before.actual + settledDelta
    BY <1>3, <1>5 DEF Pledge, Spending
  <2>4. /\ Pledged(c, k) \in Nat /\ Spent(c, k) \in Nat
        /\ Pledge(before, c, k, window) \in Nat /\ Pledge(before, c, k, window) <= Pledged(c, k)
        /\ Spending(before, c, k, window) \in Nat /\ Spending(before, c, k, window) <= Spent(c, k)
        /\ Pledged(c, k)' = Pledged(c, k) - Pledge(before, c, k, window) + Pledge(after, c, k, window)
        /\ Spent(c, k)' = Spent(c, k) - Spending(before, c, k, window) + Spending(after, c, k, window)
    BY <2>2, OneHolder
  <2>5. window.reserved = Pledged(c, k) /\ window.settled = Spent(c, k)
    BY <1>1 DEF Exact
  <2>6. before.quotaHeld \in Nat /\ before.actual \in Nat /\ before.actual + settledDelta \in Nat
    <3>1. before \in ReservationType /\ after \in ReservationType
      BY DEF TypeOK, ReservationTypeOK
    <3>2. after.actual \in Nat
      BY <3>1 DEF ReservationType
    <3> QED
      BY <3>1, <3>2 DEF ReservationType
  <2>7. IF after.status = "active" THEN reservedDelta = 0 ELSE reservedDelta = -before.quotaHeld
    OBVIOUS
  <2> HIDE DEF before, after, window, mine
  <2>8. /\ window.reserved + reservedDelta = Pledged(c, k)'
        /\ window.settled + settledDelta = Spent(c, k)'
    BY <2>3, <2>4, <2>5, <2>6, <2>7
  <2>9. Pledged(c, k)' \in Nat /\ Spent(c, k)' \in Nat
    BY <2>3, <2>4, <2>6
  <2>10. /\ childWindow'[c][k].reserved = Pledged(c, k)'
         /\ childWindow'[c][k].settled = Spent(c, k)'
    BY <2>2, <2>8, <2>9 DEF AtLeastZero
  <2> QED
    BY <2>10 DEF Exact
<1> QED
  BY <1>4, <1>5

\* Admission adds exactly its hold to the windows it holds, and starts a new
\* generation with nothing else in it.
LEMMA AdmissionExact ==
    ASSUME TypeOK, TypeOK', ChildHasParent, BlankRows, HeldGenerations, WindowsExact,
           NEW r \in Requests, NEW t \in Tenants, NEW reserve \in Nat,
           NEW c \in {0} \cup {d \in Children : child[d].owner = t}, Reserve(r, t, c, reserve)
    PROVE  WindowsExact'
<1> SUFFICES ASSUME NEW d \in Children, NEW k \in Kinds
             PROVE  Exact(d, k)'
  BY ExactByWindow
<1> DEFINE window == childWindow[d][k]
           after == reservation'[r]
<1>0. d # 0
  BY DEF Children
<1>1. Exact(d, k)
  BY ExactByWindow
<1>2. \A w : ~Holds(reservation[r], d, k, w)
  <2>1. reservation[r].status = "none"
    BY DEF Reserve
  <2>2. reservation[r].quotaHeld = 0
    BY <2>1 DEF BlankRows
  <2> QED
    BY <2>2 DEF Holds
<1>3. \A s \in Requests : s # r => reservation'[s] = reservation[s]
  BY AdmittedRow
<1>4. CASE ~(d = c /\ k \in HeldWindows(c))
  <2>1. childWindow'[d][k] = childWindow[d][k]
    BY <1>4, AdmittedRow
  <2>2. ~Holds(after, d, k, window)
    <3>1. after.child = c /\ (after.windows[k] # 0 => k \in HeldWindows(c))
      BY AdmittedRow
    <3> QED
      BY <1>4, <3>1 DEF Holds
  <2> QED
    BY <1>1, <1>2, <1>3, <2>1, <2>2, SameHolders
<1>5. CASE d = c /\ k \in HeldWindows(c)
  <2>1. /\ after.child = d /\ after.status = "active" /\ after.actual = 0
        /\ after.quotaHeld = reserve /\ reserve > 0
        /\ childWindow'[d][k] = AdmittedWindow(d, k, reserve)
        /\ after.windows[k] = childWindow'[d][k].resetsAt
        /\ childWindow'[d][k].resetsAt = parentWindow[child[d].parent][k].resetsAt
        /\ window.resetsAt <= childWindow'[d][k].resetsAt
        /\ childWindow'[d][k].resetsAt # 0
    BY <1>0, <1>5, AdmittedRow
  <2>2. Holds(after, d, k, childWindow'[d][k])
    BY <2>1 DEF Holds
  <2>3. CASE window.resetsAt = childWindow'[d][k].resetsAt
    <3>1. /\ childWindow'[d][k].settled = window.settled
          /\ childWindow'[d][k].reserved = window.reserved + reserve
      BY <2>1, <2>3 DEF AdmittedWindow
    <3>2. /\ Pledge(reservation[r], d, k, window) = 0
          /\ Spending(reservation[r], d, k, window) = 0
      BY <1>2 DEF Pledge, Spending
    <3>3. Holds(after, d, k, window)
      BY <2>2, <2>3 DEF Holds
    <3>4. /\ Pledge(after, d, k, window) = reserve
          /\ Spending(after, d, k, window) = 0
      BY <2>1, <3>3 DEF Pledge, Spending
    <3>5. /\ Pledged(d, k) \in Nat /\ Spent(d, k) \in Nat
          /\ Pledged(d, k)' = Pledged(d, k) - Pledge(reservation[r], d, k, window) + Pledge(after, d, k, window)
          /\ Spent(d, k)' = Spent(d, k) - Spending(reservation[r], d, k, window) + Spending(after, d, k, window)
      BY <1>3, <2>3, OneHolder
    <3>6. window.reserved = Pledged(d, k) /\ window.settled = Spent(d, k)
      BY <1>1 DEF Exact
    <3> HIDE DEF window, after
    <3>7. childWindow'[d][k].reserved = Pledged(d, k)' /\ childWindow'[d][k].settled = Spent(d, k)'
      BY <3>1, <3>2, <3>4, <3>5, <3>6
    <3> QED
      BY <3>7 DEF Exact
  <2>4. CASE window.resetsAt # childWindow'[d][k].resetsAt
    <3>1. /\ childWindow'[d][k].settled = 0
          /\ childWindow'[d][k].reserved = reserve
      BY <2>1, <2>4 DEF AdmittedWindow, EmptyWindow
    <3>2. \A s \in Requests : Holds(reservation'[s], d, k, childWindow'[d][k]) <=> s = r
      <4>1. ASSUME NEW s \in Requests, s # r, Holds(reservation'[s], d, k, childWindow'[d][k])
            PROVE  FALSE
        <5>1. /\ reservation[s].child = d /\ reservation[s].quotaHeld > 0
              /\ reservation[s].windows[k] # 0
              /\ reservation[s].windows[k] = childWindow'[d][k].resetsAt
          BY <1>3, <4>1 DEF Holds
        <5>2. reservation[s].windows[k] <= window.resetsAt
          BY <1>0, <5>1 DEF HeldGenerations
        <5>3. window.resetsAt \in Nat /\ childWindow'[d][k].resetsAt \in Nat
          BY DEF TypeOK, SubscriptionTypeOK, ChildWindowType
        <5> HIDE DEF window
        <5> QED
          BY <2>1, <2>4, <5>1, <5>2, <5>3
      <4> QED
        BY <2>2, <4>1
    <3> DEFINE held == [s \in Requests |-> reservation'[s].quotaHeld]
               actual == [s \in Requests |-> reservation'[s].actual]
    <3>3. Holders(d, k)' = {r} /\ {s \in Holders(d, k)' : reservation'[s].status = "active"} = {r}
      BY <2>1, <3>2 DEF Holders
    <3>4. Pledged(d, k)' = Total(held, {r}) /\ Spent(d, k)' = Total(actual, {r})
      BY <3>3, Zenon DEF Pledged, Spent
    <3>5. held[r] = reserve /\ actual[r] = 0
      BY <2>1
    <3> HIDE DEF held, actual
    <3>6. Total(held, {r}) = reserve /\ Total(actual, {r}) = 0
      <4>1. reserve \in Int /\ 0 \in Int
        OBVIOUS
      <4> QED
        BY <3>5, <4>1, TotalOfOne
    <3>7. Pledged(d, k)' = reserve /\ Spent(d, k)' = 0
      BY <3>4, <3>6
    <3> QED
      BY <3>1, <3>7 DEF Exact
  <2> QED
    BY <2>3, <2>4
<1> QED
  BY <1>4, <1>5

\* Every transaction keeps every window's counters exact.
LEMMA WindowStep ==
    ASSUME TypeOK, TypeOK', ChildHasParent, OwnChild, BlankRows, HeldGenerations, WindowsExact, Next
    PROVE  WindowsExact'
<1>1. /\ reservation \in [Requests -> ReservationType]
      /\ \A s \in Requests : reservation[s] \in ReservationType
      /\ \A c \in Children : c # 0
  BY DEF TypeOK, ReservationTypeOK, Children
<1>2. \A c \in Children, k \in Kinds : Exact(c, k)
  BY ExactByWindow
<1>3. ASSUME NEW r \in Requests, Finish(r)
      PROVE  WindowsExact'
  <2>1. PICK actual \in Nat, status \in Finished : finishReservationTx(r, actual, status)
    BY <1>3 DEF Finish
  <2> DEFINE row == reservation[r]
             final == IF status \in {"settled", "expired"} THEN actual ELSE 0
  <2>2. /\ row.status = "active"
        /\ childWindow' = ChargeWindows(row, -row.quotaHeld, final - row.actual)
        /\ reservation' = [reservation EXCEPT ![r] = Closed(@, status, final)]
    BY <2>1, Zenon DEF finishReservationTx, StillActive
  <2>3. /\ Closed(row, status, final).status = status
        /\ Closed(row, status, final).actual = final
        /\ Closed(row, status, final).quotaHeld = row.quotaHeld
        /\ Closed(row, status, final).child = row.child
        /\ Closed(row, status, final).windows = row.windows
    BY <1>1 DEF Closed, ReservationType
  <2>4. status # "active"
    BY DEF Finished
  <2>5. final \in Nat /\ row.actual \in Nat /\ row.quotaHeld \in Nat
    BY <1>1 DEF ReservationType
  <2>6. /\ reservation'[r] = Closed(row, status, final)
        /\ \A s \in Requests : s # r => reservation'[s] = reservation[s]
    BY <1>1, <2>2
  <2> HIDE DEF final
  <2>7. /\ -row.quotaHeld \in Int /\ final - row.actual \in Int
        /\ reservation'[r].actual = row.actual + (final - row.actual)
    BY <2>3, <2>5, <2>6
  <2> QED
    BY <2>2, <2>3, <2>4, <2>6, <2>7, ChargesExact
<1>4. ASSUME NEW r \in Requests, NEW turn \in Turns, NEW cost \in Nat, AccrueWebSocketTurn(r, turn, cost)
      PROVE  WindowsExact'
  <2> DEFINE row == reservation[r]
  <2>1. /\ row.status = "active"
        /\ childWindow' = ChargeWindows(row, 0, cost)
        /\ reservation' = [reservation EXCEPT ![r] = Accrued(@, cost)]
    BY <1>4, Zenon DEF AccrueWebSocketTurn
  <2>2. /\ Accrued(row, cost).status = row.status
        /\ Accrued(row, cost).actual = row.actual + cost
        /\ Accrued(row, cost).quotaHeld = row.quotaHeld
        /\ Accrued(row, cost).child = row.child
        /\ Accrued(row, cost).windows = row.windows
    BY <1>1 DEF Accrued, ReservationType
  <2>3. /\ reservation'[r] = Accrued(row, cost)
        /\ \A s \in Requests : s # r => reservation'[s] = reservation[s]
    BY <1>1, <2>1
  <2>4. 0 \in Int /\ cost \in Int
    OBVIOUS
  <2> QED
    BY <2>1, <2>2, <2>3, <2>4, ChargesExact
<1>5. ASSUME UNCHANGED reservation, NEW c \in Children, NEW k \in Kinds, KeptOrRestarted(c, k)
      PROVE  Exact(c, k)'
  <2>1. CASE childWindow'[c][k] = childWindow[c][k]
    BY <1>2, <1>5, <2>1, SameHolders
  <2>2. ASSUME NEW g \in Nat, childWindow[c][k].resetsAt < g, childWindow'[c][k] = EmptyWindow(g)
        PROVE  Exact(c, k)'
    <3>1. /\ childWindow'[c][k].resetsAt = g
          /\ childWindow'[c][k].reserved = 0 /\ childWindow'[c][k].settled = 0
      BY <2>2 DEF EmptyWindow
    <3>2. ASSUME NEW s \in Requests, Holds(reservation[s], c, k, childWindow'[c][k])
          PROVE  FALSE
      <4>1. /\ reservation[s].child = c /\ reservation[s].quotaHeld > 0
            /\ reservation[s].windows[k] # 0 /\ reservation[s].windows[k] = g
        BY <3>1, <3>2 DEF Holds
      <4>2. g <= childWindow[c][k].resetsAt
        BY <1>1, <4>1 DEF HeldGenerations
      <4>3. childWindow[c][k].resetsAt \in Nat
        BY DEF TypeOK, SubscriptionTypeOK, ChildWindowType
      <4> QED
        BY <2>2, <4>2, <4>3
    <3> QED
      BY <1>5, <3>1, <3>2, NoHolders
  <2> QED
    BY <1>5, <2>1, <2>2 DEF KeptOrRestarted
<1>6. Administer => WindowsExact'
  <2>1. Administer => UNCHANGED reservation /\ \A c \in Children, k \in Kinds : KeptOrRestarted(c, k)
    BY AdministrationRestarts DEF Administer, TypeOK, reservationVars
  <2> QED
    BY <1>5, <2>1, ExactByWindow, Zenon
<1>7. ASSUME UNCHANGED <<reservation, childWindow>>
      PROVE  WindowsExact'
  <2>1. \A c \in Children, k \in Kinds : KeptOrRestarted(c, k)
    BY <1>7 DEF KeptOrRestarted
  <2> QED
    BY <1>5, <1>7, <2>1, ExactByWindow, Zenon
<1>8. ASSUME NEW cs, childWindow' = RemoveWindows(cs), NEW c \in Children, NEW k \in Kinds, c \in cs
      PROVE  Exact(c, k)'
  <2>1. childWindow'[c][k] = EmptyWindow(0)
    BY <1>8 DEF RemoveWindows, NoChildWindow
  <2>2. /\ childWindow'[c][k].resetsAt = 0
        /\ childWindow'[c][k].reserved = 0 /\ childWindow'[c][k].settled = 0
    BY <2>1 DEF EmptyWindow
  <2>3. \A s \in Requests : ~Holds(reservation'[s], c, k, childWindow'[c][k])
    BY <2>2 DEF Holds
  <2> QED
    BY <2>2, <2>3, NoHolders
<1>9. ASSUME NEW cs, NEW p, reservation' = ForgetChildren(cs, p), childWindow' = RemoveWindows(cs)
      PROVE  WindowsExact'
  <2> SUFFICES ASSUME NEW c \in Children, NEW k \in Kinds, c \notin cs
               PROVE  Exact(c, k)'
    BY <1>8, <1>9, ExactByWindow
  <2>1. childWindow'[c][k] = childWindow[c][k]
    BY <1>9 DEF RemoveWindows
  <2>2. ASSUME NEW s \in Requests
        PROVE  /\ reservation'[s].status = reservation[s].status
               /\ reservation'[s].quotaHeld = reservation[s].quotaHeld
               /\ reservation'[s].actual = reservation[s].actual
               /\ reservation'[s].windows = reservation[s].windows
               /\ reservation'[s].child = c <=> reservation[s].child = c
    <3>1. reservation'[s] = Forgetting(reservation[s], cs, p)
      BY <1>9 DEF ForgetChildren
    <3> QED
      BY <1>1, <3>1 DEF Forgetting, ReservationType
  <2>3. \A s \in Requests :
           Holds(reservation'[s], c, k, childWindow[c][k]) <=> Holds(reservation[s], c, k, childWindow[c][k])
    BY <2>2 DEF Holds
  <2> QED
    BY <1>2, <2>1, <2>2, <2>3, SameHolders
<1>10. ASSUME NEW t \in Tenants, DeleteTenant(t)
       PROVE  WindowsExact'
  <2> DEFINE cs == {c \in Children : child[c].state = "present" /\ child[c].owner = t}
  <2>1. /\ childWindow' = RemoveWindows(cs)
        /\ \A s \in Requests : reservation'[s] =
              IF reservation[s].owner = t THEN NoReservation("purged") ELSE reservation[s]
    BY <1>10 DEF DeleteTenant
  <2> SUFFICES ASSUME NEW c \in Children, NEW k \in Kinds, c \notin cs
               PROVE  Exact(c, k)'
    BY <1>8, <2>1, ExactByWindow
  <2>2. childWindow'[c][k] = childWindow[c][k]
    BY <2>1 DEF RemoveWindows
  <2>3. ASSUME NEW s \in Requests, reservation[s].owner = t
        PROVE  \A w : ~Holds(reservation[s], c, k, w) /\ ~Holds(reservation'[s], c, k, w)
    <3>1. reservation[s].child # c
      BY <1>1, <2>3 DEF OwnChild
    <3>2. reservation'[s].child = 0
      BY <2>1, <2>3 DEF NoReservation
    <3> QED
      BY <1>1, <3>1, <3>2 DEF Holds
  <2>4. \A s \in Requests : reservation[s].owner # t => reservation'[s] = reservation[s]
    BY <2>1
  <2> HIDE DEF cs
  <2> QED
    BY <1>2, <2>2, <2>3, <2>4, SameHolders
<1>11. /\ \A t, amount : Credit(t, amount) => UNCHANGED <<reservation, childWindow>>
       /\ \A c : DeleteChildCount(c) => UNCHANGED <<reservation, childWindow>>
       /\ \A p : MarkMissingBegin(p) => UNCHANGED <<reservation, childWindow>>
  BY DEF Credit, DeleteChildCount, MarkMissingBegin, subscriptionVars
<1>12. /\ MarkMissingDelete =>
             \E cs, p : reservation' = ForgetChildren(cs, p) /\ childWindow' = RemoveWindows(cs)
       /\ \A c : DeleteChildSubscription(c) =>
             \E cs, p : reservation' = ForgetChildren(cs, p) /\ childWindow' = RemoveWindows(cs)
  BY Zenon DEF MarkMissingDelete, DeleteChildSubscription
<1> QED
  BY <1>3, <1>4, <1>6, <1>7, <1>9, <1>10, <1>11, <1>12, AdmissionExact, Transactions, Zenon

\* BalanceExact needs LedgerExact and BlankRows for the row admission starts
\* from; WindowsExact needs HeldGenerations for the clamps and the restarts.
AccountingInv == StoreInv /\ BalanceExact /\ HeldGenerations /\ WindowsExact

\* Initially nothing is held, charged or credited.
LEMMA AccountingInit ==
    ASSUME Init
    PROVE  BalanceExact /\ HeldGenerations /\ WindowsExact
<1>1. /\ \A t \in Tenants : balance[t] = 0 /\ credited[t] = 0
      /\ \A r \in Requests : reservation[r] = NoReservation("none") /\ ledger[r] = 0
      /\ \A c \in Children, k \in Kinds : childWindow[c][k] = EmptyWindow(0)
  BY DEF Init, SubscriptionInit, ReservationInit, NoChildWindow
<1>2. BalanceExact
  <2> SUFFICES ASSUME NEW t \in Tenants
               PROVE  balance[t] = credited[t] + Total(ledger, {r \in Requests : reservation[r].owner = t})
    BY DEF BalanceExact
  <2> DEFINE S == {r \in Requests : reservation[r].owner = t}
  <2>1. IsFiniteSet(S) /\ \A r \in S : ledger[r] = 0 /\ ledger[r] \in Int
    BY <1>1, RowSets
  <2> HIDE DEF S
  <2>2. Total(ledger, S) = 0
    BY <2>1, TotalType
  <2>3. balance[t] = credited[t] + Total(ledger, S)
    BY <1>1, <2>2
  <2> QED
    BY <2>3 DEF S
<1>3. \A r \in Requests : reservation[r].quotaHeld = 0
  BY <1>1 DEF NoReservation
<1>4. HeldGenerations
  BY <1>3 DEF HeldGenerations
<1>5. ASSUME NEW c \in Children, NEW k \in Kinds
      PROVE  Exact(c, k)
  <2> DEFINE held == [r \in Requests |-> reservation[r].quotaHeld]
             actual == [r \in Requests |-> reservation[r].actual]
  <2>1. Holders(c, k) = {}
    BY <1>3 DEF Holders, Holds
  <2>2. {r \in Holders(c, k) : reservation[r].status = "active"} = {}
    BY <2>1
  <2>3. Pledged(c, k) = Total(held, {}) /\ Spent(c, k) = Total(actual, {})
    BY <2>1, <2>2, Zenon DEF Pledged, Spent
  <2>4. Total(held, {}) = 0 /\ Total(actual, {}) = 0
    <3> HIDE DEF held, actual
    <3> QED
      BY FS_EmptySet, TotalType
  <2>5. childWindow[c][k].reserved = 0 /\ childWindow[c][k].settled = 0
    BY <1>1 DEF EmptyWindow
  <2> QED
    BY <2>3, <2>4, <2>5 DEF Exact
<1> QED
  BY <1>2, <1>4, <1>5, ExactByWindow

\* The accounting invariant holds in every reachable state of every instance.
THEOREM AccountingInvariant == Spec => []AccountingInv
<1>1. Init /\ StoreInv => AccountingInv
  BY AccountingInit DEF AccountingInv
<1>2. AccountingInv /\ StoreInv' /\ [Next]_storeVars => AccountingInv'
  <2>1. AccountingInv /\ StoreInv' /\ Next => AccountingInv'
    BY BalanceStep, HeldStep, WindowStep DEF AccountingInv, StoreInv
  <2>2. AccountingInv /\ StoreInv' /\ UNCHANGED storeVars => AccountingInv'
    <3> SUFFICES ASSUME AccountingInv, StoreInv', UNCHANGED storeVars
                 PROVE  AccountingInv'
      OBVIOUS
    <3>1. UNCHANGED <<balance, credited, ledger, reservation, childWindow>>
      BY DEF storeVars, subscriptionVars, reservationVars
    <3>2. BalanceExact'
      BY <3>1 DEF AccountingInv, BalanceExact
    <3>3. HeldGenerations'
      BY <3>1 DEF AccountingInv, HeldGenerations
    <3>4. WindowsExact'
      BY <3>1, Zenon DEF AccountingInv, WindowsExact, Holders
    <3> QED
      BY <3>2, <3>3, <3>4 DEF AccountingInv
  <2> QED
    BY <2>1, <2>2
<1> QED
  BY <1>1, <1>2, StoreInvariant, PTL DEF Spec

\* For every number of tenants and requests and every interleaving of
\* admissions, turns, settlements, credits and deletions, a tenant's balance
\* is the sum of its ledger rows.
THEOREM BalanceCorrect == Spec => []BalanceExact
<1>1. AccountingInv => BalanceExact
  BY DEF AccountingInv
<1> QED
  BY <1>1, AccountingInvariant, PTL

\* For every number of children, kinds and requests, the counters that
\* admission compares with a child's share are exactly the holds and charges
\* of the requests of the current generation: the clamps of
\* finishReservationTx never lose a charge, and a late settlement never
\* touches a generation it did not hold.
THEOREM WindowsCorrect == Spec => []WindowsExact
<1>1. AccountingInv => WindowsExact
  BY DEF AccountingInv
<1> QED
  BY <1>1, AccountingInvariant, PTL


-----------------------------------------------------------------------------
(* Sums of turn costs *)

\* n is what the turns in S have cost.
Payable(n, S) ==
    \E f \in [Turns -> Costs \cup {0}] : (\A x \in Turns \ S : f[x] = 0) /\ n = Total(f, Turns)

\* Such a sum can be settled,
LEMMA PayableAmount ==
    ASSUME NEW S, NEW n, Payable(n, S)
    PROVE  n \in Amounts /\ n \in Nat
<1>1. n \in Amounts
  BY TurnAssumption, Zenon DEF Payable
<1> QED
  BY <1>1, AmountTypes

\* nothing costs nothing,
LEMMA PayableZero ==
    ASSUME NEW S
    PROVE  Payable(0, S)
<1> DEFINE f == [x \in Turns |-> 0]
<1>1. f \in [Turns -> Costs \cup {0}] /\ \A x \in Turns \ S : f[x] = 0
  OBVIOUS
<1>2. Total(f, Turns) = 0
  <2>1. (\A x \in Turns : f[x] \in Int) /\ (\A x \in Turns : f[x] = 0) /\ IsFiniteSet(Turns)
    BY TurnAssumption
  <2> HIDE DEF f
  <2> QED
    BY <2>1, TotalType
<1> HIDE DEF f
<1> QED
  BY <1>1, <1>2, Zenon DEF Payable

\* later turns do not change what earlier ones cost,
LEMMA PayableLater ==
    ASSUME NEW S, NEW T, NEW n, S \subseteq T, Payable(n, S)
    PROVE  Payable(n, T)
BY Zenon DEF Payable

\* and a new turn adds its cost.
LEMMA PayableTurn ==
    ASSUME NEW S, NEW n, NEW turn \in Turns, turn \notin S, NEW cost \in Costs, Payable(n, S)
    PROVE  Payable(n + cost, S \cup {turn})
<1>1. PICK f \in [Turns -> Costs \cup {0}] : (\A x \in Turns \ S : f[x] = 0) /\ n = Total(f, Turns)
  BY Zenon DEF Payable
<1> DEFINE g == [f EXCEPT ![turn] = cost]
<1>2. /\ g \in [Turns -> Costs \cup {0}] /\ \A x \in Turns \ (S \cup {turn}) : g[x] = 0
      /\ g[turn] = cost /\ \A x \in Turns \ {turn} : f[x] = g[x]
  BY <1>1
<1>3. f[turn] = 0
  BY <1>1
<1> HIDE DEF g
<1>4. (\A x \in Turns : f[x] \in Int) /\ (\A x \in Turns : g[x] \in Int) /\ cost \in Int
  <2>1. \A c \in Costs \cup {0} : c \in Int
    BY AmountTypes
  <2> QED
    BY <1>2, <2>1, Zenon
<1>5. IsFiniteSet(Turns) /\ Turns \ {turn} = Turns \ {turn}
  BY TurnAssumption, Zenon
<1>6. /\ Total(f, Turns) \in Int
      /\ Total(g, Turns) = Total(f, Turns) - (IF turn \in Turns THEN f[turn] ELSE 0)
                                           + (IF turn \in Turns THEN g[turn] ELSE 0)
  BY <1>2, <1>4, <1>5, TotalChange
<1>7. n + cost = Total(g, Turns)
  BY <1>1, <1>2, <1>3, <1>4, <1>6
<1> QED
  BY <1>2, <1>7, Zenon DEF Payable

-----------------------------------------------------------------------------
(* The inductive invariant *)

\* The row of a candidate is still the tenant's, or deleted.
KeptFor(row, t) == row.state # "unused" /\ (row.state = "present" => row.owner = t)

\* What a handler knows: nothing is charged before admission, and the
\* candidates are children of the tenant exactly if the model is claimed.
HandlerOK(h, rows) ==
    /\ h.phase \in {"idle", "choosing"} => h.accrued = 0 /\ ~h.ackLost
    /\ h.phase = "choosing" => h.owner \in Tenants /\ h.hold \in Reserves
    /\ h.phase # "choosing" => h.cands = {}
    /\ \A a \in h.cands : /\ a.child # 0 <=> h.claimed
                          /\ a.metered => a.child # 0
                          /\ a.child # 0 => KeptFor(rows[a.child], h.owner)

\* The charge in the row, the running total of the handler and the details in
\* the log, of one request.
ChargeOK(r, h, status, actual, logged, charged) ==
    /\ actual <= logged
    /\ status = "none" => logged = 0
    /\ status = "active" => actual = logged /\ Payable(actual, charged)
    /\ status = "active" /\ r \notin WebSockets => logged = 0
    /\ status = "active" /\ h.phase # "ended" =>
          h.accrued <= logged /\ Payable(h.accrued, charged) /\ (~h.ackLost => h.accrued = logged)
    /\ status = "settled" /\ ~h.ackLost => actual = logged

\* What the reclaimer has listed: a charge that was right when it was read.
ListedOK(item, status, logged) ==
    /\ Payable(item[2], Turns)
    /\ status # "none"
    /\ status = "active" => item[2] <= logged

\* SettledChargeIsLogged is not inductive: that the session's total is what
\* its turns have cost must hold while it runs, whatever the other actors do.
LifecycleInv ==
    /\ StoreInv
    /\ handler \in [Requests -> HandlerType]
    /\ reclaim \subseteq Requests \X Nat
    /\ \A r \in Requests : HandlerOK(handler[r], child)
    /\ \A r \in Requests :
          ChargeOK(r, handler[r], reservation[r].status, reservation[r].actual, detail[r], turns[r])
    /\ \A item \in reclaim : ListedOK(item, reservation[item[1]].status, detail[item[1]])

\* No transaction gives a row that was a tenant's child to another one.
LEMMA ChildrenKept ==
    ASSUME TypeOK, Next, NEW c \in Children, NEW t, KeptFor(child[c], t)
    PROVE  KeptFor(child'[c], t)
<1>1. child \in [Children -> ChildType] /\ child[c] \in ChildType
  BY DEF TypeOK, SubscriptionTypeOK
<1>2. child[c].state \in {"present", "deleted"}
  BY <1>1 DEF KeptFor, ChildType
<1>3. CASE Administer
  <2>1. SubscriptionNext /\ SubscriptionTypeOK
    BY <1>3 DEF Administer, TypeOK
  <2> QED
    BY <1>2, <2>1, AdministrationKeepsOwners, AdministrationKeepsDeleted DEF KeptFor
<1>4. ASSUME NEW cs, child' = RemoveChildren(cs)
      PROVE  KeptFor(child'[c], t)
  <2>1. child'[c] = child[c] \/ child'[c] = NoChild("deleted")
    BY <1>4 DEF RemoveChildren
  <2> QED
    BY <2>1 DEF KeptFor, NoChild
<1>5. ASSUME NEW p, MarkMissingBegin(p)
      PROVE  KeptFor(child'[c], t)
  <2>1. child'[c] = child[c] \/ child'[c] = [child[c] EXCEPT !.enabled = FALSE]
    BY <1>5, Zenon DEF MarkMissingBegin
  <2>2. /\ [child[c] EXCEPT !.enabled = FALSE].state = child[c].state
        /\ [child[c] EXCEPT !.enabled = FALSE].owner = child[c].owner
    BY <1>1, Zenon DEF ChildType
  <2> QED
    BY <2>1, <2>2, Zenon DEF KeptFor
<1>6. UNCHANGED child => KeptFor(child'[c], t)
  OBVIOUS
<1>7. /\ \A r, u, d, reserve : Reserve(r, u, d, reserve) => UNCHANGED child
      /\ \A r : Finish(r) => UNCHANGED child
      /\ \A r, turn, cost : AccrueWebSocketTurn(r, turn, cost) => UNCHANGED child
      /\ \A u, amount : Credit(u, amount) => UNCHANGED child
      /\ \A d : DeleteChildCount(d) => UNCHANGED child
  <2>1. \A r : Finish(r) => UNCHANGED child
    BY Zenon DEF Finish, finishReservationTx, subscriptionVars
  <2>2. \A r, u, d, reserve : Reserve(r, u, d, reserve) => UNCHANGED child
    BY ZenonT(60) DEF Reserve, subscriptionVars
  <2> QED
    BY <2>1, <2>2, Zenon DEF AccrueWebSocketTurn, Credit, DeleteChildCount, subscriptionVars
<1>8. /\ MarkMissingDelete => \E cs : child' = RemoveChildren(cs)
      /\ \A d : DeleteChildSubscription(d) => \E cs : child' = RemoveChildren(cs)
      /\ \A u : DeleteTenant(u) => \E cs : child' = RemoveChildren(cs)
  BY Zenon DEF MarkMissingDelete, DeleteChildSubscription, DeleteTenant
<1> QED
  BY <1>3, <1>4, <1>5, <1>6, <1>7, <1>8, Transactions, Zenon

-----------------------------------------------------------------------------
(* How one request's books may change in a step *)

\* A reservation is admitted once, and the log of a running one only grows.
Onward(r) ==
    /\ reservation'[r].status = "none" => reservation[r].status = "none"
    /\ reservation'[r].status = "active" =>
          \/ reservation[r].status = "none"
          \/ reservation[r].status = "active" /\ detail[r] <= detail'[r]

Accounted(r) ==
    /\ ChargeOK(r, handler'[r], reservation'[r].status, reservation'[r].actual, detail'[r], turns'[r])
    /\ Onward(r)

\* The columns of a request that the charges depend on.
SameBooks(r) ==
    /\ reservation'[r].status = reservation[r].status
    /\ reservation'[r].actual = reservation[r].actual
    /\ detail'[r] = detail[r]
    /\ turns'[r] = turns[r]

\* A handler that goes on, without touching its total.
GoesOn(h, g) ==
    g.accrued = h.accrued /\ g.ackLost = h.ackLost /\ (g.phase # "ended" => h.phase # "ended")

\* The types of a request's columns.
LEMMA BookTypes ==
    ASSUME LifecycleInv, NEW r \in Requests
    PROVE  /\ reservation[r] \in ReservationType /\ handler[r] \in HandlerType
           /\ reservation[r].actual \in Nat /\ detail[r] \in Nat /\ turns[r] \subseteq Turns
           /\ handler[r].accrued \in Nat /\ handler[r].ackLost \in BOOLEAN
           /\ handler[r].cands \subseteq CandidateType
<1>1. reservation[r] \in ReservationType /\ detail[r] \in Nat /\ turns[r] \subseteq Turns
  BY DEF LifecycleInv, StoreInv, TypeOK, ReservationTypeOK
<1>2. handler[r] \in HandlerType
  BY DEF LifecycleInv
<1>3. reservation[r].actual \in Nat
  BY <1>1 DEF ReservationType
<1>4. /\ handler[r].accrued \in Nat /\ handler[r].ackLost \in BOOLEAN
      /\ handler[r].cands \subseteq CandidateType
  BY <1>2, Zenon DEF HandlerType
<1> QED
  BY <1>1, <1>2, <1>3, <1>4

\* A handler that goes on leaves the books as they are.
LEMMA GoesOnAccounted ==
    ASSUME LifecycleInv, NEW r \in Requests, SameBooks(r), GoesOn(handler[r], handler'[r])
    PROVE  Accounted(r)
<1>1. ChargeOK(r, handler[r], reservation[r].status, reservation[r].actual, detail[r], turns[r])
  BY DEF LifecycleInv
<1>2. detail[r] \in Nat
  BY BookTypes
<1>3. Onward(r)
  BY <1>2 DEF Onward, SameBooks
<1>4. ChargeOK(r, handler'[r], reservation[r].status, reservation[r].actual, detail[r], turns[r])
  BY <1>1, Zenon DEF ChargeOK, GoesOn
<1> QED
  BY <1>3, <1>4, Zenon DEF Accounted, SameBooks

\* A request whose tenant is deleted owes nothing.
LEMMA PurgedAccounted ==
    ASSUME NEW r, reservation'[r] = NoReservation("purged"), detail'[r] = 0
    PROVE  Accounted(r)
<1>1. reservation'[r].status = "purged" /\ reservation'[r].actual = 0
  BY DEF NoReservation
<1> QED
  BY <1>1 DEF Accounted, Onward, ChargeOK

\* A reservation that is finished at a charge the log covers; exactly, if it
\* is settled and no answer was lost.
LEMMA FinishedAccounted ==
    ASSUME LifecycleInv, NEW r \in Requests, NEW status \in Finished, NEW final \in Nat,
           reservation'[r] = Closed(reservation[r], status, final),
           final <= detail'[r],
           status = "settled" /\ ~handler'[r].ackLost => final = detail'[r]
    PROVE  Accounted(r)
<1>1. reservation[r] \in ReservationType
  BY BookTypes
<1>2. reservation'[r].status = status /\ reservation'[r].actual = final
  BY <1>1 DEF Closed, ReservationType
<1>3. status # "none" /\ status # "active"
  BY DEF Finished
<1> QED
  BY <1>2, <1>3, Zenon DEF Accounted, Onward, ChargeOK

\* Forgetting a deleted child or parent is no change of the books.
LEMMA ForgottenBooks ==
    ASSUME TypeOK, NEW r \in Requests, NEW cs, NEW p, reservation' = ForgetChildren(cs, p),
           UNCHANGED <<detail, turns>>
    PROVE  SameBooks(r)
<1>1. reservation[r] \in ReservationType
  BY DEF TypeOK, ReservationTypeOK
<1>2. reservation'[r] = Forgetting(reservation[r], cs, p)
  BY DEF ForgetChildren
<1>3. /\ Forgetting(reservation[r], cs, p).status = reservation[r].status
      /\ Forgetting(reservation[r], cs, p).actual = reservation[r].actual
  BY <1>1 DEF Forgetting, ReservationType
<1> QED
  BY <1>2, <1>3 DEF SameBooks

-----------------------------------------------------------------------------
(* The handlers use the store only through its transactions *)

\* What the invariant says of the candidate that is tried: plain balance, or a
\* child that is the tenant's if it is still there.
LEMMA CandidateFacts ==
    ASSUME LifecycleInv, NEW r \in Requests, handler[r].phase = "choosing",
           NEW a \in First(handler[r].cands)
    PROVE  /\ handler[r].owner \in Tenants /\ handler[r].hold \in Reserves
           /\ a \in handler[r].cands /\ a.child \in Children \cup {0}
           /\ a.child # 0 <=> handler[r].claimed
           /\ a.child # 0 => KeptFor(child[a.child], handler[r].owner)
<1>1. HandlerOK(handler[r], child)
  BY DEF LifecycleInv
<1>2. a \in handler[r].cands
  BY Zenon DEF First
<1>3. a \in CandidateType
  BY <1>2, BookTypes
<1>4. a.child \in Children \cup {0}
  BY <1>3, Zenon DEF CandidateType
<1> QED
  BY <1>1, <1>2, <1>4, Zenon DEF HandlerOK

\* The row a candidate is admitted through is the tenant's.
LEMMA AdmissionImplemented ==
    ASSUME LifecycleInv, NEW r \in Requests, AdmitCandidate(r)
    PROVE  Bill(r)
<1> DEFINE h == handler[r]
<1>1. h.phase = "choosing"
  BY Zenon DEF AdmitCandidate
<1>2. PICK a \in First(h.cands) : Reserve(r, h.owner, a.child, h.hold)
  BY Zenon DEF AdmitCandidate
<1>3. /\ h.owner \in Tenants /\ h.hold \in Reserves /\ a.child \in Children \cup {0}
      /\ a.child # 0 => KeptFor(child[a.child], h.owner)
  BY <1>1, CandidateFacts
<1> HIDE DEF h
<1>4. ReserveErrors(h.owner, a.child, h.hold) = {}
  BY <1>2, Zenon DEF Reserve
<1>5. a.child # 0 => a.child \in Children /\ child[a.child].state = "present"
  BY <1>3, <1>4 DEF ReserveErrors, Usable
<1>6. a.child \in {0} \cup {d \in Children : child[d].owner = h.owner}
  BY <1>3, <1>5, Zenon DEF KeptFor
<1> QED
  BY <1>2, <1>3, <1>6, Zenon DEF Bill

\* A handler's step is one transaction of its request, or none.
LEMMA RequestImplemented ==
    ASSUME LifecycleInv, NEW r \in Requests, RequestStep(r)
    PROVE  Bill(r) \/ UNCHANGED storeVars
<1>1. CASE \E t \in Tenants, model \in Models, priced \in BOOLEAN, hold \in Reserves :
              SubscriptionCandidates(r, t, model, priced, hold)
  BY <1>1, Zenon DEF SubscriptionCandidates, storeVars
<1>2. CASE AdmitCandidate(r)
  BY <1>2, AdmissionImplemented
<1>3. CASE RefuseCandidate(r) \/ AdmissionFails(r) \/ Establish(r) \/ PersistTurnFails(r)
  BY <1>3, Zenon DEF RefuseCandidate, AdmissionFails, Establish, PersistTurnFails, storeVars
<1>4. CASE \E cost \in Costs \cup {0} : FinishHTTP(r, cost)
  BY <1>4, Zenon DEF FinishHTTP, Late, Bill
<1>5. CASE \E turn \in Turns, cost \in Costs :
              PersistTurn(r, turn, cost) \/ PersistTurnAckLost(r, turn, cost)
  BY <1>5, Zenon DEF PersistTurn, PersistTurnAckLost, Bill
<1>6. CASE CloseSession(r)
  <2>1. CASE Late(r)
    BY <2>1, Zenon DEF Late
  <2>2. CASE ReleaseRequestReservation(r)
    BY <2>2, Zenon DEF Bill
  <2>3. CASE /\ SettleRequestReservation(r, SessionCharge(handler[r]))
             /\ handler[r].phase \in {"established", "closing"}
    <3>1. reservation[r].status = "active" /\ handler[r].phase # "ended"
      BY <2>3 DEF SettleRequestReservation, finishReservationTx, StillActive
    <3>2. Payable(handler[r].accrued, turns[r])
      BY <3>1, Zenon DEF LifecycleInv, ChargeOK
    <3>3. SessionCharge(handler[r]) \in Amounts
      BY <3>2, PayableAmount DEF SessionCharge
    <3> QED
      BY <2>3, <3>3, Zenon DEF Bill
  <2> QED
    BY <1>6, <2>1, <2>2, <2>3, Zenon DEF CloseSession
<1> QED
  BY <1>1, <1>2, <1>3, <1>4, <1>5, <1>6, Zenon DEF RequestStep

\* So is the reclaimer's.
LEMMA ReclaimImplemented ==
    ASSUME LifecycleInv, NEW item \in reclaim, ReclaimNext(item)
    PROVE  Bill(item[1]) \/ UNCHANGED storeVars
<1>1. ListedOK(item, reservation[item[1]].status, detail[item[1]])
  BY DEF LifecycleInv
<1>2. item[2] \in Amounts
  BY <1>1, PayableAmount DEF ListedOK
<1> QED
  BY <1>2, Zenon DEF ReclaimNext, Late, Bill

\* Every step is a step of the store, or none.
LEMMA StepImplemented ==
    ASSUME LifecycleInv, LifecycleNext
    PROVE  Next \/ UNCHANGED storeVars
<1>1. CASE missing = 0 /\ \E r \in Requests : RequestStep(r)
  BY <1>1, RequestImplemented, Zenon DEF Next
<1>2. CASE \E r \in Requests : HandlerLost(r)
  BY <1>2, Zenon DEF HandlerLost, storeVars
<1>3. CASE missing = 0 /\ (Reclaimer \/ ReclaimLost)
  <2>1. ReclaimExpiredReservations \/ ReclaimLost => UNCHANGED storeVars
    BY Zenon DEF ReclaimExpiredReservations, ReclaimLost, storeVars
  <2>2. ASSUME NEW item \in reclaim, ReclaimNext(item)
        PROVE  Next \/ UNCHANGED storeVars
    <3>1. item[1] \in Requests
      BY DEF LifecycleInv
    <3> QED
      BY <1>3, <2>2, <3>1, ReclaimImplemented, Zenon DEF Next
  <2> QED
    BY <1>3, <2>1, <2>2, Zenon DEF Reclaimer
<1>4. CASE missing = 0 /\ Background
  BY <1>4, Zenon DEF Background, Next
<1>5. CASE RemoveMissing
  BY <1>5, Zenon DEF RemoveMissing, Next
<1> QED
  BY <1>1, <1>2, <1>3, <1>4, <1>5, Zenon DEF LifecycleNext

-----------------------------------------------------------------------------
(* The invariant of a step, from what it does to each request *)

LEMMA Assembled ==
    ASSUME LifecycleInv, Next \/ UNCHANGED storeVars,
           handler' \in [Requests -> HandlerType],
           \A s \in Requests : HandlerOK(handler'[s], child) /\ Accounted(s),
           reclaim' \subseteq Requests \X Nat,
           \A item \in reclaim' :
              item \in reclaim \/ ListedOK(item, reservation'[item[1]].status, detail'[item[1]])
    PROVE  LifecycleInv'
<1>1. StoreInv'
  BY StoreStep, Zenon DEF LifecycleInv
<1>2. \A c \in Children : \A t : KeptFor(child[c], t) => KeptFor(child'[c], t)
  <2>1. CASE Next
    BY <2>1, ChildrenKept, Zenon DEF LifecycleInv, StoreInv
  <2>2. CASE UNCHANGED storeVars
    <3>1. child' = child
      BY <2>2, Zenon DEF storeVars, subscriptionVars
    <3> QED
      BY <3>1
  <2> QED
    BY <2>1, <2>2
<1>3. ASSUME NEW s \in Requests
      PROVE  HandlerOK(handler'[s], child')
  <2>1. handler'[s].cands \subseteq CandidateType
    <3>1. handler'[s] \in HandlerType
      OBVIOUS
    <3> QED
      BY <3>1, Zenon DEF HandlerType
  <2>2. \A a \in handler'[s].cands : a.child # 0 => a.child \in Children
    <3>1. \A a \in CandidateType : a.child \in Children \cup {0}
      BY Zenon DEF CandidateType
    <3> QED
      BY <2>1, <3>1
  <2> QED
    BY <1>2, <2>2, Zenon DEF HandlerOK
<1>4. ASSUME NEW item \in reclaim'
      PROVE  ListedOK(item, reservation'[item[1]].status, detail'[item[1]])
  <2>1. CASE item \in reclaim
    <3> DEFINE r == item[1]
    <3>1. r \in Requests /\ item[2] \in Nat
      BY <1>4
    <3>2. ListedOK(item, reservation[r].status, detail[r])
      BY <2>1 DEF LifecycleInv
    <3>3. detail[r] \in Nat /\ detail'[r] \in Nat
      BY <1>1, <3>1 DEF LifecycleInv, StoreInv, TypeOK, ReservationTypeOK
    <3>4. Onward(r)
      BY <3>1, Zenon DEF Accounted
    <3> HIDE DEF r
    <3> QED
      BY <3>1, <3>2, <3>3, <3>4 DEF ListedOK, Onward, r
  <2> QED
    BY <1>4, <2>1
<1> QED
  BY <1>1, <1>3, <1>4, Zenon DEF LifecycleInv, Accounted

\* A step of one request's handler, or of its reservation, leaves the others
\* as they are.
LEMMA OneRequest ==
    ASSUME LifecycleInv, NEW r \in Requests, NEW g, handler' = [handler EXCEPT ![r] = g],
           g \in HandlerType, HandlerOK(g, child), Accounted(r),
           \A s \in Requests \ {r} : SameBooks(s)
    PROVE  /\ handler' \in [Requests -> HandlerType]
           /\ \A s \in Requests : HandlerOK(handler'[s], child) /\ Accounted(s)
<1>1. handler \in [Requests -> HandlerType] /\ \A s \in Requests : HandlerOK(handler[s], child)
  BY DEF LifecycleInv
<1>2. handler'[r] = g /\ \A s \in Requests \ {r} : handler'[s] = handler[s]
  BY <1>1, Zenon
<1>3. \A s \in Requests \ {r} : GoesOn(handler[s], handler'[s])
  BY <1>2, Zenon DEF GoesOn
<1>4. \A s \in Requests \ {r} : Accounted(s)
  BY <1>3, GoesOnAccounted
<1> QED
  BY <1>1, <1>2, <1>4, Zenon

\* So does a step in which the store does not move.
LEMMA OneHandler ==
    ASSUME LifecycleInv, NEW r \in Requests, NEW g, handler' = [handler EXCEPT ![r] = g],
           g \in HandlerType, HandlerOK(g, child), GoesOn(handler[r], g), UNCHANGED <<storeVars, reclaim>>
    PROVE  LifecycleInv'
<1>1. \A s \in Requests : SameBooks(s)
  BY Zenon DEF SameBooks, storeVars, reservationVars
<1>2. handler'[r] = g
  BY Zenon DEF LifecycleInv
<1>3. Accounted(r)
  BY <1>1, <1>2, GoesOnAccounted
<1>4. /\ handler' \in [Requests -> HandlerType]
      /\ \A s \in Requests : HandlerOK(handler'[s], child) /\ Accounted(s)
  BY <1>1, <1>3, OneRequest
<1> QED
  BY <1>4, Assembled, Zenon DEF LifecycleInv

-----------------------------------------------------------------------------
(* The handler's own state *)

\* How a handler may end.
LEMMA EndedHandler ==
    ASSUME LifecycleInv, NEW r \in Requests, NEW outcome \in Outcomes,
           NEW g, g = [handler[r] EXCEPT !.phase = "ended", !.cands = {}, !.outcome = outcome]
    PROVE  g \in HandlerType /\ HandlerOK(g, child) /\ GoesOn(handler[r], g)
<1>1. handler[r] \in HandlerType
  BY BookTypes
<1>2. /\ g.phase = "ended" /\ g.cands = {} /\ g.accrued = handler[r].accrued
      /\ g.ackLost = handler[r].ackLost
  BY <1>1, Zenon DEF HandlerType
<1>3. g \in HandlerType
  <2>1. "ended" \in Phases /\ {} \in SUBSET CandidateType
    BY DEF Phases
  <2> QED
    BY <1>1, <2>1, Zenon DEF HandlerType
<1> QED
  BY <1>2, <1>3 DEF HandlerOK, GoesOn

\* How a handler moves between the phases of a request that is admitted.
LEMMA MovedHandler ==
    ASSUME LifecycleInv, NEW r \in Requests, handler[r].phase \in {"serving", "established"},
           NEW g, g = [handler[r] EXCEPT !.phase = "established"]
                  \/ g = [handler[r] EXCEPT !.phase = "closing"]
    PROVE  g \in HandlerType /\ HandlerOK(g, child) /\ GoesOn(handler[r], g)
<1>1. handler[r] \in HandlerType /\ HandlerOK(handler[r], child)
  BY BookTypes DEF LifecycleInv
<1>2. /\ g.phase \in {"established", "closing"} /\ g.cands = handler[r].cands
      /\ g.accrued = handler[r].accrued /\ g.ackLost = handler[r].ackLost
      /\ g.owner = handler[r].owner /\ g.claimed = handler[r].claimed
  BY <1>1, Zenon DEF HandlerType
<1>3. g \in HandlerType
  <2>1. "established" \in Phases /\ "closing" \in Phases
    BY DEF Phases
  <2> QED
    BY <1>1, <2>1, Zenon DEF HandlerType
<1>4. handler[r].cands = {}
  BY <1>1 DEF HandlerOK
<1> QED
  BY <1>2, <1>3, <1>4 DEF HandlerOK, GoesOn

-----------------------------------------------------------------------------
(* Each step of a handler *)

\* SubscriptionCandidates: nothing is admitted yet, and the candidates are
\* children of the tenant.
LEMMA CandidatesStep ==
    ASSUME LifecycleInv, NEW r \in Requests, NEW t \in Tenants, NEW model, NEW priced \in BOOLEAN,
           NEW hold \in Reserves, SubscriptionCandidates(r, t, model, priced, hold)
    PROVE  LifecycleInv'
<1> DEFINE claims == Claims(t, model)
           serving == {c \in claims : Serving(c)}
           cands == IF Plain(claims, serving) THEN {PlainBalance} ELSE {Candidate(c) : c \in serving}
           errors == IF claims # serving THEN {"unavailable"} ELSE {}
           g == [handler[r] EXCEPT !.phase = "choosing", !.owner = t, !.priced = priced,
                                   !.hold = hold, !.claimed = claims # {}, !.cands = cands,
                                   !.errors = errors]
<1>1. handler[r].phase = "idle" /\ UNCHANGED <<storeVars, reclaim>>
  BY Zenon DEF SubscriptionCandidates
<1>2. End(r, "unavailable") \/ handler' = [handler EXCEPT ![r] = g]
  BY Zenon DEF SubscriptionCandidates
<1>3. handler[r] \in HandlerType /\ HandlerOK(handler[r], child)
  BY BookTypes DEF LifecycleInv
<1>4. CASE End(r, "unavailable")
  <2>1. "unavailable" \in Outcomes
    BY DEF Outcomes
  <2> QED
    BY <1>1, <1>4, <2>1, EndedHandler, OneHandler, Zenon DEF End
<1>5. CASE handler' = [handler EXCEPT ![r] = g]
  <2>1. claims \subseteq Children /\ \A c \in claims : child[c].state = "present" /\ child[c].owner = t
    BY Zenon DEF Claims, ActiveChildren
  <2>2. child \in [Children -> ChildType] /\ parent \in [Parents -> ParentType]
    BY DEF LifecycleInv, StoreInv, TypeOK, SubscriptionTypeOK
  <2>3. \A a \in cands : /\ a \in CandidateType
                         /\ a.child # 0 <=> claims # {}
                         /\ a.metered => a.child # 0
                         /\ a.child # 0 => KeptFor(child[a.child], t)
    <3>1. ASSUME NEW a \in cands, claims = {}
          PROVE  a = PlainBalance
      BY <3>1 DEF Plain
    <3>2. ASSUME NEW a \in cands, claims # {}
          PROVE  \E c \in claims : a = Candidate(c)
      BY <3>2, Zenon DEF Plain
    <3>3. /\ PlainBalance \in CandidateType /\ PlainBalance.child = 0 /\ ~PlainBalance.metered
      BY DEF PlainBalance, CandidateType
    <3>4. ASSUME NEW c \in claims
          PROVE  /\ Candidate(c) \in CandidateType /\ Candidate(c).child = c /\ c # 0
                 /\ KeptFor(child[c], t)
      <4>1. c \in Children /\ c # 0 /\ child[c].priority \in Nat
        BY <2>1, <2>2 DEF ChildType, Children
      <4>2. Metered(c) \in BOOLEAN
        BY DEF Metered
      <4>3. Candidate(c) \in CandidateType /\ Candidate(c).child = c
        BY <4>1, <4>2, Zenon DEF Candidate, CandidateType
      <4> QED
        BY <2>1, <4>1, <4>3 DEF KeptFor
    <3> HIDE DEF claims, serving, cands
    <3> QED
      BY <3>1, <3>2, <3>3, <3>4, Zenon
  <2>4. cands \in SUBSET CandidateType
    BY <2>3
  <2>5. /\ "choosing" \in Phases /\ t \in Tenants \cup {0} /\ (claims # {}) \in BOOLEAN
        /\ hold \in Reserves \cup {0} /\ errors \in SUBSET Skipped
    BY DEF Phases, Skipped
  <2> HIDE DEF cands, errors, claims
  <2>6. g \in HandlerType
    BY <1>3, <2>4, <2>5, Zenon DEF HandlerType
  <2>7. /\ g.phase = "choosing" /\ g.owner = t /\ g.hold = hold /\ g.cands = cands
        /\ g.claimed = (claims # {}) /\ g.accrued = handler[r].accrued /\ g.ackLost = handler[r].ackLost
    BY <1>3, Zenon DEF HandlerType
  <2>8. handler[r].accrued = 0 /\ ~handler[r].ackLost
    BY <1>1, <1>3, Zenon DEF HandlerOK
  <2> HIDE DEF g
  <2>9. HandlerOK(g, child)
    BY <2>3, <2>7, <2>8, Zenon DEF HandlerOK
  <2>10. GoesOn(handler[r], g)
    BY <1>1, <2>7 DEF GoesOn
  <2> QED
    BY <1>1, <1>5, <2>6, <2>9, <2>10, OneHandler
<1> QED
  BY <1>2, <1>4, <1>5

\* The row that admission inserts.
LEMMA InsertedRow ==
    ASSUME LifecycleInv, NEW r \in Requests, NEW t, NEW c, NEW reserve, Reserve(r, t, c, reserve)
    PROVE  /\ reservation[r].status = "none"
           /\ reservation'[r].status = "active" /\ reservation'[r].actual = 0
           /\ reservation'[r].child = c
           /\ \A s \in Requests \ {r} : reservation'[s] = reservation[s]
           /\ UNCHANGED <<turns, detail>>
<1>1. reservation \in [Requests -> ReservationType]
  BY DEF LifecycleInv, StoreInv, TypeOK, ReservationTypeOK
<1> QED
  BY <1>1 DEF Reserve

\* A successful admission starts the books of the request at zero.
LEMMA AdmitStep ==
    ASSUME LifecycleInv, NEW r \in Requests, AdmitCandidate(r), Next
    PROVE  LifecycleInv'
<1> DEFINE g == Admitted(handler[r])
<1>1. /\ handler[r].phase = "choosing" /\ handler' = [handler EXCEPT ![r] = g]
      /\ UNCHANGED reclaim
  BY Zenon DEF AdmitCandidate
<1>2. PICK a \in First(handler[r].cands) : Reserve(r, handler[r].owner, a.child, handler[r].hold)
  BY Zenon DEF AdmitCandidate
<1>3. /\ reservation[r].status = "none"
      /\ reservation'[r].status = "active" /\ reservation'[r].actual = 0
      /\ \A s \in Requests \ {r} : reservation'[s] = reservation[s]
      /\ UNCHANGED <<turns, detail>>
  BY <1>2, InsertedRow
<1>4. handler[r] \in HandlerType /\ HandlerOK(handler[r], child)
  BY BookTypes DEF LifecycleInv
<1>5. /\ g.phase = "serving" /\ g.cands = {} /\ g.accrued = handler[r].accrued
      /\ g.ackLost = handler[r].ackLost
  BY <1>4, Zenon DEF Admitted, HandlerType
<1>6. g \in HandlerType
  <2>1. "serving" \in Phases /\ {} \in SUBSET CandidateType
    BY DEF Phases
  <2> QED
    BY <1>4, <2>1, Zenon DEF Admitted, HandlerType
<1> HIDE DEF g
<1>7. HandlerOK(g, child)
  BY <1>5 DEF HandlerOK
<1>8. handler'[r] = g
  BY <1>1, Zenon DEF LifecycleInv
<1>9. detail'[r] = 0 /\ turns'[r] = turns[r]
  BY <1>3, Zenon DEF LifecycleInv, ChargeOK
<1>10. g.accrued = 0 /\ ~g.ackLost
  BY <1>1, <1>4, <1>5, Zenon DEF HandlerOK
<1>11. Accounted(r)
  <2>1. Payable(0, turns[r])
    BY PayableZero
  <2>2. ChargeOK(r, g, "active", 0, 0, turns[r])
    BY <1>10, <2>1 DEF ChargeOK
  <2> QED
    BY <1>3, <1>8, <1>9, <2>2, Zenon DEF Accounted, Onward
<1>12. \A s \in Requests \ {r} : SameBooks(s)
  BY <1>3, Zenon DEF SameBooks
<1>13. /\ handler' \in [Requests -> HandlerType]
       /\ \A s \in Requests : HandlerOK(handler'[s], child) /\ Accounted(s)
  BY <1>1, <1>6, <1>7, <1>11, <1>12, OneRequest
<1> QED
  BY <1>1, <1>13, Assembled, Zenon DEF LifecycleInv

\* What reserveCandidate may answer.
LEMMA ErrorsType ==
    ASSUME NEW t, NEW c, NEW reserve
    PROVE  ReserveErrors(t, c, reserve) \subseteq
              {"not_found", "insufficient_balance", "unavailable", "price", "exhausted"}
<1>1. \A k : WindowVerdict(c, k, reserve) \in {"exhausted", "unavailable", "ok"}
  BY Zenon DEF WindowVerdict
<1> DEFINE failing == {k \in HeldWindows(c) : WindowVerdict(c, k, reserve) # "ok"}
<1>2. {WindowVerdict(c, k, reserve) : k \in failing} \subseteq {"exhausted", "unavailable"}
  BY <1>1
<1>3. \/ ReserveErrors(t, c, reserve) \in {{"not_found"}, {"insufficient_balance"}, {"unavailable"},
                                           {"price"}, {}}
      \/ ReserveErrors(t, c, reserve) = {WindowVerdict(c, k, reserve) : k \in failing}
  BY Zenon DEF ReserveErrors
<1> HIDE DEF failing
<1> QED
  BY <1>2, <1>3

\* A refused candidate is dropped, or ends the request.
LEMMA RefuseStep ==
    ASSUME LifecycleInv, NEW r \in Requests, RefuseCandidate(r)
    PROVE  LifecycleInv'
<1> DEFINE h == handler[r]
<1>1. h.phase = "choosing" /\ UNCHANGED <<storeVars, reclaim>>
  BY Zenon DEF RefuseCandidate
<1>2. PICK a \in First(h.cands) :
         \E error \in IF Unpriced(h, a) THEN {"unpriced"} ELSE ReserveErrors(h.owner, a.child, h.hold) :
            IF error \in Skipped /\ a.child # 0
            THEN handler' = [handler EXCEPT ![r] = TryNext(@, a, error)]
            ELSE End(r, error)
  BY Zenon DEF RefuseCandidate
<1>3. PICK error \in IF Unpriced(h, a) THEN {"unpriced"} ELSE ReserveErrors(h.owner, a.child, h.hold) :
            IF error \in Skipped /\ a.child # 0
            THEN handler' = [handler EXCEPT ![r] = TryNext(@, a, error)]
            ELSE End(r, error)
  BY <1>2
<1>4. handler[r] \in HandlerType /\ HandlerOK(handler[r], child)
  BY BookTypes DEF LifecycleInv
<1>5. CASE error \in Skipped /\ handler' = [handler EXCEPT ![r] = TryNext(@, a, error)]
  <2> DEFINE g == TryNext(handler[r], a, error)
  <2>1. handler' = [handler EXCEPT ![r] = g]
    BY <1>5
  <2>2. /\ g.phase = h.phase /\ g.owner = h.owner /\ g.claimed = h.claimed /\ g.hold = h.hold
        /\ g.accrued = h.accrued /\ g.ackLost = h.ackLost /\ g.cands = h.cands \ {a}
    BY <1>4, Zenon DEF TryNext, HandlerType
  <2>3. g \in HandlerType
    <3>1. \A cs \in SUBSET CandidateType : cs \ {a} \in SUBSET CandidateType
      OBVIOUS
    <3>2. \A es \in SUBSET Skipped : es \cup {error} \in SUBSET Skipped
      BY <1>5
    <3> QED
      BY <1>4, <3>1, <3>2, Zenon DEF TryNext, HandlerType
  <2> HIDE DEF g
  <2>4. HandlerOK(g, child)
    BY <1>1, <1>4, <2>2, Zenon DEF HandlerOK
  <2>5. GoesOn(handler[r], g)
    BY <2>2, Zenon DEF GoesOn
  <2> QED
    BY <1>1, <2>1, <2>3, <2>4, <2>5, OneHandler
<1>6. CASE End(r, error)
  <2>1. error \in Outcomes \/ error = "unpriced"
    BY <1>3, ErrorsType DEF Outcomes
  <2>2. error = "unpriced" => Unpriced(h, a)
    BY <1>3, ErrorsType
  <2>3. Unpriced(h, a) => a.child # 0
    <3>1. a \in h.cands
      BY Zenon DEF First
    <3> QED
      BY <1>4, <3>1, Zenon DEF Unpriced, HandlerOK
  <2>4. CASE error = "unpriced"
    <3>1. error \in Skipped /\ a.child # 0
      BY <2>2, <2>3, <2>4 DEF Skipped
    <3> QED
      BY <1>3, <1>5, <3>1
  <2>5. CASE error \in Outcomes
    BY <1>1, <1>6, <2>5, EndedHandler, OneHandler, Zenon DEF End
  <2> QED
    BY <2>1, <2>4, <2>5
<1> QED
  BY <1>3, <1>5, <1>6

\* The most telling error is returned.
LEMMA FailsStep ==
    ASSUME LifecycleInv, NEW r \in Requests, AdmissionFails(r)
    PROVE  LifecycleInv'
<1> DEFINE h == handler[r]
           outcome == IF "unavailable" \in h.errors THEN "unavailable"
                      ELSE IF "unpriced" \in h.errors THEN "price"
                      ELSE IF "exhausted" \in h.errors THEN "exhausted" ELSE "required"
<1>1. End(r, outcome) /\ UNCHANGED <<storeVars, reclaim>>
  BY Zenon DEF AdmissionFails
<1>2. outcome \in Outcomes
  BY DEF Outcomes
<1> HIDE DEF outcome
<1> QED
  BY <1>1, <1>2, EndedHandler, OneHandler, Zenon DEF End

\* The phases of a running request.
LEMMA PhaseStep ==
    ASSUME LifecycleInv, NEW r \in Requests, Establish(r) \/ PersistTurnFails(r) \/ HandlerLost(r)
    PROVE  LifecycleInv'
<1>1. handler \in [Requests -> HandlerType]
  BY DEF LifecycleInv
<1>2. CASE HandlerLost(r)
  <2>1. "lost" \in Outcomes
    BY DEF Outcomes
  <2> QED
    BY <1>2, <2>1, EndedHandler, OneHandler, ZenonT(60) DEF HandlerLost, End
<1>3. CASE Establish(r)
  <2> DEFINE g == [handler[r] EXCEPT !.phase = "established"]
  <2>1. /\ handler' = [handler EXCEPT ![r] = g] /\ UNCHANGED <<storeVars, reclaim>>
        /\ handler[r].phase \in {"serving", "established"}
    BY <1>3, Zenon DEF Establish
  <2>2. g \in HandlerType /\ HandlerOK(g, child) /\ GoesOn(handler[r], g)
    BY <2>1, MovedHandler
  <2> HIDE DEF g
  <2> QED
    BY <2>1, <2>2, OneHandler
<1>4. CASE PersistTurnFails(r)
  <2> DEFINE g == [handler[r] EXCEPT !.phase = "closing"]
  <2>1. /\ handler' = [handler EXCEPT ![r] = g] /\ UNCHANGED <<storeVars, reclaim>>
        /\ handler[r].phase \in {"serving", "established"}
    BY <1>4, Zenon DEF PersistTurnFails
  <2>2. g \in HandlerType /\ HandlerOK(g, child) /\ GoesOn(handler[r], g)
    BY <2>1, MovedHandler
  <2> HIDE DEF g
  <2> QED
    BY <2>1, <2>2, OneHandler
<1> QED
  BY <1>2, <1>3, <1>4

\* What finishing a reservation writes, for its request and for the others.
LEMMA FinishedRow ==
    ASSUME LifecycleInv, NEW r \in Requests, NEW actual, NEW status \in Finished,
           finishReservationTx(r, actual, status)
    PROVE  /\ reservation[r].status = "active"
           /\ reservation'[r] = Closed(reservation[r], status, IF status = "released" THEN 0 ELSE actual)
           /\ \A s \in Requests \ {r} : reservation'[s] = reservation[s]
           /\ UNCHANGED turns
<1>1. reservation \in [Requests -> ReservationType]
  BY DEF LifecycleInv, StoreInv, TypeOK, ReservationTypeOK
<1>2. (IF status \in {"settled", "expired"} THEN actual ELSE 0) = (IF status = "released" THEN 0 ELSE actual)
  BY DEF Finished
<1> QED
  BY <1>1, <1>2, Zenon DEF finishReservationTx, StillActive

\* A handler that ends with a transaction that finishes its reservation.
LEMMA EndingStep ==
    ASSUME LifecycleInv, Next, NEW r \in Requests, NEW status \in Finished, NEW final \in Nat,
           reservation'[r] = Closed(reservation[r], status, final),
           \A s \in Requests \ {r} : reservation'[s] = reservation[s] /\ detail'[s] = detail[s],
           UNCHANGED <<turns, reclaim>>, End(r, "done"),
           final <= detail'[r],
           status = "settled" /\ ~handler[r].ackLost => final = detail'[r]
    PROVE  LifecycleInv'
<1> DEFINE g == [handler[r] EXCEPT !.phase = "ended", !.cands = {}, !.outcome = "done"]
<1>1. handler' = [handler EXCEPT ![r] = g]
  BY Zenon DEF End
<1>2. "done" \in Outcomes
  BY DEF Outcomes
<1>3. g \in HandlerType /\ HandlerOK(g, child) /\ GoesOn(handler[r], g)
  BY <1>2, EndedHandler
<1> HIDE DEF g
<1>4. handler'[r].ackLost = handler[r].ackLost
  BY <1>1, <1>3, Zenon DEF LifecycleInv, GoesOn
<1>5. Accounted(r)
  BY <1>4, FinishedAccounted
<1>6. \A s \in Requests \ {r} : SameBooks(s)
  BY Zenon DEF SameBooks
<1>7. /\ handler' \in [Requests -> HandlerType]
      /\ \A s \in Requests : HandlerOK(handler'[s], child) /\ Accounted(s)
  BY <1>1, <1>3, <1>5, <1>6, OneRequest
<1> QED
  BY <1>7, Assembled, Zenon DEF LifecycleInv

\* A handler that ends after its reservation did.
LEMMA LateStep ==
    ASSUME LifecycleInv, NEW r \in Requests, Late(r), End(r, "done"), UNCHANGED reclaim
    PROVE  LifecycleInv'
<1>1. "done" \in Outcomes /\ UNCHANGED <<storeVars, reclaim>>
  BY DEF Outcomes, Late
<1> QED
  BY <1>1, EndedHandler, OneHandler, Zenon DEF End

\* The HTTP finalizer charges what it logs.
LEMMA FinishHTTPStep ==
    ASSUME LifecycleInv, Next, NEW r \in Requests, NEW cost \in Costs \cup {0}, FinishHTTP(r, cost)
    PROVE  LifecycleInv'
<1>1. End(r, "done") /\ UNCHANGED reclaim /\ (SettleRequestWithLog(r, cost) \/ Late(r))
  BY Zenon DEF FinishHTTP
<1>2. CASE SettleRequestWithLog(r, cost)
  <2>1. r \notin WebSockets /\ finishReservationTx(r, cost, "settled") /\ detail' = WriteDetail(r, cost)
    BY <1>2, Zenon DEF SettleRequestWithLog
  <2>2. "settled" \in Finished
    BY DEF Finished
  <2>3. /\ reservation[r].status = "active" /\ reservation'[r] = Closed(reservation[r], "settled", cost)
        /\ \A s \in Requests \ {r} : reservation'[s] = reservation[s]
        /\ UNCHANGED turns
    BY <2>1, <2>2, FinishedRow
  <2>4. detail[r] = 0
    BY <2>1, <2>3, Zenon DEF LifecycleInv, ChargeOK
  <2>5. detail \in [Requests -> Nat] /\ cost \in Nat
    BY AmountTypes DEF LifecycleInv, StoreInv, TypeOK, ReservationTypeOK
  <2>6. detail'[r] = cost /\ \A s \in Requests \ {r} : detail'[s] = detail[s]
    BY <2>1, <2>4, <2>5 DEF WriteDetail
  <2>7. cost <= detail'[r]
    BY <2>5, <2>6
  <2> QED
    BY <1>1, <2>2, <2>3, <2>5, <2>6, <2>7, EndingStep
<1> QED
  BY <1>1, <1>2, LateStep

\* A session settles its running total, or releases its hold.
LEMMA CloseStep ==
    ASSUME LifecycleInv, Next \/ UNCHANGED storeVars, NEW r \in Requests, CloseSession(r)
    PROVE  LifecycleInv'
<1>1. End(r, "done") /\ UNCHANGED reclaim /\ handler[r].phase # "ended"
  BY Zenon DEF CloseSession
<1>2. CASE Late(r)
  BY <1>1, <1>2, LateStep
<1>3. ASSUME NEW status \in Finished, NEW actual, finishReservationTx(r, actual, status),
             UNCHANGED detail, status = "settled" => actual = handler[r].accrued, status # "expired"
      PROVE  LifecycleInv'
  <2> DEFINE final == IF status = "released" THEN 0 ELSE actual
  <2>1. /\ reservation[r].status = "active" /\ reservation'[r] = Closed(reservation[r], status, final)
        /\ \A s \in Requests \ {r} : reservation'[s] = reservation[s]
        /\ UNCHANGED turns
    BY <1>3, FinishedRow
  <2>2. /\ handler[r].accrued <= detail[r]
        /\ ~handler[r].ackLost => handler[r].accrued = detail[r]
    BY <1>1, <2>1, Zenon DEF LifecycleInv, ChargeOK
  <2>3. detail[r] \in Nat /\ handler[r].accrued \in Nat
    BY BookTypes
  <2>4. status \in {"settled", "released"}
    BY <1>3 DEF Finished
  <2>5. final = IF status = "settled" THEN handler[r].accrued ELSE 0
    BY <1>3, <2>4
  <2> HIDE DEF final
  <2>6. /\ final \in Nat /\ final <= detail'[r]
        /\ status = "settled" /\ ~handler[r].ackLost => final = detail'[r]
    BY <1>3, <2>2, <2>3, <2>5
  <2>7. \A s \in Requests \ {r} : detail'[s] = detail[s]
    BY <1>3
  <2>8. ~(UNCHANGED storeVars)
    <3>1. reservation[r] \in ReservationType
      BY BookTypes
    <3>2. reservation'[r].status = status
      BY <2>1, <3>1 DEF Closed, ReservationType
    <3> QED
      BY <2>1, <2>4, <3>2 DEF storeVars, reservationVars
  <2> QED
    BY <1>1, <1>3, <2>1, <2>6, <2>7, <2>8, EndingStep
<1>4. "settled" \in Finished /\ "released" \in Finished
  BY DEF Finished
<1> QED
  BY <1>1, <1>2, <1>3, <1>4, Zenon
     DEF CloseSession, SettleRequestReservation, ReleaseRequestReservation, SessionCharge

\* A committed turn is in the row, in the log and, unless the answer is lost,
\* in the running total.
LEMMA TurnStep ==
    ASSUME LifecycleInv, Next, NEW r \in Requests, NEW turn \in Turns, NEW cost \in Costs,
           PersistTurn(r, turn, cost) \/ PersistTurnAckLost(r, turn, cost)
    PROVE  LifecycleInv'
<1> DEFINE kept == Counted(handler[r], cost)
           lost == [handler[r] EXCEPT !.phase = "closing", !.ackLost = TRUE]
<1>1. /\ handler[r].phase = "established" /\ AccrueWebSocketTurn(r, turn, cost) /\ UNCHANGED reclaim
      /\ handler' = [handler EXCEPT ![r] = kept] \/ handler' = [handler EXCEPT ![r] = lost]
  BY Zenon DEF PersistTurn, PersistTurnAckLost
<1>2. /\ r \in WebSockets /\ reservation[r].status = "active" /\ turn \notin turns[r]
      /\ turns' = [turns EXCEPT ![r] = @ \cup {turn}]
      /\ reservation' = [reservation EXCEPT ![r] = Accrued(@, cost)]
      /\ detail' = WriteDetail(r, cost)
  BY <1>1, Zenon DEF AccrueWebSocketTurn
<1>3. /\ reservation \in [Requests -> ReservationType] /\ reservation[r] \in ReservationType
      /\ detail \in [Requests -> Nat] /\ turns \in [Requests -> SUBSET Turns]
      /\ handler \in [Requests -> HandlerType]
  BY DEF LifecycleInv, StoreInv, TypeOK, ReservationTypeOK
<1>4. /\ handler[r] \in HandlerType /\ HandlerOK(handler[r], child)
      /\ reservation[r].actual \in Nat /\ detail[r] \in Nat /\ handler[r].accrued \in Nat
      /\ cost \in Nat
  BY BookTypes, AmountTypes DEF LifecycleInv
<1>5. /\ reservation'[r].status = "active" /\ reservation'[r].actual = reservation[r].actual + cost
      /\ turns'[r] = turns[r] \cup {turn} /\ detail'[r] = detail[r] + cost
  <2>1. /\ Accrued(reservation[r], cost).status = reservation[r].status
        /\ Accrued(reservation[r], cost).actual = reservation[r].actual + cost
    BY <1>3 DEF Accrued, ReservationType
  <2> QED
    BY <1>2, <1>3, <2>1, Zenon DEF WriteDetail
<1>6. \A s \in Requests \ {r} : SameBooks(s)
  <2>1. \A s \in Requests \ {r} : /\ reservation'[s] = reservation[s] /\ turns'[s] = turns[s]
                                  /\ detail'[s] = detail[s]
    BY <1>2, <1>3, Zenon DEF WriteDetail
  <2> QED
    BY <2>1, Zenon DEF SameBooks
<1>7. /\ reservation[r].actual = detail[r] /\ Payable(reservation[r].actual, turns[r])
      /\ handler[r].accrued <= detail[r] /\ Payable(handler[r].accrued, turns[r])
      /\ ~handler[r].ackLost => handler[r].accrued = detail[r]
  BY <1>1, <1>2, Zenon DEF LifecycleInv, ChargeOK
<1>8. /\ Payable(reservation'[r].actual, turns'[r])
      /\ Payable(handler[r].accrued, turns'[r])
      /\ Payable(handler[r].accrued + cost, turns'[r])
  BY <1>2, <1>5, <1>7, PayableTurn, PayableLater
<1>9. handler[r].cands = {}
  BY <1>1, <1>4 DEF HandlerOK
<1>10. ASSUME NEW g, handler' = [handler EXCEPT ![r] = g], g \in HandlerType,
              g.phase \in {"established", "closing"}, g.cands = {},
              \/ g.accrued = handler[r].accrued + cost /\ g.ackLost = handler[r].ackLost
              \/ g.accrued = handler[r].accrued /\ g.ackLost
       PROVE  LifecycleInv'
  <2>1. HandlerOK(g, child)
    BY <1>10 DEF HandlerOK
  <2>2. handler'[r] = g
    BY <1>3, <1>10, Zenon
  <2>3. /\ detail'[r] \in Nat /\ reservation'[r].actual = detail'[r] /\ detail[r] <= detail'[r]
        /\ g.accrued <= detail'[r]
    BY <1>4, <1>5, <1>7, <1>10
  <2>4. ~g.ackLost => g.accrued = detail'[r]
    <3>1. CASE g.accrued = handler[r].accrued + cost /\ g.ackLost = handler[r].ackLost
      BY <1>5, <1>7, <3>1
    <3> QED
      BY <1>10, <3>1, Zenon
  <2>5. Payable(g.accrued, turns'[r])
    BY <1>8, <1>10
  <2>6. reservation'[r].actual <= detail'[r]
    BY <2>3
  <2>7. Accounted(r)
    BY <1>2, <1>5, <1>8, <2>2, <2>3, <2>4, <2>5, <2>6, Zenon DEF Accounted, Onward, ChargeOK
  <2>8. /\ handler' \in [Requests -> HandlerType]
        /\ \A s \in Requests : HandlerOK(handler'[s], child) /\ Accounted(s)
    BY <1>6, <1>10, <2>1, <2>7, OneRequest
  <2> QED
    BY <1>1, <2>8, Assembled, Zenon DEF LifecycleInv
<1>11. /\ kept.phase = handler[r].phase /\ kept.cands = handler[r].cands
       /\ kept.accrued = handler[r].accrued + cost /\ kept.ackLost = handler[r].ackLost
       /\ kept \in HandlerType
  <2>1. handler[r].accrued + cost \in Nat
    BY <1>4
  <2> QED
    BY <1>4, <2>1, Zenon DEF Counted, HandlerType
<1>12. /\ lost.phase = "closing" /\ lost.cands = handler[r].cands
       /\ lost.accrued = handler[r].accrued /\ lost.ackLost
       /\ lost \in HandlerType
  <2>1. "closing" \in Phases
    BY DEF Phases
  <2> QED
    BY <1>4, <2>1, Zenon DEF HandlerType
<1> HIDE DEF kept, lost
<1> QED
  BY <1>1, <1>9, <1>10, <1>11, <1>12, Zenon

\* One step of a request.
LEMMA RequestStepKeeps ==
    ASSUME LifecycleInv, NEW r \in Requests, RequestStep(r), missing = 0
    PROVE  LifecycleInv'
<1>1. Next \/ UNCHANGED storeVars
  BY RequestImplemented, Zenon DEF Next
<1>2. CASE AdmitCandidate(r)
  <2>1. Next
    BY <1>2, AdmissionImplemented, Zenon DEF Next
  <2> QED
    BY <1>2, <2>1, AdmitStep
<1>3. ASSUME NEW cost \in Costs \cup {0}, FinishHTTP(r, cost)
      PROVE  LifecycleInv'
  <2>1. CASE Late(r)
    BY <1>3, <2>1, LateStep, Zenon DEF FinishHTTP
  <2>2. CASE SettleRequestWithLog(r, cost)
    <3>1. Next
      BY <2>2, Zenon DEF Next, Bill
    <3> QED
      BY <1>3, <3>1, FinishHTTPStep
  <2> QED
    BY <1>3, <2>1, <2>2, Zenon DEF FinishHTTP
<1>4. ASSUME NEW turn \in Turns, NEW cost \in Costs,
             PersistTurn(r, turn, cost) \/ PersistTurnAckLost(r, turn, cost)
      PROVE  LifecycleInv'
  <2>1. Next
    BY <1>4, Zenon DEF PersistTurn, PersistTurnAckLost, Next, Bill
  <2> QED
    BY <1>4, <2>1, TurnStep
<1>5. CASE CloseSession(r)
  BY <1>1, <1>5, CloseStep
<1>6. CASE RefuseCandidate(r) \/ AdmissionFails(r) \/ Establish(r) \/ PersistTurnFails(r)
  BY <1>6, RefuseStep, FailsStep, PhaseStep
<1>7. ASSUME NEW t \in Tenants, NEW model \in Models, NEW priced \in BOOLEAN, NEW hold \in Reserves,
             SubscriptionCandidates(r, t, model, priced, hold)
      PROVE  LifecycleInv'
  BY <1>7, CandidatesStep
<1> QED
  BY <1>2, <1>3, <1>4, <1>5, <1>6, <1>7, Zenon DEF RequestStep

-----------------------------------------------------------------------------
(* The reclaimer, administration and the removal of credentials *)

\* The handlers do not move while a reservation is finished under them.
LEMMA QuietHandlers ==
    ASSUME LifecycleInv, Next \/ UNCHANGED storeVars, UNCHANGED handler, reclaim' \subseteq reclaim,
           \A s \in Requests : SameBooks(s) \/ Accounted(s)
    PROVE  LifecycleInv'
<1>1. \A s \in Requests : GoesOn(handler[s], handler'[s])
  BY Zenon DEF GoesOn
<1>2. \A s \in Requests : Accounted(s)
  BY <1>1, GoesOnAccounted
<1>3. /\ handler' \in [Requests -> HandlerType] /\ \A s \in Requests : HandlerOK(handler'[s], child)
      /\ reclaim' \subseteq Requests \X Nat
  BY DEF LifecycleInv
<1> QED
  BY <1>2, <1>3, Assembled

\* A reservation that is finished under its handler, at a charge its log covers.
LEMMA FinishedUnder ==
    ASSUME LifecycleInv, Next, NEW r \in Requests, NEW actual \in Nat, NEW status \in Finished,
           finishReservationTx(r, actual, status), UNCHANGED <<detail, handler>>,
           status # "settled", actual <= detail[r], reclaim' \subseteq reclaim
    PROVE  LifecycleInv'
<1> DEFINE final == IF status = "released" THEN 0 ELSE actual
<1>1. /\ reservation'[r] = Closed(reservation[r], status, final)
      /\ \A s \in Requests \ {r} : reservation'[s] = reservation[s]
      /\ UNCHANGED turns
  BY FinishedRow
<1>2. detail[r] \in Nat
  BY BookTypes
<1>3. final \in Nat /\ final <= detail'[r]
  BY <1>2
<1> HIDE DEF final
<1>4. Accounted(r)
  BY <1>1, <1>3, FinishedAccounted
<1>5. \A s \in Requests \ {r} : SameBooks(s)
  BY <1>1, Zenon DEF SameBooks
<1> QED
  BY <1>4, <1>5, QuietHandlers

\* The reclaimer's list, and its next item.
LEMMA ReclaimStep ==
    ASSUME LifecycleInv, missing = 0, Reclaimer \/ ReclaimLost
    PROVE  LifecycleInv'
<1>1. CASE ReclaimLost
  <2>1. UNCHANGED <<storeVars, handler>> /\ reclaim' = {}
    BY <1>1, Zenon DEF ReclaimLost
  <2>2. \A s \in Requests : SameBooks(s)
    BY <2>1, Zenon DEF SameBooks, storeVars, reservationVars
  <2> QED
    BY <2>1, <2>2, QuietHandlers
<1>2. CASE ReclaimExpiredReservations
  <2>1. UNCHANGED <<storeVars, handler>> /\ reclaim' = {<<r, reservation[r].actual>> : r \in Expired}
    BY <1>2, Zenon DEF ReclaimExpiredReservations
  <2>2. /\ UNCHANGED <<reservation, detail, turns>> /\ UNCHANGED storeVars
    BY <2>1, Zenon DEF storeVars, reservationVars
  <2>3. \A s \in Requests : SameBooks(s) /\ GoesOn(handler[s], handler'[s])
    BY <2>1, <2>2, Zenon DEF SameBooks, GoesOn
  <2>4. \A s \in Requests : Accounted(s)
    BY <2>3, GoesOnAccounted
  <2>5. ASSUME NEW item \in reclaim'
        PROVE  /\ item \in Requests \X Nat
               /\ ListedOK(item, reservation'[item[1]].status, detail'[item[1]])
    <3>1. PICK r \in Expired : item = <<r, reservation[r].actual>>
      BY <2>1
    <3>2. r \in Requests /\ reservation[r].status = "active"
      BY Zenon DEF Expired
    <3>3. reservation[r].actual \in Nat /\ detail[r] \in Nat /\ turns[r] \subseteq Turns
      BY <3>2, BookTypes
    <3>4. reservation[r].actual = detail[r] /\ Payable(reservation[r].actual, turns[r])
      BY <3>2, Zenon DEF LifecycleInv, ChargeOK
    <3>5. Payable(reservation[r].actual, Turns)
      BY <3>3, <3>4, PayableLater
    <3>6. item[1] = r /\ item[2] = reservation[r].actual /\ item \in Requests \X Nat
      BY <3>1, <3>2, <3>3
    <3>7. detail[r] <= detail[r]
      BY <3>3
    <3> QED
      BY <2>2, <3>2, <3>4, <3>5, <3>6, <3>7, Zenon DEF ListedOK
  <2>6. handler' \in [Requests -> HandlerType] /\ \A s \in Requests : HandlerOK(handler'[s], child)
    BY <2>1 DEF LifecycleInv
  <2> QED
    BY <2>2, <2>4, <2>5, <2>6, Assembled
<1>3. ASSUME NEW item \in reclaim, ReclaimNext(item)
      PROVE  LifecycleInv'
  <2>1. item[1] \in Requests /\ item[2] \in Nat
    BY DEF LifecycleInv
  <2>2. reclaim' \subseteq reclaim /\ UNCHANGED handler
    BY <1>3 DEF ReclaimNext
  <2>3. CASE Late(item[1])
    <3>1. UNCHANGED storeVars
      BY <2>3, Zenon DEF Late
    <3>2. \A s \in Requests : SameBooks(s)
      BY <3>1, Zenon DEF SameBooks, storeVars, reservationVars
    <3> QED
      BY <2>2, <3>1, <3>2, QuietHandlers
  <2>4. CASE ReclaimReservation(item[1], item[2])
    <3>1. finishReservationTx(item[1], item[2], "expired") /\ UNCHANGED detail
      BY <2>4, Zenon DEF ReclaimReservation
    <3>2. reservation[item[1]].status = "active"
      BY <3>1, Zenon DEF finishReservationTx, StillActive
    <3>3. ListedOK(item, reservation[item[1]].status, detail[item[1]])
      BY DEF LifecycleInv
    <3>4. item[2] <= detail[item[1]] /\ item[2] \in Amounts
      BY <3>2, <3>3, PayableAmount, Zenon DEF ListedOK
    <3>5. Next
      BY <2>1, <2>4, <3>4, Zenon DEF Next, Bill
    <3>6. "expired" \in Finished /\ "expired" # "settled"
      BY DEF Finished
    <3> QED
      BY <2>1, <2>2, <3>1, <3>4, <3>5, <3>6, FinishedUnder
  <2> QED
    BY <1>3, <2>3, <2>4, Zenon DEF ReclaimNext
<1> QED
  BY <1>1, <1>2, <1>3, Zenon DEF Reclaimer

\* Administration, deletions and credits change no charge, and a removed
\* credential releases its requests at no charge.
LEMMA BackgroundStep ==
    ASSUME LifecycleInv, Next, Background \/ RemoveMissing, UNCHANGED <<handler, reclaim>>
    PROVE  LifecycleInv'
<1>1. TypeOK
  BY DEF LifecycleInv, StoreInv
<1>2. ASSUME UNCHANGED <<reservation, detail, turns>>
      PROVE  LifecycleInv'
  <2>1. \A s \in Requests : SameBooks(s)
    BY <1>2, Zenon DEF SameBooks
  <2> QED
    BY <2>1, QuietHandlers
<1>3. ASSUME NEW cs, NEW p, reservation' = ForgetChildren(cs, p), UNCHANGED <<detail, turns>>
      PROVE  LifecycleInv'
  <2>1. \A s \in Requests : SameBooks(s)
    BY <1>1, <1>3, ForgottenBooks
  <2> QED
    BY <2>1, QuietHandlers
<1>4. ASSUME NEW t, DeleteTenant(t)
      PROVE  LifecycleInv'
  <2>1. ASSUME NEW s \in Requests
        PROVE  SameBooks(s) \/ Accounted(s)
    <3>1. CASE reservation[s].owner = t
      <4>1. reservation'[s] = NoReservation("purged") /\ detail'[s] = 0
        BY <1>4, <3>1, Zenon DEF DeleteTenant
      <4> QED
        BY <4>1, PurgedAccounted
    <3>2. CASE reservation[s].owner # t
      <4>1. reservation'[s] = reservation[s] /\ detail'[s] = detail[s] /\ turns'[s] = turns[s]
        BY <1>4, <3>2, Zenon DEF DeleteTenant
      <4> QED
        BY <4>1, Zenon DEF SameBooks
    <3> QED
      BY <3>1, <3>2
  <2> QED
    BY <2>1, QuietHandlers
<1>5. ASSUME NEW r \in Requests, MarkMissingRelease(r)
      PROVE  LifecycleInv'
  <2>1. finishReservationTx(r, 0, "released") /\ UNCHANGED detail
    BY <1>5, Zenon DEF MarkMissingRelease
  <2>2. 0 \in Nat /\ 0 <= detail[r] /\ "released" \in Finished /\ "released" # "settled"
    BY BookTypes DEF Finished
  <2> QED
    BY <2>1, <2>2, FinishedUnder
<1>6. /\ Administer => UNCHANGED <<reservation, detail, turns>>
      /\ \A t, amount : Credit(t, amount) => UNCHANGED <<reservation, detail, turns>>
      /\ \A c : DeleteChildCount(c) => UNCHANGED <<reservation, detail, turns>>
      /\ \A p : MarkMissingBegin(p) => UNCHANGED <<reservation, detail, turns>>
  BY Zenon DEF Administer, reservationVars, Credit, DeleteChildCount, MarkMissingBegin
<1>7. /\ MarkMissingDelete =>
            /\ \E cs, p : reservation' = ForgetChildren(cs, p)
            /\ UNCHANGED <<detail, turns>>
      /\ \A c : DeleteChildSubscription(c) =>
            /\ \E cs, p : reservation' = ForgetChildren(cs, p)
            /\ UNCHANGED <<detail, turns>>
  BY Zenon DEF MarkMissingDelete, DeleteChildSubscription
<1> QED
  BY <1>2, <1>3, <1>4, <1>5, <1>6, <1>7, Zenon DEF Background, Removal, RemoveMissing

-----------------------------------------------------------------------------
(* The theorems *)

\* The process starts without handlers.
LEMMA LifecycleStart == LifecycleInit => LifecycleInv
<1> SUFFICES ASSUME LifecycleInit
             PROVE  LifecycleInv
  OBVIOUS
<1>1. StoreInv
  BY StoreInit DEF LifecycleInit
<1>2. NoHandler \in HandlerType
  BY DEF NoHandler, HandlerType, Phases, Outcomes
<1>3. HandlerOK(NoHandler, child)
  BY DEF HandlerOK, NoHandler
<1>4. ASSUME NEW r \in Requests
      PROVE  ChargeOK(r, NoHandler, reservation[r].status, reservation[r].actual, detail[r], turns[r])
  <2>1. reservation[r].status = "none" /\ reservation[r].actual = 0 /\ detail[r] = 0
    BY DEF LifecycleInit, Init, ReservationInit, NoReservation
  <2> QED
    BY <2>1 DEF ChargeOK
<1> QED
  BY <1>1, <1>2, <1>3, <1>4 DEF LifecycleInit, LifecycleInv

\* Every step keeps the invariant.
LEMMA LifecycleStep == LifecycleInv /\ [LifecycleNext]_lifecycleVars => LifecycleInv'
<1>1. ASSUME LifecycleInv, LifecycleNext
      PROVE  LifecycleInv'
  <2>1. Next \/ UNCHANGED storeVars
    BY <1>1, StepImplemented
  <2>2. CASE (missing = 0 /\ Background) \/ RemoveMissing
    <3>1. Next
      BY <2>2, Zenon DEF Background, RemoveMissing, Next
    <3> QED
      BY <1>1, <2>2, <3>1, BackgroundStep, RequestStepKeeps, PhaseStep, ReclaimStep, Zenon DEF LifecycleNext
  <2> QED
    BY <1>1, <2>2, RequestStepKeeps, PhaseStep, ReclaimStep, Zenon DEF LifecycleNext
<1>2. ASSUME LifecycleInv, UNCHANGED lifecycleVars
      PROVE  LifecycleInv'
  <2>1. UNCHANGED storeVars /\ UNCHANGED <<handler, reclaim>>
    BY <1>2, Zenon DEF lifecycleVars
  <2>2. \A s \in Requests : SameBooks(s)
    BY <2>1, Zenon DEF SameBooks, storeVars, reservationVars
  <2> QED
    BY <1>2, <2>1, <2>2, QuietHandlers
<1> QED
  BY <1>1, <1>2

\* The invariant of the handlers and jobs.
THEOREM LifecycleInvariant == LifecycleSpec => []LifecycleInv
BY LifecycleStart, LifecycleStep, PTL DEF LifecycleSpec

\* The handlers, the reclaimer and the removal of credentials use the store
\* only through its transactions: what is proved of the store holds of the
\* running program (AdmitRequest, handleWebSocket, ReclaimExpiredReservations).
THEOREM StoreImplemented == LifecycleSpec => ImplementsStore
<1>1. LifecycleInit => Init
  BY DEF LifecycleInit
<1>2. LifecycleInv /\ [LifecycleNext]_lifecycleVars => [Next]_storeVars
  BY StepImplemented, Zenon DEF lifecycleVars
<1> QED
  BY <1>1, <1>2, LifecycleInvariant, PTL DEF LifecycleSpec, ImplementsStore, Spec

\* For any number of requests, turns and credential removals, whoever finishes
\* a request: no charge without its billing detail, and no detail of a settled
\* request uncharged unless the answer to its commit was lost
\* (SettleRequestWithLog, AccrueWebSocketTurn, handleWebSocket).
THEOREM ChargesCorrect == LifecycleSpec => []ChargesMatchDetails
<1>1. LifecycleInv => ChargesMatchDetails
  <2> SUFFICES ASSUME LifecycleInv
               PROVE  ChargesMatchDetails
    OBVIOUS
  <2>1. LifecycleTypeOK
    BY Zenon DEF LifecycleInv, LifecycleTypeOK, HandlerOK
  <2>2. ChargeHasDetail /\ SettledChargeIsLogged
    BY Zenon DEF LifecycleInv, ChargeOK, ChargeHasDetail, SettledChargeIsLogged
  <2> QED
    BY <2>1, <2>2 DEF ChargesMatchDetails
<1> QED
  BY <1>1, LifecycleInvariant, PTL

-----------------------------------------------------------------------------
(* Who admits a request *)

\* A step in which request r is admitted.
Admits(r) == reservation[r].status = "none" /\ reservation'[r].status = "active"

\* No transaction other than reserveCandidate's admits a request.
LEMMA NotAdmitting ==
    ASSUME LifecycleInv, NEW r \in Requests
    PROVE  /\ UNCHANGED storeVars => ~Admits(r)
           /\ \A s \in Requests, status \in Finished : \A actual :
                 finishReservationTx(s, actual, status) => ~Admits(r)
           /\ \A s \in Requests : \A turn, cost : AccrueWebSocketTurn(s, turn, cost) => ~Admits(r)
           /\ Background \/ RemoveMissing => ~Admits(r)
<1>1. /\ reservation \in [Requests -> ReservationType] /\ reservation[r] \in ReservationType
      /\ TypeOK
  BY DEF LifecycleInv, StoreInv, TypeOK, ReservationTypeOK
<1>2. UNCHANGED reservation => ~Admits(r)
  BY DEF Admits
<1>3. ASSUME NEW s \in Requests, NEW actual, NEW status \in Finished,
             finishReservationTx(s, actual, status)
      PROVE  ~Admits(r)
  <2> DEFINE final == IF status = "released" THEN 0 ELSE actual
  <2>1. /\ reservation[s].status = "active" /\ reservation'[s] = Closed(reservation[s], status, final)
        /\ \A q \in Requests \ {s} : reservation'[q] = reservation[q]
    BY <1>3, FinishedRow
  <2> QED
    BY <2>1, Zenon DEF Admits
<1>4. ASSUME NEW s \in Requests, NEW turn, NEW cost, AccrueWebSocketTurn(s, turn, cost)
      PROVE  ~Admits(r)
  <2>1. /\ reservation[s].status = "active"
        /\ reservation' = [reservation EXCEPT ![s] = Accrued(@, cost)]
    BY <1>4, Zenon DEF AccrueWebSocketTurn
  <2> QED
    BY <1>1, <2>1, Zenon DEF Admits
<1>5. ASSUME NEW cs, NEW p, reservation' = ForgetChildren(cs, p), UNCHANGED <<detail, turns>>
      PROVE  ~Admits(r)
  <2>1. SameBooks(r)
    BY <1>1, <1>5, ForgottenBooks
  <2> QED
    BY <2>1 DEF SameBooks, Admits
<1>6. ASSUME NEW t, DeleteTenant(t)
      PROVE  ~Admits(r)
  <2>1. reservation'[r] = NoReservation("purged") \/ reservation'[r] = reservation[r]
    BY <1>6, Zenon DEF DeleteTenant
  <2> QED
    BY <2>1 DEF Admits, NoReservation
<1>7. UNCHANGED storeVars => ~Admits(r)
  BY <1>2, Zenon DEF storeVars, reservationVars
<1>8. ASSUME Background \/ RemoveMissing
      PROVE  ~Admits(r)
  <2>1. /\ Administer => UNCHANGED reservation
        /\ \A t, amount : Credit(t, amount) => UNCHANGED reservation
        /\ \A c : DeleteChildCount(c) => UNCHANGED reservation
        /\ \A p : MarkMissingBegin(p) => UNCHANGED reservation
    BY Zenon DEF Administer, reservationVars, Credit, DeleteChildCount, MarkMissingBegin
  <2>2. /\ MarkMissingDelete =>
              /\ \E cs, p : reservation' = ForgetChildren(cs, p)
              /\ UNCHANGED <<detail, turns>>
        /\ \A c : DeleteChildSubscription(c) =>
              /\ \E cs, p : reservation' = ForgetChildren(cs, p)
              /\ UNCHANGED <<detail, turns>>
    BY Zenon DEF MarkMissingDelete, DeleteChildSubscription
  <2>3. /\ \A s : MarkMissingRelease(s) => finishReservationTx(s, 0, "released")
        /\ "released" \in Finished
    BY DEF MarkMissingRelease, Finished
  <2> QED
    BY <1>2, <1>3, <1>5, <1>6, <1>8, <2>1, <2>2, <2>3, Zenon DEF Background, Removal, RemoveMissing
<1> QED
  BY <1>3, <1>4, <1>7, <1>8, Zenon

\* A request is admitted by its own handler, through a candidate it has read.
LEMMA AdmittedByHandler ==
    ASSUME LifecycleInv, LifecycleNext, NEW r \in Requests, Admits(r)
    PROVE  AdmitCandidate(r)
<1>1. "settled" \in Finished /\ "released" \in Finished /\ "expired" \in Finished
  BY DEF Finished
<1>2. ASSUME NEW s \in Requests, RequestStep(s)
      PROVE  AdmitCandidate(r)
  <2>1. CASE AdmitCandidate(s)
    <3>1. CASE s # r
      <4>1. PICK a \in First(handler[s].cands) : Reserve(s, handler[s].owner, a.child, handler[s].hold)
        BY <2>1, Zenon DEF AdmitCandidate
      <4>2. reservation'[r] = reservation[r]
        BY <3>1, <4>1, InsertedRow
      <4> QED
        BY <4>2 DEF Admits
    <3> QED
      BY <2>1, <3>1
  <2>2. /\ \A t, model, priced, hold : SubscriptionCandidates(s, t, model, priced, hold) => UNCHANGED storeVars
        /\ RefuseCandidate(s) \/ AdmissionFails(s) \/ Establish(s) \/ PersistTurnFails(s) =>
              UNCHANGED storeVars
    BY Zenon DEF SubscriptionCandidates, RefuseCandidate, AdmissionFails, Establish, PersistTurnFails,
                 storeVars
  <2>3. /\ \A cost : FinishHTTP(s, cost) =>
              finishReservationTx(s, cost, "settled") \/ UNCHANGED storeVars
        /\ CloseSession(s) => \/ finishReservationTx(s, SessionCharge(handler[s]), "settled")
                              \/ finishReservationTx(s, 0, "released")
                              \/ UNCHANGED storeVars
        /\ \A turn, cost : PersistTurn(s, turn, cost) \/ PersistTurnAckLost(s, turn, cost) =>
              AccrueWebSocketTurn(s, turn, cost)
    BY Zenon DEF FinishHTTP, CloseSession, SettleRequestWithLog, SettleRequestReservation,
                 ReleaseRequestReservation, Late, PersistTurn, PersistTurnAckLost
  <2> QED
    BY <1>1, <1>2, <2>1, <2>2, <2>3, NotAdmitting, Zenon DEF RequestStep
<1>3. ASSUME NEW item \in reclaim, ReclaimNext(item)
      PROVE  AdmitCandidate(r)
  <2>1. item[1] \in Requests
    BY DEF LifecycleInv
  <2>2. finishReservationTx(item[1], item[2], "expired") \/ UNCHANGED storeVars
    BY <1>3, Zenon DEF ReclaimNext, ReclaimReservation, Late
  <2> QED
    BY <1>1, <2>1, <2>2, NotAdmitting, Zenon
<1>4. /\ \A s : HandlerLost(s) => UNCHANGED storeVars
      /\ ReclaimExpiredReservations \/ ReclaimLost => UNCHANGED storeVars
  BY Zenon DEF HandlerLost, ReclaimExpiredReservations, ReclaimLost, storeVars
<1> QED
  BY <1>2, <1>3, <1>4, NotAdmitting, Zenon DEF LifecycleNext, Reclaimer

\* For any number of children and whatever is deleted meanwhile, a request
\* whose model some child claims is admitted through a child, and one that no
\* child claims from the plain balance (SubscriptionCandidates, AdmitRequest).
THEOREM SubscriptionsFirst == LifecycleSpec => SubscriptionBeforeBalance
<1> DEFINE Billed(r) == handler[r].claimed <=> reservation'[r].child # 0
<1>1. ASSUME LifecycleInv, LifecycleNext, NEW r \in Requests, Admits(r)
      PROVE  Billed(r)
  <2>1. AdmitCandidate(r)
    BY <1>1, AdmittedByHandler
  <2>2. handler[r].phase = "choosing"
    BY <2>1, Zenon DEF AdmitCandidate
  <2>3. PICK a \in First(handler[r].cands) : Reserve(r, handler[r].owner, a.child, handler[r].hold)
    BY <2>1, Zenon DEF AdmitCandidate
  <2>4. a.child # 0 <=> handler[r].claimed
    BY <1>1, <2>2, CandidateFacts
  <2>5. reservation'[r].child = a.child
    BY <1>1, <2>3, InsertedRow
  <2> QED
    BY <2>4, <2>5, Zenon
<1>2. LifecycleInv /\ [LifecycleNext]_lifecycleVars =>
         [\A r \in Requests : Admits(r) => Billed(r)]_lifecycleVars
  BY <1>1, Zenon
<1>3. [\A r \in Requests : Admits(r) => Billed(r)]_lifecycleVars =>
      [\A r \in Requests :
          reservation[r].status = "none" /\ reservation'[r].status = "active" =>
              (handler[r].claimed <=> reservation'[r].child # 0)]_lifecycleVars
  BY Zenon DEF Admits
<1> QED
  BY <1>2, <1>3, LifecycleInvariant, PTL DEF LifecycleSpec, SubscriptionBeforeBalance

=============================================================================
