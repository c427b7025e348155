--------------------------- MODULE MCReservations ---------------------------
(***************************************************************************)
(* Small instances of Reservations.  A run checks several instances at     *)
(* once: `scope`, chosen in the initial state, says which of the           *)
(* constants' members a behaviour uses, and ScopedNext is Next with its    *)
(* inputs taken from there.                                                *)
(***************************************************************************)
EXTENDS Reservations, FiniteSetsExt, TLC

VARIABLE scope

\* Total is the sum.
ASSUME TotalsAdd ==
    \A f \in [1..3 -> -2..2], S \in SUBSET (1..3) : Total(f, S) = MapThenSumSet(LAMBDA x : f[x], S)

\* However many requests race for a child's share, what they hold and have
\* spent in the current generation stays within it, in every window of the
\* parent (the admission loop of reserveCandidate).  Only for HTTP requests
\* that cost no more than they reserve, under a fixed limit and share (the
\* scopes without conversions): a session's turns, a costlier response or a
\* lowered estimate may exceed it.
ShareRespected ==
    scope.conversions = {} => \A c \in Children, k \in Kinds :
        LET window == parentWindow[child[c].parent][k] IN
        child[c].state = "present" /\ window.resetsAt # 0 /\ childWindow[c][k].resetsAt = window.resetsAt
            => childWindow[c][k].settled + childWindow[c][k].reserved <= fraction(window.limit, child[c].ppm)

-----------------------------------------------------------------------------
(* Values of the constants and the scopes *)

Grant(ppm) == [ppm |-> ppm, priority |-> 1, enabled |-> TRUE, models |-> {},
               startsAt |-> 0, expiresAt |-> 0]
WholeShare == {Grant(1000000)}
HalfShare == {Grant(500000)}
AnyShare == WholeShare \cup HalfShare
Observed == {[mode |-> "observed", enabled |-> TRUE, models |-> {}]}
Unmetered == {[mode |-> "unmetered", enabled |-> TRUE, models |-> {}]}
AnyMode == Observed \cup Unmetered
ClaudeProbes == {<<"supported", "idle">>, <<"supported", "active">>, <<"error", "kept">>,
                 <<"unsupported", "active">>}
InService == {<<FALSE, {}>>}
TenantSymmetry == Permutations(Tenants)
RequestSymmetry == Permutations(Requests \ WebSockets)

\* One tenant, one child, one parent that is sampled, no administration.
Plainest == [tenants |-> Tenants, parents |-> {1}, children |-> {1}, kinds |-> Kinds,
             estimates |-> Estimates, conversions |-> {}, grants |-> WholeShare,
             inputs |-> Observed, syncs |-> {}, probes |-> {}, enabled |-> {}, purged |-> {}, gens |-> Gens,
             maxTime |-> 0, requests |-> Requests, costs |-> Costs, amounts |-> Amounts,
             credits |-> {}]

\* Every HTTP request races for a child with all window kinds.
QuotaScope == [Plainest EXCEPT !.gens = {1, 2}]
\* One request; estimates, conversions and idle probes over time.
WindowScopes ==
    {[Plainest EXCEPT !.kinds = {FiveHour}, !.conversions = Conversions, !.grants = HalfShare,
                      !.probes = ProbeReports, !.maxTime = MaxTime, !.requests = {r},
                      !.credits = CreditAmounts] : r \in Requests}
\* Two tenants with two grants of one parent, nothing metered.
AccountScope == [Plainest EXCEPT !.children = Children, !.kinds = {}, !.grants = HalfShare,
                                 !.inputs = AnyMode, !.enabled = TenantInputs, !.purged = Tenants,
                                 !.costs = {1}, !.amounts = {0, 1}, !.credits = CreditAmounts]
\* One tenant's session on two parents whose credentials may vanish.
RemovalScopes ==
    {[Plainest EXCEPT !.tenants = {t}, !.parents = Parents, !.conversions = Conversions,
                      !.syncs = SyncReports, !.requests = WebSockets, !.costs = {2},
                      !.amounts = {2}] : t \in Tenants}

WindowRun == {QuotaScope} \cup WindowScopes
AccountRun == {AccountScope} \cup RemovalScopes

-----------------------------------------------------------------------------
(* Next, with the inputs of the scope *)

ScopedSubscriptions ==
    \/ now < scope.maxTime /\ Tick
    \/ \E p \in scope.parents :
          \/ \E report \in scope.syncs : SyncNativeParentSubscription(p, report[1], report[2])
          \/ \E input \in scope.inputs : UpsertParentSubscription(p, input)
          \/ \E input \in scope.inputs : UpdateParentSubscription(p, input)
          \/ \E report \in scope.probes : UpdateParentQuotaProbe(p, report[1], report[2])
          \/ \E k \in scope.kinds, resetsAt \in scope.gens, observedAt \in Times,
                estimate \in scope.estimates \cup {0}, unchanged \in BOOLEAN :
                RecordParentQuotaObservation(p, k, resetsAt, observedAt, estimate, unchanged)
          \/ \E ks \in SUBSET scope.kinds :
                \E limits \in [ks -> scope.conversions], resets \in [ks -> scope.gens] :
                    SetParentQuotaWindows(p, ks, limits, resets)
          \/ \E t \in scope.tenants, grant \in scope.grants : CreateChildSubscription(t, p, grant)
          \/ \E ts \in SUBSET scope.tenants, grant \in scope.grants :
                CreateSharedSubscriptionGrants(ts, p, grant)
          \/ \E c \in scope.children, grant \in scope.grants : UpdateChildSubscription(c, p, grant)
          \/ \E ts \in SUBSET scope.tenants : GrantBalanceSubscriptionAccess(ts, p)
    \/ \E t \in scope.tenants, enabled \in scope.enabled : UpdateTenant(t, enabled)

ScopedRemoval ==
    \/ \E c \in scope.children : DeleteChildCount(c) \/ DeleteChildSubscription(c)
    \/ \E p \in scope.parents : MarkMissingBegin(p)
    \/ \E t \in scope.purged : DeleteTenant(t)

ScopedBill(r) ==
    \/ \E t \in scope.tenants, reserve \in Reserves :
          \E c \in {0} \cup {d \in Children : child[d].owner = t} : Reserve(r, t, c, reserve)
    \/ \E cost \in scope.costs \cup {0} : SettleRequestWithLog(r, cost)
    \/ \E actual \in scope.amounts :
          SettleRequestReservation(r, actual) \/ ReclaimReservation(r, actual)
    \/ ReleaseRequestReservation(r)
    \/ \E turn \in Turns, cost \in scope.costs : AccrueWebSocketTurn(r, turn, cost)

ScopedNext ==
    /\ \/ /\ missing = 0
          /\ \/ ScopedSubscriptions /\ UNCHANGED reservationVars
             \/ ScopedRemoval
             \/ \E r \in scope.requests : ScopedBill(r)
             \/ \E t \in scope.tenants, amount \in scope.credits : Credit(t, amount)
       \/ \E r \in scope.requests : MarkMissingRelease(r)
       \/ MarkMissingDelete
    /\ \A c \in Children \ scope.children : child'[c].state = "unused"
    /\ UNCHANGED scope

WindowInit == Init /\ scope \in WindowRun
WindowSpec == WindowInit /\ [][ScopedNext]_<<storeVars, scope>>
AccountInit == Init /\ scope \in AccountRun
AccountSpec == AccountInit /\ [][ScopedNext]_<<storeVars, scope>>

=============================================================================
