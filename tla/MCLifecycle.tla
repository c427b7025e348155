---------------------------- MODULE MCLifecycle ----------------------------
(***************************************************************************)
(* Small instances of RequestLifecycle, several in one run: the scope (see *)
(* MCReservations) also says what the handlers ask for.                    *)
(***************************************************************************)
EXTENDS RequestLifecycle, MCReservations

ModelGrant == {[g EXCEPT !.models = {"m1"}] : g \in WholeShare}
Grants == WholeShare \cup ModelGrant
InAndOut == BOOLEAN \X {{}}

\* What the requests of a scope ask for.
Asks(models, reserves, turnIds) == [models |-> models, reserves |-> reserves, turns |-> turnIds]

\* Balance billing only: a session and an HTTP request, lost handlers, a
\* reclaimer that races them.
BalanceScope ==
    Asks({"m1"}, Reserves, Turns) @@
    [Plainest EXCEPT !.parents = {}, !.children = {}, !.maxTime = MaxTime, !.costs = {2},
                     !.credits = CreditAmounts]
\* A request on a share whose credential may disappear under it.
ShareScopes ==
    {Asks({"m1"}, {1}, {1}) @@
     [Plainest EXCEPT !.syncs = InService, !.gens = {1}, !.maxTime = MaxTime, !.requests = rs,
                      !.costs = {1}, !.purged = Tenants] : rs \in {WebSockets, Requests \ WebSockets}}
\* One HTTP request chooses between plain balance and two grants that change.
ChoiceScope ==
    Asks(Models, Reserves, {}) @@
    [Plainest EXCEPT !.children = Children, !.kinds = {}, !.grants = ModelGrant,
                     !.inputs = ParentInputs, !.syncs = SyncReports, !.purged = Tenants,
                     !.requests = Requests \ WebSockets, !.costs = {}, !.credits = CreditAmounts]

-----------------------------------------------------------------------------
(* LifecycleNext, with the inputs of the scope *)

ScopedStep(r) ==
    \/ \E t \in scope.tenants, model \in scope.models, priced \in BOOLEAN, hold \in scope.reserves :
          SubscriptionCandidates(r, t, model, priced, hold)
    \/ AdmitCandidate(r) \/ RefuseCandidate(r) \/ AdmissionFails(r)
    \/ \E cost \in scope.costs \cup {0} : FinishHTTP(r, cost)
    \/ Establish(r)
    \/ \E turn \in scope.turns, cost \in scope.costs :
          PersistTurn(r, turn, cost) \/ PersistTurnAckLost(r, turn, cost)
    \/ PersistTurnFails(r)
    \/ CloseSession(r)

ScopedBackground ==
    \/ ScopedSubscriptions /\ UNCHANGED reservationVars
    \/ ScopedRemoval
    \/ \E t \in scope.tenants, amount \in scope.credits : Credit(t, amount)

ScopedLifecycleNext ==
    /\ \/ missing = 0 /\ \E r \in scope.requests : ScopedStep(r)
       \/ \E r \in scope.requests : HandlerLost(r)
       \/ missing = 0 /\ (Reclaimer \/ ReclaimLost)
       \/ missing = 0 /\ ScopedBackground /\ UNCHANGED <<handler, reclaim>>
       \/ RemoveMissing /\ UNCHANGED <<handler, reclaim>>
    /\ UNCHANGED scope

\* The clock runs on up to the scope's bound, also while credentials are removed.
ClockFairness ==
    SF_lifecycleVars(now < scope.maxTime /\ Tick /\ missing = 0
                     /\ UNCHANGED <<reservationVars, handler, reclaim>>)

LifecycleRun == {BalanceScope, ChoiceScope} \cup ShareScopes
MCLifecycleInit == LifecycleInit /\ scope \in LifecycleRun
MCLifecycleSpec ==
    /\ MCLifecycleInit
    /\ [][ScopedLifecycleNext]_<<lifecycleVars, scope>>
    /\ JobFairness /\ ClockFairness
StaleInit == LifecycleInit /\ scope = BalanceScope
StaleSpec == StaleInit /\ [][ScopedLifecycleNext]_<<lifecycleVars, scope>>

-----------------------------------------------------------------------------
\* A hold never outlives its request for good: whichever handlers and
\* maintenance passes are lost, an active reservation whose deadline is
\* within the modelled time is eventually settled, released or expired
\* (ReclaimExpiredReservations).
HoldsEnd ==
    \A r \in Requests :
        reservation[r].status = "active" /\ reservation[r].expiresAt <= scope.maxTime
            ~> reservation[r].status # "active"

=============================================================================
