-------------------------- MODULE RequestLifecycle --------------------------
(***************************************************************************)
(* The request handlers and the background job that drive the store: the   *)
(* two-step admission of AdmitRequest (candidates are read first, without  *)
(* a lock, and tried one transaction at a time), HTTP settlement after the *)
(* response, the WebSocket session with its in-memory running total, and   *)
(* the reclaimer that lists expired reservations and then finishes them.   *)
(* Every step here is one store transaction or none; administration runs   *)
(* beside them.  A crash of the process is the loss of its handlers and of *)
(* its reclaimer at any point (HandlerLost, ReclaimLost).                  *)
(***************************************************************************)
EXTENDS Reservations

\* A session settles what its turns cost: any sum of turn costs is an amount
\* that the store can be asked to settle.
ASSUME TurnAssumption ==
    /\ IsFiniteSet(Turns)
    /\ \A f \in [Turns -> Costs \cup {0}] : Total(f, Turns) \in Amounts

VARIABLES
    handler, \* the request's goroutine
    reclaim  \* what ReclaimExpiredReservations still has to finish: <<request, actual>>

lifecycleVars == <<storeVars, handler, reclaim>>

-----------------------------------------------------------------------------
Phases == {"idle", "choosing", "serving", "established", "closing", "ended"}

\* claimed: some child's policies admitted the model.  cands: candidates left
\* to try, each with the capacity mode and the priority it was read with;
\* child 0 is plain balance billing.  errors: what the tried ones returned.  hold: the reserve
\* asked for.  accrued: the session's running total.  ackLost: a turn was
\* committed but reported as failed.
CandidateType == [child: Children \cup {0}, metered: BOOLEAN, priority: Nat]
Skipped == {"unpriced", "unavailable", "exhausted"}
Outcomes == {"", "done", "lost", "unavailable", "price", "exhausted", "required",
             "insufficient_balance", "not_found"}
HandlerType ==
    [phase: Phases, owner: Tenants \cup {0}, claimed: BOOLEAN, cands: SUBSET CandidateType,
     priced: BOOLEAN, hold: Reserves \cup {0}, errors: SUBSET Skipped, outcome: Outcomes,
     accrued: Nat, ackLost: BOOLEAN]

NoHandler ==
    [phase |-> "idle", owner |-> 0, claimed |-> FALSE, cands |-> {}, priced |-> FALSE, hold |-> 0,
     errors |-> {}, outcome |-> "", accrued |-> 0, ackLost |-> FALSE]

LifecycleInit ==
    /\ Init
    /\ handler = [r \in Requests |-> NoHandler]
    /\ reclaim = {}

End(r, outcome) ==
    handler' = [handler EXCEPT ![r] = [@ EXCEPT !.phase = "ended", !.cands = {}, !.outcome = outcome]]

-----------------------------------------------------------------------------
(* Admission *)

\* The tenant's children that are enabled and within their time window, and
\* the ones among them whose policies admit the model.
ActiveChildren(t) ==
    {c \in Children : /\ child[c].state = "present" /\ child[c].owner = t
                      /\ child[c].enabled
                      /\ child[c].startsAt <= now
                      /\ child[c].expiresAt = 0 \/ child[c].expiresAt > now}
Claims(t, model) ==
    {c \in ActiveChildren(t) : LET p == child[c].parent IN
        /\ modelAllowed(model, EffectiveModels(c))
        /\ modelAllowed(model, parent[p].models)
        /\ modelAllowed(model, parent[p].upstreamModels)}
Serving(c) == parent[child[c].parent].enabled /\ ~parent[child[c].parent].unavailable

Candidate(c) == [child |-> c, metered |-> Metered(c), priority |-> child[c].priority]
PlainBalance == [child |-> 0, metered |-> FALSE, priority |-> 0]

\* Highest priority first, then creation order.
Before(a, b) == a.priority > b.priority \/ (a.priority = b.priority /\ a.child < b.child)
First(cands) == {a \in cands : \A b \in cands \ {a} : Before(a, b)}

\* Plain balance billing is for models that no child claims.  Mutant: also
\* when none of the children that claim it can serve.
PlainWithoutServing(claims, serving) == serving = {}
Plain(claims, serving) == claims = {}

\* The handler asks for admission and reads the candidates.  A model that
\* some child claims is never served from plain balance.
SubscriptionCandidates(r, t, model, priced, hold) ==
    LET claims == Claims(t, model)
        serving == {c \in claims : Serving(c)}
        stuck == claims # serving
    IN
    /\ handler[r].phase = "idle"
    /\ tenant[t].present /\ tenant[t].enabled
    /\ priced \/ hold = 0
    /\ IF serving = {} /\ ~Plain(claims, serving) THEN End(r, "unavailable")
       ELSE handler' = [handler EXCEPT ![r] =
              [@ EXCEPT !.phase = "choosing", !.owner = t, !.priced = priced, !.hold = hold,
                        !.claimed = claims # {},
                        !.cands = IF Plain(claims, serving) THEN {PlainBalance}
                                  ELSE {Candidate(c) : c \in serving},
                        !.errors = IF stuck THEN {"unavailable"} ELSE {}]]
    /\ UNCHANGED <<storeVars, reclaim>>

\* A metered candidate needs a price.
Unpriced(h, a) == a.metered /\ ~h.priced

\* The loop returns with the first candidate it reserves.
Admitted(h) == [h EXCEPT !.phase = "serving", !.cands = {}]

AdmitCandidate(r) ==
    LET h == handler[r] IN
    /\ h.phase = "choosing"
    /\ \E a \in First(h.cands) : ~Unpriced(h, a) /\ Reserve(r, h.owner, a.child, h.hold)
    /\ handler' = [handler EXCEPT ![r] = Admitted(@)]
    /\ UNCHANGED reclaim

TryNext(h, a, error) == [h EXCEPT !.cands = @ \ {a}, !.errors = @ \cup {error}]

\* A candidate that cannot serve is skipped, any other error is final.
RefuseCandidate(r) ==
    LET h == handler[r] IN
    /\ h.phase = "choosing"
    /\ \E a \in First(h.cands) :
       \E error \in IF Unpriced(h, a) THEN {"unpriced"} ELSE ReserveErrors(h.owner, a.child, h.hold) :
          IF error \in Skipped /\ a.child # 0
          THEN handler' = [handler EXCEPT ![r] = TryNext(@, a, error)]
          ELSE End(r, error)
    /\ UNCHANGED <<storeVars, reclaim>>

\* No candidate is left: the most telling error is returned.
AdmissionFails(r) ==
    LET h == handler[r] IN
    /\ h.phase = "choosing"
    /\ h.cands = {}
    /\ End(r, IF "unavailable" \in h.errors THEN "unavailable"
              ELSE IF "unpriced" \in h.errors THEN "price"
              ELSE IF "exhausted" \in h.errors THEN "exhausted" ELSE "required")
    /\ UNCHANGED <<storeVars, reclaim>>

-----------------------------------------------------------------------------
(* The end of a request *)

\* Mutant of Late: finishing twice releases the reservation.
LateRelease(r) ==
    /\ reservation[r].status \in Finished
    /\ reservation' = [reservation EXCEPT ![r].status = "released"]
    /\ UNCHANGED <<subscriptionVars, moneyVars, turns, detail, deleting, missing>>

\* Finishing a reservation that is no longer active changes nothing.
Late(r) == reservation[r].status # "active" /\ UNCHANGED storeVars

\* The response is complete and the finalizer settles it.  Without a price
\* there is no charge.
FinishHTTP(r, cost) ==
    /\ handler[r].phase = "serving"
    /\ handler[r].priced \/ cost = 0
    /\ r \notin WebSockets
    /\ SettleRequestWithLog(r, cost) \/ Late(r)
    /\ End(r, "done")
    /\ UNCHANGED reclaim

\* The session reaches its upstream.
Establish(r) ==
    /\ handler[r].phase = "serving"
    /\ r \in WebSockets
    /\ handler' = [handler EXCEPT ![r].phase = "established"]
    /\ UNCHANGED <<storeVars, reclaim>>

\* The session's running total.  Mutant: it is not kept.
SameTotal(h, cost) == h
Counted(h, cost) == [h EXCEPT !.accrued = @ + cost]

\* A terminal event is charged before it is forwarded.
PersistTurn(r, turn, cost) ==
    /\ handler[r].phase = "established"
    /\ AccrueWebSocketTurn(r, turn, cost)
    /\ handler' = [handler EXCEPT ![r] = Counted(@, cost)]
    /\ UNCHANGED reclaim

\* The commit succeeds but the connection to the database breaks before the
\* answer: the handler sees an error and closes the session.
PersistTurnAckLost(r, turn, cost) ==
    /\ handler[r].phase = "established"
    /\ AccrueWebSocketTurn(r, turn, cost)
    /\ handler' = [handler EXCEPT ![r] = [@ EXCEPT !.phase = "closing", !.ackLost = TRUE]]
    /\ UNCHANGED reclaim

\* The turn cannot be charged: the reservation ended under the session.
PersistTurnFails(r) ==
    /\ handler[r].phase = "established"
    /\ reservation[r].status # "active"
    /\ handler' = [handler EXCEPT ![r].phase = "closing"]
    /\ UNCHANGED <<storeVars, reclaim>>

\* What a session settles.
SessionCharge(h) == h.accrued

\* The session ends: settle the running total, or release the hold if the
\* upstream was never reached.
CloseSession(r) ==
    /\ handler[r].phase \in {"serving", "established", "closing"}
    /\ r \in WebSockets
    /\ \/ IF handler[r].phase = "serving" THEN ReleaseRequestReservation(r)
          ELSE SettleRequestReservation(r, SessionCharge(handler[r]))
       \/ Late(r)
    /\ End(r, "done")
    /\ UNCHANGED reclaim

\* The process dies, or the final transaction fails and is only logged.
HandlerLost(r) ==
    /\ handler[r].phase \in Phases \ {"idle", "ended"}
    /\ End(r, "lost")
    /\ UNCHANGED <<storeVars, reclaim>>

-----------------------------------------------------------------------------
(* The reclaimer *)

\* Mutant of Expired: the deadline itself does not count.
ExpiredBefore == {r \in Requests : reservation[r].status = "active" /\ reservation[r].expiresAt < now}

Expired == {r \in Requests : reservation[r].status = "active" /\ reservation[r].expiresAt <= now}

\* The unlocked list, with the charges accrued so far.
ReclaimExpiredReservations ==
    /\ reclaim = {}
    /\ Expired # {}
    /\ reclaim' = {<<r, reservation[r].actual>> : r \in Expired}
    /\ UNCHANGED <<storeVars, handler>>

ReclaimNext(item) ==
    /\ item \in reclaim
    /\ ReclaimReservation(item[1], item[2]) \/ Late(item[1])
    /\ reclaim' = reclaim \ {item}
    /\ UNCHANGED handler

ReclaimLost ==
    /\ reclaim # {}
    /\ reclaim' = {}
    /\ UNCHANGED <<storeVars, handler>>

-----------------------------------------------------------------------------
RequestStep(r) ==
    \/ \E t \in Tenants, model \in Models, priced \in BOOLEAN, hold \in Reserves :
          SubscriptionCandidates(r, t, model, priced, hold)
    \/ AdmitCandidate(r)
    \/ RefuseCandidate(r)
    \/ AdmissionFails(r)
    \/ \E cost \in Costs \cup {0} : FinishHTTP(r, cost)
    \/ Establish(r)
    \/ \E turn \in Turns, cost \in Costs :
          PersistTurn(r, turn, cost) \/ PersistTurnAckLost(r, turn, cost)
    \/ PersistTurnFails(r)
    \/ CloseSession(r)

Reclaimer == ReclaimExpiredReservations \/ \E item \in reclaim : ReclaimNext(item)

Background ==
    \/ Administer
    \/ Removal
    \/ \E t \in Tenants, amount \in CreditAmounts : Credit(t, amount)

RemoveMissing == (\E r \in Requests : MarkMissingRelease(r)) \/ MarkMissingDelete

LifecycleNext ==
    \/ missing = 0 /\ \E r \in Requests : RequestStep(r)
    \/ \E r \in Requests : HandlerLost(r)
    \/ missing = 0 /\ (Reclaimer \/ ReclaimLost)
    \/ missing = 0 /\ Background /\ UNCHANGED <<handler, reclaim>>
    \/ RemoveMissing /\ UNCHANGED <<handler, reclaim>>

LifecycleSpec == LifecycleInit /\ [][LifecycleNext]_lifecycleVars

\* The maintenance loop keeps ticking, also when removals of credentials come
\* and go (they hold row locks, which do not stop it: hence strong fairness),
\* a transaction that holds locks ends, and a reservation listed again and
\* again is reached in the end (a pass may die before it: ReclaimLost).
\* Nothing is assumed of clients, of upstreams or of the handlers.
JobFairness ==
    /\ SF_lifecycleVars(missing = 0 /\ ReclaimExpiredReservations)
    /\ WF_lifecycleVars(RemoveMissing /\ UNCHANGED <<handler, reclaim>>)
    /\ \A r \in Requests :
          SF_lifecycleVars(missing = 0 /\ \E item \in reclaim : item[1] = r /\ ReclaimNext(item))

-----------------------------------------------------------------------------
(* Properties *)

\* A handler has its fields' types, and candidates only while it is choosing:
\* AdmitRequest returns with the first candidate it reserves.
LifecycleTypeOK ==
    /\ handler \in [Requests -> HandlerType]
    /\ \A r \in Requests : handler[r].phase # "choosing" => handler[r].cands = {}
    /\ reclaim \subseteq Requests \X Nat

\* The handlers and jobs use the store only through its transactions.
ImplementsStore == Spec

\* Nobody pays for something the request log does not show: a reservation's
\* charge, running or final, is covered by its billing details, whichever of
\* handler, reclaimer and credential removal finishes it
\* (SettleRequestWithLog, AccrueWebSocketTurn, handleWebSocket).
ChargeHasDetail == \A r \in Requests : reservation[r].actual <= detail[r]

\* Every billing detail of an HTTP request is charged, and a session that
\* closes normally is charged exactly the turns in its log: the running total
\* in memory, the accrued total in the row and the details agree although
\* they are kept apart (handleWebSocket, SettleRequestReservation).
SettledChargeIsLogged ==
    \A r \in Requests :
        reservation[r].status = "settled" /\ ~handler[r].ackLost => reservation[r].actual = detail[r]

\* Charges and request log agree, whoever finishes the request and whatever
\* is lost: no charge without its billing detail, no detail of a settled
\* request left uncharged.
ChargesMatchDetails == LifecycleTypeOK /\ ChargeHasDetail /\ SettledChargeIsLogged

\* A request whose model some child of the tenant claims is admitted through
\* a child and never billed to the plain balance, although a child that
\* cannot serve is skipped and its rows may be gone by then
\* (SubscriptionCandidates, AdmitRequest).
SubscriptionBeforeBalance ==
    [][\A r \in Requests :
          reservation[r].status = "none" /\ reservation'[r].status = "active" =>
              (handler[r].claimed <=> reservation'[r].child # 0)]_lifecycleVars

\* AccrueWebSocketTurn "durably charges one terminal WebSocket response":
\* an expired session keeps the charge of every turn in its log.
\* ReclaimExpiredReservations settles with the total it read in its list.
ExpiredChargeIsLogged ==
    \A r \in Requests : reservation[r].status = "expired" => reservation[r].actual = detail[r]

=============================================================================
