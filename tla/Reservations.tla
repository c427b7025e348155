---------------------------- MODULE Reservations ----------------------------
(***************************************************************************)
(* Request reservations, tenant balances and the billing ledger: admission *)
(* (reserveCandidate), settlement (finishReservationTx and its callers),   *)
(* WebSocket turn accrual, and the operations that remove rows under a     *)
(* running request.  One action is one transaction, except the two that    *)
(* another transaction can see between their statements:                   *)
(*   - DeleteChildSubscription counts active reservations without a lock   *)
(*     and deletes afterwards (`deleting`);                                *)
(*   - MarkMissingParentSubscriptions releases the holds of a parent one   *)
(*     by one before it deletes the rows.  Its rows stay locked, so while  *)
(*     it runs (`missing` # 0) nothing else moves; a rollback is the       *)
(*     transaction not having run.                                         *)
(*                                                                         *)
(* ledger and detail are per-request totals of billing_ledger amounts and  *)
(* of the costs in the request log's billing details.  The callers may use *)
(* these operations in any order here; module RequestLifecycle says how    *)
(* the handlers and background jobs use them.                              *)
(***************************************************************************)
EXTENDS Subscriptions, Sums

CONSTANTS
    Requests,       \* request ids
    WebSockets,     \* the requests that are WebSocket sessions
    Turns,          \* turn ids of a session
    Reserves,       \* amounts a request asks admission to hold
    Costs,          \* confirmed costs of a response or turn
    CreditAmounts,  \* balance credits
    MaxCredit,      \* bound on the credits of a tenant
    Amounts,        \* amounts a caller may settle with
    TTL             \* ticks until a reservation expires

ASSUME AmountAssumption ==
    /\ WebSockets \subseteq Requests
    /\ Reserves \subseteq Nat
    /\ Costs \subseteq Nat
    /\ CreditAmounts \subseteq Int
    /\ MaxCredit \in Nat
    /\ Amounts \subseteq Nat
    /\ TTL \in Nat

\* However many requests there are, they are finitely many; 0 is NULL.
ASSUME RowAssumption == IsFiniteSet(Requests) /\ 0 \notin Tenants

VARIABLES
    balance,      \* tenants.balance_nano_usd
    credited,     \* sum of the tenant's "credit" ledger rows
    reservation,  \* request_reservations
    ledger,       \* sum of a request's ledger rows
    turns,        \* websocket_turns
    detail,       \* sum of the costs in a request's billing details
    deleting,     \* children DeleteChildSubscription found without active reservations
    missing       \* the parent MarkMissingParentSubscriptions is removing, or 0

moneyVars == <<balance, credited, ledger>>
reservationVars == <<balance, credited, reservation, ledger, turns, detail, deleting, missing>>
storeVars == <<subscriptionVars, reservationVars>>

-----------------------------------------------------------------------------
(* Rows *)

Finished == {"settled", "released", "expired"}

\* "none": never admitted.  "purged": deleted with its tenant.
\* windows[k] is the generation held for kind k, 0 if none.
ReservationType == [status: Finished \cup {"none", "active", "purged"},
                    owner: Tenants \cup {0}, child: Children \cup {0}, parent: Parents \cup {0},
                    balanceHeld: Nat, quotaHeld: Nat, windows: [Kinds -> Nat],
                    actual: Nat, expiresAt: Nat]

NoReservation(status) ==
    [status |-> status, owner |-> 0, child |-> 0, parent |-> 0, balanceHeld |-> 0,
     quotaHeld |-> 0, windows |-> [k \in Kinds |-> 0], actual |-> 0, expiresAt |-> 0]

ReservationTypeOK ==
    /\ balance \in [Tenants -> Int]
    /\ credited \in [Tenants -> Int]
    /\ reservation \in [Requests -> ReservationType]
    /\ ledger \in [Requests -> Int]
    /\ turns \in [Requests -> SUBSET Turns]
    /\ detail \in [Requests -> Nat]
    /\ deleting \subseteq Children
    /\ missing \in Parents \cup {0}

\* Every column holds a value of its declared type: the rows of
\* internal/db/subscriptions.go keep their shape under every operation.
TypeOK == SubscriptionTypeOK /\ ReservationTypeOK

ReservationInit ==
    /\ balance = [t \in Tenants |-> 0]
    /\ credited = [t \in Tenants |-> 0]
    /\ reservation = [r \in Requests |-> NoReservation("none")]
    /\ ledger = [r \in Requests |-> 0]
    /\ turns = [r \in Requests |-> {}]
    /\ detail = [r \in Requests |-> 0]
    /\ deleting = {}
    /\ missing = 0

-----------------------------------------------------------------------------
(* Admission *)

\* The parent windows admission must respect.
ActiveWindows(p) ==
    {k \in Kinds : parentWindow[p][k].resetsAt # 0 /\ ~claudeQuotaWindowIdle(p, k)}

\* What of kind k's limit is taken.  Mutant: running holds are not counted.
SettledOnly(c, k) ==
    IF childWindow[c][k].resetsAt = parentWindow[child[c].parent][k].resetsAt
    THEN childWindow[c][k].settled ELSE 0
Used(c, k) ==
    LET row == childWindow[c][k]
    IN IF row.resetsAt = parentWindow[child[c].parent][k].resetsAt THEN row.settled + row.reserved ELSE 0

\* A parent window that is over, or behind the child's.
Over(c, k) ==
    LET resetsAt == parentWindow[child[c].parent][k].resetsAt
    IN resetsAt <= now \/ resetsAt < childWindow[c][k].resetsAt

\* What the loop over the parent's windows concludes for kind k.
WindowVerdict(c, k, reserve) ==
    LET limit == fraction(parentWindow[child[c].parent][k].limit, child[c].ppm)
    IN IF limit <= 0 THEN "exhausted"
       ELSE IF Over(c, k) THEN "unavailable"
       ELSE IF Used(c, k) + reserve > limit THEN "exhausted" ELSE "ok"

Metered(c) == c # 0 /\ parent[child[c].parent].mode # "unmetered"

\* The quota windows a request admitted through child c (0: none) charges.
HeldWindows(c) ==
    IF Metered(c) THEN ActiveWindows(child[c].parent) ELSE {}

\* Rows that reserveCandidate finds under lock.  The time window and the
\* model lists were checked before, by SubscriptionCandidates.
Usable(c) ==
    /\ child[c].state = "present" /\ child[c].enabled
    /\ parent[child[c].parent].enabled /\ ~parent[child[c].parent].unavailable

\* Calibrated windows replace the balance hold; without them (learning mode,
\* unmetered parent, no child) the balance is held.
BalanceHold(c, reserve) == IF HeldWindows(c) = {} THEN reserve ELSE 0

\* The errors reserveCandidate can return, none if it succeeds.  The windows
\* are read in no particular order and the first that fails decides.  The
\* balance is compared last and always: below zero it also refuses a request
\* that quota windows fund.
ReserveErrors(t, c, reserve) ==
    LET failing == {k \in HeldWindows(c) : WindowVerdict(c, k, reserve) # "ok"}
    IN IF ~tenant[t].present THEN {"not_found"}
       ELSE IF ~tenant[t].enabled THEN {"insufficient_balance"}
       ELSE IF c # 0 /\ ~Usable(c) THEN {"unavailable"}
       ELSE IF Metered(c) /\ reserve <= 0 THEN {"price"}
       ELSE IF Metered(c) /\ HeldWindows(c) = {} /\ parent[child[c].parent].unsupported
            THEN {"unavailable"}
       ELSE IF failing # {} THEN {WindowVerdict(c, k, reserve) : k \in failing}
       ELSE IF balance[t] < BalanceHold(c, reserve) THEN {"insufficient_balance"}
       ELSE {}

\* A window with the hold added; a window of another generation starts over.
AdmittedWindow(c, k, reserve) ==
    LET gen == parentWindow[child[c].parent][k].resetsAt
        row == IF childWindow[c][k].resetsAt = gen THEN childWindow[c][k] ELSE EmptyWindow(gen)
    IN [resetsAt |-> gen, settled |-> row.settled, reserved |-> row.reserved + reserve]

\* Every change of a balance.  Mutant: a debit stops at zero.
AtLeastZero(n) == IF n < 0 THEN 0 ELSE n
MoveDownToZero(t, delta) == [balance EXCEPT ![t] = AtLeastZero(@ + delta)]
MoveBalance(t, delta) == [balance EXCEPT ![t] = @ + delta]

\* A successful reserveCandidate.
Reserve(r, t, c, reserve) ==
    LET held == HeldWindows(c)
        p == IF c = 0 THEN 0 ELSE child[c].parent
        balanceHeld == BalanceHold(c, reserve)
    IN
    /\ reservation[r].status = "none"
    /\ ReserveErrors(t, c, reserve) = {}
    /\ balance' = MoveBalance(t, -balanceHeld)
    /\ ledger' = [ledger EXCEPT ![r] = @ - balanceHeld]
    /\ childWindow' = IF c = 0 THEN childWindow ELSE [childWindow EXCEPT ![c] =
          [k \in Kinds |-> IF k \in held THEN AdmittedWindow(c, k, reserve) ELSE @[k]]]
    /\ reservation' = [reservation EXCEPT ![r] =
          [status |-> "active", owner |-> t, child |-> c, parent |-> p, balanceHeld |-> balanceHeld,
           quotaHeld |-> IF held = {} THEN 0 ELSE reserve,
           windows |-> [k \in Kinds |-> IF k \in held THEN parentWindow[p][k].resetsAt ELSE 0],
           actual |-> 0, expiresAt |-> now + TTL]]
    /\ UNCHANGED <<now, tenant, parent, parentWindow, samples, child,
                   credited, turns, detail, deleting, missing>>

-----------------------------------------------------------------------------
(* Settlement *)

\* Admission chose the funding source: a quota hold, or the balance.
reservationUsesBalance(row) == row.quotaHeld = 0

\* Mutant of HoldsWindow: settlement does not compare generations.
HoldsAnyGeneration(row, k) == row.child # 0 /\ row.quotaHeld > 0 /\ row.windows[k] # 0

\* Does the child's window of kind k still belong to the generation held?
HoldsWindow(row, k) ==
    /\ row.child # 0
    /\ row.quotaHeld > 0
    /\ row.windows[k] # 0
    /\ childWindow[row.child][k].resetsAt = row.windows[k]

Charged(window, reservedDelta, settledDelta) ==
    [resetsAt |-> window.resetsAt, settled |-> AtLeastZero(window.settled + settledDelta),
     reserved |-> AtLeastZero(window.reserved + reservedDelta)]

\* Change the counters of every window row still holds.
ChargeWindows(row, reservedDelta, settledDelta) ==
    IF row.child = 0 THEN childWindow
    ELSE [childWindow EXCEPT ![row.child] = [k \in Kinds |->
            IF HoldsWindow(row, k) THEN Charged(@[k], reservedDelta, settledDelta) ELSE @[k]]]

Closed(row, status, actual) == [row EXCEPT !.status = status, !.actual = actual]

\* The early return of finishReservationTx.  Mutant: it is missing.
FinishAnytime(row) == row.status \in Finished \cup {"active"}
StillActive(row) == row.status = "active"

\* What finishing gives back to a balance-funded request: its hold and its
\* accrued charges, less the final charge.  Mutant: the turns charged so far
\* are forgotten.
HoldLessFinal(row, final) ==
    IF reservationUsesBalance(row) THEN row.balanceHeld - final ELSE 0
Refund(row, final) ==
    IF reservationUsesBalance(row) THEN row.balanceHeld + row.actual - final ELSE 0

finishReservationTx(r, actual, status) ==
    LET row == reservation[r]
        final == IF status \in {"settled", "expired"} THEN actual ELSE 0
    IN
    /\ StillActive(row)
    /\ balance' = MoveBalance(row.owner, Refund(row, final))
    /\ ledger' = [ledger EXCEPT ![r] = @ + Refund(row, final)]
    /\ childWindow' = ChargeWindows(row, -row.quotaHeld, final - row.actual)
    /\ reservation' = [reservation EXCEPT ![r] = Closed(@, status, final)]
    /\ UNCHANGED <<now, tenant, parent, parentWindow, samples, child, credited, turns>>

\* writeLogTx with a billing detail.
WriteDetail(r, cost) == [detail EXCEPT ![r] = @ + cost]

\* The end of an HTTP response: the charge and its billing detail together.
\* cost is 0 unless usage and price were complete.
SettleRequestWithLog(r, cost) ==
    /\ r \notin WebSockets
    /\ finishReservationTx(r, cost, "settled")
    /\ detail' = WriteDetail(r, cost)
    /\ UNCHANGED <<deleting, missing>>

\* The end of an established WebSocket session.
SettleRequestReservation(r, actual) ==
    /\ r \in WebSockets
    /\ finishReservationTx(r, actual, "settled")
    /\ UNCHANGED <<detail, deleting, missing>>

\* The end of a WebSocket session that never reached the upstream.
ReleaseRequestReservation(r) ==
    /\ r \in WebSockets
    /\ finishReservationTx(r, 0, "released")
    /\ UNCHANGED <<detail, deleting, missing>>

\* One iteration of ReclaimExpiredReservations; `actual` comes from the list
\* it read before.
ReclaimReservation(r, actual) ==
    /\ reservation[r].expiresAt <= now
    /\ finishReservationTx(r, actual, "expired")
    /\ UNCHANGED <<detail, deleting, missing>>

Accrued(row, cost) == [row EXCEPT !.actual = @ + cost]

\* One terminal WebSocket response with a confirmed cost.  A repeated turn id
\* changes nothing.
AccrueWebSocketTurn(r, turn, cost) ==
    LET row == reservation[r]
        debit == IF reservationUsesBalance(row) THEN cost ELSE 0
    IN
    /\ r \in WebSockets
    /\ row.status = "active"
    /\ turn \notin turns[r]
    /\ cost > 0
    /\ turns' = [turns EXCEPT ![r] = @ \cup {turn}]
    /\ balance' = MoveBalance(row.owner, -debit)
    /\ ledger' = [ledger EXCEPT ![r] = @ - debit]
    /\ childWindow' = ChargeWindows(row, 0, cost)
    /\ reservation' = [reservation EXCEPT ![r] = Accrued(@, cost)]
    /\ detail' = WriteDetail(r, cost)
    /\ UNCHANGED <<now, tenant, parent, parentWindow, samples, child, credited, deleting, missing>>

Credit(t, amount) ==
    /\ tenant[t].present
    /\ credited[t] + amount \in 0..MaxCredit
    /\ balance' = MoveBalance(t, amount)
    /\ credited' = [credited EXCEPT ![t] = @ + amount]
    /\ UNCHANGED <<subscriptionVars, reservation, ledger, turns, detail, deleting, missing>>

-----------------------------------------------------------------------------
(* Deletions.  Foreign keys: a reservation's child and parent become NULL,  *)
(* a child's windows and a parent's windows and samples go with their row.  *)

Forgetting(row, cs, p) ==
    [row EXCEPT !.child = IF @ \in cs THEN 0 ELSE @, !.parent = IF @ = p THEN 0 ELSE @]
\* Mutants: one of these foreign keys is missing.
RememberChildren(cs, p) == reservation
KeepChildren(cs) == child

ForgetChildren(cs, p) == [r \in Requests |-> Forgetting(reservation[r], cs, p)]
RemoveChildren(cs) == [c \in Children |-> IF c \in cs THEN NoChild("deleted") ELSE child[c]]
RemoveWindows(cs) ==
    [c \in Children |-> IF c \in cs THEN [k \in Kinds |-> NoChildWindow] ELSE childWindow[c]]

\* The unlocked count of active reservations.
DeleteChildCount(c) ==
    /\ child[c].state = "present"
    /\ c \notin deleting
    /\ \A r \in Requests : ~(reservation[r].status = "active" /\ reservation[r].child = c)
    /\ deleting' = deleting \cup {c}
    /\ UNCHANGED <<subscriptionVars, moneyVars, reservation, turns, detail, missing>>

\* The delete.  The row may be gone by now: ErrNotFound.
DeleteChildSubscription(c) ==
    LET cs == IF child[c].state = "present" THEN {c} ELSE {}
    IN
    /\ c \in deleting
    /\ deleting' = deleting \ {c}
    /\ child' = RemoveChildren(cs)
    /\ childWindow' = RemoveWindows(cs)
    /\ reservation' = ForgetChildren(cs, 0)
    /\ UNCHANGED <<now, tenant, parent, parentWindow, samples, moneyVars, turns, detail, missing>>

Withdrawn(row) == [row EXCEPT !.unavailable = TRUE, !.enabled = FALSE]

\* The credential behind p is gone: p and its children stop admitting ...
MarkMissingBegin(p) ==
    /\ missing = 0
    /\ parent[p].present
    /\ parent[p].synced
    /\ missing' = p
    /\ parent' = [parent EXCEPT ![p] = Withdrawn(@)]
    /\ child' = [c \in Children |->
          IF c \in ChildrenOf(p) THEN [child[c] EXCEPT !.enabled = FALSE] ELSE child[c]]
    /\ UNCHANGED <<now, tenant, parentWindow, samples, childWindow, moneyVars, reservation,
                   turns, detail, deleting>>

HoldsOf(p) ==
    {r \in Requests : /\ reservation[r].status = "active"
                      /\ reservation[r].parent = p \/ reservation[r].child \in ChildrenOf(p)}

\* ... their active holds are released at zero cost ...
MarkMissingRelease(r) ==
    /\ missing # 0
    /\ r \in HoldsOf(missing)
    /\ finishReservationTx(r, 0, "released")
    /\ UNCHANGED <<detail, deleting, missing>>

\* ... and the rows are deleted.
MarkMissingDelete ==
    /\ missing # 0
    /\ HoldsOf(missing) = {}
    /\ child' = RemoveChildren(ChildrenOf(missing))
    /\ childWindow' = RemoveWindows(ChildrenOf(missing))
    /\ reservation' = ForgetChildren(ChildrenOf(missing), missing)
    /\ parent' = [parent EXCEPT ![missing] = NoParent]
    /\ parentWindow' = [parentWindow EXCEPT ![missing] = [k \in Kinds |-> NoParentWindow]]
    /\ samples' = [samples EXCEPT ![missing] = [k \in Kinds |-> NoSamples]]
    /\ missing' = 0
    /\ UNCHANGED <<now, tenant, moneyVars, turns, detail, deleting>>

\* Everything a tenant owns goes with it, accounting included.
DeleteTenant(t) ==
    LET cs == {c \in Children : child[c].state = "present" /\ child[c].owner = t}
        rs == {r \in Requests : reservation[r].owner = t}
    IN
    /\ tenant[t].present
    /\ tenant' = [tenant EXCEPT ![t] = [present |-> FALSE, enabled |-> FALSE]]
    /\ child' = RemoveChildren(cs)
    /\ childWindow' = RemoveWindows(cs)
    /\ reservation' = [r \in Requests |->
          IF r \in rs THEN NoReservation("purged") ELSE reservation[r]]
    /\ ledger' = [r \in Requests |-> IF r \in rs THEN 0 ELSE ledger[r]]
    /\ turns' = [r \in Requests |-> IF r \in rs THEN {} ELSE turns[r]]
    /\ detail' = [r \in Requests |-> IF r \in rs THEN 0 ELSE detail[r]]
    /\ balance' = [balance EXCEPT ![t] = 0]
    /\ credited' = [credited EXCEPT ![t] = 0]
    /\ UNCHANGED <<now, parent, parentWindow, samples, deleting, missing>>

-----------------------------------------------------------------------------
Init == SubscriptionInit /\ ReservationInit

Administer == SubscriptionNext /\ UNCHANGED reservationVars

Removal ==
    \/ \E c \in Children : DeleteChildCount(c) \/ DeleteChildSubscription(c)
    \/ \E p \in Parents : MarkMissingBegin(p)
    \/ \E t \in Tenants : DeleteTenant(t)

Bill(r) ==
    \/ \E t \in Tenants, reserve \in Reserves :
          \E c \in {0} \cup {d \in Children : child[d].owner = t} : Reserve(r, t, c, reserve)
    \/ \E cost \in Costs \cup {0} : SettleRequestWithLog(r, cost)
    \/ \E actual \in Amounts : SettleRequestReservation(r, actual)
    \/ ReleaseRequestReservation(r)
    \/ \E actual \in Amounts : ReclaimReservation(r, actual)
    \/ \E turn \in Turns, cost \in Costs : AccrueWebSocketTurn(r, turn, cost)

Next ==
    \/ /\ missing = 0
       /\ \/ Administer
          \/ Removal
          \/ \E r \in Requests : Bill(r)
          \/ \E t \in Tenants, amount \in CreditAmounts : Credit(t, amount)
    \/ \E r \in Requests : MarkMissingRelease(r)
    \/ MarkMissingDelete

Spec == Init /\ [][Next]_storeVars

-----------------------------------------------------------------------------
(* Properties *)

\* A request's ledger rows always add up to what it holds plus what it has
\* accrued while it runs, to exactly its final charge once it is finished,
\* and to nothing at all when admission funded it from quota: no order of
\* settlement, release, expiry, accrual and deletion charges or refunds it
\* twice (finishReservationTx, AccrueWebSocketTurn, reserveCandidate).
LedgerExact ==
    \A r \in Requests :
        LET row == reservation[r] IN
        ledger[r] = IF ~reservationUsesBalance(row) THEN 0
                    ELSE IF row.status = "active" THEN -(row.balanceHeld + row.actual)
                    ELSE -row.actual

\* The balance column is always the sum of the tenant's ledger rows: every
\* operation that moves money writes the row and the balance together, so
\* the invoice explains the balance after any interleaving (Credit,
\* reserveCandidate, AccrueWebSocketTurn, finishReservationTx).
BalanceExact ==
    \A t \in Tenants :
        balance[t] = credited[t] + Total(ledger, {r \in Requests : reservation[r].owner = t})

\* Does row hold, or has it charged, the generation that window is in?
Holds(row, c, k, window) ==
    /\ row.child = c
    /\ row.quotaHeld > 0
    /\ row.windows[k] # 0
    /\ row.windows[k] = window.resetsAt
Holders(c, k) == {r \in Requests : Holds(reservation[r], c, k, childWindow[c][k])}

\* A child window's counters are exactly the holds and the charges of the
\* requests admitted in its generation: settlement of an older generation
\* never touches it, a new generation starts from zero, and the clamps of
\* finishReservationTx never hide a difference.
WindowsExact ==
    \A c \in Children, k \in Kinds :
        /\ childWindow[c][k].reserved = Total([r \in Requests |-> reservation[r].quotaHeld],
              {r \in Holders(c, k) : reservation[r].status = "active"})
        /\ childWindow[c][k].settled = Total([r \in Requests |-> reservation[r].actual], Holders(c, k))

\* Once settled, released or expired, a reservation's status and charge never
\* change again, whoever settles late (the early return of
\* finishReservationTx); only deleting its tenant removes it.
FinishedForever ==
    [][\A r \in Requests : reservation[r].status \in Finished =>
          \/ reservation'[r].status = "purged"
          \/ /\ reservation'[r].status = reservation[r].status
             /\ reservation'[r].actual = reservation[r].actual
             /\ ledger'[r] = ledger[r]]_storeVars

\* Whatever administrators re-grant, move or delete while it runs, a request
\* charges a child that still exists and belongs to its own tenant, or none
\* (the foreign keys of request_reservations, UpdateChildSubscription,
\* MarkMissingParentSubscriptions, DeleteTenant).
OwnChild ==
    \A r \in Requests :
        LET c == reservation[r].child IN
        c # 0 => child[c].state = "present" /\ child[c].owner = reservation[r].owner

\* A child window never returns to an older generation while its child
\* exists, whatever probes, conversions and admissions do
\* (syncChildQuotaWindowGeneration, reserveCandidate).
GenerationsAdvance ==
    [][\A c \in Children, k \in Kinds :
          child'[c].state = "present" => childWindow'[c][k].resetsAt >= childWindow[c][k].resetsAt]_storeVars

=============================================================================
