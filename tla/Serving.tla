------------------------------ MODULE Serving ------------------------------
(***************************************************************************)
(* How one process serves the public API: handlePublic                     *)
(* (internal/app/public.go) from the key to the admission, serveInference  *)
(* and its finalizer (internal/app/inference.go, request_logging.go), the  *)
(* limits (internal/app/limits.go, rate.go), the daily counters            *)
(* (internal/store/hotpath.go) and the shutdown (internal/app/app.go,      *)
(* cmd/relayapi/main.go).  Prices come from the snapshot of Pricing, which *)
(* administrators change meanwhile.                                        *)
(*                                                                         *)
(* A request is a sequential handler that starts goroutines: two price     *)
(* lookups, one of them detached, and a finalizer when a slot is free.     *)
(* The admission controller is in GatewayAdmission and the reservation in  *)
(* Reservations; here they grant or refuse, and a hold is active, settled  *)
(* or released.  What a request asks for is chosen in the initial state,   *)
(* what the runtime answers when it is served.                             *)
(***************************************************************************)
EXTENDS Pricing, Sums

CONSTANTS
  Requests,          \* public requests
  Keys,              \* API keys of the one tenant
  Scenarios,         \* [work : what the workers do, asks : what is asked for,
                     \*  until : bound of the clock,
                     \*  stops, crashes : whether the process does]
  Responses,         \* what the runtime answers: [events, ok, quality]
  RateLimit,         \* requests per key and minute
  TokenLimit,        \* tokens per key or tenant and day
  Minute, DayLength, \* in ticks
  FinalizationSlots, \* finalizers that run in the background
  Deny               \* unpricedModelPolicy = "deny"

ASSUME ServingAssumption ==
  /\ RateLimit \in Nat /\ TokenLimit \in Nat /\ FinalizationSlots \in Nat
  /\ Minute \in Nat \ {0} /\ DayLength \in Nat \ {0}

Tenant == "tenant"
Owners == Keys \cup {Tenant}
NoAsk == [kind |-> "none"]
(* kind: "http", "count" (of tokens, which generates nothing), "realtime" (a *)
(* WebSocket whose URL names the model) or "socket" (a WebSocket whose first  *)
(* frame names it, and which is admitted then).                               *)
Sockets == {"realtime", "socket"}
NoLookup == [state |-> "none", price |-> NoPrice]
Pending == [state |-> "pending", price |-> NoPrice]
Found(price) == [state |-> "known", price |-> price]
NoResponse == [events |-> <<>>, ok |-> FALSE, quality |-> ""]
NoCharge == [cost |-> 0, complete |-> FALSE]

(* A request brings a key, and every counter of an answer is an int64 that *)
(* is not negative (number, internal/billing/usage.go).                    *)
ASSUME AnswersAssumption ==
  /\ \A s \in Scenarios : \A r \in Requests : s.asks[r] # NoAsk =>
       s.asks[r].key \in Keys /\ s.asks[r].model \in Models \cup {NoModel}
  /\ \A response \in Responses : response.events \in Seq(UsageEvents)

VARIABLES
  reqs,     \* [Requests -> request]
  rates,    \* rateState.requests: when each key was let through
  swept,    \* rateState.lastSweep
  granted,  \* when each key was let through, nothing forgotten
  daily,    \* [Owners -> [used, day]]: the daily token counters
  logs,     \* request_logs: [request, turn, day, tokens, cost, complete]
  spans,    \* a request was logged on a later day than it started
  slots,    \* the requests whose finalizer runs in a slot
  wg,       \* App.wg: the goroutines shutdown waits for
  phase,    \* "up", "draining", "closing", "closed"
  now,      \* the clock
  scenario, \* the scenario of this behaviour
  seen      \* [Requests -> the snapshots in force since it came]

logVars == <<daily, logs, spans>>
rateVars == <<rates, swept, granted>>
handlerVars == <<rateVars, logVars, slots, wg>>
servingVars == <<reqs, handlerVars, phase, now, scenario, seen>>
allVars == <<pricingVars, servingVars>>

NewRequest(ask) ==
  [ask |-> ask, pc |-> IF ask = NoAsk THEN "gone" ELSE "arriving", started |-> 0,
   lease |-> FALSE, base |-> NoLookup, deferred |-> NoLookup, price |-> NoPrice,
   configured |-> FALSE, hold |-> "none", response |-> NoResponse]

(* The requests are about to come in, and the workers to start. *)
ServingInit ==
  /\ scenario \in Scenarios /\ PricingStart(scenario.work)
  /\ reqs = [r \in Requests |-> NewRequest(scenario.asks[r])]
  /\ rates = [k \in Keys |-> <<>>] /\ swept = 0 /\ granted = [k \in Keys |-> <<>>]
  /\ daily = [o \in Owners |-> [used |-> 0, day |-> -1]] /\ logs = {} /\ spans = FALSE
  /\ slots = {} /\ wg = {} /\ phase = "up" /\ now = 0
  /\ seen = [r \in Requests |-> {}]

At2(r, step) == reqs[r].pc = step
Day == now \div DayLength
Billable(r) == reqs[r].ask.kind # "socket"
Generates(r) == reqs[r].ask.kind \in {"http", "realtime"}

(* What a price is resolved for, with what the response says. *)
requestPriceDimensions(r, model, tier, prompt) ==
  [model |-> model, alias |-> NoModel, service_tier |-> reqs[r].ask.tier,
   response_service_tier |-> tier, prompt |-> prompt]

(* The snapshot a price is resolved from: the first lookup builds it. *)
InForce == IF snapshot.built THEN snapshot ELSE Rows
CanResolve == snapshot.built \/ (pricingMu = NoOne /\ Blank \notin DOMAIN prices)

(* A handler's step leaves the rest of the process alone. *)
Quiet == UNCHANGED <<pricingVars, phase, now, scenario, seen>>
(* So does a step that looks a price up. *)
Asks ==
  /\ snapshot' = IF CanResolve THEN InForce ELSE snapshot
  /\ UNCHANGED <<tables, capabilities, pricingMu, syncMu, jobs, feed, restarts, unsettled,
                 phase, now, scenario, seen>>

(* Every early return: the answer is an error and the deferred calls run. *)
Reject(r) ==
  /\ reqs' = [reqs EXCEPT ![r].pc = "rejected", ![r].lease = FALSE]
  /\ UNCHANGED handlerVars /\ Quiet

----------------------------------------------------------------------------
(* handlePublic. *)

(* The key is valid, enabled and unexpired, or the request is refused. *)
ResolveKey(r) ==
  /\ At2(r, "arriving") /\ phase = "up"
  /\ \/ Reject(r)
     \/ /\ reqs' = [reqs EXCEPT ![r].pc = "acquire", ![r].started = now]
        /\ seen' = [seen EXCEPT ![r] = {InForce}]
        /\ UNCHANGED <<handlerVars, pricingVars, phase, now, scenario>>

(* The admission controller grants a lease (GatewayAdmission), or the *)
(* runtime is not there, the queue is full, the caller gone.          *)
AcquireLease(r) ==
  /\ At2(r, "acquire")
  /\ \/ Reject(r)
     \/ /\ reqs' = [reqs EXCEPT ![r].pc = "read", ![r].lease = TRUE]
        /\ UNCHANGED handlerVars /\ Quiet

(* The body is read, the model resolved and allowed; the lookup of the *)
(* base price starts, unless nothing is generated.                     *)
ReadRequest(r) ==
  /\ At2(r, "read")
  /\ \/ Reject(r)
     \/ /\ reqs' = [reqs EXCEPT ![r].pc = "limits",
                                ![r].base = IF Generates(r) THEN Pending ELSE NoLookup]
        /\ wg' = IF Generates(r) THEN wg \cup {<<r, "base">>} ELSE wg
        /\ UNCHANGED <<rateVars, logVars, slots>> /\ Quiet

(* What one lookup may return: the price of the snapshot, or a failure. *)
Lookups(r, model, tier, prompt) ==
  {NoPrice} \cup IF CanResolve THEN {Resolve(InForce, requestPriceDimensions(r, model, tier, prompt))}
                 ELSE {}

LookupBase(r) ==
  /\ reqs[r].base = Pending
  /\ \E price \in Lookups(r, reqs[r].ask.model, "", 0) :
       reqs' = [reqs EXCEPT ![r].base = Found(price)]
  /\ wg' = wg \ {<<r, "base">>}
  /\ UNCHANGED <<rateVars, logVars, slots>> /\ Asks

----------------------------------------------------------------------------
(* enforceLimits. *)

dailyTokensForDay(counter) == IF counter.day = Day THEN counter.used ELSE 0

(* The times before the first one in the last minute are forgotten. *)
Since(times, cutoff) ==
  LET firstLive == CHOOSE i \in 1..Len(times) + 1 :
                     /\ \A j \in 1..i-1 : times[j] < cutoff
                     /\ i <= Len(times) => times[i] >= cutoff
  IN SubSeq(times, firstLive, Len(times))
Live(times) == Since(times, now - Minute)

(* Mutant of allowRate: a minute is over a tick early. *)
EarlyMinute(k) ==
  LET live == Since(rates[k], now - Minute + 2)
  IN [allowed |-> Len(live) < RateLimit,
      rates |-> [rates EXCEPT ![k] = IF Len(live) < RateLimit THEN Append(live, now) ELSE live],
      swept |-> swept]

(* Once a minute every key is swept; the key's own list always is. *)
allowRate(k) ==
  LET sweep == swept = 0 \/ now - swept >= Minute
      kept == [o \in Keys |-> IF sweep THEN Live(rates[o]) ELSE rates[o]]
      live == Live(kept[k])
  IN [allowed |-> RateLimit = 0 \/ Len(live) < RateLimit,
      rates |-> IF RateLimit = 0 THEN rates
                ELSE [kept EXCEPT ![k] = IF Len(live) < RateLimit THEN Append(live, now) ELSE live],
      swept |-> IF RateLimit # 0 /\ sweep THEN now ELSE swept]

(* The daily counters are read, then a place in the minute is taken. *)
enforceLimits(r) ==
  LET k == reqs[r].ask.key
      rate == allowRate(k)
      exhausted == \E o \in {Tenant, k} : dailyTokensForDay(daily[o]) >= TokenLimit
  IN /\ At2(r, "limits")
     /\ \/ Reject(r)                                    \* the counters cannot be read
        \/ exhausted /\ Reject(r)
        \/ /\ ~exhausted
           /\ rates' = rate.rates /\ swept' = rate.swept
           /\ reqs' = [reqs EXCEPT ![r].pc = IF rate.allowed THEN "price" ELSE "rejected",
                                   ![r].lease = rate.allowed]
           /\ granted' = IF rate.allowed THEN [granted EXCEPT ![k] = Append(@, now)] ELSE granted
           /\ UNCHANGED <<logVars, slots, wg>> /\ Quiet

----------------------------------------------------------------------------
(* The price and the admission. *)

AwaitBase(r) ==
  LET price == reqs[r].base.price
  IN /\ At2(r, "price") /\ reqs[r].base # Pending
     /\ IF Generates(r) /\ ~price.found /\ Deny
          THEN Reject(r)
          ELSE /\ reqs' = [reqs EXCEPT ![r].pc = IF Billable(r) THEN "admit" ELSE "upgrade",
                                       ![r].price = price,
                                       ![r].configured = ~Generates(r) \/ price.found]
               /\ UNCHANGED handlerVars /\ Quiet

(* AdmitRequest holds the reservation, or refuses; the price is looked up  *)
(* again for the account it was given, detached from the client.  A socket *)
(* waits for that price.                                                   *)
AdmitRequest(r) ==
  LET again == reqs[r].configured /\ Generates(r)
  IN /\ At2(r, "admit")
     /\ \/ Reject(r)
        \/ /\ reqs' = [reqs EXCEPT
                ![r].pc = IF reqs[r].ask.kind \in Sockets THEN "upgrade" ELSE "serve",
                ![r].hold = "active",
                ![r].deferred = IF again THEN Pending ELSE NoLookup]
           /\ wg' = IF again THEN wg \cup {<<r, "deferred">>} ELSE wg
           /\ UNCHANGED <<rateVars, logVars, slots>> /\ Quiet

LookupDeferred(r) ==
  /\ reqs[r].deferred = Pending
  /\ \E price \in Lookups(r, reqs[r].ask.model, "", 0) :
       reqs' = [reqs EXCEPT ![r].deferred = Found(price)]
  /\ wg' = wg \ {<<r, "deferred">>}
  /\ UNCHANGED <<rateVars, logVars, slots>> /\ Asks

----------------------------------------------------------------------------
(* serveInference. *)

(* The runtime writes its answer to the client and to the capture. *)
Serve(r) ==
  /\ At2(r, "serve")
  /\ \E response \in Responses :
       reqs' = [reqs EXCEPT ![r].pc = "finalize", ![r].response = response]
  /\ UNCHANGED handlerVars /\ Quiet

(* The runtime panics: the recoverer answers, the hold is left to the *)
(* reclaimer.                                                         *)
ServePanics(r) ==
  /\ At2(r, "serve")
  /\ reqs' = [reqs EXCEPT ![r].pc = "gone", ![r].lease = FALSE]
  /\ UNCHANGED handlerVars /\ Quiet

(* Mutant of FinalizeInSlot: shutdown does not know of the finalizer. *)
FinalizeUncounted(r) ==
  /\ At2(r, "finalize") /\ Cardinality(slots) < FinalizationSlots
  /\ slots' = slots \cup {r}
  /\ reqs' = [reqs EXCEPT ![r].pc = "pricing", ![r].lease = FALSE]
  /\ UNCHANGED <<wg, rateVars, logVars>> /\ Quiet

(* finalizeResponse: a slot is free, and the handler returns. *)
FinalizeInSlot(r) ==
  /\ At2(r, "finalize") /\ Cardinality(slots) < FinalizationSlots
  /\ slots' = slots \cup {r}
  /\ wg' = wg \cup {<<r, "finalizer">>}
  /\ reqs' = [reqs EXCEPT ![r].pc = "pricing", ![r].lease = FALSE]
  /\ UNCHANGED <<rateVars, logVars>> /\ Quiet

(* All slots are taken: the handler finalizes before it returns. *)
FinalizeInline(r) ==
  /\ At2(r, "finalize") /\ Cardinality(slots) >= FinalizationSlots
  /\ reqs' = [reqs EXCEPT ![r].pc = "pricing"]
  /\ UNCHANGED handlerVars /\ Quiet

(* cpaBillingUsage: counting generates nothing; the runtime's own record *)
(* says whether the usage is complete, except for images.                *)
Parsed(r) ==
  LET response == reqs[r].response
      result == ParseResponse(response.events)
  IN IF reqs[r].ask.kind = "count" THEN [NoResult EXCEPT !.quality = "not_generated"]
     ELSE IF response.quality = "" THEN result
     ELSE [result EXCEPT !.quality = response.quality, !.found = response.quality = "complete"]

(* The price to start from: the detached lookup's, when it found one. *)
StartingPrice(r) ==
  IF reqs[r].deferred.price.found THEN reqs[r].deferred.price ELSE reqs[r].price

(* Mutant of FinalPrice: a failed lookup overwrites the price. *)
FailureOverwrites(r) ==
  LET result == Parsed(r)
  IN IF reqs[r].configured /\ result.found
       THEN Lookups(r, reqs[r].ask.model, result.tier, result.usage.prompt)
       ELSE {StartingPrice(r)}

(* The usage is known: the price is resolved again for the tier and the *)
(* prompt of the response, and stays what it was when that fails.       *)
FinalPrice(r) ==
  LET result == Parsed(r)
      resolved == Lookups(r, reqs[r].ask.model, result.tier, result.usage.prompt)
  IN IF reqs[r].configured /\ result.found
       THEN {IF price.found THEN price ELSE StartingPrice(r) : price \in resolved}
       ELSE {StartingPrice(r)}

PriceResponse(r) ==
  /\ At2(r, "pricing") /\ reqs[r].deferred # Pending
  /\ \E price \in FinalPrice(r) :
       reqs' = [reqs EXCEPT ![r].pc = "settling", ![r].price = price]
  /\ UNCHANGED handlerVars /\ Asks

(* Only a successful answer is assessed. *)
Charge(r) ==
  IF ~reqs[r].response.ok THEN NoCharge
  ELSE Assess(Parsed(r), IF reqs[r].configured THEN reqs[r].price ELSE NoPrice)

(* A counter of another day starts anew. *)
applyDailyTokenDelta(counter, day, tokens) ==
  IF tokens = 0 THEN counter
  ELSE IF counter.day = day THEN [counter EXCEPT !.used = @ + tokens]
  ELSE [used |-> tokens, day |-> day]

(* One row and both counters, in the settling transaction. *)
writeLogTx(r, turn, started, tokens, charge) ==
  LET day == started \div DayLength
  IN /\ logs' = logs \cup {[request |-> r, turn |-> turn, day |-> day, tokens |-> tokens,
                             cost |-> charge.cost, complete |-> charge.complete]}
     /\ daily' = [o \in Owners |->
          IF o \in {reqs[r].ask.key, Tenant} THEN applyDailyTokenDelta(daily[o], day, tokens)
          ELSE daily[o]]
     /\ spans' = (spans \/ (tokens > 0 /\ day # Day))

(* The finalizer's transaction: the charge is settled with its log, or it *)
(* fails and the hold stays.  The slot, the lease, the group are released. *)
SettleRequestWithLog(r) ==
  /\ At2(r, "settling")
  /\ slots' = slots \ {r} /\ wg' = wg \ {<<r, "finalizer">>}
  /\ \/ /\ phase # "closed"
        /\ reqs' = [reqs EXCEPT ![r].pc = "done", ![r].lease = FALSE, ![r].hold = "settled"]
        /\ writeLogTx(r, 0, reqs[r].started, Parsed(r).usage.total, Charge(r))
     \/ /\ reqs' = [reqs EXCEPT ![r].pc = "done", ![r].lease = FALSE]
        /\ UNCHANGED logVars
  /\ UNCHANGED rateVars /\ Quiet

----------------------------------------------------------------------------
(* The process. *)

(* A signal: no request is taken any more. *)
StopServing ==
  /\ scenario.stops /\ phase = "up" /\ phase' = "draining"
  /\ UNCHANGED <<pricingVars, reqs, handlerVars, now, scenario, seen>>

(* server.Shutdown waits for the handlers, fifteen seconds at most. *)
ShutdownReturns ==
  /\ phase = "draining" /\ phase' = "closing"
  /\ UNCHANGED <<pricingVars, reqs, handlerVars, now, scenario, seen>>

(* App.Close waits for the group and closes the database. *)
CloseApp ==
  /\ phase = "closing" /\ wg = {} /\ phase' = "closed"
  /\ UNCHANGED <<pricingVars, reqs, handlerVars, now, scenario, seen>>

Tick ==
  /\ now < scenario.until /\ now' = now + 1
  /\ UNCHANGED <<pricingVars, reqs, handlerVars, phase, scenario, seen>>

(* The process dies: its handlers and goroutines are gone, the holds stay. *)
Crash ==
  /\ scenario.crashes /\ Restart
  /\ reqs' = [r \in Requests |->
       [reqs[r] EXCEPT !.pc = IF @ \in {"arriving", "rejected", "done"} THEN @ ELSE "gone",
                       !.lease = FALSE,
                       !.base = IF @ = Pending THEN NoLookup ELSE @,
                       !.deferred = IF @ = Pending THEN NoLookup ELSE @]]
  /\ rates' = [k \in Keys |-> <<>>] /\ swept' = 0 /\ granted' = [k \in Keys |-> <<>>]
  /\ slots' = {} /\ wg' = {} /\ phase' = "up"
  /\ UNCHANGED <<logVars, now, scenario, seen>>

(* Prices change while requests are served. *)
PricesChange ==
  /\ phase # "closed"
  /\ (\E w \in Workers : PricingStep(w)) \/ FeedAdvances
  /\ seen' = [r \in Requests |-> IF seen[r] = {} THEN {} ELSE seen[r] \cup {InForce'}]
  /\ UNCHANGED <<reqs, handlerVars, phase, now, scenario>>

RequestStep(r) ==
  \/ ResolveKey(r) \/ AcquireLease(r) \/ ReadRequest(r) \/ LookupBase(r) \/ enforceLimits(r)
  \/ AwaitBase(r) \/ AdmitRequest(r) \/ LookupDeferred(r) \/ Serve(r) \/ ServePanics(r)
  \/ FinalizeInSlot(r) \/ FinalizeInline(r) \/ PriceResponse(r) \/ SettleRequestWithLog(r)

----------------------------------------------------------------------------
(* What serving promises. *)

Logged(rows) == Total([row \in rows |-> row.tokens], rows)

(* A lease is held by a handler that has not returned and by nobody else,   *)
(* and no more finalizers run in the background than there are slots.       *)
ServingTypeOK ==
  /\ \A r \in Requests :
       /\ reqs[r].hold \in {"none", "active", "settled", "released"}
       /\ reqs[r].lease => reqs[r].pc \in {"read", "limits", "price", "admit", "serve", "finalize",
                                          "pricing", "settling", "upgrade", "dial", "session"}
       /\ reqs[r].pc \in {"read", "limits", "price", "admit", "serve", "finalize", "upgrade", "dial",
                          "session"} => reqs[r].lease
       /\ r \in slots => ~reqs[r].lease
  /\ Cardinality(slots) <= FinalizationSlots
  /\ phase \in {"up", "draining", "closing", "closed"}

(* No sixty seconds, wherever they begin, let more requests of a key through *)
(* than its limit, although the sweeps drop old times for all keys           *)
(* (allowRate).                                                              *)
RateRespected ==
  RateLimit = 0 \/ \A k \in Keys : \A i \in DOMAIN granted[k] :
    Cardinality({j \in DOMAIN granted[k] : granted[k][j] \in granted[k][i]..granted[k][i] + Minute})
      <= RateLimit

(* The counter a limit is checked against is the sum of what was logged      *)
(* today, for the key and for the tenant, while no request is logged on a    *)
(* later day than it started (applyDailyTokenDelta, DailyTokens).            *)
DailyCountExact ==
  spans \/ \A o \in Owners :
    dailyTokensForDay(daily[o]) =
      Logged({row \in logs : row.day = Day /\ (o = Tenant \/ reqs[row.request].ask.key = o)})

(* What a request may be priced for: what it asks for, and with that what   *)
(* its response says.                                                       *)
Dimensions(r) ==
  {requestPriceDimensions(r, reqs[r].ask.model, "", 0),
   requestPriceDimensions(r, reqs[r].ask.model, Parsed(r).tier, Parsed(r).usage.prompt)}

(* What a successful, priced answer used is charged, once, at a price that   *)
(* was in force since the request came, whatever is changed, lost or refreshed *)
(* meanwhile (serveInference's finalizer, billing.Assess).                   *)
ServedUsageIsCharged ==
  \A row \in logs :
    LET r == row.request
        u == Parsed(r).usage
    IN (row.turn = 0 /\ Generates(r) /\ reqs[r].response.ok /\ reqs[r].configured /\ Parsed(r).found)
         => \E s \in seen[r] : \E d \in Dimensions(r) :
              LET price == Resolve(s, d)
              IN /\ price.found
                 /\ row.complete = (u = NoUsage \/ UsageComplete(price, u))
                 /\ row.cost = IF row.complete THEN CostNanoUSD(price, u) ELSE 0

(* An event that is repeated, as streams and their final frames do, changes  *)
(* no charge, and every prompt token is charged at one rate (readUsage,      *)
(* CostNanoUSD).                                                             *)
RepeatedUsageChargedOnce ==
  \A r \in Requests :
    LET events == reqs[r].response.events
        u == ParseResponse(events).usage
        charged == Charged(u)
    IN /\ ParseResponse(events \o events).usage = u
       /\ charged.input + charged.cached + charged.image_input + charged.cached_image = u.prompt

(* The database is closed after every finalizer that runs in a slot has      *)
(* settled (App.Close, finalizeResponse).                                    *)
CloseWaitsForCharges ==
  [][(phase # "closed" /\ phase' = "closed") => slots = {}]_allVars

(* The limits of a key: no more requests in a minute than allowed, and a    *)
(* daily counter that counts exactly what was logged.                       *)
LimitsKept == ServingTypeOK /\ RateRespected /\ DailyCountExact

(* A response is charged for the usage it reported: not for less when a     *)
(* later step fails, and not twice when the usage is reported twice.        *)
ChargedForUsage == ServedUsageIsCharged /\ RepeatedUsageChargedOnce
=============================================================================
