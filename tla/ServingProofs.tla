--------------------------- MODULE ServingProofs ---------------------------
(***************************************************************************)
(* Serving, for any number of requests and keys, any limits, any answers   *)
(* of the runtime and whatever the prices do meanwhile: no key is let      *)
(* through more often than its limit and the daily counters count what was *)
(* logged, a served response is charged for its usage at a price that was  *)
(* in force, shutdown waits for the finalizers, and the turns of a         *)
(* WebSocket are stored before they are forwarded and accounted to the     *)
(* frames they answer.                                                     *)
(***************************************************************************)
EXTENDS WebSocketSession, SumsProofs, SequenceTheorems, WellFoundedInduction, FiniteSetTheorems, TLAPS

-----------------------------------------------------------------------------
(* Requests *)

ReqFields == {"ask", "pc", "started", "lease", "base", "deferred", "price", "configured", "hold",
              "response"}

(* What a request asks for is what the scenario says, and stays so.        *)
Shape ==
    /\ scenario \in Scenarios
    /\ DOMAIN reqs = Requests
    /\ \A r \in Requests : DOMAIN reqs[r] = ReqFields /\ reqs[r].ask = scenario.asks[r]

Leased == {"read", "limits", "price", "admit", "serve", "finalize", "upgrade", "dial", "session"}
Finalizing == {"pricing", "settling"}

(* ServingTypeOK, and why a slot is never freed twice or forgotten: its    *)
(* finalizer is at work, and the group knows of it.                        *)
Life ==
    /\ ServingTypeOK
    /\ \A r \in Requests : reqs[r].lease \in BOOLEAN
    /\ IsFiniteSet(slots) /\ slots \subseteq Requests
    /\ \A r \in slots : reqs[r].pc \in Finalizing /\ <<r, "finalizer">> \in wg

-----------------------------------------------------------------------------
(* Sessions *)

SessionFields == {"established", "current", "active", "pending", "seenTurns", "accrued", "sent",
                  "writing", "asked", "events", "last", "produced", "forwarding", "delivered",
                  "turns", "pumps", "closing"}
AnyModel == Models \cup {NoModel}
FrameType == [type : STRING, model : AnyModel, prewarm : BOOLEAN]
StepType == [frame : Nat, model : AnyModel, prewarm : BOOLEAN, started : Nat]
Terminals == [type : {"terminal"}, id : Nat \ {0}, frame : Nat, response : Responses]
EventType == [type : {"none", "created"}] \cup Terminals

SessionShape(s) ==
    /\ DOMAIN s = SessionFields
    /\ s.current \in StepType /\ s.active \in BOOLEAN /\ s.pending \in Seq(StepType)
    /\ s.seenTurns \subseteq Nat /\ s.sent \in Nat /\ s.writing \in Nat
    /\ s.asked \in Seq(Nat) /\ s.produced \in Nat
    /\ s.events \in Seq(EventType) /\ s.forwarding \in EventType
    /\ s.last \in EventType
    /\ s.delivered \subseteq Nat /\ s.pumps \subseteq Pumps

(* A terminal event that no turn has been stored for.                      *)
Unseen(s, event) == event.type = "terminal" /\ event.id \notin s.seenTurns
Queued(s, k) == k \in DOMAIN s.events /\ Unseen(s, s.events[k])

(* A step waits for the answer to this frame.                              *)
Waiting(s, f) ==
    \/ s.active /\ s.current.frame = f
    \/ \E i \in DOMAIN s.pending : s.pending[i].frame = f

Latest(s) == IF s.pending # <<>> THEN s.pending[Len(s.pending)] ELSE s.current
Asks2(frames, f) == f \in DOMAIN frames /\ (f = 1 \/ frames[f].type = "create")

(* What every session keeps: a step waits only behind a current one, what  *)
(* is forwarded was stored, an id is new, and the last event is in the     *)
(* queue until its turn is stored.                                         *)
Turns(s) ==
    /\ s.pending # <<>> => s.active
    /\ s.forwarding # NoEvent => "runtime" \in s.pumps
    /\ s.forwarding.type = "terminal" => s.forwarding.id \in s.seenTurns
    /\ s.delivered \subseteq s.seenTurns
    /\ \A id \in s.seenTurns : id <= s.produced
    /\ \A k \in DOMAIN s.events : s.events[k].type = "terminal" => s.events[k].id <= s.produced
    /\ s.last # NoEvent => s.last \in Terminals /\ s.last.id <= s.produced
    /\ "runtime" \in s.pumps /\ Unseen(s, s.last)
         => s.events # <<>> /\ s.events[Len(s.events)] = s.last

(* A terminal event of a Realtime session comes behind its announcement,   *)
(* which starts a step when none is current.                               *)
Announced(s) ==
    "runtime" \in s.pumps => \A j \in DOMAIN s.events : Queued(s, j) =>
        IF j = 1 THEN s.active
        ELSE \/ s.events[j - 1].type = "created"
             \/ s.events[j - 1].type = "terminal" /\ s.events[j - 1].id = s.events[j].id

(* A step is what its frame asked for.                                     *)
StepFits(frames, step) ==
    /\ step.frame \in DOMAIN frames
    /\ step.prewarm = frames[step.frame].prewarm
    /\ Asks2(frames, step.frame) => step.model = ModelAt(frames, step.frame)

(* The steps of a Responses session wait in the order of their frames.     *)
InOrder(s, frames) ==
    /\ s.sent \in 1..Len(frames)
    /\ s.active => s.current.frame <= s.sent /\ StepFits(frames, s.current)
    /\ \A i \in DOMAIN s.pending :
         /\ s.current.frame < s.pending[i].frame /\ s.pending[i].frame <= s.sent
         /\ StepFits(frames, s.pending[i])
         /\ \A j \in DOMAIN s.pending : i < j => s.pending[i].frame < s.pending[j].frame
    /\ "client" \in s.pumps => Latest(s).model = ModelAt(frames, s.sent)

(* What was asked for and not yet answered, in the order of the frames.    *)
AskedFor(s, frames) ==
    /\ s.writing # 0 => /\ s.writing = s.sent /\ "client" \in s.pumps
                        /\ frames[s.writing].type = "create" <=> Waiting(s, s.writing)
    /\ \A i \in DOMAIN s.asked :
         /\ Waiting(s, s.asked[i]) /\ Asks2(frames, s.asked[i])
         /\ s.writing # 0 => s.asked[i] < s.writing
         /\ \A j \in DOMAIN s.asked : i < j => s.asked[i] < s.asked[j]

(* The events: one id for one frame, before what is still asked for.       *)
Events(s) == {s.events[k] : k \in DOMAIN s.events} \cup (IF s.last = NoEvent THEN {} ELSE {s.last})
OneEach(s) ==
    /\ \A k \in DOMAIN s.events : s.events[k].type = "terminal"
    /\ \A a \in Events(s) : \A b \in Events(s) : a.id = b.id <=> a.frame = b.frame
    /\ \A a \in Events(s) : /\ a.frame <= s.sent /\ (s.writing # 0 => a.frame < s.writing)
                            /\ \A i \in DOMAIN s.asked : a.frame < s.asked[i]

(* Nothing that waits is passed over: before an event, and before a frame  *)
(* that was asked for, come the answers to all earlier steps.              *)
Answering(s, f) == \E k \in DOMAIN s.events : Queued(s, k) /\ s.events[k].frame = f
InTurn(s, frames) ==
    "runtime" \in s.pumps =>
      /\ \A j \in DOMAIN s.events : Queued(s, j) =>
           /\ Waiting(s, s.events[j].frame) /\ Asks2(frames, s.events[j].frame)
           /\ \A f \in Nat : Waiting(s, f) /\ f < s.events[j].frame
                => \E k \in 1..j - 1 : Queued(s, k) /\ s.events[k].frame = f
      /\ \A i \in DOMAIN s.asked : \A f \in Nat : Waiting(s, f) /\ f < s.asked[i]
           => (\E k \in 1..i - 1 : s.asked[k] = f) \/ Answering(s, f)
      /\ "client" \in s.pumps => \A f \in Nat : Waiting(s, f)
           => f = s.writing \/ (\E k \in DOMAIN s.asked : s.asked[k] = f) \/ Answering(s, f)

SocketOK(s, frames) == InOrder(s, frames) /\ AskedFor(s, frames) /\ OneEach(s) /\ InTurn(s, frames)

(* Between the upgrade and the first message of the runtime.               *)
Dialling(s) ==
    /\ s.active /\ s.pending = <<>> /\ s.seenTurns = {} /\ s.writing = 0 /\ s.asked = <<>>
    /\ s.events = <<>> /\ s.last = NoEvent /\ s.produced = 0 /\ s.forwarding = NoEvent
    /\ s.delivered = {} /\ s.turns = {} /\ s.pumps = Pumps
FirstFrame(s, frames) ==
    /\ frames # <<>> /\ s.sent = 1 /\ s.current.frame = 1 /\ StepFits(frames, s.current)
    /\ s.current.model = ModelAt(frames, 1)

Before == {"arriving", "acquire", "read", "limits", "price", "admit", "upgrade"}
HttpOnly == {"serve", "finalize", "pricing", "settling"}

(* The rows of the log are the turns that were stored: the session knows   *)
(* them all while its runtime's pump is there.                             *)
Stored(r) ==
    /\ \A id \in ws[r].seenTurns : \E row \in logs : row.request = r /\ row.turn = id
    /\ \A row \in logs : row.request = r =>
         /\ row.turn = 0 => reqs[r].pc = "done" /\ reqs[r].ask.kind \notin Sockets
         /\ row.turn # 0 => reqs[r].ask.kind \in Sockets
         /\ row.turn # 0 /\ "runtime" \in ws[r].pumps => row.turn \in ws[r].seenTurns

(* Where a session is in the life of its request.                          *)
InPlace(r) ==
    /\ reqs[r].pc \in Before => ws[r] = NewSession
    /\ reqs[r].pc \in {"upgrade", "dial", "session"} => reqs[r].ask.kind \in Sockets
    /\ reqs[r].pc \in HttpOnly => reqs[r].ask.kind \notin Sockets
    /\ reqs[r].pc = "dial" => Dialling(ws[r])
    /\ reqs[r].pc = "dial" /\ ~Realtime(r) => FirstFrame(ws[r], Frames(r))

(* What an open session of either kind keeps.                              *)
Kept(r, s) == IF Realtime(r) THEN Announced(s) ELSE SocketOK(s, Frames(r))

TurnFits(frames, turn) ==
    /\ turn.step.frame = turn.answers
    /\ turn.step.model = ModelAt(frames, turn.answers)
    /\ turn.step.prewarm = frames[turn.answers].prewarm
TurnsFit(r, s) == reqs[r].ask.kind = "socket" => \A turn \in s.turns : TurnFits(Frames(r), turn)

OneSession(r) ==
    /\ SessionShape(ws[r]) /\ Turns(ws[r]) /\ Stored(r) /\ InPlace(r)
    /\ Open(r) => Kept(r, ws[r])
    /\ TurnsFit(r, ws[r])

Sessions ==
    /\ now \in Nat /\ DOMAIN ws = Requests
    /\ \A row \in logs : row.request \in Requests
    /\ \A r \in Requests : OneSession(r)

-----------------------------------------------------------------------------
(* Limits *)

(* A request was started at some time, has been answered or not, and is    *)
(* not even one when nothing was asked for.                                *)
Answered ==
    \A r \in Requests :
         /\ reqs[r].started \in Nat
         /\ reqs[r].response \in Responses \cup {NoResponse}
         /\ reqs[r].ask = NoAsk => reqs[r].pc = "gone"

(* What a key has left in its minute is the end of what it was granted,    *)
(* and what is missing there is older than a minute.                       *)
Recent(times, all) ==
    \E n \in 0..Len(all) :
      /\ Len(times) = Len(all) - n
      /\ \A i \in 1..Len(times) : times[i] = all[n + i]
      /\ \A i \in 1..n : all[i] < now - Minute

Spaced(all) ==
    /\ \A i \in DOMAIN all : all[i] <= now
    /\ \A i, j \in DOMAIN all : i <= j => all[i] <= all[j]
    /\ \A i \in DOMAIN all : i + RateLimit \in DOMAIN all => all[i + RateLimit] > all[i] + Minute

RatesKept ==
    /\ DOMAIN rates = Keys /\ DOMAIN granted = Keys /\ swept \in Nat
    /\ RateLimit # 0 => \A k \in Keys :
         /\ rates[k] \in Seq(Nat) /\ granted[k] \in Seq(Nat)
         /\ Recent(rates[k], granted[k]) /\ Spaced(granted[k])

(* A counter holds what was logged on its day, and nothing was logged on a *)
(* later one.                                                              *)
RowsOf(o, d) == {row \in logs : row.day = d /\ (o = Tenant \/ reqs[row.request].ask.key = o)}
Counted ==
    /\ IsFiniteSet(logs) /\ \A row \in logs : row.tokens \in Nat /\ row.day \in Nat
    /\ DOMAIN daily = Owners /\ spans \in BOOLEAN
    /\ \A o \in Owners : DOMAIN daily[o] = {"used", "day"} /\ daily[o].day \in Int /\ daily[o].used \in Nat
    /\ ~spans => \A o \in Owners :
         /\ daily[o].day <= Day
         /\ daily[o].used = Logged(RowsOf(o, daily[o].day))
         /\ \A d \in Nat : \A row \in RowsOf(o, d) : row.tokens # 0 => d <= daily[o].day

-----------------------------------------------------------------------------
(* Charges *)

(* A price that was found was resolved from one of these snapshots, for    *)
(* what the request asks for, or for that and what the response says.      *)
First(ask, snapshots, price) ==
    price.found => \E s \in snapshots :
        price = Resolve(s, [model |-> ask.model, alias |-> NoModel, service_tier |-> ask.tier,
                            response_service_tier |-> "", prompt |-> 0])
Final(ask, result, snapshots, price) ==
    \/ First(ask, snapshots, price)
    \/ \E s \in snapshots :
         price = Resolve(s, [model |-> ask.model, alias |-> NoModel, service_tier |-> ask.tier,
                             response_service_tier |-> result.tier, prompt |-> result.usage.prompt])

(* Every price a request has was in force since it came, and a configured  *)
(* request has one.                                                        *)
Settled == {"settling", "done", "gone"}
Asking(r) ==
    \/ reqs[r].pc \in {"acquire"} \cup Leased \cup Finalizing
    \/ reqs[r].base = Pending \/ reqs[r].deferred = Pending
OnePriced(r) ==
    /\ Asking(r) => InForce \in seen[r]
    /\ reqs[r].pc = "arriving" => seen[r] = {}
    /\ Generates(r) =>
         /\ First(reqs[r].ask, seen[r], reqs[r].base.price)
         /\ First(reqs[r].ask, seen[r], reqs[r].deferred.price)
         /\ reqs[r].pc \notin Settled => First(reqs[r].ask, seen[r], reqs[r].price)
         /\ Final(reqs[r].ask, Parsed(r), seen[r], reqs[r].price)
         /\ reqs[r].configured => reqs[r].price.found
Priced == DOMAIN seen = Requests /\ \A r \in Requests : OnePriced(r)

(* What the log says a request cost is what it still would.                *)
Billed ==
    \A row \in logs : row.turn = 0 =>
      row.cost = Charge(row.request).cost /\ row.complete = Charge(row.request).complete

-----------------------------------------------------------------------------
(* What a step touches *)

(* A step of a request leaves the other requests alone.                    *)
Touches(r) ==
    /\ DOMAIN reqs' = Requests
    /\ DOMAIN reqs'[r] = ReqFields /\ reqs'[r].ask = reqs[r].ask
    /\ \A q \in Requests \ {r} : reqs'[q] = reqs[q]

(* A change of some fields of one request.                                 *)
LEMMA TouchOne ==
    ASSUME Shape, NEW r \in Requests, NEW q, DOMAIN q = ReqFields, q.ask = reqs[r].ask,
           reqs' = [reqs EXCEPT ![r] = q]
    PROVE  Touches(r) /\ reqs'[r] = q
BY DEF Shape, Touches

LEMMA RequestTouches ==
    ASSUME Shape, NEW r \in Requests, RequestStep(r)
    PROVE  Touches(r) /\ scenario' = scenario
<1> USE DEF Shape, Touches, ReqFields, Reject, Quiet, Asks
<1>1. CASE ResolveKey(r)
  BY <1>1 DEF ResolveKey
<1>2. CASE AcquireLease(r)
  BY <1>2 DEF AcquireLease
<1>3. CASE ReadRequest(r)
  BY <1>3 DEF ReadRequest
<1>4. CASE LookupBase(r)
  BY <1>4 DEF LookupBase
<1>5. CASE enforceLimits(r)
  BY <1>5 DEF enforceLimits
<1>6. CASE AwaitBase(r)
  BY <1>6 DEF AwaitBase
<1>7. CASE AdmitRequest(r)
  BY <1>7 DEF AdmitRequest
<1>8. CASE LookupDeferred(r)
  BY <1>8 DEF LookupDeferred
<1>9. CASE Serve(r)
  BY <1>9 DEF Serve
<1>10. CASE ServePanics(r)
  BY <1>10 DEF ServePanics
<1>11. CASE FinalizeInSlot(r)
  BY <1>11 DEF FinalizeInSlot
<1>12. CASE FinalizeInline(r)
  BY <1>12 DEF FinalizeInline
<1>13. CASE PriceResponse(r)
  BY <1>13 DEF PriceResponse
<1>14. CASE SettleRequestWithLog(r)
  BY <1>14 DEF SettleRequestWithLog
<1> QED
  BY <1>1, <1>2, <1>3, <1>4, <1>5, <1>6, <1>7, <1>8, <1>9, <1>10, <1>11, <1>12, <1>13, <1>14 DEF RequestStep

(* A step of a session moves its request on, or leaves it where it is; no  *)
(* limit, no finalizer and no price in force changes.                      *)
SessionMove(r) ==
    /\ Touches(r)
    /\ reqs[r].pc \in {"upgrade", "dial", "session"}
    /\ reqs'[r].pc \in {"dial", "session", "done"}
    /\ reqs'[r].pc = "dial" => reqs[r].pc = "upgrade"
    /\ reqs'[r].pc = "session" => reqs[r].pc # "upgrade"
    /\ reqs'[r].lease = IF reqs'[r].pc = "done" THEN FALSE ELSE reqs[r].lease
    /\ reqs'[r].hold \in {reqs[r].hold, "active", "released", "settled"}
    /\ \A f \in {"started", "base", "deferred", "response"} : reqs'[r][f] = reqs[r][f]
    /\ Generates(r) => \A f \in {"price", "configured"} : reqs'[r][f] = reqs[r][f]

LEMMA AsksInForce ==
    ASSUME Asks
    PROVE  InForce' = InForce /\ UNCHANGED <<tables, phase, now, scenario, seen>>
BY DEF Asks, tables, Rows, InForce

LEMMA QuietInForce ==
    ASSUME Quiet
    PROVE  InForce' = InForce /\ UNCHANGED <<tables, phase, now, scenario, seen>>
BY DEF Quiet, pricingVars, InForce, Rows, tables

LEMMA SessionTouches ==
    ASSUME Shape, NEW r \in Requests, SessionStep(r)
    PROVE  /\ SessionMove(r)
           /\ UNCHANGED <<rateVars, slots, wg, tables, phase, now, scenario, seen>>
           /\ InForce' = InForce
           /\ DOMAIN reqs' = Requests
<1> USE DEF Shape, Touches, ReqFields, handlerVars, SessionMove, At2, Open
<1>1. CASE UpgradeFails(r)
  BY <1>1, QuietInForce DEF UpgradeFails, EndEarly
<1>2. CASE admitNativeWebSocket(r)
  <2>1. PICK price :
          reqs' = [reqs EXCEPT ![r].pc = "dial", ![r].hold = "active", ![r].price = price,
                               ![r].configured = price.found]
    BY <1>2 DEF admitNativeWebSocket
  <2>2. reqs[r].pc = "upgrade" /\ UNCHANGED handlerVars /\ ~Generates(r) /\ Asks
    BY <1>2 DEF admitNativeWebSocket, Billable, Generates
  <2> QED
    BY <2>1, <2>2, AsksInForce
<1>3. CASE UpgradeRealtime(r)
  BY <1>3, QuietInForce DEF UpgradeRealtime
<1>4. CASE dialNativeRuntimeWebSocket(r)
  <2>1. reqs[r].pc = "dial" /\ UNCHANGED handlerVars /\ Quiet
    BY <1>4 DEF dialNativeRuntimeWebSocket, EndEarly
  <2>2. CASE EndEarly(r)
    BY <2>1, <2>2, QuietInForce DEF EndEarly
  <2>3. CASE reqs' = [reqs EXCEPT ![r].pc = "session"]
    BY <2>1, <2>3, QuietInForce
  <2> QED
    BY <1>4, <2>2, <2>3 DEF dialNativeRuntimeWebSocket
<1>5. CASE prepareNativeWebSocketRequest(r)
  BY <1>5, QuietInForce DEF prepareNativeWebSocketRequest, CanRead
<1>6. CASE RefuseFrame(r)
  BY <1>6, QuietInForce DEF RefuseFrame, CanRead
<1>7. CASE WriteUpstream(r)
  BY <1>7, QuietInForce DEF WriteUpstream
<1>8. CASE Answer(r)
  BY <1>8, QuietInForce DEF Answer, Produce
<1>9. CASE AnswerUnasked(r)
  BY <1>9, QuietInForce DEF AnswerUnasked, Produce
<1>10. CASE RepeatEvent(r)
  BY <1>10, QuietInForce DEF RepeatEvent, Produce
<1>11. CASE TakeCreated(r)
  BY <1>11, QuietInForce DEF TakeCreated, CanTake
<1>12. CASE TakeKnown(r)
  BY <1>12, QuietInForce DEF TakeKnown, CanTake
<1>13. CASE PersistTurn(r)
  BY <1>13, AsksInForce DEF PersistTurn, CanTake
<1>14. CASE PersistTurnFails(r)
  BY <1>14, AsksInForce DEF PersistTurnFails, CanTake
<1>15. CASE WriteDownstream(r)
  BY <1>15, QuietInForce DEF WriteDownstream
<1>16. CASE \E pump \in Pumps : PumpEnds(r, pump)
  BY <1>16, QuietInForce DEF PumpEnds
<1>17. CASE ForceClose(r)
  BY <1>17, QuietInForce DEF ForceClose
<1>18. CASE CloseSession(r)
  BY <1>18, QuietInForce DEF CloseSession
<1> QED
  BY <1>1, <1>2, <1>3, <1>4, <1>5, <1>6, <1>7, <1>8, <1>9, <1>10, <1>11, <1>12, <1>13, <1>14, <1>15, <1>16, <1>17, <1>18 DEF SessionStep

LEMMA ShapeStep ==
    ASSUME Shape, [WebSocketNext]_wsVars
    PROVE  Shape' /\ \A r \in Requests : reqs'[r].ask = reqs[r].ask
<1>1. ASSUME NEW r \in Requests, SessionStep(r)
      PROVE  Shape' /\ \A q \in Requests : reqs'[q].ask = reqs[q].ask
  <2>1. Touches(r) /\ scenario' = scenario
    BY <1>1, SessionTouches DEF SessionMove
  <2> QED
    BY <2>1 DEF Shape, Touches
<1>2. ASSUME NEW r \in Requests, RequestStep(r)
      PROVE  Shape' /\ \A q \in Requests : reqs'[q].ask = reqs[q].ask
  BY <1>2, RequestTouches DEF Shape, Touches
<1>3. CASE Crash
  BY <1>3 DEF Crash, Shape, ReqFields
<1>4. CASE StopServing \/ ShutdownReturns \/ CloseApp \/ Tick \/ PricesChange
  BY <1>4 DEF StopServing, ShutdownReturns, CloseApp, Tick, PricesChange, Shape
<1>5. CASE UNCHANGED wsVars
  BY <1>5 DEF wsVars, allVars, servingVars, Shape
<1> QED
  BY <1>1, <1>2, <1>3, <1>4, <1>5 DEF WebSocketNext

(* What each step of a request changes: everything else is the same.       *)
Same(r, changed) == \A f \in ReqFields \ changed : reqs'[r][f] = reqs[r][f]

Rejected(r) ==
    /\ Same(r, {"pc", "lease"}) /\ reqs'[r].pc = "rejected" /\ reqs'[r].lease = FALSE
    /\ UNCHANGED handlerVars /\ Quiet

Passes(r) ==
    LET k == reqs[r].ask.key
        rate == allowRate(k)
    IN /\ rates' = rate.rates /\ swept' = rate.swept
       /\ granted' = IF rate.allowed THEN [granted EXCEPT ![k] = Append(@, now)] ELSE granted

LEMMA RejectDoes ==
    ASSUME Shape, NEW r \in Requests, Reject(r)
    PROVE  Rejected(r)
BY DEF Shape, ReqFields, Reject, Rejected, Same

LEMMA ResolveKeyDoes ==
    ASSUME Shape, NEW r \in Requests, ResolveKey(r)
    PROVE  /\ Touches(r) /\ reqs[r].pc = "arriving"
           /\ \/ Rejected(r)
              \/ /\ Same(r, {"pc", "started"})
                 /\ reqs'[r].pc = "acquire"
                 /\ reqs'[r].started = now
                 /\ seen' = [seen EXCEPT ![r] = {InForce}]
                 /\ UNCHANGED <<handlerVars, pricingVars, phase, now, scenario>>
BY RequestTouches, RejectDoes DEF RequestStep, At2, ResolveKey, Shape, ReqFields, Same

LEMMA AcquireLeaseDoes ==
    ASSUME Shape, NEW r \in Requests, AcquireLease(r)
    PROVE  /\ Touches(r) /\ reqs[r].pc = "acquire"
           /\ \/ Rejected(r)
              \/ /\ Same(r, {"pc", "lease"})
                 /\ reqs'[r].pc = "read"
                 /\ reqs'[r].lease = TRUE
                 /\ UNCHANGED handlerVars
                 /\ Quiet
BY RequestTouches, RejectDoes DEF RequestStep, At2, AcquireLease, Shape, ReqFields, Same

LEMMA ReadRequestDoes ==
    ASSUME Shape, NEW r \in Requests, ReadRequest(r)
    PROVE  /\ Touches(r) /\ reqs[r].pc = "read"
           /\ \/ Rejected(r)
              \/ /\ Same(r, {"pc", "base"})
                 /\ reqs'[r].pc = "limits"
                 /\ reqs'[r].base = (IF Generates(r) THEN Pending ELSE NoLookup)
                 /\ wg' = (IF Generates(r) THEN wg \cup {<<r, "base">>} ELSE wg)
                 /\ UNCHANGED <<rateVars, logVars, slots>>
                 /\ Quiet
BY RequestTouches, RejectDoes DEF RequestStep, At2, ReadRequest, Shape, ReqFields, Same

LEMMA LookupBaseDoes ==
    ASSUME Shape, NEW r \in Requests, LookupBase(r)
    PROVE  /\ Touches(r) /\ reqs[r].base = Pending
           /\ Same(r, {"base"})
           /\ \E price \in Lookups(r, reqs[r].ask.model, "", 0) : reqs'[r].base = Found(price)
           /\ wg' = wg \ {<<r, "base">>}
           /\ UNCHANGED <<rateVars, logVars, slots>>
           /\ Asks
BY RequestTouches DEF RequestStep, At2, LookupBase, Shape, ReqFields, Same

LEMMA enforceLimitsDoes ==
    ASSUME Shape, NEW r \in Requests, enforceLimits(r)
    PROVE  /\ Touches(r) /\ reqs[r].pc = "limits"
           /\ \/ Rejected(r)
              \/ /\ Same(r, {"pc", "lease"})
                 /\ reqs'[r].pc = (IF allowRate(reqs[r].ask.key).allowed THEN "price" ELSE "rejected")
                 /\ reqs'[r].lease = allowRate(reqs[r].ask.key).allowed
                 /\ Passes(r)
                 /\ UNCHANGED <<logVars, slots, wg>>
                 /\ Quiet
<1>1. Touches(r) /\ reqs[r].pc = "limits"
  BY RequestTouches DEF RequestStep, At2, enforceLimits
<1>2. CASE Reject(r)
  BY <1>1, <1>2, RejectDoes
<1>3. CASE /\ reqs' = [reqs EXCEPT ![r].pc = IF allowRate(reqs[r].ask.key).allowed THEN "price" ELSE "rejected", ![r].lease = allowRate(reqs[r].ask.key).allowed]
          /\ Passes(r)
          /\ UNCHANGED <<logVars, slots, wg>>
          /\ Quiet
  BY <1>1, <1>3 DEF Shape, ReqFields, Same
<1> QED
  BY <1>1, <1>2, <1>3 DEF enforceLimits, Passes

LEMMA AwaitBaseDoes ==
    ASSUME Shape, NEW r \in Requests, AwaitBase(r)
    PROVE  /\ Touches(r) /\ reqs[r].pc = "price" /\ reqs[r].base # Pending
           /\ \/ Rejected(r)
              \/ /\ Same(r, {"pc", "price", "configured"})
                 /\ reqs'[r].pc = (IF Billable(r) THEN "admit" ELSE "upgrade")
                 /\ reqs'[r].price = reqs[r].base.price
                 /\ reqs'[r].configured = (~Generates(r) \/ reqs[r].base.price.found)
                 /\ UNCHANGED handlerVars
                 /\ Quiet
<1>1. Touches(r) /\ reqs[r].pc = "price" /\ reqs[r].base # Pending
  BY RequestTouches DEF RequestStep, At2, AwaitBase
<1>2. CASE Reject(r)
  BY <1>1, <1>2, RejectDoes
<1>3. CASE /\ reqs' = [reqs EXCEPT ![r].pc = IF Billable(r) THEN "admit" ELSE "upgrade", ![r].price = reqs[r].base.price, ![r].configured = ~Generates(r) \/ reqs[r].base.price.found]
          /\ UNCHANGED handlerVars
          /\ Quiet
  BY <1>1, <1>3 DEF Shape, ReqFields, Same
<1> QED
  BY <1>1, <1>2, <1>3 DEF AwaitBase

LEMMA AdmitRequestDoes ==
    ASSUME Shape, NEW r \in Requests, AdmitRequest(r)
    PROVE  /\ Touches(r) /\ reqs[r].pc = "admit"
           /\ \/ Rejected(r)
              \/ /\ Same(r, {"pc", "hold", "deferred"})
                 /\ reqs'[r].pc = (IF reqs[r].ask.kind \in Sockets THEN "upgrade" ELSE "serve")
                 /\ reqs'[r].hold = "active"
                 /\ reqs'[r].deferred = (IF reqs[r].configured /\ Generates(r) THEN Pending ELSE NoLookup)
                 /\ wg' = (IF reqs[r].configured /\ Generates(r) THEN wg \cup {<<r, "deferred">>} ELSE wg)
                 /\ UNCHANGED <<rateVars, logVars, slots>>
                 /\ Quiet
<1>1. Touches(r) /\ reqs[r].pc = "admit"
  BY RequestTouches DEF RequestStep, At2, AdmitRequest
<1>2. CASE Reject(r)
  BY <1>1, <1>2, RejectDoes
<1>3. CASE /\ reqs' = [reqs EXCEPT ![r].pc = IF reqs[r].ask.kind \in Sockets THEN "upgrade" ELSE "serve", ![r].hold = "active", ![r].deferred = IF reqs[r].configured /\ Generates(r) THEN Pending ELSE NoLookup]
          /\ wg' = (IF reqs[r].configured /\ Generates(r) THEN wg \cup {<<r, "deferred">>} ELSE wg)
          /\ UNCHANGED <<rateVars, logVars, slots>>
          /\ Quiet
  BY <1>1, <1>3 DEF Shape, ReqFields, Same
<1> QED
  BY <1>1, <1>2, <1>3 DEF AdmitRequest

LEMMA LookupDeferredDoes ==
    ASSUME Shape, NEW r \in Requests, LookupDeferred(r)
    PROVE  /\ Touches(r) /\ reqs[r].deferred = Pending
           /\ Same(r, {"deferred"})
           /\ \E price \in Lookups(r, reqs[r].ask.model, "", 0) : reqs'[r].deferred = Found(price)
           /\ wg' = wg \ {<<r, "deferred">>}
           /\ UNCHANGED <<rateVars, logVars, slots>>
           /\ Asks
BY RequestTouches DEF RequestStep, At2, LookupDeferred, Shape, ReqFields, Same

LEMMA ServeDoes ==
    ASSUME Shape, NEW r \in Requests, Serve(r)
    PROVE  /\ Touches(r) /\ reqs[r].pc = "serve"
           /\ Same(r, {"pc", "response"})
           /\ \E response \in Responses : reqs'[r].response = response
           /\ reqs'[r].pc = "finalize"
           /\ UNCHANGED handlerVars
           /\ Quiet
<1>1. Touches(r) /\ reqs[r].pc = "serve"
  BY RequestTouches DEF RequestStep, At2, Serve
<1>2. PICK response \in Responses : reqs' = [reqs EXCEPT ![r].pc = "finalize", ![r].response = response]
  BY DEF Serve
<1>3. Same(r, {"pc", "response"}) /\ reqs'[r].pc = "finalize" /\ reqs'[r].response = response
  BY <1>2 DEF Shape, ReqFields, Same
<1> QED
  BY <1>1, <1>2, <1>3 DEF Serve

LEMMA ServePanicsDoes ==
    ASSUME Shape, NEW r \in Requests, ServePanics(r)
    PROVE  /\ Touches(r) /\ reqs[r].pc = "serve"
           /\ Same(r, {"pc", "lease"})
           /\ reqs'[r].pc = "gone"
           /\ reqs'[r].lease = FALSE
           /\ UNCHANGED handlerVars
           /\ Quiet
BY RequestTouches DEF RequestStep, At2, ServePanics, Shape, ReqFields, Same

LEMMA FinalizeInSlotDoes ==
    ASSUME Shape, NEW r \in Requests, FinalizeInSlot(r)
    PROVE  /\ Touches(r) /\ reqs[r].pc = "finalize" /\ Cardinality(slots) < FinalizationSlots
           /\ Same(r, {"pc", "lease"})
           /\ reqs'[r].pc = "pricing"
           /\ reqs'[r].lease = FALSE
           /\ slots' = slots \cup {r}
           /\ wg' = wg \cup {<<r, "finalizer">>}
           /\ UNCHANGED <<rateVars, logVars>>
           /\ Quiet
BY RequestTouches DEF RequestStep, At2, FinalizeInSlot, Shape, ReqFields, Same

LEMMA FinalizeInlineDoes ==
    ASSUME Shape, NEW r \in Requests, FinalizeInline(r)
    PROVE  /\ Touches(r) /\ reqs[r].pc = "finalize"
           /\ Same(r, {"pc"})
           /\ reqs'[r].pc = "pricing"
           /\ UNCHANGED handlerVars
           /\ Quiet
BY RequestTouches DEF RequestStep, At2, FinalizeInline, Shape, ReqFields, Same

LEMMA PriceResponseDoes ==
    ASSUME Shape, NEW r \in Requests, PriceResponse(r)
    PROVE  /\ Touches(r) /\ reqs[r].pc = "pricing" /\ reqs[r].deferred # Pending
           /\ Same(r, {"pc", "price"})
           /\ \E price \in FinalPrice(r) : reqs'[r].price = price
           /\ reqs'[r].pc = "settling"
           /\ UNCHANGED handlerVars
           /\ Asks
<1>1. Touches(r) /\ reqs[r].pc = "pricing" /\ reqs[r].deferred # Pending
  BY RequestTouches DEF RequestStep, At2, PriceResponse
<1>2. PICK price \in FinalPrice(r) : reqs' = [reqs EXCEPT ![r].pc = "settling", ![r].price = price]
  BY DEF PriceResponse
<1>3. Same(r, {"pc", "price"}) /\ reqs'[r].pc = "settling" /\ reqs'[r].price = price
  BY <1>2 DEF Shape, ReqFields, Same
<1> QED
  BY <1>1, <1>2, <1>3 DEF PriceResponse

LEMMA SettleRequestWithLogDoes ==
    ASSUME Shape, NEW r \in Requests, SettleRequestWithLog(r)
    PROVE  /\ Touches(r) /\ reqs[r].pc = "settling"
           /\ \/ /\ Same(r, {"pc", "lease", "hold"})
                 /\ reqs'[r].pc = "done"
                 /\ reqs'[r].lease = FALSE
                 /\ reqs'[r].hold = "settled"
                 /\ writeLogTx(r, 0, reqs[r].started, Parsed(r).usage.total, Charge(r))
                 /\ slots' = slots \ {r}
                 /\ wg' = wg \ {<<r, "finalizer">>}
                 /\ UNCHANGED rateVars
                 /\ Quiet
              \/ /\ Same(r, {"pc", "lease"})
                 /\ reqs'[r].pc = "done"
                 /\ reqs'[r].lease = FALSE
                 /\ UNCHANGED logVars
                 /\ slots' = slots \ {r}
                 /\ wg' = wg \ {<<r, "finalizer">>}
                 /\ UNCHANGED rateVars
                 /\ Quiet
<1>1. Touches(r) /\ reqs[r].pc = "settling"
  BY RequestTouches DEF RequestStep, At2, SettleRequestWithLog
<1>2. CASE /\ reqs' = [reqs EXCEPT ![r].pc = "done", ![r].lease = FALSE, ![r].hold = "settled"]
          /\ writeLogTx(r, 0, reqs[r].started, Parsed(r).usage.total, Charge(r))
          /\ slots' = slots \ {r}
          /\ wg' = wg \ {<<r, "finalizer">>}
          /\ UNCHANGED rateVars
          /\ Quiet
  BY <1>1, <1>2 DEF Shape, ReqFields, Same
<1>3. CASE /\ reqs' = [reqs EXCEPT ![r].pc = "done", ![r].lease = FALSE]
          /\ UNCHANGED logVars
          /\ slots' = slots \ {r}
          /\ wg' = wg \ {<<r, "finalizer">>}
          /\ UNCHANGED rateVars
          /\ Quiet
  BY <1>1, <1>3 DEF Shape, ReqFields, Same
<1> QED
  BY <1>1, <1>2, <1>3 DEF SettleRequestWithLog

-----------------------------------------------------------------------------
(* Leases, finalizers and shutdown *)

(* A step that changes one request and leaves the slots alone.             *)
Keeps(r) ==
    /\ Touches(r) /\ slots' = slots /\ phase' = phase
    /\ \A q \in slots : <<q, "finalizer">> \in wg => <<q, "finalizer">> \in wg'
    /\ reqs'[r].hold \in {"none", "active", "settled", "released"}
    /\ reqs'[r].lease \in BOOLEAN
    /\ reqs'[r].lease => reqs'[r].pc \in Leased \cup Finalizing
    /\ reqs'[r].pc \in Leased => reqs'[r].lease
    /\ r \in slots => reqs'[r].pc \in Finalizing /\ reqs'[r].lease = reqs[r].lease

LEMMA KeepsLife ==
    ASSUME Shape, Life, NEW r \in Requests, Keeps(r)
    PROVE  Life'
BY DEF Shape, Life, ServingTypeOK, Keeps, Touches, Leased, Finalizing

(* A request joins the slots or leaves them.                               *)
LEMMA LifeOther ==
    ASSUME Life, NEW r \in Requests, \A q \in Requests \ {r} : reqs'[q] = reqs[q],
           phase' = phase,
           reqs'[r].hold \in {"none", "active", "settled", "released"}, ~reqs'[r].lease,
           reqs'[r].lease \in BOOLEAN, reqs'[r].pc \notin Leased,
           IsFiniteSet(slots'), Cardinality(slots') <= FinalizationSlots,
           \/ /\ slots' = slots \cup {r} /\ wg' = wg \cup {<<r, "finalizer">>} /\ reqs'[r].pc \in Finalizing
           \/ /\ slots' = slots \ {r} /\ wg' = wg \ {<<r, "finalizer">>}
    PROVE  Life'
BY DEF Life, ServingTypeOK, Leased

LEMMA LifeStep ==
    ASSUME Shape, Life, [WebSocketNext]_wsVars
    PROVE  Life'
<1>1. ASSUME NEW r \in Requests, SessionStep(r)
      PROVE  Life'
  <2>1. Keeps(r)
    BY <1>1, SessionTouches DEF Shape, Life, ServingTypeOK, SessionMove, Keeps, Leased, Finalizing
  <2> QED
    BY <2>1, KeepsLife
<1>2. ASSUME NEW r \in Requests, RequestStep(r)
      PROVE  Life'
  <2>0. r \in slots => reqs[r].pc \in Finalizing
    BY DEF Life
  <2>00. /\ reqs[r].hold \in {"none", "active", "settled", "released"} /\ reqs[r].lease \in BOOLEAN
         /\ reqs[r].lease => reqs[r].pc \in Leased \cup Finalizing
         /\ reqs[r].pc \in Leased => reqs[r].lease
    BY <1>2 DEF Life, ServingTypeOK, Leased, Finalizing
  <2> USE DEF Keeps, Rejected, Same, ReqFields, Leased, Finalizing, handlerVars, Quiet, Asks
  <2>1. CASE ResolveKey(r)
    BY <2>0, <2>00, <2>1, ResolveKeyDoes, KeepsLife
  <2>2. CASE AcquireLease(r)
    BY <2>0, <2>00, <2>2, AcquireLeaseDoes, KeepsLife
  <2>3. CASE ReadRequest(r)
    <3>1. Keeps(r)
      BY <2>0, <2>00, <2>3, ReadRequestDoes
    <3> QED
      BY <3>1, KeepsLife
  <2>4. CASE LookupBase(r)
    BY <2>0, <2>00, <2>4, LookupBaseDoes, KeepsLife
  <2>5. CASE enforceLimits(r)
    BY <2>0, <2>00, <2>5, enforceLimitsDoes, KeepsLife DEF allowRate
  <2>6. CASE AwaitBase(r)
    <3>0. /\ Touches(r) /\ reqs[r].pc = "price" /\ reqs'[r].hold = reqs[r].hold
          /\ slots' = slots /\ wg' = wg /\ phase' = phase
          /\ \/ reqs'[r].pc = "rejected" /\ reqs'[r].lease = FALSE
             \/ reqs'[r].pc \in {"admit", "upgrade"} /\ reqs'[r].lease = reqs[r].lease
      BY <2>6, AwaitBaseDoes
    <3>1. Keeps(r)
      BY <2>0, <2>00, <3>0
    <3> QED
      BY <3>1, KeepsLife
  <2>7. CASE AdmitRequest(r)
    BY <2>0, <2>00, <2>7, AdmitRequestDoes, KeepsLife
  <2>8. CASE LookupDeferred(r)
    BY <2>0, <2>00, <2>8, LookupDeferredDoes, KeepsLife
  <2>9. CASE Serve(r)
    BY <2>0, <2>00, <2>9, ServeDoes, KeepsLife
  <2>10. CASE ServePanics(r)
    BY <2>0, <2>00, <2>10, ServePanicsDoes, KeepsLife
  <2>11. CASE FinalizeInSlot(r)
    <3>1. /\ Touches(r) /\ reqs[r].pc = "finalize" /\ reqs'[r].pc = "pricing" /\ reqs'[r].lease = FALSE
          /\ reqs'[r].hold = reqs[r].hold /\ slots' = slots \cup {r} /\ wg' = wg \cup {<<r, "finalizer">>}
          /\ phase' = phase /\ Cardinality(slots) < FinalizationSlots
      BY <2>11, FinalizeInSlotDoes
    <3>2. IsFiniteSet(slots) /\ r \notin slots
      BY <2>0, <3>1 DEF Life
    <3>3. IsFiniteSet(slots') /\ Cardinality(slots') = Cardinality(slots) + 1 /\ Cardinality(slots) \in Nat
      BY <3>1, <3>2, FS_AddElement, FS_CardinalityType
    <3>4. Cardinality(slots') <= FinalizationSlots
      BY <3>1, <3>3, ServingAssumption
    <3>5. \A q \in Requests \ {r} : reqs'[q] = reqs[q]
      BY <3>1 DEF Touches
    <3>6. /\ reqs'[r].hold \in {"none", "active", "settled", "released"} /\ ~reqs'[r].lease
          /\ reqs'[r].lease \in BOOLEAN /\ reqs'[r].pc \notin Leased /\ reqs'[r].pc \in Finalizing
      BY <2>00, <3>1
    <3> QED
      BY <3>1, <3>3, <3>4, <3>5, <3>6, LifeOther
  <2>12. CASE FinalizeInline(r)
    BY <2>0, <2>00, <2>12, FinalizeInlineDoes, KeepsLife
  <2>13. CASE PriceResponse(r)
    BY <2>0, <2>00, <2>13, PriceResponseDoes, KeepsLife
  <2>14. CASE SettleRequestWithLog(r)
    <3>1. /\ Touches(r) /\ reqs'[r].pc = "done" /\ reqs'[r].lease = FALSE
          /\ reqs'[r].hold \in {"settled", reqs[r].hold} /\ slots' = slots \ {r}
          /\ wg' = wg \ {<<r, "finalizer">>} /\ phase' = phase
      BY <2>14, SettleRequestWithLogDoes
    <3>2. IsFiniteSet(slots') /\ Cardinality(slots') <= Cardinality(slots)
          /\ Cardinality(slots) \in Nat /\ Cardinality(slots') \in Nat
      BY <3>1, FS_Subset, FS_CardinalityType DEF Life
    <3>3. Cardinality(slots') <= FinalizationSlots
      BY <3>2, ServingAssumption DEF Life, ServingTypeOK
    <3>4. \A q \in Requests \ {r} : reqs'[q] = reqs[q]
      BY <3>1 DEF Touches
    <3>5. /\ reqs'[r].hold \in {"none", "active", "settled", "released"} /\ ~reqs'[r].lease
          /\ reqs'[r].lease \in BOOLEAN /\ reqs'[r].pc \notin Leased
      BY <2>00, <3>1
    <3> QED
      BY <3>1, <3>2, <3>3, <3>4, <3>5, LifeOther
  <2> QED
    BY <1>2, <2>1, <2>2, <2>3, <2>4, <2>5, <2>6, <2>7, <2>8, <2>9, <2>10, <2>11, <2>12, <2>13, <2>14 DEF RequestStep
<1>3. CASE Crash
  <2>1. IsFiniteSet(slots') /\ Cardinality(slots') = 0 /\ slots' = {} /\ phase' = "up"
    BY <1>3, FS_EmptySet DEF Crash
  <2>2. \A r \in Requests :
          /\ reqs'[r].pc \in {"arriving", "rejected", "done", "gone"}
          /\ reqs'[r].lease = FALSE /\ reqs'[r].hold = reqs[r].hold
    BY <1>3 DEF Crash, Shape, ReqFields
  <2>3. Cardinality(slots') <= FinalizationSlots
    BY <2>1, ServingAssumption
  <2> QED
    BY <2>1, <2>2, <2>3 DEF Life, ServingTypeOK
<1>4. CASE StopServing \/ ShutdownReturns \/ CloseApp \/ Tick \/ PricesChange
  BY <1>4 DEF StopServing, ShutdownReturns, CloseApp, Tick, PricesChange, handlerVars, Life, ServingTypeOK
<1>5. CASE UNCHANGED wsVars
  BY <1>5 DEF wsVars, allVars, servingVars, handlerVars, Life, ServingTypeOK
<1> QED
  BY <1>1, <1>2, <1>3, <1>4, <1>5 DEF WebSocketNext

LEMMA LifeInit ==
    ASSUME WebSocketInit
    PROVE  Shape /\ Life
<1>1. Shape
  BY DEF WebSocketInit, ServingInit, NewRequest, Shape, ReqFields
<1>2. slots = {} /\ phase = "up" /\ \A r \in Requests : reqs[r].pc \in {"gone", "arriving"}
        /\ reqs[r].lease = FALSE /\ reqs[r].hold = "none"
  BY DEF WebSocketInit, ServingInit, NewRequest
<1>3. IsFiniteSet(slots) /\ Cardinality(slots) <= FinalizationSlots
  BY <1>2, FS_EmptySet, ServingAssumption
<1> QED
  BY <1>1, <1>2, <1>3 DEF Life, ServingTypeOK

(* Every lease is held by a handler that has not returned, and every slot *)
(* by a finalizer the group waits for.                                     *)
THEOREM LifeInvariant == WebSocketSpec => [](Shape /\ Life)
<1>1. Shape /\ Life /\ [WebSocketNext]_wsVars => (Shape /\ Life)'
  BY ShapeStep, LifeStep
<1> QED
  BY <1>1, LifeInit, PTL DEF WebSocketSpec

(* The database is closed only after every finalizer that runs in a slot   *)
(* has settled: App.Close waits for the group, which knows of each of them *)
(* until its transaction is over.                                          *)
THEOREM ShutdownWaits == WebSocketSpec => CloseWaitsForCharges
<1>1. ASSUME Shape, Life, [WebSocketNext]_wsVars
      PROVE  (phase # "closed" /\ phase' = "closed") => slots = {}
  <2>1. ASSUME NEW r \in Requests, SessionStep(r)
        PROVE  phase' = phase
    BY <1>1, <2>1, SessionTouches
  <2>2. ASSUME NEW r \in Requests, RequestStep(r)
        PROVE  phase' = phase
    BY <2>2 DEF RequestStep, ResolveKey, AcquireLease, ReadRequest, LookupBase, enforceLimits, AwaitBase,
       AdmitRequest, LookupDeferred, Serve, ServePanics, FinalizeInSlot, FinalizeInline, PriceResponse,
       SettleRequestWithLog, Reject, Quiet, Asks
  <2>3. CASE CloseApp
    BY <1>1, <2>3 DEF CloseApp, Life
  <2>4. CASE StopServing \/ ShutdownReturns \/ Tick \/ Crash \/ PricesChange
    BY <2>4 DEF StopServing, ShutdownReturns, Tick, Crash, PricesChange
  <2>5. CASE UNCHANGED wsVars
    BY <2>5 DEF wsVars, allVars, servingVars
  <2> QED
    BY <1>1, <2>1, <2>2, <2>3, <2>4, <2>5 DEF WebSocketNext
<1>2. Shape /\ Life /\ [WebSocketNext]_wsVars => [(phase # "closed" /\ phase' = "closed") => slots = {}]_allVars
  BY <1>1
<1> QED
  BY <1>2, LifeInvariant, PTL DEF WebSocketSpec, CloseWaitsForCharges

-----------------------------------------------------------------------------
(* What each step of a session changes *)

Alters(s, t, changed) ==
    DOMAIN t = SessionFields /\ \A f \in SessionFields \ changed : t[f] = s[f]

Sets(r) ==
    /\ DOMAIN ws' = Requests
    /\ \A q \in Requests \ {r} : ws'[q] = ws[q]

LEMMA SessionSets ==
    ASSUME DOMAIN ws = Requests, NEW r \in Requests, NEW s, Session(r, s)
    PROVE  Sets(r) /\ ws'[r] = s
BY DEF Session, Sets

(* A step joins the queue, or becomes current.                             *)
Joins(s, t, step) ==
    IF s.active THEN t.active = TRUE /\ t.current = s.current /\ t.pending = Append(s.pending, step)
    ELSE t.active = TRUE /\ t.current = step /\ t.pending = s.pending

LEMMA EnqueueDoes ==
    ASSUME NEW s, DOMAIN s = SessionFields, s.active \in BOOLEAN, NEW step
    PROVE  /\ Alters(s, Enqueue(s, step), {"active", "current", "pending"})
           /\ Joins(s, Enqueue(s, step), step)
BY DEF Enqueue, Alters, SessionFields, Joins, startStep

LEMMA PumpEndedDoes ==
    ASSUME NEW s, DOMAIN s = SessionFields, NEW pump \in Pumps
    PROVE  LET t == PumpEnded(s, pump)
           IN /\ Alters(s, t, {"pumps", "closing", "writing", "forwarding"})
              /\ t.pumps = s.pumps \ {pump}
              /\ t.writing = (IF pump = "client" THEN 0 ELSE s.writing)
              /\ t.forwarding = (IF pump = "runtime" THEN NoEvent ELSE s.forwarding)
BY DEF PumpEnded, Alters, SessionFields, Pumps

LEMMA NextStepDoes ==
    ASSUME NEW s, DOMAIN s = SessionFields
    PROVE  LET t == NextStep(s)
           IN /\ Alters(s, t, {"active", "current", "pending"})
              /\ IF s.pending = <<>>
                   THEN t.active = FALSE /\ t.current = s.current /\ t.pending = s.pending
                   ELSE t.active = TRUE /\ t.current = Head(s.pending) /\ t.pending = Tail(s.pending)
BY DEF NextStep, Alters, SessionFields, startStep

(* An open session, and what a step of it leaves alone.                    *)
Opened(r) == Shape /\ DOMAIN ws = Requests /\ SessionShape(ws[r])
Within(r) == Sets(r) /\ Open(r) /\ reqs' = reqs

LEMMA prepareDoes ==
    ASSUME NEW r \in Requests, Opened(r), prepareNativeWebSocketRequest(r)
    PROVE  LET s == ws[r]
               t == ws'[r]
               n == s.sent + 1
               frame == Frames(r)[n]
           IN /\ Within(r) /\ logs' = logs /\ CanRead(r)
              /\ t.sent = n /\ t.writing = n
              /\ IF frame.type = "create"
                   THEN /\ Alters(s, t, {"active", "current", "pending", "sent", "writing"})
                        /\ Joins(s, t, NextMeta(s, frame, n))
                   ELSE Alters(s, t, {"sent", "writing"})
<1> DEFINE s == ws[r]
           n == s.sent + 1
           frame == Frames(r)[n]
           e == Enqueue(s, NextMeta(s, frame, n))
<1>1. /\ Session(r, [IF frame.type = "create" THEN e ELSE s EXCEPT !.sent = n, !.writing = n])
      /\ CanRead(r) /\ reqs' = reqs /\ logs' = logs /\ Open(r)
  BY DEF prepareNativeWebSocketRequest, CanRead, handlerVars, logVars
<1>2. Sets(r) /\ ws'[r] = [IF frame.type = "create" THEN e ELSE s EXCEPT !.sent = n, !.writing = n]
  BY <1>1, SessionSets DEF Opened
<1>3. Alters(s, e, {"active", "current", "pending"}) /\ Joins(s, e, NextMeta(s, frame, n))
  BY EnqueueDoes DEF Opened, SessionShape
<1>4. CASE frame.type = "create"
  <2> HIDE DEF e
  <2>1. ws'[r] = [e EXCEPT !.sent = n, !.writing = n]
    BY <1>2, <1>4
  <2> QED
    BY <1>1, <1>2, <1>3, <1>4, <2>1 DEF Alters, SessionFields, Joins, Within
<1>5. CASE frame.type # "create"
  BY <1>1, <1>2, <1>5 DEF Alters, SessionFields, Within, Opened, SessionShape
<1> QED
  BY <1>4, <1>5

LEMMA RefuseDoes ==
    ASSUME NEW r \in Requests, Opened(r), RefuseFrame(r)
    PROVE  LET s == ws[r]
               t == ws'[r]
               n == s.sent + 1
           IN /\ Within(r) /\ logs' = logs /\ CanRead(r)
              /\ t.sent = n /\ t.writing = 0 /\ t.pumps = s.pumps \ {"client"}
              /\ Alters(s, t, {"active", "current", "pending", "sent", "pumps", "closing", "writing"})
              /\ Joins(s, t, NextMeta(s, Frames(r)[n], n))
<1> DEFINE s == ws[r]
           n == s.sent + 1
           step == NextMeta(s, Frames(r)[n], n)
           e == [Enqueue(s, step) EXCEPT !.sent = n]
<1>1. /\ Session(r, PumpEnded(e, "client"))
      /\ CanRead(r) /\ reqs' = reqs /\ logs' = logs /\ Open(r)
  BY DEF RefuseFrame, CanRead, handlerVars, logVars
<1>2. Sets(r) /\ ws'[r] = PumpEnded(e, "client")
  BY <1>1, SessionSets DEF Opened
<1>3. Alters(s, Enqueue(s, step), {"active", "current", "pending"}) /\ Joins(s, Enqueue(s, step), step)
  BY EnqueueDoes DEF Opened, SessionShape
<1>4. Alters(s, e, {"active", "current", "pending", "sent"}) /\ Joins(s, e, step) /\ e.sent = n
  BY <1>3 DEF Alters, SessionFields, Joins
<1> HIDE DEF e, step
<1>5. /\ Alters(e, ws'[r], {"pumps", "closing", "writing", "forwarding"})
      /\ ws'[r].pumps = e.pumps \ {"client"} /\ ws'[r].writing = 0 /\ ws'[r].forwarding = e.forwarding
  BY <1>2, <1>4, PumpEndedDoes DEF Alters, Pumps
<1>6. /\ Alters(s, ws'[r], {"active", "current", "pending", "sent", "pumps", "closing", "writing"})
      /\ Joins(s, ws'[r], step) /\ ws'[r].sent = n /\ ws'[r].pumps = s.pumps \ {"client"}
  BY <1>4, <1>5 DEF Alters, SessionFields, Joins
<1> QED
  BY <1>1, <1>2, <1>5, <1>6 DEF Within, step

LEMMA WriteUpstreamDoes ==
    ASSUME NEW r \in Requests, Opened(r), WriteUpstream(r)
    PROVE  LET s == ws[r]
               t == ws'[r]
           IN /\ Within(r) /\ logs' = logs /\ s.writing # 0
              /\ Alters(s, t, {"writing", "asked"}) /\ t.writing = 0
              /\ t.asked = (IF Frames(r)[s.writing].type = "create"
                              THEN Append(s.asked, s.writing) ELSE s.asked)
<1> DEFINE s == ws[r]
           asked == IF Frames(r)[s.writing].type = "create" THEN Append(s.asked, s.writing) ELSE s.asked
<1>1. /\ Session(r, [s EXCEPT !.writing = 0, !.asked = asked])
      /\ s.writing # 0 /\ reqs' = reqs /\ logs' = logs /\ Open(r)
  BY DEF WriteUpstream, handlerVars, logVars
<1> HIDE DEF asked
<1>2. Sets(r) /\ ws'[r] = [s EXCEPT !.writing = 0, !.asked = asked]
  BY <1>1, SessionSets DEF Opened
<1>3. Alters(s, ws'[r], {"writing", "asked"}) /\ ws'[r].writing = 0 /\ ws'[r].asked = asked
  BY <1>2 DEF Alters, SessionFields, Opened, SessionShape
<1> QED
  BY <1>1, <1>2, <1>3 DEF Within, asked

LEMMA ProduceDoes ==
    ASSUME NEW r \in Requests, Opened(r), NEW new, NEW asked, Open(r), Produce(r, new, asked)
    PROVE  LET s == ws[r]
               t == ws'[r]
           IN /\ Within(r) /\ logs' = logs
              /\ Alters(s, t, {"events", "last", "asked", "produced"})
              /\ t.events = s.events \o new /\ t.last = new[Len(new)] /\ t.asked = asked
              /\ t.produced = s.produced + 1
<1> DEFINE s == ws[r]
<1>1. /\ Session(r, [s EXCEPT !.events = @ \o new, !.last = new[Len(new)], !.asked = asked, !.produced = @ + 1])
      /\ reqs' = reqs /\ logs' = logs
  BY DEF Produce, handlerVars, logVars
<1>2. Sets(r) /\ ws'[r] = [s EXCEPT !.events = @ \o new, !.last = new[Len(new)], !.asked = asked, !.produced = @ + 1]
  BY <1>1, SessionSets DEF Opened
<1>3. /\ Alters(s, ws'[r], {"events", "last", "asked", "produced"})
      /\ ws'[r].events = s.events \o new /\ ws'[r].last = new[Len(new)] /\ ws'[r].asked = asked
      /\ ws'[r].produced = s.produced + 1
  BY <1>2 DEF Alters, SessionFields, Opened, SessionShape
<1> QED
  BY <1>1, <1>2, <1>3 DEF Within

LEMMA TakeCreatedDoes ==
    ASSUME NEW r \in Requests, Opened(r), TakeCreated(r)
    PROVE  LET s == ws[r]
               t == ws'[r]
           IN /\ Within(r) /\ logs' = logs /\ CanTake(r, "created")
              /\ t.events = Tail(s.events) /\ t.forwarding = Head(s.events)
              /\ t.active = TRUE
              /\ IF s.active THEN Alters(s, t, {"events", "forwarding"})
                 ELSE /\ Alters(s, t, {"events", "forwarding", "active", "current"})
                      /\ t.current = [s.current EXCEPT !.started = now, !.frame = 0]
<1> DEFINE s == ws[r]
           taken == [s EXCEPT !.events = Tail(s.events), !.forwarding = Head(s.events)]
           step == [s.current EXCEPT !.started = now, !.frame = 0]
<1>1. /\ Session(r, IF s.active THEN taken ELSE startStep(taken, step))
      /\ CanTake(r, "created") /\ reqs' = reqs /\ logs' = logs /\ Open(r)
  BY DEF TakeCreated, handlerVars, logVars, CanTake
<1>2. /\ Alters(s, taken, {"events", "forwarding"}) /\ taken.events = Tail(s.events)
      /\ taken.forwarding = Head(s.events)
  BY DEF Alters, SessionFields, Opened, SessionShape
<1> HIDE DEF taken, step
<1>3. Sets(r) /\ ws'[r] = IF s.active THEN taken ELSE startStep(taken, step)
  BY <1>1, SessionSets DEF Opened
<1>4. s.active \in BOOLEAN
  BY DEF Opened, SessionShape
<1>5. CASE s.active
  BY <1>1, <1>2, <1>3, <1>4, <1>5 DEF Alters, SessionFields, Within
<1>6. CASE ~s.active
  BY <1>1, <1>2, <1>3, <1>6 DEF startStep, Alters, SessionFields, Within, step
<1> QED
  BY <1>4, <1>5, <1>6

LEMMA TakeKnownDoes ==
    ASSUME NEW r \in Requests, Opened(r), TakeKnown(r)
    PROVE  LET s == ws[r]
               t == ws'[r]
           IN /\ Within(r) /\ logs' = logs /\ CanTake(r, "terminal") /\ Known(s, Head(s.events))
              /\ Alters(s, t, {"events", "forwarding"})
              /\ t.events = Tail(s.events) /\ t.forwarding = Head(s.events)
<1> DEFINE s == ws[r]
<1>1. /\ Session(r, [s EXCEPT !.events = Tail(@), !.forwarding = Head(s.events)])
      /\ CanTake(r, "terminal") /\ Known(s, Head(s.events)) /\ reqs' = reqs /\ logs' = logs /\ Open(r)
  BY DEF TakeKnown, handlerVars, logVars, CanTake
<1>2. Sets(r) /\ ws'[r] = [s EXCEPT !.events = Tail(@), !.forwarding = Head(s.events)]
  BY <1>1, SessionSets DEF Opened
<1>3. /\ Alters(s, ws'[r], {"events", "forwarding"})
      /\ ws'[r].events = Tail(s.events) /\ ws'[r].forwarding = Head(s.events)
  BY <1>2 DEF Alters, SessionFields, Opened, SessionShape
<1> QED
  BY <1>1, <1>2, <1>3 DEF Within

(* One row more, of this request and this turn.                            *)
Logs(r, turn) ==
    \E row : /\ logs' = logs \cup {row} /\ row.request = r /\ row.turn = turn

LEMMA WriteLogs ==
    ASSUME NEW r, NEW turn, NEW started, NEW tokens, NEW charge, writeLogTx(r, turn, started, tokens, charge)
    PROVE  Logs(r, turn)
<1> DEFINE row == [request |-> r, turn |-> turn, day |-> started \div DayLength, tokens |-> tokens,
                   cost |-> charge.cost, complete |-> charge.complete]
<1>1. logs' = logs \cup {row} /\ row.request = r /\ row.turn = turn
  BY DEF writeLogTx
<1> QED
  BY <1>1 DEF Logs

LEMMA PersistTurnDoes ==
    ASSUME NEW r \in Requests, Opened(r), PersistTurn(r)
    PROVE  LET s == ws[r]
               t == ws'[r]
               event == Head(s.events)
           IN /\ Within(r) /\ CanTake(r, "terminal") /\ ~Known(s, event)
              /\ Logs(r, event.id)
              /\ Alters(s, t, {"active", "current", "pending", "events", "forwarding", "seenTurns",
                               "accrued", "turns"})
              /\ IF s.pending = <<>>
                   THEN t.active = FALSE /\ t.current = s.current /\ t.pending = s.pending
                   ELSE t.active = TRUE /\ t.current = Head(s.pending) /\ t.pending = Tail(s.pending)
              /\ t.events = Tail(s.events) /\ t.forwarding = event
              /\ t.seenTurns = s.seenTurns \cup {event.id}
              /\ t.turns = s.turns \cup {[id |-> event.id, answers |-> event.frame, step |-> s.current]}
<1> DEFINE s == ws[r]
           event == Head(s.events)
           turn == [id |-> event.id, answers |-> event.frame, step |-> s.current]
           next == NextStep(s)
<1>1. PICK cost :
        Session(r, [next EXCEPT !.events = Tail(@), !.forwarding = event,
                      !.seenTurns = @ \cup {event.id}, !.accrued = cost, !.turns = @ \cup {turn}])
  BY DEF PersistTurn
<1>2. CanTake(r, "terminal") /\ ~Known(s, event) /\ reqs' = reqs /\ Open(r)
  BY DEF PersistTurn, CanTake
<1>3. Logs(r, event.id)
  BY WriteLogs DEF PersistTurn
<1>4. /\ Alters(s, next, {"active", "current", "pending"})
      /\ IF s.pending = <<>>
           THEN next.active = FALSE /\ next.current = s.current /\ next.pending = s.pending
           ELSE next.active = TRUE /\ next.current = Head(s.pending) /\ next.pending = Tail(s.pending)
  BY NextStepDoes DEF Opened, SessionShape
<1> HIDE DEF next, turn
<1>5. Sets(r) /\ ws'[r] = [next EXCEPT !.events = Tail(@), !.forwarding = event,
                      !.seenTurns = @ \cup {event.id}, !.accrued = cost, !.turns = @ \cup {turn}]
  BY <1>1, SessionSets DEF Opened
<1>6. /\ Alters(next, ws'[r], {"events", "forwarding", "seenTurns", "accrued", "turns"})
      /\ ws'[r].events = Tail(next.events) /\ ws'[r].forwarding = event
      /\ ws'[r].seenTurns = next.seenTurns \cup {event.id} /\ ws'[r].turns = next.turns \cup {turn}
  BY <1>4, <1>5, ZenonT(30) DEF Alters, SessionFields
<1>7. next.events = s.events /\ next.seenTurns = s.seenTurns /\ next.turns = s.turns
  BY <1>4 DEF Alters, SessionFields
<1>8. /\ Alters(s, ws'[r], {"active", "current", "pending", "events", "forwarding", "seenTurns",
                               "accrued", "turns"})
      /\ ws'[r].active = next.active /\ ws'[r].current = next.current /\ ws'[r].pending = next.pending
  BY <1>4, <1>6 DEF Alters, SessionFields
<1> QED
  BY <1>2, <1>3, <1>4, <1>5, <1>6, <1>7, <1>8 DEF Within, turn

LEMMA PersistTurnFailsDoes ==
    ASSUME NEW r \in Requests, Opened(r), PersistTurnFails(r)
    PROVE  LET s == ws[r]
               t == ws'[r]
           IN /\ Within(r) /\ CanTake(r, "terminal") /\ ~Known(s, Head(s.events))
              /\ logs' = logs \/ Logs(r, Head(s.events).id)
              /\ Alters(s, t, {"events", "pumps", "closing", "forwarding"})
              /\ t.events = Tail(s.events) /\ t.pumps = s.pumps \ {"runtime"} /\ t.forwarding = NoEvent
<1> DEFINE s == ws[r]
           e == [s EXCEPT !.events = Tail(@)]
<1>1. /\ Session(r, PumpEnded(e, "runtime"))
      /\ CanTake(r, "terminal") /\ ~Known(s, Head(s.events)) /\ reqs' = reqs /\ Open(r)
  BY DEF PersistTurnFails, CanTake
<1>2. logs' = logs \/ Logs(r, Head(s.events).id)
  BY WriteLogs DEF PersistTurnFails, logVars
<1>3. Alters(s, e, {"events"}) /\ e.events = Tail(s.events)
  BY DEF Alters, SessionFields, Opened, SessionShape
<1> HIDE DEF e
<1>4. Sets(r) /\ ws'[r] = PumpEnded(e, "runtime")
  BY <1>1, SessionSets DEF Opened
<1>5. /\ Alters(e, ws'[r], {"pumps", "closing", "writing", "forwarding"})
      /\ ws'[r].pumps = e.pumps \ {"runtime"} /\ ws'[r].writing = e.writing /\ ws'[r].forwarding = NoEvent
  BY <1>3, <1>4, PumpEndedDoes DEF Alters, Pumps
<1>6. /\ Alters(s, ws'[r], {"events", "pumps", "closing", "forwarding"})
      /\ ws'[r].events = Tail(s.events) /\ ws'[r].pumps = s.pumps \ {"runtime"}
  BY <1>3, <1>5 DEF Alters, SessionFields
<1> QED
  BY <1>1, <1>2, <1>4, <1>5, <1>6 DEF Within

LEMMA WriteDownstreamDoes ==
    ASSUME NEW r \in Requests, Opened(r), WriteDownstream(r)
    PROVE  LET s == ws[r]
               t == ws'[r]
           IN /\ Within(r) /\ logs' = logs /\ s.forwarding # NoEvent
              /\ Alters(s, t, {"forwarding", "delivered"}) /\ t.forwarding = NoEvent
              /\ t.delivered = (IF s.forwarding.type = "terminal" THEN s.delivered \cup {s.forwarding.id}
                                ELSE s.delivered)
<1> DEFINE s == ws[r]
           delivered == IF s.forwarding.type = "terminal" THEN s.delivered \cup {s.forwarding.id}
                        ELSE s.delivered
<1>1. /\ Session(r, [s EXCEPT !.forwarding = NoEvent, !.delivered = delivered])
      /\ s.forwarding # NoEvent /\ reqs' = reqs /\ logs' = logs /\ Open(r)
  BY DEF WriteDownstream, handlerVars, logVars
<1> HIDE DEF delivered
<1>2. Sets(r) /\ ws'[r] = [s EXCEPT !.forwarding = NoEvent, !.delivered = delivered]
  BY <1>1, SessionSets DEF Opened
<1>3. Alters(s, ws'[r], {"forwarding", "delivered"}) /\ ws'[r].forwarding = NoEvent /\ ws'[r].delivered = delivered
  BY <1>2 DEF Alters, SessionFields, Opened, SessionShape
<1> QED
  BY <1>1, <1>2, <1>3 DEF Within, delivered

(* A pump or both end.                                                     *)
LEMMA EndsDoes ==
    ASSUME NEW r \in Requests, Opened(r), (\E pump \in Pumps : PumpEnds(r, pump)) \/ ForceClose(r)
    PROVE  LET s == ws[r]
               t == ws'[r]
           IN /\ Within(r) /\ logs' = logs
              /\ Alters(s, t, {"pumps", "closing", "writing", "forwarding"})
              /\ t.pumps \subseteq s.pumps
              /\ "client" \in t.pumps => t.writing = s.writing
              /\ t.writing # 0 => t.writing = s.writing /\ ("client" \in s.pumps => "client" \in t.pumps)
              /\ t.forwarding # NoEvent
                   => t.forwarding = s.forwarding /\ ("runtime" \in s.pumps => "runtime" \in t.pumps)
<1> DEFINE s == ws[r]
<1>0. s.pumps \subseteq Pumps /\ DOMAIN s = SessionFields
  BY DEF Opened, SessionShape
<1>1. CASE \E pump \in Pumps : PumpEnds(r, pump)
  BY <1>0, <1>1, SessionSets, PumpEndedDoes DEF PumpEnds, handlerVars, logVars, Opened, Within,
     Pumps
<1>2. CASE ForceClose(r)
  <2>1. /\ Session(r, [s EXCEPT !.pumps = {}, !.writing = 0, !.forwarding = NoEvent])
        /\ reqs' = reqs /\ logs' = logs /\ Open(r)
    BY <1>2 DEF ForceClose, handlerVars, logVars
  <2>2. Sets(r) /\ ws'[r] = [s EXCEPT !.pumps = {}, !.writing = 0, !.forwarding = NoEvent]
    BY <2>1, SessionSets DEF Opened
  <2>3. /\ Alters(s, ws'[r], {"pumps", "closing", "writing", "forwarding"})
        /\ ws'[r].pumps = {} /\ ws'[r].writing = 0 /\ ws'[r].forwarding = NoEvent
    BY <1>0, <2>2 DEF Alters, SessionFields
  <2>4. "client" \notin ws'[r].pumps /\ ws'[r].pumps \subseteq s.pumps
    BY <2>3
  <2> QED
    BY <2>1, <2>2, <2>3, <2>4 DEF Within
<1> QED
  BY <1>1, <1>2

-----------------------------------------------------------------------------
(* Sequences *)

LEMMA SeqTail ==
    ASSUME NEW T, NEW q \in Seq(T), q # <<>>
    PROVE  /\ Tail(q) \in Seq(T) /\ Head(q) = q[1] /\ q[1] \in T
           /\ Len(q) \in Nat \ {0} /\ Len(Tail(q)) = Len(q) - 1
           /\ DOMAIN q = 1..Len(q) /\ DOMAIN Tail(q) = 1..Len(q) - 1
           /\ \A i \in 1..Len(q) - 1 : Tail(q)[i] = q[i + 1]
OBVIOUS

LEMMA SeqAppend ==
    ASSUME NEW T, NEW q \in Seq(T), NEW x \in T
    PROVE  /\ Append(q, x) \in Seq(T) /\ Len(Append(q, x)) = Len(q) + 1 /\ Len(q) \in Nat
           /\ DOMAIN q = 1..Len(q) /\ DOMAIN Append(q, x) = 1..Len(q) + 1
           /\ \A i \in 1..Len(q) : Append(q, x)[i] = q[i]
           /\ Append(q, x)[Len(q) + 1] = x
OBVIOUS

LEMMA SeqDomain ==
    ASSUME NEW T, NEW q \in Seq(T)
    PROVE  /\ Len(q) \in Nat /\ DOMAIN q = 1..Len(q) /\ (q # <<>> <=> Len(q) # 0)
           /\ \A i \in DOMAIN q : q[i] \in T
OBVIOUS

-----------------------------------------------------------------------------
(* What the steps of a session keep *)

LEMMA NoEventType == NoEvent \in EventType /\ NoEvent.type = "none"
BY DEF NoEvent, EventType

LEMMA EventKinds ==
    ASSUME NEW e \in EventType
    PROVE  /\ e.type \in {"none", "created", "terminal"}
           /\ e.type = "terminal" => /\ e \in Terminals /\ e.id \in Nat /\ e.id # 0
                                     /\ e.frame \in Nat /\ e.response \in Responses
           /\ e.type # "terminal" => e \notin Terminals
BY DEF EventType, Terminals

LEMMA EndsKeeps ==
    ASSUME NEW s, NEW t, NEW frames, SessionShape(s), Turns(s),
           Alters(s, t, {"pumps", "closing", "writing", "forwarding"}), t.pumps \subseteq s.pumps,
           "client" \in t.pumps => t.writing = s.writing,
           t.writing # 0 => t.writing = s.writing /\ ("client" \in s.pumps => "client" \in t.pumps),
           t.forwarding # NoEvent
             => t.forwarding = s.forwarding /\ ("runtime" \in s.pumps => "runtime" \in t.pumps)
    PROVE  /\ SessionShape(t) /\ Turns(t)
           /\ Announced(s) => Announced(t)
           /\ SocketOK(s, frames) => SocketOK(t, frames)
<1>1. /\ t.current = s.current /\ t.active = s.active /\ t.pending = s.pending
      /\ t.seenTurns = s.seenTurns /\ t.sent = s.sent /\ t.asked = s.asked /\ t.produced = s.produced
      /\ t.events = s.events /\ t.last = s.last /\ t.delivered = s.delivered /\ DOMAIN t = SessionFields
  BY DEF Alters, SessionFields
<1>2. t.writing \in Nat /\ t.forwarding \in EventType
  BY NoEventType DEF SessionShape
<1>3. SessionShape(t)
  BY <1>1, <1>2 DEF SessionShape
<1>4. Turns(t)
  BY <1>1, NoEventType DEF Turns, Unseen
<1>5. Announced(s) => Announced(t)
  BY <1>1 DEF Announced, Queued, Unseen
<1>6. SocketOK(s, frames) => InOrder(t, frames)
  BY <1>1 DEF SocketOK, InOrder, Latest
<1>7. SocketOK(s, frames) => AskedFor(t, frames)
  BY <1>1 DEF SocketOK, AskedFor, Waiting
<1>8. SocketOK(s, frames) => OneEach(t)
  BY <1>1 DEF SocketOK, OneEach, Events
<1>9. SocketOK(s, frames) => InTurn(t, frames)
  BY <1>1 DEF SocketOK, InTurn, Waiting, Answering, Queued, Unseen
<1> QED
  BY <1>3, <1>4, <1>5, <1>6, <1>7, <1>8, <1>9 DEF SocketOK

LEMMA WriteDownstreamKeeps ==
    ASSUME NEW s, NEW t, NEW frames, SessionShape(s), Turns(s),
           Alters(s, t, {"forwarding", "delivered"}), t.forwarding = NoEvent,
           t.delivered = (IF s.forwarding.type = "terminal" THEN s.delivered \cup {s.forwarding.id}
                          ELSE s.delivered)
    PROVE  /\ SessionShape(t) /\ Turns(t)
           /\ Announced(s) => Announced(t)
           /\ SocketOK(s, frames) => SocketOK(t, frames)
<1>1. /\ t.current = s.current /\ t.active = s.active /\ t.pending = s.pending
      /\ t.seenTurns = s.seenTurns /\ t.sent = s.sent /\ t.asked = s.asked /\ t.produced = s.produced
      /\ t.events = s.events /\ t.last = s.last /\ t.pumps = s.pumps /\ t.writing = s.writing
      /\ DOMAIN t = SessionFields
  BY DEF Alters, SessionFields
<1>2. t.delivered \subseteq s.seenTurns
  BY DEF Turns
<1>3. SessionShape(t)
  BY <1>1, <1>2, NoEventType DEF SessionShape
<1>4. Turns(t)
  BY <1>1, <1>2, NoEventType DEF Turns, Unseen
<1>5. Announced(s) => Announced(t)
  BY <1>1 DEF Announced, Queued, Unseen
<1>6. SocketOK(s, frames) => InOrder(t, frames)
  BY <1>1 DEF SocketOK, InOrder, Latest
<1>7. SocketOK(s, frames) => AskedFor(t, frames)
  BY <1>1 DEF SocketOK, AskedFor, Waiting
<1>8. SocketOK(s, frames) => OneEach(t)
  BY <1>1 DEF SocketOK, OneEach, Events
<1>9. SocketOK(s, frames) => InTurn(t, frames)
  BY <1>1 DEF SocketOK, InTurn, Waiting, Answering, Queued, Unseen
<1> QED
  BY <1>3, <1>4, <1>5, <1>6, <1>7, <1>8, <1>9 DEF SocketOK

(* An answer that was not stored yet, at the head of the queue, is to the  *)
(* current step.                                                           *)
LEMMA HeadAnswersCurrent ==
    ASSUME NEW s, NEW frames, SessionShape(s), Turns(s), SocketOK(s, frames), "runtime" \in s.pumps,
           s.events # <<>>, Unseen(s, Head(s.events))
    PROVE  s.active /\ Head(s.events).frame = s.current.frame /\ Asks2(frames, s.current.frame)
<1> DEFINE e == Head(s.events)
<1>1. e = s.events[1] /\ 1 \in DOMAIN s.events /\ e \in EventType
  BY SeqTail DEF SessionShape
<1>2. Queued(s, 1) /\ e.frame \in Nat
  BY <1>1, EventKinds DEF Queued, Unseen
<1>3. /\ Waiting(s, e.frame) /\ Asks2(frames, e.frame)
      /\ \A f \in Nat : Waiting(s, f) /\ f < e.frame => \E k \in 1..1 - 1 : Queued(s, k) /\ s.events[k].frame = f
  BY <1>1, <1>2 DEF SocketOK, InTurn
<1>4. \A f \in Nat : ~(Waiting(s, f) /\ f < e.frame)
  BY <1>3
<1>5. s.active
  BY <1>3 DEF Waiting, Turns
<1>6. s.current.frame \in Nat
  BY DEF SessionShape, StepType
<1>7. ~(s.current.frame < e.frame)
  BY <1>4, <1>5, <1>6 DEF Waiting
<1>8. ASSUME NEW i \in DOMAIN s.pending PROVE s.current.frame < s.pending[i].frame
  BY <1>8 DEF SocketOK, InOrder
<1>9. e.frame = s.current.frame
  BY <1>3, <1>7, <1>8 DEF Waiting
<1> QED
  BY <1>3, <1>5, <1>9

(* What is only forwarded has been stored.                                 *)
LEMMA KnownIsSeen ==
    ASSUME NEW s, NEW frames, SessionShape(s), Turns(s), Announced(s) \/ SocketOK(s, frames),
           "runtime" \in s.pumps, s.events # <<>>, Head(s.events).type = "terminal", Known(s, Head(s.events))
    PROVE  Head(s.events).id \in s.seenTurns
<1> SUFFICES ASSUME Unseen(s, Head(s.events)) PROVE FALSE
  BY DEF Unseen
<1>1. ~s.active
  BY DEF Known, Unseen
<1>2. Queued(s, 1) /\ 1 \in DOMAIN s.events
  BY SeqTail DEF Queued, SessionShape
<1>3. CASE Announced(s)
  BY <1>1, <1>2, <1>3 DEF Announced
<1>4. CASE SocketOK(s, frames)
  BY <1>1, <1>4, HeadAnswersCurrent
<1> QED
  BY <1>3, <1>4

(* The queue without its head.                                             *)
LEMMA TailQueued ==
    ASSUME NEW s, NEW t, SessionShape(s), s.events # <<>>, t.events = Tail(s.events),
           s.seenTurns \subseteq t.seenTurns
    PROVE  /\ DOMAIN t.events = 1..Len(s.events) - 1 /\ DOMAIN s.events = 1..Len(s.events)
           /\ Len(s.events) \in Nat \ {0} /\ Len(t.events) = Len(s.events) - 1
           /\ \A j \in DOMAIN t.events : t.events[j] = s.events[j + 1] /\ j + 1 \in DOMAIN s.events
           /\ \A j \in DOMAIN t.events : Queued(t, j) => Queued(s, j + 1)
BY SeqTail DEF SessionShape, Queued, Unseen

LEMMA TailLast ==
    ASSUME NEW T, NEW q \in Seq(T), Len(q) > 1
    PROVE  Tail(q) # <<>> /\ Tail(q)[Len(Tail(q))] = q[Len(q)]
<1>1. q # <<>> /\ Len(q) \in Nat
  OBVIOUS
<1> DEFINE i == Len(q) - 1
<1>2. i \in 1..Len(q) - 1 /\ i + 1 = Len(q) /\ i \in Nat /\ i > 0
  BY <1>1
<1>3. Len(Tail(q)) = i /\ Tail(q)[i] = q[i + 1]
  BY <1>1, <1>2, SeqTail
<1>4. Tail(q) # <<>>
  <2>1. Len(<<>>) = 0
    OBVIOUS
  <2> HIDE DEF i
  <2>2. i # 0
    BY <1>2
  <2>3. Len(Tail(q)) # Len(<<>>)
    BY <1>3, <2>1, <2>2
  <2> QED
    BY <2>3
<1> HIDE DEF i
<1> QED
  BY <1>2, <1>3, <1>4

LEMMA TakeKnownKeeps ==
    ASSUME NEW s, NEW t, NEW frames, SessionShape(s), Turns(s),
           "runtime" \in s.pumps, s.events # <<>>, Head(s.events).type = "terminal",
           Head(s.events).id \in s.seenTurns, Alters(s, t, {"events", "forwarding"}),
           t.events = Tail(s.events), t.forwarding = Head(s.events)
    PROVE  /\ SessionShape(t) /\ Turns(t)
           /\ Announced(s) => Announced(t)
           /\ SocketOK(s, frames) => SocketOK(t, frames)
<1>1. /\ t.current = s.current /\ t.active = s.active /\ t.pending = s.pending
      /\ t.seenTurns = s.seenTurns /\ t.sent = s.sent /\ t.asked = s.asked /\ t.produced = s.produced
      /\ t.last = s.last /\ t.pumps = s.pumps /\ t.writing = s.writing /\ t.delivered = s.delivered
      /\ DOMAIN t = SessionFields
  BY DEF Alters, SessionFields
<1> DEFINE e == Head(s.events)
           N == Len(s.events)
<1>2. e = s.events[1] /\ e \in EventType /\ t.events \in Seq(EventType)
  BY SeqTail DEF SessionShape
<1>3. /\ DOMAIN t.events = 1..N - 1 /\ DOMAIN s.events = 1..N /\ N \in Nat \ {0} /\ Len(t.events) = N - 1
      /\ \A j \in DOMAIN t.events : t.events[j] = s.events[j + 1] /\ j + 1 \in DOMAIN s.events
      /\ \A j \in DOMAIN t.events : Queued(t, j) => Queued(s, j + 1)
  BY <1>1, TailQueued
<1>4. ASSUME NEW k, Queued(s, k)
      PROVE  k # 1 /\ k - 1 \in DOMAIN t.events /\ Queued(t, k - 1) /\ t.events[k - 1] = s.events[k]
  BY <1>1, <1>2, <1>3, <1>4 DEF Queued, Unseen
<1>5. SessionShape(t)
  BY <1>1, <1>2 DEF SessionShape
<1>6. Turns(t)
  <2>1. ASSUME Unseen(s, s.last) PROVE t.events # <<>> /\ t.events[Len(t.events)] = s.last
    <3>1. s.events[N] = s.last
      BY <2>1 DEF Turns
    <3>2. N # 1
      BY <1>2, <2>1, <3>1 DEF Unseen
    <3>3. N > 1 /\ s.events \in Seq(EventType)
      <4>1. N \in Nat \ {0}
        BY <1>3
      <4>2. s.events \in Seq(EventType)
        BY DEF SessionShape
      <4> HIDE DEF N
      <4> QED
        BY <3>2, <4>1, <4>2
    <3>4. Tail(s.events) # <<>> /\ Tail(s.events)[Len(Tail(s.events))] = s.events[Len(s.events)]
      BY <3>3, TailLast
    <3> QED
      BY <3>1, <3>4
  <2>2. \A k \in DOMAIN t.events : t.events[k].type = "terminal" => t.events[k].id <= t.produced
    BY <1>1, <1>3 DEF Turns
  <2>3. Unseen(t, t.last) => Unseen(s, s.last)
    BY <1>1 DEF Unseen
  <2> QED
    BY <1>1, <2>1, <2>2, <2>3 DEF Turns
<1>7. ASSUME Announced(s) PROVE Announced(t)
  <2> SUFFICES ASSUME NEW j \in DOMAIN t.events, Queued(t, j)
               PROVE IF j = 1 THEN t.active
                     ELSE \/ t.events[j - 1].type = "created"
                          \/ t.events[j - 1].type = "terminal" /\ t.events[j - 1].id = t.events[j].id
    BY DEF Announced
  <2>1. Queued(s, j + 1) /\ j + 1 \in DOMAIN s.events /\ j \in Nat \ {0} /\ t.events[j] = s.events[j + 1]
    BY <1>3
  <2>2. \/ s.events[j].type = "created"
        \/ s.events[j].type = "terminal" /\ s.events[j].id = s.events[j + 1].id
    BY <1>7, <2>1 DEF Announced
  <2>3. CASE j = 1
    BY <1>2, <2>1, <2>2, <2>3 DEF Queued, Unseen
  <2>4. CASE j # 1
    BY <1>3, <2>1, <2>2, <2>4
  <2> QED
    BY <2>3, <2>4
<1>8. SocketOK(s, frames) => InOrder(t, frames)
  BY <1>1 DEF SocketOK, InOrder, Latest
<1>9. SocketOK(s, frames) => AskedFor(t, frames)
  BY <1>1 DEF SocketOK, AskedFor, Waiting
<1>10. SocketOK(s, frames) => OneEach(t)
  BY <1>1, <1>3 DEF Events, SocketOK, OneEach
<1>11. ASSUME SocketOK(s, frames) PROVE InTurn(t, frames)
  <2>1. \A f : Waiting(t, f) <=> Waiting(s, f)
    BY <1>1 DEF Waiting
  <2>2. \A f : Answering(s, f) => Answering(t, f)
    BY <1>4 DEF Answering
  <2>3. ASSUME NEW j \in DOMAIN t.events, Queued(t, j)
        PROVE  /\ Waiting(t, t.events[j].frame) /\ Asks2(frames, t.events[j].frame)
               /\ \A f \in Nat : Waiting(t, f) /\ f < t.events[j].frame
                    => \E k \in 1..j - 1 : Queued(t, k) /\ t.events[k].frame = f
    <3>1. Queued(s, j + 1) /\ j + 1 \in DOMAIN s.events /\ j \in Nat \ {0} /\ t.events[j] = s.events[j + 1]
      BY <1>3, <2>3
    <3>2. /\ Waiting(s, s.events[j + 1].frame) /\ Asks2(frames, s.events[j + 1].frame)
          /\ \A f \in Nat : Waiting(s, f) /\ f < s.events[j + 1].frame
                => \E k \in 1..(j + 1) - 1 : Queued(s, k) /\ s.events[k].frame = f
      BY <1>11, <3>1 DEF SocketOK, InTurn
    <3>3. ASSUME NEW f \in Nat, Waiting(t, f), f < t.events[j].frame
          PROVE  \E k \in 1..j - 1 : Queued(t, k) /\ t.events[k].frame = f
      <4>1. PICK k \in 1..(j + 1) - 1 : Queued(s, k) /\ s.events[k].frame = f
        BY <2>1, <3>1, <3>2, <3>3
      <4>2. k - 1 \in 1..j - 1 /\ Queued(t, k - 1) /\ t.events[k - 1].frame = f
        BY <1>4, <4>1, <3>1
      <4> QED
        BY <4>2
    <3> QED
      BY <2>1, <3>1, <3>2, <3>3
  <2> QED
    BY <1>1, <1>11, <2>1, <2>2, <2>3 DEF SocketOK, InTurn
<1> QED
  BY <1>5, <1>6, <1>7, <1>8, <1>9, <1>10, <1>11 DEF SocketOK

LEMMA PersistTurnFailsKeeps ==
    ASSUME NEW s, NEW t, NEW frames, SessionShape(s), Turns(s), s.events # <<>>,
           Alters(s, t, {"events", "pumps", "closing", "forwarding"}),
           t.events = Tail(s.events), t.pumps = s.pumps \ {"runtime"}, t.forwarding = NoEvent
    PROVE  /\ SessionShape(t) /\ Turns(t)
           /\ Announced(t)
           /\ SocketOK(s, frames) => SocketOK(t, frames)
<1>1. /\ t.current = s.current /\ t.active = s.active /\ t.pending = s.pending
      /\ t.seenTurns = s.seenTurns /\ t.sent = s.sent /\ t.asked = s.asked /\ t.produced = s.produced
      /\ t.last = s.last /\ t.writing = s.writing /\ t.delivered = s.delivered
      /\ DOMAIN t = SessionFields
  BY DEF Alters, SessionFields
<1>2. t.events \in Seq(EventType)
  BY SeqTail DEF SessionShape
<1>3. \A j \in DOMAIN t.events : t.events[j] = s.events[j + 1] /\ j + 1 \in DOMAIN s.events
  BY <1>1, TailQueued
<1>4. SessionShape(t)
  BY <1>1, <1>2, NoEventType DEF SessionShape
<1>5. Turns(t)
  BY <1>1, <1>3, NoEventType DEF Turns
<1>6. Announced(t)
  BY DEF Announced
<1>7. SocketOK(s, frames) => InOrder(t, frames)
  BY <1>1 DEF SocketOK, InOrder, Latest
<1>8. SocketOK(s, frames) => AskedFor(t, frames)
  BY <1>1 DEF SocketOK, AskedFor, Waiting
<1>9. SocketOK(s, frames) => OneEach(t)
  BY <1>1, <1>3 DEF Events, SocketOK, OneEach
<1>10. InTurn(t, frames)
  BY DEF InTurn
<1> QED
  BY <1>4, <1>5, <1>6, <1>7, <1>8, <1>9, <1>10 DEF SocketOK

(* The next step becomes current: only the current frame waits no more.    *)
LEMMA NextWaits ==
    ASSUME NEW s, NEW t, NEW frames, SessionShape(s), Turns(s), s.active, InOrder(s, frames),
           IF s.pending = <<>>
             THEN t.active = FALSE /\ t.current = s.current /\ t.pending = s.pending
             ELSE t.active = TRUE /\ t.current = Head(s.pending) /\ t.pending = Tail(s.pending)
    PROVE  \A f \in Nat : Waiting(t, f) <=> Waiting(s, f) /\ f # s.current.frame
<1>1. ASSUME NEW i \in DOMAIN s.pending PROVE s.pending[i].frame # s.current.frame
  <2>1. s.current.frame < s.pending[i].frame
    BY DEF InOrder
  <2>2. s.current.frame \in Nat
    BY DEF SessionShape, StepType
  <2>3. s.pending[i].frame \in Nat
    <3>1. s.pending \in Seq(StepType)
      BY DEF SessionShape
    <3>2. s.pending[i] \in StepType
      BY <3>1, SeqDomain
    <3> QED
      BY <3>2 DEF StepType
  <2> QED
    BY <2>1, <2>2, <2>3
<1>2. CASE s.pending = <<>>
  BY <1>2 DEF Waiting
<1>3. CASE s.pending # <<>>
  <2>1. /\ Head(s.pending) = s.pending[1] /\ DOMAIN s.pending = 1..Len(s.pending) /\ Len(s.pending) \in Nat \ {0}
        /\ DOMAIN t.pending = 1..Len(s.pending) - 1
        /\ \A i \in 1..Len(s.pending) - 1 : t.pending[i] = s.pending[i + 1]
    BY <1>3, SeqTail, ZenonT(30) DEF SessionShape
  <2>2. ASSUME NEW f \in Nat, Waiting(t, f) PROVE Waiting(s, f) /\ f # s.current.frame
    <3>1. \E i \in DOMAIN s.pending : s.pending[i].frame = f
      <4>1. CASE t.current.frame = f
        BY <1>3, <2>1, <4>1
      <4>2. CASE \E i \in DOMAIN t.pending : t.pending[i].frame = f
        <5>1. PICK i \in DOMAIN t.pending : t.pending[i].frame = f
          BY <4>2
        <5>2. i + 1 \in DOMAIN s.pending /\ s.pending[i + 1].frame = f
          BY <2>1, <5>1
        <5> QED
          BY <5>2
      <4> QED
        BY <2>2, <4>1, <4>2 DEF Waiting
    <3> QED
      BY <1>1, <3>1 DEF Waiting
  <2>3. ASSUME NEW f \in Nat, Waiting(s, f), f # s.current.frame PROVE Waiting(t, f)
    <3>1. PICK i \in DOMAIN s.pending : s.pending[i].frame = f
      BY <2>3 DEF Waiting
    <3>2. CASE i = 1
      BY <1>3, <2>1, <3>1, <3>2 DEF Waiting
    <3>3. CASE i # 1
      <4>1. i - 1 \in DOMAIN t.pending /\ t.pending[i - 1] = s.pending[(i - 1) + 1] /\ (i - 1) + 1 = i
        BY <2>1, <3>1, <3>3
      <4>2. i - 1 \in DOMAIN t.pending /\ t.pending[i - 1].frame = f
        BY <3>1, <4>1
      <4> QED
        BY <4>2 DEF Waiting
    <3> QED
      BY <3>2, <3>3
  <2> QED
    BY <2>2, <2>3
<1> QED
  BY <1>2, <1>3

LEMMA NextInOrder ==
    ASSUME NEW s, NEW t, NEW frames, SessionShape(s), s.active, InOrder(s, frames),
           IF s.pending = <<>>
             THEN t.active = FALSE /\ t.current = s.current /\ t.pending = s.pending
             ELSE t.active = TRUE /\ t.current = Head(s.pending) /\ t.pending = Tail(s.pending),
           t.sent = s.sent, t.pumps = s.pumps
    PROVE  InOrder(t, frames)
<1>1. CASE s.pending = <<>>
  BY <1>1 DEF Latest, InOrder
<1>2. CASE s.pending # <<>>
  <2> DEFINE N == Len(s.pending)
  <2>1. /\ Head(s.pending) = s.pending[1] /\ DOMAIN s.pending = 1..N /\ N \in Nat \ {0}
        /\ DOMAIN t.pending = 1..N - 1 /\ t.active = TRUE /\ t.current = s.pending[1]
        /\ \A i \in 1..N - 1 : t.pending[i] = s.pending[i + 1]
        /\ t.pending = Tail(s.pending) /\ s.pending \in Seq(StepType)
    BY <1>2, SeqTail, ZenonT(30) DEF SessionShape
  <2>2. /\ \A i \in DOMAIN s.pending :
             /\ s.current.frame < s.pending[i].frame /\ s.pending[i].frame <= s.sent
             /\ StepFits(frames, s.pending[i])
             /\ \A j \in DOMAIN s.pending : i < j => s.pending[i].frame < s.pending[j].frame
        /\ s.sent \in 1..Len(frames)
        /\ "client" \in s.pumps => Latest(s).model = ModelAt(frames, s.sent)
    BY DEF InOrder
  <2>3. Latest(t) = Latest(s)
    <3>1. CASE N = 1
      BY <1>2, <2>1, <3>1 DEF Latest
    <3>2. CASE N # 1
      <4>1. N > 1
        <5>1. N \in Nat \ {0}
          BY <2>1
        <5> HIDE DEF N
        <5> QED
          BY <3>2, <5>1
      <4>2. Tail(s.pending) # <<>> /\ Tail(s.pending)[Len(Tail(s.pending))] = s.pending[Len(s.pending)]
        BY <2>1, <4>1, TailLast
      <4>3. t.pending # <<>> /\ t.pending[Len(t.pending)] = s.pending[Len(s.pending)]
        BY <1>2, <4>2
      <4> QED
        BY <1>2, <4>3 DEF Latest
    <3> QED
      BY <3>1, <3>2
  <2>4. t.current.frame <= t.sent /\ StepFits(frames, t.current)
    BY <2>1, <2>2
  <2>5. ASSUME NEW i \in DOMAIN t.pending
        PROVE  /\ t.current.frame < t.pending[i].frame /\ t.pending[i].frame <= t.sent
               /\ StepFits(frames, t.pending[i])
               /\ \A j \in DOMAIN t.pending : i < j => t.pending[i].frame < t.pending[j].frame
    <3>1. i + 1 \in DOMAIN s.pending /\ t.pending[i] = s.pending[i + 1] /\ 1 < i + 1 /\ 1 \in DOMAIN s.pending
      BY <2>1
    <3>2. ASSUME NEW j \in DOMAIN t.pending, i < j PROVE t.pending[i].frame < t.pending[j].frame
      <4>1. j + 1 \in DOMAIN s.pending /\ t.pending[j] = s.pending[j + 1] /\ i + 1 < j + 1
        BY <2>1, <3>2
      <4> QED
        BY <2>2, <3>1, <4>1
    <3> QED
      BY <2>1, <2>2, <3>1, <3>2
  <2> QED
    BY <2>2, <2>3, <2>4, <2>5 DEF InOrder
<1> QED
  BY <1>1, <1>2

LEMMA PersistTurnKeeps ==
    ASSUME NEW s, NEW t, NEW frames, SessionShape(s), Turns(s), Announced(s) \/ SocketOK(s, frames),
           "runtime" \in s.pumps, s.events # <<>>, Head(s.events).type = "terminal",
           ~Known(s, Head(s.events)),
           Alters(s, t, {"active", "current", "pending", "events", "forwarding", "seenTurns",
                         "accrued", "turns"}),
           IF s.pending = <<>>
             THEN t.active = FALSE /\ t.current = s.current /\ t.pending = s.pending
             ELSE t.active = TRUE /\ t.current = Head(s.pending) /\ t.pending = Tail(s.pending),
           t.events = Tail(s.events), t.forwarding = Head(s.events),
           t.seenTurns = s.seenTurns \cup {Head(s.events).id}
    PROVE  /\ SessionShape(t) /\ Turns(t)
           /\ Announced(s) => Announced(t)
           /\ SocketOK(s, frames) => SocketOK(t, frames)
<1>1. /\ t.sent = s.sent /\ t.asked = s.asked /\ t.produced = s.produced
      /\ t.last = s.last /\ t.pumps = s.pumps /\ t.writing = s.writing /\ t.delivered = s.delivered
      /\ DOMAIN t = SessionFields
  BY DEF Alters, SessionFields
<1> DEFINE e == Head(s.events)
           N == Len(s.events)
<1>2. e = s.events[1] /\ e \in EventType /\ t.events \in Seq(EventType) /\ 1 \in DOMAIN s.events
  BY SeqTail DEF SessionShape
<1>3. /\ DOMAIN t.events = 1..N - 1 /\ DOMAIN s.events = 1..N /\ N \in Nat \ {0} /\ Len(t.events) = N - 1
      /\ \A j \in DOMAIN t.events : t.events[j] = s.events[j + 1] /\ j + 1 \in DOMAIN s.events
      /\ \A j \in DOMAIN t.events : Queued(t, j) => Queued(s, j + 1)
  BY <1>1, TailQueued
<1>4. s.active /\ Unseen(s, e) /\ e.id \in Nat
  BY <1>2, EventKinds DEF Known, Unseen
<1>5. t.current \in StepType /\ t.active \in BOOLEAN /\ t.pending \in Seq(StepType) /\ (t.pending # <<>> => t.active)
  <2>1. s.pending \in Seq(StepType) /\ s.current \in StepType
    BY DEF SessionShape
  <2>2. CASE s.pending = <<>>
    BY <2>1, <2>2
  <2>3. CASE s.pending # <<>>
    <3>1. Tail(s.pending) \in Seq(StepType) /\ Head(s.pending) \in StepType
      BY <2>1, <2>3, SeqTail
    <3> QED
      BY <2>3, <3>1
  <2> QED
    BY <2>2, <2>3
<1>6. SessionShape(t)
  BY <1>1, <1>2, <1>4, <1>5 DEF SessionShape
<1>7. Turns(t)
  <2>1. ASSUME Unseen(t, t.last) PROVE t.events # <<>> /\ t.events[Len(t.events)] = s.last
    <3>1. Unseen(s, s.last) /\ s.last.id # e.id
      BY <1>1, <2>1 DEF Unseen
    <3>2. s.events[N] = s.last
      BY <3>1 DEF Turns
    <3>3. N # 1
      BY <1>2, <3>1, <3>2
    <3>4. N > 1
      <4>1. N \in Nat \ {0}
        BY <1>3
      <4> HIDE DEF N
      <4> QED
        BY <3>3, <4>1
    <3>5. s.events \in Seq(EventType)
      BY DEF SessionShape
    <3>6. Tail(s.events) # <<>> /\ Tail(s.events)[Len(Tail(s.events))] = s.events[Len(s.events)]
      BY <3>4, <3>5, TailLast
    <3> QED
      BY <3>2, <3>6
  <2>2. \A k \in DOMAIN t.events : t.events[k].type = "terminal" => t.events[k].id <= t.produced
    BY <1>1, <1>3 DEF Turns
  <2>3. \A id \in t.seenTurns : id <= t.produced
    BY <1>1, <1>2 DEF Turns
  <2> QED
    BY <1>1, <1>5, <2>1, <2>2, <2>3 DEF Turns
<1>8. ASSUME Announced(s) PROVE Announced(t)
  <2> SUFFICES ASSUME NEW j \in DOMAIN t.events, Queued(t, j)
               PROVE IF j = 1 THEN t.active
                     ELSE \/ t.events[j - 1].type = "created"
                          \/ t.events[j - 1].type = "terminal" /\ t.events[j - 1].id = t.events[j].id
    BY DEF Announced
  <2>1. Queued(s, j + 1) /\ j + 1 \in DOMAIN s.events /\ j \in Nat \ {0} /\ t.events[j] = s.events[j + 1]
    BY <1>3
  <2>2. \/ s.events[j].type = "created"
        \/ s.events[j].type = "terminal" /\ s.events[j].id = s.events[j + 1].id
    BY <1>8, <2>1 DEF Announced
  <2>3. CASE j = 1
    BY <1>2, <2>1, <2>2, <2>3 DEF Queued, Unseen
  <2>4. CASE j # 1
    <3>1. t.events[j - 1] = s.events[j]
      BY <1>3, <2>4
    <3> QED
      BY <2>1, <2>2, <2>4, <3>1
  <2> QED
    BY <2>3, <2>4
<1>9. ASSUME SocketOK(s, frames) PROVE SocketOK(t, frames)
  <2>1. e.frame = s.current.frame /\ e.frame \in Nat
    BY <1>2, <1>4, <1>9, HeadAnswersCurrent, EventKinds
  <2>2. InOrder(s, frames) /\ AskedFor(s, frames) /\ OneEach(s) /\ InTurn(s, frames)
    BY <1>9 DEF SocketOK
  <2>3. \A f \in Nat : Waiting(t, f) <=> Waiting(s, f) /\ f # e.frame
    BY <1>4, <2>1, <2>2, NextWaits
  <2>4. InOrder(t, frames)
    BY <1>1, <1>4, <2>2, NextInOrder
  <2>5. e \in Events(s)
    BY <1>2 DEF Events
  <2>6. AskedFor(t, frames)
    <3>1. s.writing \in Nat /\ \A i \in DOMAIN s.asked : s.asked[i] \in Nat
      BY SeqDomain DEF SessionShape
    <3>2. s.writing # 0 => e.frame # s.writing
      BY <2>1, <2>2, <2>5, <3>1 DEF OneEach
    <3>3. \A i \in DOMAIN s.asked : e.frame # s.asked[i]
      BY <2>1, <2>2, <2>5, <3>1 DEF OneEach
    <3> QED
      BY <1>1, <2>2, <2>3, <3>1, <3>2, <3>3 DEF AskedFor
  <2>7. OneEach(t)
    <3>1. Events(t) \subseteq Events(s)
      BY <1>1, <1>3 DEF Events
    <3> QED
      BY <1>1, <1>3, <2>2, <3>1 DEF OneEach
  <2>8. \A k \in DOMAIN s.events : s.events[k] \in Events(s) /\ s.events[k].type = "terminal"
    BY <2>2 DEF Events, OneEach
  <2>9. \A k \in DOMAIN s.events : s.events[k].id = e.id <=> s.events[k].frame = e.frame
    BY <2>2, <2>5, <2>8 DEF OneEach
  <2>10. ASSUME NEW k, Queued(s, k), s.events[k].frame # e.frame
         PROVE  /\ k - 1 \in DOMAIN t.events /\ Queued(t, k - 1) /\ t.events[k - 1] = s.events[k]
                /\ k - 1 >= 1 /\ k \in Nat
    BY <1>2, <1>3, <2>9, <2>10 DEF Queued, Unseen
  <2>11. ASSUME NEW f \in Nat, f # e.frame, Answering(s, f) PROVE Answering(t, f)
    BY <2>10, <2>11 DEF Answering
  <2>12. ASSUME NEW j \in DOMAIN t.events, Queued(t, j)
         PROVE  /\ Waiting(t, t.events[j].frame) /\ Asks2(frames, t.events[j].frame)
                /\ \A f \in Nat : Waiting(t, f) /\ f < t.events[j].frame
                     => \E k \in 1..j - 1 : Queued(t, k) /\ t.events[k].frame = f
    <3>1. Queued(s, j + 1) /\ j + 1 \in DOMAIN s.events /\ j \in Nat \ {0} /\ t.events[j] = s.events[j + 1]
      BY <1>3, <2>12
    <3>2. /\ Waiting(s, s.events[j + 1].frame) /\ Asks2(frames, s.events[j + 1].frame)
          /\ \A f \in Nat : Waiting(s, f) /\ f < s.events[j + 1].frame
                => \E k \in 1..(j + 1) - 1 : Queued(s, k) /\ s.events[k].frame = f
      BY <1>1, <2>2, <3>1 DEF InTurn
    <3>3. s.events[j + 1].frame # e.frame
      BY <2>9, <2>12, <3>1 DEF Queued, Unseen
    <3>4. s.events[j + 1].frame \in Nat
      BY <2>8, <3>1, SeqDomain, EventKinds DEF SessionShape
    <3>5. ASSUME NEW f \in Nat, Waiting(t, f), f < t.events[j].frame
          PROVE  \E k \in 1..j - 1 : Queued(t, k) /\ t.events[k].frame = f
      <4>1. PICK k \in 1..(j + 1) - 1 : Queued(s, k) /\ s.events[k].frame = f
        BY <2>3, <3>1, <3>2, <3>5
      <4>2. f # e.frame
        BY <2>3, <3>5
      <4>3. Queued(t, k - 1) /\ t.events[k - 1].frame = f /\ k - 1 >= 1 /\ k \in Nat
        BY <2>10, <4>1, <4>2
      <4>4. k - 1 \in 1..j - 1
        BY <3>1, <4>1, <4>3
      <4> QED
        BY <4>3, <4>4
    <3> QED
      BY <2>3, <3>1, <3>2, <3>3, <3>4, <3>5
  <2>13. ASSUME NEW i \in DOMAIN t.asked, NEW f \in Nat, Waiting(t, f), f < t.asked[i]
         PROVE  (\E k \in 1..i - 1 : t.asked[k] = f) \/ Answering(t, f)
    BY <1>1, <2>2, <2>3, <2>11, <2>13 DEF InTurn
  <2>14. ASSUME "client" \in t.pumps, NEW f \in Nat, Waiting(t, f)
         PROVE  f = t.writing \/ (\E k \in DOMAIN t.asked : t.asked[k] = f) \/ Answering(t, f)
    BY <1>1, <2>2, <2>3, <2>11, <2>14 DEF InTurn
  <2>15. InTurn(t, frames)
    BY <2>12, <2>13, <2>14 DEF InTurn
  <2> QED
    BY <2>4, <2>6, <2>7, <2>15 DEF SocketOK
<1> QED
  BY <1>6, <1>7, <1>8, <1>9

LEMMA StartedAnew ==
    ASSUME NEW c \in StepType, now \in Nat
    PROVE  [c EXCEPT !.started = now, !.frame = 0] \in StepType
<1> DEFINE d == [c EXCEPT !.started = now, !.frame = 0]
<1>1. c.model \in AnyModel /\ c.prewarm \in BOOLEAN /\ DOMAIN c = {"frame", "model", "prewarm", "started"}
  BY DEF StepType
<1>2. /\ DOMAIN d = {"frame", "model", "prewarm", "started"}
      /\ d.frame = 0 /\ d.model = c.model /\ d.prewarm = c.prewarm /\ d.started = now
  BY <1>1
<1>3. d = [x \in DOMAIN d |-> d[x]]
  OBVIOUS
<1> HIDE DEF d
<1>4. d = [frame |-> d.frame, model |-> d.model, prewarm |-> d.prewarm, started |-> d.started]
  BY <1>2, <1>3
<1>5. d \in StepType
  BY <1>1, <1>2, <1>4 DEF StepType
<1> QED
  BY <1>5 DEF d

LEMMA TakeCreatedKeeps ==
    ASSUME NEW s, NEW t, SessionShape(s), Turns(s), Announced(s), now \in Nat,
           "runtime" \in s.pumps, s.events # <<>>, Head(s.events).type = "created",
           t.events = Tail(s.events), t.forwarding = Head(s.events), t.active = TRUE,
           IF s.active THEN Alters(s, t, {"events", "forwarding"})
           ELSE /\ Alters(s, t, {"events", "forwarding", "active", "current"})
                /\ t.current = [s.current EXCEPT !.started = now, !.frame = 0]
    PROVE  SessionShape(t) /\ Turns(t) /\ Announced(t)
<1>1. /\ t.pending = s.pending /\ t.turns = s.turns
      /\ t.seenTurns = s.seenTurns /\ t.sent = s.sent /\ t.asked = s.asked /\ t.produced = s.produced
      /\ t.last = s.last /\ t.pumps = s.pumps /\ t.writing = s.writing /\ t.delivered = s.delivered
      /\ DOMAIN t = SessionFields
  BY DEF Alters, SessionFields
<1>2. t.current \in StepType
  <2>1. s.current \in StepType
    BY DEF SessionShape
  <2>2. CASE s.active
    BY <2>1, <2>2 DEF Alters, SessionFields
  <2>3. CASE ~s.active
    BY <2>1, <2>3, StartedAnew
  <2> QED
    BY <2>2, <2>3
<1> DEFINE e == Head(s.events)
           N == Len(s.events)
<1>3. e = s.events[1] /\ e \in EventType /\ t.events \in Seq(EventType) /\ 1 \in DOMAIN s.events
  BY SeqTail DEF SessionShape
<1>4. /\ DOMAIN t.events = 1..N - 1 /\ DOMAIN s.events = 1..N /\ N \in Nat \ {0} /\ Len(t.events) = N - 1
      /\ \A j \in DOMAIN t.events : t.events[j] = s.events[j + 1] /\ j + 1 \in DOMAIN s.events
      /\ \A j \in DOMAIN t.events : Queued(t, j) => Queued(s, j + 1)
  BY <1>1, TailQueued
<1>5. SessionShape(t)
  BY <1>1, <1>2, <1>3 DEF SessionShape
<1>6. Turns(t)
  <2>1. ASSUME Unseen(t, t.last) PROVE t.events # <<>> /\ t.events[Len(t.events)] = s.last
    <3>1. Unseen(s, s.last)
      BY <1>1, <2>1 DEF Unseen
    <3>2. s.events[N] = s.last
      BY <3>1 DEF Turns
    <3>3. N # 1
      BY <1>3, <3>1, <3>2 DEF Unseen
    <3>4. N > 1
      <4>1. N \in Nat \ {0}
        BY <1>4
      <4> HIDE DEF N
      <4> QED
        BY <3>3, <4>1
    <3>5. s.events \in Seq(EventType)
      BY DEF SessionShape
    <3>6. Tail(s.events) # <<>> /\ Tail(s.events)[Len(Tail(s.events))] = s.events[Len(s.events)]
      BY <3>4, <3>5, TailLast
    <3> QED
      BY <3>2, <3>6
  <2>2. \A k \in DOMAIN t.events : t.events[k].type = "terminal" => t.events[k].id <= t.produced
    BY <1>1, <1>4 DEF Turns
  <2>3. t.forwarding.type # "terminal"
    OBVIOUS
  <2> QED
    BY <1>1, <2>1, <2>2, <2>3 DEF Turns
<1>7. Announced(t)
  <2> SUFFICES ASSUME NEW j \in DOMAIN t.events, Queued(t, j), j # 1
               PROVE \/ t.events[j - 1].type = "created"
                     \/ t.events[j - 1].type = "terminal" /\ t.events[j - 1].id = t.events[j].id
    BY DEF Announced
  <2>1. Queued(s, j + 1) /\ j + 1 \in DOMAIN s.events /\ j \in Nat \ {0} /\ t.events[j] = s.events[j + 1]
    BY <1>4
  <2>2. \/ s.events[j].type = "created"
        \/ s.events[j].type = "terminal" /\ s.events[j].id = s.events[j + 1].id
    BY <2>1 DEF Announced
  <2>3. t.events[j - 1] = s.events[j]
    BY <1>4
  <2> QED
    BY <2>1, <2>2, <2>3
<1> QED
  BY <1>5, <1>6, <1>7

(* The runtime sends something: at the end of the queue.                   *)
LEMMA SeqConcat ==
    ASSUME NEW T, NEW q \in Seq(T), NEW p \in Seq(T)
    PROVE  /\ q \o p \in Seq(T) /\ Len(q \o p) = Len(q) + Len(p) /\ Len(q) \in Nat /\ Len(p) \in Nat
           /\ DOMAIN q = 1..Len(q) /\ DOMAIN (q \o p) = 1..Len(q) + Len(p)
           /\ \A i \in 1..Len(q) : (q \o p)[i] = q[i]
           /\ \A i \in 1..Len(p) : (q \o p)[Len(q) + i] = p[i]
<1>1. /\ q \o p \in Seq(T) /\ Len(q \o p) = Len(q) + Len(p) /\ Len(q) \in Nat /\ Len(p) \in Nat
      /\ DOMAIN q = 1..Len(q)
      /\ \A i \in 1..Len(q) + Len(p) : (q \o p)[i] = IF i <= Len(q) THEN q[i] ELSE p[i - Len(q)]
  OBVIOUS
<1>2. \A i \in 1..Len(q) : (q \o p)[i] = q[i]
  BY <1>1
<1>3. ASSUME NEW i \in 1..Len(p) PROVE (q \o p)[Len(q) + i] = p[i]
  BY <1>1
<1>4. DOMAIN (q \o p) = 1..Len(q \o p)
  BY <1>1
<1> QED
  BY <1>1, <1>2, <1>3, <1>4

(* The last of what is sent, and what comes before it.                     *)
LEMMA ProducedLast ==
    ASSUME NEW s, NEW t, SessionShape(s), NEW new \in Seq(EventType), new # <<>>,
           t.events = s.events \o new
    PROVE  /\ t.events \in Seq(EventType) /\ t.events # <<>> /\ Len(t.events) = Len(s.events) + Len(new)
           /\ t.events[Len(t.events)] = new[Len(new)]
           /\ Len(s.events) \in Nat /\ DOMAIN s.events = 1..Len(s.events)
           /\ DOMAIN t.events = 1..Len(s.events) + Len(new)
           /\ \A i \in DOMAIN s.events : t.events[i] = s.events[i] /\ i \in DOMAIN t.events
           /\ \A i \in 1..Len(new) : t.events[Len(s.events) + i] = new[i]
<1>1. s.events \in Seq(EventType)
  BY DEF SessionShape
<1>2. /\ t.events \in Seq(EventType) /\ Len(t.events) = Len(s.events) + Len(new) /\ Len(s.events) \in Nat
      /\ Len(new) \in Nat /\ DOMAIN s.events = 1..Len(s.events) /\ DOMAIN t.events = 1..Len(s.events) + Len(new)
      /\ \A i \in 1..Len(s.events) : t.events[i] = s.events[i]
      /\ \A i \in 1..Len(new) : t.events[Len(s.events) + i] = new[i]
  BY <1>1, SeqConcat
<1>3. Len(new) \in 1..Len(new)
  BY <1>2, SeqDomain
<1>4. t.events[Len(t.events)] = new[Len(new)]
  BY <1>2, <1>3
<1>5. t.events # <<>>
  BY <1>2, <1>3, SeqDomain
<1>6. \A i \in DOMAIN s.events : t.events[i] = s.events[i] /\ i \in DOMAIN t.events
  BY <1>2
<1> QED
  BY <1>2, <1>4, <1>5, <1>6

LEMMA ProduceTurns ==
    ASSUME NEW s, NEW t, SessionShape(s), Turns(s), NEW new \in Seq(EventType), new # <<>>,
           NEW asked \in Seq(Nat),
           Alters(s, t, {"events", "last", "asked", "produced"}), t.asked = asked,
           t.events = s.events \o new, t.last = new[Len(new)], t.produced = s.produced + 1,
           new[Len(new)] \in Terminals,
           \A i \in 1..Len(new) : new[i].type = "terminal" => new[i].id <= s.produced + 1
    PROVE  /\ SessionShape(t) /\ Turns(t)
           /\ t.current = s.current /\ t.active = s.active /\ t.pending = s.pending
           /\ t.seenTurns = s.seenTurns /\ t.sent = s.sent /\ t.pumps = s.pumps /\ t.writing = s.writing
           /\ t.turns = s.turns
           /\ \A k \in DOMAIN s.events : Queued(s, k) <=> Queued(t, k)
<1>1. /\ t.current = s.current /\ t.active = s.active /\ t.pending = s.pending
      /\ t.seenTurns = s.seenTurns /\ t.sent = s.sent /\ t.turns = s.turns
      /\ t.pumps = s.pumps /\ t.writing = s.writing /\ t.delivered = s.delivered
      /\ t.forwarding = s.forwarding /\ DOMAIN t = SessionFields
  BY DEF Alters, SessionFields
<1>2. /\ t.events \in Seq(EventType) /\ t.events # <<>> /\ Len(t.events) = Len(s.events) + Len(new)
      /\ t.events[Len(t.events)] = new[Len(new)]
      /\ Len(s.events) \in Nat /\ DOMAIN s.events = 1..Len(s.events)
      /\ DOMAIN t.events = 1..Len(s.events) + Len(new)
      /\ \A i \in DOMAIN s.events : t.events[i] = s.events[i] /\ i \in DOMAIN t.events
      /\ \A i \in 1..Len(new) : t.events[Len(s.events) + i] = new[i]
  BY ProducedLast, ZenonT(30)
<1>3. s.produced \in Nat /\ s.seenTurns \subseteq Nat
  BY DEF SessionShape
<1>4. t.last \in EventType /\ t.last \in Terminals
  BY DEF EventType
<1>5. SessionShape(t)
  <2>1. /\ s.current \in StepType /\ s.active \in BOOLEAN /\ s.pending \in Seq(StepType)
        /\ s.sent \in Nat /\ s.writing \in Nat /\ s.forwarding \in EventType
        /\ s.delivered \subseteq Nat /\ s.pumps \subseteq Pumps
    BY DEF SessionShape
  <2>2. t.asked \in Seq(Nat) /\ t.produced \in Nat
    BY <1>3
  <2>3. /\ t.current \in StepType /\ t.active \in BOOLEAN /\ t.pending \in Seq(StepType)
        /\ t.seenTurns \subseteq Nat /\ t.sent \in Nat /\ t.writing \in Nat
        /\ t.forwarding \in EventType /\ t.delivered \subseteq Nat /\ t.pumps \subseteq Pumps
    BY <1>1, <1>3, <2>1
  <2>4. t.events \in Seq(EventType) /\ t.last \in EventType /\ DOMAIN t = SessionFields
    BY <1>1, <1>2, <1>4
  <2> QED
    BY <2>2, <2>3, <2>4 DEF SessionShape
<1>6. ASSUME NEW k \in DOMAIN t.events, t.events[k].type = "terminal" PROVE t.events[k].id <= t.produced
  <2>1. CASE k \in DOMAIN s.events
    <3>1. t.events[k] = s.events[k] /\ s.events[k] \in EventType
      BY <1>2, <2>1, SeqDomain DEF SessionShape
    <3>2. s.events[k].id <= s.produced /\ s.events[k].id \in Nat
      BY <1>6, <2>1, <3>1, EventKinds DEF Turns
    <3> QED
      BY <1>3, <3>1, <3>2
  <2>2. CASE k \notin DOMAIN s.events
    <3> DEFINE i == k - Len(s.events)
    <3>1. Len(new) \in Nat /\ k \in 1..Len(s.events) + Len(new)
      BY <1>2, SeqDomain
    <3>2. i \in 1..Len(new) /\ Len(s.events) + i = k
      BY <1>2, <2>2, <3>1, SMTT(30)
    <3>3. t.events[k] = new[i]
      BY <1>2, <3>2
    <3> HIDE DEF i
    <3> QED
      BY <1>6, <3>2, <3>3
  <2> QED
    BY <2>1, <2>2
<1>7. \A id \in t.seenTurns : id <= t.produced
  BY <1>1, <1>3 DEF Turns
<1>8. t.last.id <= t.produced
  <2>1. t.last.type = "terminal" /\ Len(new) \in 1..Len(new)
    BY <1>4, SeqDomain DEF Terminals
  <2> QED
    BY <2>1
<1>9. Turns(t)
  BY <1>1, <1>2, <1>4, <1>6, <1>7, <1>8 DEF Turns
<1>10. \A k \in DOMAIN s.events : Queued(s, k) <=> Queued(t, k)
  BY <1>1, <1>2 DEF Queued, Unseen
<1> QED
  BY <1>1, <1>5, <1>9, <1>10

LEMMA OneEvent ==
    ASSUME NEW e \in Terminals
    PROVE  /\ <<e>> \in Seq(EventType) /\ <<e>> # <<>> /\ Len(<<e>>) = 1 /\ <<e>>[1] = e
           /\ e.type = "terminal" /\ e.id \in Nat /\ e.frame \in Nat
BY DEF EventType, Terminals

LEMMA AskedNat ==
    ASSUME NEW s, SessionShape(s)
    PROVE  /\ s.asked \in Seq(Nat) /\ DOMAIN s.asked = 1..Len(s.asked) /\ Len(s.asked) \in Nat
           /\ \A i \in DOMAIN s.asked : s.asked[i] \in Nat
BY SeqDomain DEF SessionShape

(* What waits has been sent.                                               *)
LEMMA WaitingSent ==
    ASSUME NEW s, NEW frames, SessionShape(s), InOrder(s, frames), NEW f, Waiting(s, f)
    PROVE  f <= s.sent /\ f \in DOMAIN frames
BY DEF Waiting, InOrder, StepFits

LEMMA AnswerKeeps ==
    ASSUME NEW s, NEW t, NEW frames, SessionShape(s), Turns(s), SocketOK(s, frames), s.asked # <<>>,
           NEW e \in Terminals, e.id = s.produced + 1, e.frame = Head(s.asked),
           Alters(s, t, {"events", "last", "asked", "produced"}), t.asked = Tail(s.asked),
           t.events = s.events \o <<e>>, t.last = <<e>>[Len(<<e>>)], t.produced = s.produced + 1
    PROVE  SessionShape(t) /\ Turns(t) /\ SocketOK(t, frames)
<1> DEFINE N == Len(s.events)
           M == Len(s.asked)
<1>0. /\ <<e>> \in Seq(EventType) /\ <<e>> # <<>> /\ Len(<<e>>) = 1 /\ <<e>>[1] = e
      /\ e.type = "terminal" /\ e.id \in Nat /\ e.frame \in Nat
  BY OneEvent
<1>1. /\ s.asked \in Seq(Nat) /\ DOMAIN s.asked = 1..M /\ M \in Nat \ {0} /\ Tail(s.asked) \in Seq(Nat)
      /\ DOMAIN t.asked = 1..M - 1 /\ e.frame = s.asked[1] /\ 1 \in DOMAIN s.asked
      /\ \A i \in 1..M - 1 : t.asked[i] = s.asked[i + 1]
  BY AskedNat, SeqTail
<1>2. s.produced \in Nat /\ s.seenTurns \subseteq Nat /\ s.events \in Seq(EventType)
  BY DEF SessionShape
<1>3. /\ SessionShape(t) /\ Turns(t)
      /\ t.current = s.current /\ t.active = s.active /\ t.pending = s.pending
      /\ t.seenTurns = s.seenTurns /\ t.sent = s.sent /\ t.pumps = s.pumps /\ t.writing = s.writing
      /\ \A k \in DOMAIN s.events : Queued(s, k) <=> Queued(t, k)
  <2>1. \A i \in 1..Len(<<e>>) : <<e>>[i].type = "terminal" => <<e>>[i].id <= s.produced + 1
    BY <1>0, <1>2
  <2>2. <<e>>[Len(<<e>>)] \in Terminals
    BY <1>0
  <2> QED
    BY <1>0, <1>1, <2>1, <2>2, ProduceTurns
<1>4. /\ Len(t.events) = N + 1 /\ N \in Nat /\ DOMAIN s.events = 1..N /\ DOMAIN t.events = 1..N + 1
      /\ \A i \in DOMAIN s.events : t.events[i] = s.events[i] /\ i \in DOMAIN t.events
      /\ t.events[N + 1] = e
  BY <1>0, ProducedLast
<1> HIDE DEF N, M
<1>5. InOrder(s, frames) /\ AskedFor(s, frames) /\ OneEach(s) /\ InTurn(s, frames)
  BY DEF SocketOK
<1>6. InOrder(t, frames)
  BY <1>3, <1>5 DEF InOrder, Latest
<1>7. \A f : Waiting(t, f) <=> Waiting(s, f)
  BY <1>3 DEF Waiting
<1>8. AskedFor(t, frames)
  <2>1. ASSUME NEW i \in DOMAIN t.asked
        PROVE  /\ Waiting(t, t.asked[i]) /\ Asks2(frames, t.asked[i])
               /\ t.writing # 0 => t.asked[i] < t.writing
               /\ \A j \in DOMAIN t.asked : i < j => t.asked[i] < t.asked[j]
    <3>1. i + 1 \in DOMAIN s.asked /\ t.asked[i] = s.asked[i + 1]
      BY <1>1, SMTT(30)
    <3>2. ASSUME NEW j \in DOMAIN t.asked, i < j PROVE t.asked[i] < t.asked[j]
      <4>0. i \in 1..M - 1 /\ j \in 1..M - 1
        BY <1>1
      <4>1. i \in Nat /\ j \in Nat /\ j + 1 \in 1..M
        <5>1. M \in Nat
          BY <1>1
        <5> QED
          BY <4>0, <5>1
      <4>2. i + 1 < j + 1
        BY <3>2, <4>1
      <4>3. j + 1 \in DOMAIN s.asked /\ t.asked[j] = s.asked[j + 1]
        BY <1>1, <4>0, <4>1
      <4> QED
        BY <1>5, <3>1, <4>2, <4>3 DEF AskedFor
    <3> QED
      BY <1>3, <1>5, <1>7, <3>1, <3>2 DEF AskedFor
  <2> QED
    BY <1>3, <1>5, <1>7, <2>1 DEF AskedFor
<1>9. /\ Waiting(s, e.frame) /\ Asks2(frames, e.frame) /\ e.frame <= s.sent
      /\ s.writing # 0 => e.frame < s.writing
      /\ \A i \in DOMAIN t.asked : e.frame < t.asked[i]
  <2>1. /\ Waiting(s, e.frame) /\ Asks2(frames, e.frame)
        /\ s.writing # 0 => e.frame < s.writing
        /\ \A j \in DOMAIN s.asked : 1 < j => e.frame < s.asked[j]
    BY <1>1, <1>5 DEF AskedFor
  <2>2. ASSUME NEW i \in DOMAIN t.asked PROVE e.frame < t.asked[i]
    <3>1. i + 1 \in DOMAIN s.asked /\ t.asked[i] = s.asked[i + 1] /\ 1 < i + 1
      BY <1>1
    <3> QED
      BY <2>1, <3>1
  <2> QED
    BY <1>5, <2>1, <2>2, WaitingSent
<1>10. t.last = e /\ Events(t) \subseteq Events(s) \cup {e}
  BY <1>0, <1>4, SMTT(30) DEF Events
<1>11. \A a \in Events(s) : a \in Terminals /\ a.id <= s.produced
  <2>1. ASSUME NEW k \in DOMAIN s.events PROVE s.events[k] \in Terminals /\ s.events[k].id <= s.produced
    BY <1>2, <1>5, SeqDomain, EventKinds DEF OneEach, Turns
  <2> QED
    BY <2>1 DEF Events, Turns
<1>12. OneEach(t)
  <2>1. \A a \in Events(s) : a.id # e.id /\ a.frame # e.frame
    <3>1. ASSUME NEW a \in Events(s) PROVE a.id # e.id /\ a.frame # e.frame
      <4>1. a.id \in Nat /\ a.frame \in Nat /\ a.id <= s.produced
        BY <1>11 DEF Terminals
      <4>2. a.frame < s.asked[1]
        BY <1>1, <1>5 DEF OneEach
      <4> QED
        BY <1>0, <1>1, <1>2, <4>1, <4>2
    <3> QED
      BY <3>1
  <2>2. \A a \in Events(t) : \A b \in Events(t) : a.id = b.id <=> a.frame = b.frame
    BY <1>5, <1>10, <2>1 DEF OneEach
  <2>3. ASSUME NEW a \in Events(s)
        PROVE  /\ a.frame <= s.sent /\ (s.writing # 0 => a.frame < s.writing)
               /\ \A i \in DOMAIN t.asked : a.frame < t.asked[i]
    <3>1. \A i \in DOMAIN t.asked : i + 1 \in DOMAIN s.asked /\ t.asked[i] = s.asked[i + 1]
      BY <1>1
    <3> QED
      BY <1>5, <3>1 DEF OneEach
  <2>4. \A k \in DOMAIN t.events : t.events[k].type = "terminal"
    BY <1>0, <1>4, <1>5 DEF OneEach
  <2> QED
    BY <1>3, <1>9, <1>10, <2>2, <2>3, <2>4 DEF OneEach
<1>13. ASSUME NEW f, Answering(s, f) PROVE Answering(t, f)
  BY <1>3, <1>4, <1>13 DEF Answering
<1>14. Answering(t, e.frame)
  <2>1. e.id \notin s.seenTurns
    BY <1>2 DEF Turns
  <2>2. N + 1 \in DOMAIN t.events /\ Unseen(t, t.events[N + 1])
    <3>1. N + 1 \in 1..N + 1
      BY <1>4
    <3>2. Unseen(t, e)
      BY <1>0, <1>3, <2>1 DEF Unseen
    <3> QED
      BY <1>4, <3>1, <3>2
  <2>3. Queued(t, N + 1)
    BY <2>2 DEF Queued
  <2> QED
    BY <1>4, <2>2, <2>3 DEF Answering
<1>15. ASSUME "runtime" \in t.pumps PROVE InTurn(t, frames)
  <2>1. /\ \A j \in DOMAIN s.events : Queued(s, j) =>
             /\ Waiting(s, s.events[j].frame) /\ Asks2(frames, s.events[j].frame)
             /\ \A f \in Nat : Waiting(s, f) /\ f < s.events[j].frame
                  => \E k \in 1..j - 1 : Queued(s, k) /\ s.events[k].frame = f
        /\ \A i \in DOMAIN s.asked : \A f \in Nat : Waiting(s, f) /\ f < s.asked[i]
             => (\E k \in 1..i - 1 : s.asked[k] = f) \/ Answering(s, f)
        /\ "client" \in s.pumps => \A f \in Nat : Waiting(s, f)
             => f = s.writing \/ (\E k \in DOMAIN s.asked : s.asked[k] = f) \/ Answering(s, f)
    BY <1>3, <1>5, <1>15 DEF InTurn
  <2>2. ASSUME NEW j \in DOMAIN t.events, Queued(t, j)
        PROVE  /\ Waiting(t, t.events[j].frame) /\ Asks2(frames, t.events[j].frame)
               /\ \A f \in Nat : Waiting(t, f) /\ f < t.events[j].frame
                    => \E k \in 1..j - 1 : Queued(t, k) /\ t.events[k].frame = f
    <3>1. CASE j \in DOMAIN s.events
      <4>1. Queued(s, j) /\ t.events[j] = s.events[j]
        BY <1>3, <1>4, <2>2, <3>1
      <4>2. \A k \in 1..j - 1 : k \in DOMAIN s.events
        BY <1>4, <3>1
      <4>3. ASSUME NEW f \in Nat, Waiting(s, f), f < s.events[j].frame
            PROVE  \E k \in 1..j - 1 : Queued(t, k) /\ t.events[k].frame = f
        <5>1. PICK k \in 1..j - 1 : Queued(s, k) /\ s.events[k].frame = f
          BY <2>1, <3>1, <4>1, <4>3
        <5> QED
          BY <1>3, <1>4, <4>2, <5>1
      <4> QED
        BY <1>7, <2>1, <3>1, <4>1, <4>3
    <3>2. CASE j = N + 1
      <4>1. ASSUME NEW f \in Nat, Waiting(s, f), f < e.frame
            PROVE  \E k \in 1..j - 1 : Queued(t, k) /\ t.events[k].frame = f
        <5>1. Answering(s, f)
          <6>1. (\E k \in 1..1 - 1 : s.asked[k] = f) \/ Answering(s, f)
            BY <1>1, <2>1, <4>1
          <6> QED
            BY <6>1
        <5>2. PICK k \in DOMAIN s.events : Queued(s, k) /\ s.events[k].frame = f
          BY <5>1 DEF Answering
        <5>3. k \in 1..j - 1
          BY <1>4, <3>2
        <5> QED
          BY <1>3, <1>4, <5>2, <5>3
      <4> QED
        BY <1>4, <1>7, <1>9, <3>2, <4>1
    <3> QED
      <4>1. N \in Nat /\ j \in 1..N + 1 /\ DOMAIN s.events = 1..N
        BY <1>4
      <4>2. j \in DOMAIN s.events \/ j = N + 1
        BY <4>1
      <4> QED
        BY <3>1, <3>2, <4>2
  <2>3. ASSUME NEW i \in DOMAIN t.asked, NEW f \in Nat, Waiting(t, f), f < t.asked[i]
        PROVE  (\E k \in 1..i - 1 : t.asked[k] = f) \/ Answering(t, f)
    <3>1. i + 1 \in DOMAIN s.asked /\ t.asked[i] = s.asked[i + 1] /\ i \in 1..M - 1
      BY <1>1, SMTT(30)
    <3>2. (\E k \in 1..(i + 1) - 1 : s.asked[k] = f) \/ Answering(s, f)
      BY <1>7, <2>1, <2>3, <3>1
    <3>3. ASSUME NEW k \in 1..(i + 1) - 1, s.asked[k] = f, k # 1 PROVE \E l \in 1..i - 1 : t.asked[l] = f
      <4>1. k - 1 \in 1..i - 1 /\ k - 1 \in 1..M - 1 /\ (k - 1) + 1 = k
        BY <1>1, <3>1, <3>3
      <4>2. t.asked[k - 1] = s.asked[k]
        BY <1>1, <4>1
      <4> QED
        BY <3>3, <4>1, <4>2
    <3> QED
      BY <1>1, <1>13, <1>14, <3>2, <3>3
  <2>4. ASSUME "client" \in t.pumps, NEW f \in Nat, Waiting(t, f)
        PROVE  f = t.writing \/ (\E k \in DOMAIN t.asked : t.asked[k] = f) \/ Answering(t, f)
    <3>1. f = s.writing \/ (\E k \in DOMAIN s.asked : s.asked[k] = f) \/ Answering(s, f)
      BY <1>3, <1>7, <2>1, <2>4
    <3>2. ASSUME NEW k \in DOMAIN s.asked, s.asked[k] = f, k # 1 PROVE \E l \in DOMAIN t.asked : t.asked[l] = f
      <4>1. k - 1 \in 1..M - 1 /\ (k - 1) + 1 = k
        BY <1>1, <3>2
      <4>2. t.asked[k - 1] = s.asked[k] /\ k - 1 \in DOMAIN t.asked
        BY <1>1, <4>1
      <4> QED
        BY <3>2, <4>2
    <3> QED
      BY <1>1, <1>3, <1>13, <1>14, <3>1, <3>2, ZenonT(30)
  <2> QED
    BY <2>2, <2>3, <2>4 DEF InTurn
<1>16. InTurn(t, frames)
  BY <1>15 DEF InTurn
<1> QED
  BY <1>3, <1>6, <1>8, <1>12, <1>16 DEF SocketOK

(* The last event comes again: right behind itself, unless it was stored.  *)
LEMMA RepeatKeeps ==
    ASSUME NEW s, NEW t, NEW frames, SessionShape(s), Turns(s), s.last # NoEvent,
           Alters(s, t, {"events", "last", "asked", "produced"}), t.asked = s.asked,
           t.events = s.events \o <<s.last>>, t.last = <<s.last>>[Len(<<s.last>>)],
           t.produced = s.produced + 1
    PROVE  /\ SessionShape(t) /\ Turns(t)
           /\ Announced(s) => Announced(t)
           /\ SocketOK(s, frames) => SocketOK(t, frames)
<1> DEFINE N == Len(s.events)
           e == s.last
<1>e. e \in Terminals /\ e.id <= s.produced
  BY DEF Turns
<1>0. /\ <<e>> \in Seq(EventType) /\ <<e>> # <<>> /\ Len(<<e>>) = 1 /\ <<e>>[1] = e
      /\ e.type = "terminal" /\ e.id \in Nat /\ e.frame \in Nat
  BY <1>e, OneEvent
<1>1. s.asked \in Seq(Nat)
  BY AskedNat
<1>2. s.produced \in Nat /\ s.seenTurns \subseteq Nat /\ s.events \in Seq(EventType)
  BY DEF SessionShape
<1>3. /\ SessionShape(t) /\ Turns(t)
      /\ t.current = s.current /\ t.active = s.active /\ t.pending = s.pending
      /\ t.seenTurns = s.seenTurns /\ t.sent = s.sent /\ t.pumps = s.pumps /\ t.writing = s.writing
      /\ \A k \in DOMAIN s.events : Queued(s, k) <=> Queued(t, k)
  <2>1. \A i \in 1..Len(<<e>>) : <<e>>[i].type = "terminal" => <<e>>[i].id <= s.produced + 1
    BY <1>e, <1>0, <1>2
  <2>2. <<e>>[Len(<<e>>)] \in Terminals
    BY <1>e, <1>0
  <2> QED
    BY <1>0, <1>1, <2>1, <2>2, ProduceTurns
<1>4. /\ N \in Nat /\ DOMAIN s.events = 1..N /\ DOMAIN t.events = 1..N + 1
      /\ \A i \in DOMAIN s.events : t.events[i] = s.events[i] /\ i \in DOMAIN t.events
      /\ t.events[N + 1] = e
  BY <1>0, ProducedLast
<1>5. ASSUME "runtime" \in s.pumps, Queued(t, N + 1) PROVE N \in DOMAIN s.events /\ s.events[N] = e /\ Queued(s, N)
  <2>1. Unseen(s, e)
    BY <1>3, <1>4, <1>5 DEF Queued, Unseen
  <2>2. s.events # <<>> /\ s.events[N] = e
    BY <1>5, <2>1 DEF Turns
  <2>3. N # 0
    BY <1>2, <2>2, SeqDomain
  <2> HIDE DEF N
  <2>4. N \in DOMAIN s.events
    <3>1. N \in 1..N
      BY <1>4, <2>3
    <3> QED
      BY <1>4, <3>1
  <2> QED
    BY <2>1, <2>2, <2>4 DEF Queued
<1> HIDE DEF N
<1>6. ASSUME Announced(s) PROVE Announced(t)
  <2> SUFFICES ASSUME "runtime" \in t.pumps, NEW j \in DOMAIN t.events, Queued(t, j)
               PROVE IF j = 1 THEN t.active
                     ELSE \/ t.events[j - 1].type = "created"
                          \/ t.events[j - 1].type = "terminal" /\ t.events[j - 1].id = t.events[j].id
    BY DEF Announced
  <2>1. CASE j \in DOMAIN s.events
    BY <1>3, <1>4, <1>6, <2>1 DEF Announced
  <2>2. CASE j = N + 1
    <3>1. N \in DOMAIN s.events /\ s.events[N] = e
      BY <1>3, <1>5, <2>2
    <3>2. N \in Nat /\ N # 0
      BY <1>4, <3>1
    <3>3. j # 1 /\ j - 1 = N
      BY <2>2, <3>2
    <3> QED
      BY <1>0, <1>4, <2>2, <3>1, <3>3
  <2>3. j \in DOMAIN s.events \/ j = N + 1
    BY <1>4
  <2> QED
    BY <2>1, <2>2, <2>3
<1>7. ASSUME SocketOK(s, frames) PROVE SocketOK(t, frames)
  <2>1. InOrder(s, frames) /\ AskedFor(s, frames) /\ OneEach(s) /\ InTurn(s, frames)
    BY <1>7 DEF SocketOK
  <2>2. InOrder(t, frames)
    BY <1>3, <2>1 DEF InOrder, Latest
  <2>3. \A f : Waiting(t, f) <=> Waiting(s, f)
    BY <1>3 DEF Waiting
  <2>4. AskedFor(t, frames)
    BY <1>3, <2>1, <2>3 DEF AskedFor
  <2>5. \A k \in DOMAIN t.events : k \in DOMAIN s.events \/ k = N + 1
    BY <1>4
  <2>6. OneEach(t)
    <3>1. t.last = e /\ Events(t) \subseteq Events(s)
      BY <1>0, <1>4, <2>5 DEF Events
    <3>2. \A k \in DOMAIN t.events : t.events[k].type = "terminal"
      BY <1>0, <1>4, <2>1, <2>5 DEF OneEach
    <3> QED
      BY <1>3, <2>1, <3>1, <3>2 DEF OneEach
  <2>7. ASSUME NEW f, Answering(s, f) PROVE Answering(t, f)
    BY <1>3, <1>4, <2>7 DEF Answering
  <2>8. ASSUME "runtime" \in t.pumps, NEW j \in DOMAIN t.events, Queued(t, j)
        PROVE  /\ Waiting(t, t.events[j].frame) /\ Asks2(frames, t.events[j].frame)
               /\ \A f \in Nat : Waiting(t, f) /\ f < t.events[j].frame
                    => \E k \in 1..j - 1 : Queued(t, k) /\ t.events[k].frame = f
    <3>1. PICK i \in DOMAIN s.events : Queued(s, i) /\ i <= j /\ t.events[j] = s.events[i]
      <4>1. CASE j \in DOMAIN s.events
        BY <1>3, <1>4, <2>8, <4>1
      <4>2. CASE j = N + 1
        <5>1. N \in DOMAIN s.events /\ s.events[N] = e /\ Queued(s, N)
          BY <1>3, <1>5, <2>8, <4>2
        <5>2. N <= j
          BY <1>4, <4>2
        <5> QED
          BY <1>4, <4>2, <5>1, <5>2
      <4> QED
        BY <2>5, <4>1, <4>2
    <3>2. /\ Waiting(s, s.events[i].frame) /\ Asks2(frames, s.events[i].frame)
          /\ \A f \in Nat : Waiting(s, f) /\ f < s.events[i].frame
               => \E k \in 1..i - 1 : Queued(s, k) /\ s.events[k].frame = f
      BY <1>3, <2>1, <2>8, <3>1 DEF InTurn
    <3>3. ASSUME NEW f \in Nat, Waiting(t, f), f < t.events[j].frame
          PROVE  \E k \in 1..j - 1 : Queued(t, k) /\ t.events[k].frame = f
      <4>1. PICK k \in 1..i - 1 : Queued(s, k) /\ s.events[k].frame = f
        BY <2>3, <3>1, <3>2, <3>3
      <4>2. k \in 1..j - 1
        BY <1>4, <3>1, <4>1
      <4>3. k \in DOMAIN s.events
        BY <4>1 DEF Queued
      <4> QED
        BY <1>3, <1>4, <4>1, <4>2, <4>3
    <3> QED
      BY <2>3, <3>1, <3>2, <3>3
  <2>9. InTurn(t, frames)
    BY <1>3, <2>1, <2>3, <2>7, <2>8 DEF InTurn
  <2> QED
    BY <2>2, <2>4, <2>6, <2>9 DEF SocketOK
<1> QED
  BY <1>3, <1>6, <1>7

(* A Realtime response is announced before it ends.                        *)
LEMMA AnnounceKeeps ==
    ASSUME NEW s, NEW t, SessionShape(s), Turns(s), Announced(s), NEW asked \in Seq(Nat),
           NEW e \in Terminals, e.id = s.produced + 1,
           NEW c \in EventType, c.type = "created",
           Alters(s, t, {"events", "last", "asked", "produced"}), t.asked = asked,
           t.events = s.events \o <<c, e>>, t.last = <<c, e>>[Len(<<c, e>>)], t.produced = s.produced + 1
    PROVE  SessionShape(t) /\ Turns(t) /\ Announced(t)
<1> DEFINE N == Len(s.events)
           new == <<c, e>>
<1>0. /\ new \in Seq(EventType) /\ new # <<>> /\ Len(new) = 2 /\ new[1] = c /\ new[2] = e
  BY DEF EventType
<1>1. e.type = "terminal" /\ e.id \in Nat /\ s.produced \in Nat
  BY OneEvent DEF SessionShape
<1> HIDE DEF new
<1>2. \A i \in 1..Len(new) : new[i].type = "terminal" => new[i].id <= s.produced + 1
  BY <1>0, <1>1
<1>3. /\ SessionShape(t) /\ Turns(t) /\ t.active = s.active /\ t.pumps = s.pumps
      /\ \A k \in DOMAIN s.events : Queued(s, k) <=> Queued(t, k)
  BY <1>0, <1>2, ProduceTurns DEF new
<1>4. /\ N \in Nat /\ DOMAIN s.events = 1..N /\ DOMAIN t.events = 1..N + 2
      /\ \A i \in DOMAIN s.events : t.events[i] = s.events[i] /\ i \in DOMAIN t.events
      /\ t.events[N + 1] = c /\ t.events[N + 2] = e
  <2>1. /\ N \in Nat /\ DOMAIN s.events = 1..N
        /\ DOMAIN t.events = 1..N + Len(new)
        /\ \A i \in DOMAIN s.events : t.events[i] = s.events[i] /\ i \in DOMAIN t.events
        /\ \A i \in 1..Len(new) : t.events[N + i] = new[i]
    <3>1. t.events = s.events \o new
      BY DEF new
    <3> QED
      BY <1>0, <3>1, ProducedLast
  <2> QED
    BY <1>0, <2>1
<1> HIDE DEF N
<1>5. Announced(t)
  <2> SUFFICES ASSUME "runtime" \in t.pumps, NEW j \in DOMAIN t.events, Queued(t, j)
               PROVE IF j = 1 THEN t.active
                     ELSE \/ t.events[j - 1].type = "created"
                          \/ t.events[j - 1].type = "terminal" /\ t.events[j - 1].id = t.events[j].id
    BY DEF Announced
  <2>1. CASE j \in DOMAIN s.events
    <3>1. Queued(s, j) /\ t.events[j] = s.events[j]
      BY <1>3, <1>4, <2>1
    <3>2. j # 1 => j - 1 \in DOMAIN s.events
      BY <1>4, <2>1
    <3> QED
      BY <1>3, <1>4, <2>1, <3>1, <3>2 DEF Announced
  <2>2. CASE j = N + 1
    BY <1>4, <2>2 DEF Queued, Unseen
  <2>3. CASE j = N + 2
    <3>1. N \in Nat
      BY <1>4
    <3>2. j # 1 /\ j - 1 = N + 1
      BY <2>3, <3>1
    <3> QED
      BY <1>4, <3>2
  <2>4. j \in DOMAIN s.events \/ j = N + 1 \/ j = N + 2
    <3>1. N \in Nat /\ j \in 1..N + 2 /\ DOMAIN s.events = 1..N
      BY <1>4
    <3> QED
      BY <3>1
  <2> QED
    BY <2>1, <2>2, <2>3, <2>4
<1> QED
  BY <1>3, <1>5

LEMMA WriteUpstreamKeeps ==
    ASSUME NEW s, NEW t, NEW frames, SessionShape(s), Turns(s), s.writing # 0,
           Alters(s, t, {"writing", "asked"}), t.writing = 0,
           t.asked = (IF frames[s.writing].type = "create" THEN Append(s.asked, s.writing) ELSE s.asked)
    PROVE  /\ SessionShape(t) /\ Turns(t)
           /\ Announced(s) => Announced(t)
           /\ SocketOK(s, frames) => SocketOK(t, frames)
<1>1. /\ t.current = s.current /\ t.active = s.active /\ t.pending = s.pending
      /\ t.seenTurns = s.seenTurns /\ t.sent = s.sent /\ t.produced = s.produced
      /\ t.events = s.events /\ t.last = s.last /\ t.pumps = s.pumps /\ t.delivered = s.delivered
      /\ t.forwarding = s.forwarding /\ DOMAIN t = SessionFields
  BY DEF Alters, SessionFields
<1> DEFINE M == Len(s.asked)
           w == s.writing
<1>2. /\ s.asked \in Seq(Nat) /\ DOMAIN s.asked = 1..M /\ M \in Nat /\ w \in Nat
      /\ \A i \in DOMAIN s.asked : s.asked[i] \in Nat
  BY AskedNat DEF SessionShape
<1>3. /\ Append(s.asked, w) \in Seq(Nat) /\ DOMAIN Append(s.asked, w) = 1..M + 1
      /\ \A i \in 1..M : Append(s.asked, w)[i] = s.asked[i]
      /\ Append(s.asked, w)[M + 1] = w
  BY <1>2, SeqAppend
<1>4. t.asked \in Seq(Nat)
  BY <1>2, <1>3
<1>5. SessionShape(t)
  BY <1>1, <1>4 DEF SessionShape
<1>6. Turns(t)
  BY <1>1 DEF Turns, Unseen
<1>7. Announced(s) => Announced(t)
  BY <1>1 DEF Announced, Queued, Unseen
<1> HIDE DEF M, w
<1>8. ASSUME SocketOK(s, frames) PROVE SocketOK(t, frames)
  <2>1. InOrder(s, frames) /\ AskedFor(s, frames) /\ OneEach(s) /\ InTurn(s, frames)
    BY <1>8 DEF SocketOK
  <2>2. InOrder(t, frames)
    BY <1>1, <2>1 DEF InOrder, Latest
  <2>3. \A f : Waiting(t, f) <=> Waiting(s, f)
    BY <1>1 DEF Waiting
  <2>4. \A f : Answering(t, f) <=> Answering(s, f)
    BY <1>1 DEF Answering, Queued, Unseen
  <2>5. /\ w = s.writing /\ w # 0 /\ w = s.sent /\ "client" \in s.pumps /\ (frames[w].type = "create" <=> Waiting(s, w))
        /\ \A i \in DOMAIN s.asked : s.asked[i] < w
        /\ \A a \in Events(s) : a.frame < w
    BY <2>1 DEF w, AskedFor, OneEach
  <2>6. CASE frames[w].type = "create"
    <3>1. /\ DOMAIN t.asked = 1..M + 1 /\ M + 1 \in DOMAIN t.asked /\ t.asked[M + 1] = w
          /\ \A i \in DOMAIN s.asked : t.asked[i] = s.asked[i] /\ i \in DOMAIN t.asked
          /\ \A i \in DOMAIN t.asked : i \in DOMAIN s.asked \/ i = M + 1
      BY <1>2, <1>3, <2>5, <2>6
    <3>2. AskedFor(t, frames)
      <4>0. w \in DOMAIN frames
        BY <2>1, <2>5, <2>6, WaitingSent
      <4>1. \A i \in DOMAIN t.asked : Waiting(t, t.asked[i]) /\ Asks2(frames, t.asked[i])
        BY <2>1, <2>3, <2>5, <2>6, <3>1, <4>0 DEF AskedFor, Asks2
      <4>2. ASSUME NEW i \in DOMAIN t.asked, NEW j \in DOMAIN t.asked, i < j PROVE t.asked[i] < t.asked[j]
        <5>1. i \in DOMAIN s.asked
          BY <1>2, <3>1, <4>2
        <5>2. CASE j \in DOMAIN s.asked
          BY <2>1, <3>1, <4>2, <5>1, <5>2 DEF AskedFor
        <5>3. CASE j = M + 1
          BY <2>5, <3>1, <5>1, <5>3
        <5> QED
          BY <3>1, <5>2, <5>3
      <4> QED
        BY <4>1, <4>2 DEF AskedFor
    <3>3. OneEach(t)
      BY <1>1, <2>1, <2>5, <3>1 DEF Events, OneEach
    <3>4. ASSUME "client" \in t.pumps, "runtime" \in t.pumps, NEW f \in Nat, Waiting(t, f)
          PROVE  (\E k \in DOMAIN t.asked : t.asked[k] = f) \/ Answering(t, f)
      BY <1>1, <2>1, <2>3, <2>4, <2>5, <3>1, <3>4 DEF InTurn
    <3>5. ASSUME "runtime" \in t.pumps, NEW i \in DOMAIN t.asked, NEW f \in Nat, Waiting(t, f), f < t.asked[i]
          PROVE  (\E k \in 1..i - 1 : t.asked[k] = f) \/ Answering(t, f)
      <4>1. CASE i \in DOMAIN s.asked
        BY <1>1, <1>2, <2>1, <2>3, <2>4, <3>1, <3>5, <4>1 DEF InTurn
      <4>2. CASE i = M + 1
        <5>1. f # w
          BY <1>2, <3>1, <3>5, <4>2
        <5>2. (\E k \in DOMAIN s.asked : s.asked[k] = f) \/ Answering(s, f)
          BY <1>1, <2>1, <2>3, <2>5, <3>5, <5>1 DEF InTurn
        <5>3. \A k \in DOMAIN s.asked : k \in 1..i - 1
          BY <1>2, <4>2
        <5> QED
          BY <2>4, <3>1, <5>2, <5>3
      <4> QED
        BY <3>1, <4>1, <4>2
    <3>6. InTurn(t, frames)
      BY <1>1, <2>1, <2>3, <3>4, <3>5 DEF InTurn, Answering, Queued, Unseen
    <3> QED
      BY <2>2, <3>2, <3>3, <3>6 DEF SocketOK
  <2>7. CASE frames[w].type # "create"
    <3>1. t.asked = s.asked
      BY <2>5, <2>7
    <3>2. AskedFor(t, frames)
      BY <2>1, <2>3, <3>1 DEF AskedFor
    <3>3. OneEach(t)
      BY <1>1, <2>1, <3>1 DEF Events, OneEach
    <3>4. InTurn(t, frames)
      BY <1>1, <2>1, <2>3, <2>5, <2>7, <3>1 DEF InTurn, Answering, Queued, Unseen
    <3> QED
      BY <2>2, <3>2, <3>3, <3>4 DEF SocketOK
  <2> QED
    BY <2>6, <2>7
<1> QED
  BY <1>5, <1>6, <1>7, <1>8

-----------------------------------------------------------------------------
(* A frame of the client *)

LEMMA MaxIs ==
    ASSUME NEW S \in SUBSET Int, NEW m \in S, \A y \in S : m >= y
    PROVE  Max(S) = m
<1>1. \A x \in S : (\A y \in S : x >= y) => x = m
  OBVIOUS
<1> QED
  BY <1>1 DEF Max

(* A frame that names no model leaves the one in force.                    *)
LEMMA ModelAtNext ==
    ASSUME NEW frames, NEW n \in Nat, n # 0
    PROVE  ModelAt(frames, n + 1) =
             IF frames[n + 1].type = "create" /\ frames[n + 1].model # NoModel
               THEN frames[n + 1].model ELSE ModelAt(frames, n)
<1> DEFINE named(m) == {i \in 1..m : (i = 1 \/ frames[i].type = "create") /\ frames[i].model # NoModel}
<1>1. \A i \in 1..n + 1 : i \in 1..n \/ i = n + 1
  OBVIOUS
<1>2. n + 1 # 1 /\ n + 1 \in 1..n + 1 /\ \A i \in 1..n : i \in 1..n + 1
  OBVIOUS
<1>3. CASE frames[n + 1].type = "create" /\ frames[n + 1].model # NoModel
  <2>1. n + 1 \in named(n + 1)
    BY <1>2, <1>3
  <2>2. named(n + 1) \in SUBSET Int /\ \A y \in named(n + 1) : n + 1 >= y
    OBVIOUS
  <2>3. Max(named(n + 1)) = n + 1
    <3> HIDE DEF named
    <3> QED
      BY <2>1, <2>2, MaxIs
  <2>4. ModelAt(frames, n + 1) = frames[Max(named(n + 1))].model
    BY DEF ModelAt
  <2> HIDE DEF named
  <2> QED
    BY <1>3, <2>3, <2>4
<1>4. CASE ~(frames[n + 1].type = "create" /\ frames[n + 1].model # NoModel)
  <2>1. named(n + 1) = named(n)
    BY <1>1, <1>2, <1>4
  <2>2. ModelAt(frames, n + 1) = frames[Max(named(n + 1))].model /\ ModelAt(frames, n) = frames[Max(named(n))].model
    BY DEF ModelAt
  <2> HIDE DEF named
  <2> QED
    BY <1>4, <2>1, <2>2
<1> QED
  BY <1>3, <1>4

LEMMA JoinWaits ==
    ASSUME NEW s, NEW t, SessionShape(s), Turns(s), NEW step \in StepType, Joins(s, t, step)
    PROVE  /\ \A f : Waiting(t, f) <=> Waiting(s, f) \/ f = step.frame
           /\ t.active = TRUE /\ t.current \in StepType /\ t.pending \in Seq(StepType) /\ Latest(t) = step
<1>1. s.pending \in Seq(StepType) /\ s.current \in StepType /\ s.active \in BOOLEAN
  BY DEF SessionShape
<1> DEFINE N == Len(s.pending)
<1>2. CASE s.active
  <2>1. t.active = TRUE /\ t.current = s.current /\ t.pending = Append(s.pending, step)
    BY <1>2 DEF Joins
  <2>2. /\ t.pending \in Seq(StepType) /\ Len(t.pending) = N + 1 /\ N \in Nat
        /\ DOMAIN s.pending = 1..N /\ DOMAIN t.pending = 1..N + 1
        /\ \A i \in 1..N : t.pending[i] = s.pending[i]
        /\ t.pending[N + 1] = step
    BY <1>1, <2>1, SeqAppend
  <2>3. t.pending # <<>> /\ Latest(t) = step
    BY <2>2, SeqDomain DEF Latest
  <2> HIDE DEF N
  <2>4. /\ \A i \in DOMAIN t.pending : i \in DOMAIN s.pending \/ i = N + 1
        /\ \A i \in DOMAIN s.pending : i \in DOMAIN t.pending /\ t.pending[i] = s.pending[i]
        /\ N + 1 \in DOMAIN t.pending
    BY <2>2
  <2>5. \A f : Waiting(t, f) <=> Waiting(s, f) \/ f = step.frame
    BY <1>2, <2>1, <2>2, <2>4 DEF Waiting
  <2> QED
    BY <1>1, <2>1, <2>2, <2>3, <2>5
<1>3. CASE ~s.active
  BY <1>1, <1>3 DEF Joins, Turns, Waiting, Latest
<1> QED
  BY <1>1, <1>2, <1>3

(* What a frame of the client leaves alone.                                *)
FrameTaken(s, t) ==
    /\ t.seenTurns = s.seenTurns /\ t.asked = s.asked /\ t.produced = s.produced /\ t.events = s.events
    /\ t.last = s.last /\ t.delivered = s.delivered /\ t.forwarding = s.forwarding
    /\ t.sent = s.sent + 1 /\ s.writing = 0 /\ DOMAIN t = SessionFields
    /\ \/ t.writing = s.sent + 1 /\ t.pumps = s.pumps /\ "client" \in t.pumps
       \/ t.writing = 0 /\ t.pumps = s.pumps \ {"client"}

LEMMA JoinTurns ==
    ASSUME NEW s, NEW t, SessionShape(s), Turns(s), NEW step \in StepType, Joins(s, t, step), FrameTaken(s, t)
    PROVE  SessionShape(t) /\ Turns(t) /\ (Announced(s) => Announced(t))
<1>1. t.active = TRUE /\ t.current \in StepType /\ t.pending \in Seq(StepType)
  BY JoinWaits
<1>2. t.sent \in Nat /\ t.writing \in Nat
  BY DEF SessionShape, FrameTaken
<1>3. t.pumps \subseteq s.pumps /\ ("runtime" \in t.pumps <=> "runtime" \in s.pumps)
  BY DEF FrameTaken
<1>4. SessionShape(t)
  BY <1>1, <1>2, <1>3 DEF SessionShape, FrameTaken
<1>5. Turns(t)
  BY <1>1, <1>3 DEF Turns, FrameTaken, Unseen
<1>6. Announced(s) => Announced(t)
  BY <1>1, <1>3 DEF Announced, FrameTaken, Queued, Unseen
<1> QED
  BY <1>4, <1>5, <1>6

LEMMA JoinInOrder ==
    ASSUME NEW s, NEW t, NEW frames, SessionShape(s), Turns(s), InOrder(s, frames),
           NEW step \in StepType, Joins(s, t, step), t.sent = s.sent + 1, s.sent < Len(frames),
           Len(frames) \in Nat,
           step.frame = s.sent + 1, StepFits(frames, step),
           "client" \in t.pumps => step.model = ModelAt(frames, t.sent)
    PROVE  InOrder(t, frames)
<1>1. s.pending \in Seq(StepType) /\ s.current \in StepType /\ s.active \in BOOLEAN /\ s.sent \in Nat
  BY DEF SessionShape
<1>2. s.current.frame \in Nat /\ \A i \in DOMAIN s.pending : s.pending[i].frame \in Nat
  <2>1. \A i \in DOMAIN s.pending : s.pending[i] \in StepType
    BY <1>1, SeqDomain
  <2> QED
    BY <1>1, <2>1 DEF StepType
<1>3. t.sent \in 1..Len(frames)
  BY <1>1
<1>4. Latest(t) = step
  BY JoinWaits
<1>5. /\ s.active => s.current.frame <= s.sent /\ StepFits(frames, s.current)
      /\ \A i \in DOMAIN s.pending :
           /\ s.current.frame < s.pending[i].frame /\ s.pending[i].frame <= s.sent
           /\ StepFits(frames, s.pending[i])
           /\ \A j \in DOMAIN s.pending : i < j => s.pending[i].frame < s.pending[j].frame
  BY DEF InOrder
<1> DEFINE N == Len(s.pending)
<1>6. CASE s.active
  <2>1. t.active = TRUE /\ t.current = s.current /\ t.pending = Append(s.pending, step)
    BY <1>6 DEF Joins
  <2>2. /\ N \in Nat /\ DOMAIN s.pending = 1..N /\ DOMAIN t.pending = 1..N + 1
        /\ \A i \in 1..N : t.pending[i] = s.pending[i]
        /\ t.pending[N + 1] = step
    BY <1>1, <2>1, SeqAppend
  <2> HIDE DEF N
  <2>3. /\ \A i \in DOMAIN t.pending : i \in DOMAIN s.pending \/ i = N + 1
        /\ \A i \in DOMAIN s.pending : i \in DOMAIN t.pending /\ t.pending[i] = s.pending[i] /\ i \in Nat
    BY <2>2
  <2>4. ASSUME NEW i \in DOMAIN t.pending
        PROVE  /\ t.current.frame < t.pending[i].frame /\ t.pending[i].frame <= t.sent
               /\ StepFits(frames, t.pending[i])
               /\ \A j \in DOMAIN t.pending : i < j => t.pending[i].frame < t.pending[j].frame
    <3>1. CASE i \in DOMAIN s.pending
      <4>1. t.pending[i] = s.pending[i] /\ s.pending[i].frame \in Nat
        BY <1>2, <2>3, <3>1
      <4>2. ASSUME NEW j \in DOMAIN t.pending, i < j PROVE t.pending[i].frame < t.pending[j].frame
        <5>1. CASE j \in DOMAIN s.pending
          BY <1>5, <2>3, <3>1, <4>2, <5>1
        <5>2. CASE j = N + 1
          BY <1>1, <1>5, <2>2, <3>1, <4>1, <5>2
        <5> QED
          BY <2>3, <5>1, <5>2
      <4>3. t.pending[i].frame <= t.sent
        BY <1>1, <1>5, <3>1, <4>1
      <4> QED
        BY <1>5, <2>1, <3>1, <4>1, <4>2, <4>3
    <3>2. CASE i = N + 1
      BY <1>1, <1>2, <1>5, <1>6, <2>1, <2>2, <3>2
    <3> QED
      BY <2>3, <3>1, <3>2
  <2>5. t.current.frame <= t.sent /\ StepFits(frames, t.current)
    BY <1>1, <1>2, <1>5, <1>6, <2>1
  <2> QED
    BY <1>3, <1>4, <2>4, <2>5 DEF InOrder
<1>7. CASE ~s.active
  <2>1. t.active = TRUE /\ t.current = step /\ t.pending = s.pending
    BY <1>7 DEF Joins
  <2>2. DOMAIN t.pending = {}
    BY <1>7, <2>1 DEF Turns
  <2>3. t.current.frame <= t.sent /\ StepFits(frames, t.current)
    BY <1>1, <2>1
  <2> QED
    BY <1>3, <1>4, <2>2, <2>3 DEF InOrder
<1> QED
  BY <1>1, <1>6, <1>7

LEMMA EventsTerminal ==
    ASSUME NEW s, SessionShape(s), Turns(s), OneEach(s), NEW a \in Events(s)
    PROVE  a \in Terminals /\ a.frame \in Nat /\ a.id \in Nat
<1>1. ASSUME NEW k \in DOMAIN s.events PROVE s.events[k] \in Terminals
  BY SeqDomain, EventKinds DEF SessionShape, OneEach
<1>2. a \in Terminals
  BY <1>1 DEF Events, Turns
<1> QED
  BY <1>2 DEF Terminals

(* A frame that was taken, whether it waits for an answer or not.          *)
LEMMA FrameKeeps ==
    ASSUME NEW s, NEW t, NEW frames, SessionShape(s), Turns(s), SocketOK(s, frames), FrameTaken(s, t),
           NEW joins \in BOOLEAN, \A f : Waiting(t, f) <=> Waiting(s, f) \/ (joins /\ f = s.sent + 1),
           t.writing # 0 => (joins <=> frames[s.sent + 1].type = "create"),
           InOrder(t, frames), DOMAIN frames = 1..Len(frames)
    PROVE  SocketOK(t, frames)
<1> DEFINE n == s.sent + 1
<1>1. InOrder(s, frames) /\ AskedFor(s, frames) /\ OneEach(s) /\ InTurn(s, frames)
  BY DEF SocketOK
<1>2. s.sent \in Nat /\ n \in Nat /\ n # 0 /\ t.sent = n /\ s.writing = 0
  BY DEF SessionShape, FrameTaken
<1>3. /\ t.seenTurns = s.seenTurns /\ t.asked = s.asked /\ t.events = s.events /\ t.last = s.last
      /\ t.writing # 0 => t.writing = n /\ "client" \in t.pumps
      /\ "client" \in t.pumps => t.writing = n /\ "client" \in s.pumps
      /\ "runtime" \in t.pumps => "runtime" \in s.pumps
  BY <1>2 DEF FrameTaken
<1>4. /\ \A f : Waiting(t, f) <=> Waiting(s, f) \/ (joins /\ f = n)
      /\ t.writing # 0 => (joins <=> frames[n].type = "create")
  OBVIOUS
<1>5. \A f : Waiting(s, f) => f # n /\ f # 0
  <2>1. ASSUME NEW f, Waiting(s, f) PROVE f \in Nat
    <3>1. \A i \in DOMAIN s.pending : s.pending[i] \in StepType
      BY SeqDomain DEF SessionShape
    <3>2. s.current \in StepType
      BY DEF SessionShape
    <3> QED
      BY <2>1, <3>1, <3>2 DEF Waiting, StepType
  <2>2. ASSUME NEW f, Waiting(s, f) PROVE f <= s.sent /\ f # 0
    BY <1>1, <2>2, WaitingSent
  <2> QED
    BY <1>2, <2>1, <2>2
<1>6. \A i \in DOMAIN s.asked : s.asked[i] < n /\ s.asked[i] \in Nat
  BY <1>1, <1>2, AskedNat, WaitingSent DEF AskedFor
<1>7. \A a \in Events(s) : a.frame < n /\ a.frame <= n /\ a.frame \in Nat
  BY <1>1, <1>2, EventsTerminal DEF OneEach
<1> HIDE DEF n
<1>8. AskedFor(t, frames)
  BY <1>1, <1>2, <1>3, <1>4, <1>5, <1>6 DEF AskedFor
<1>9. OneEach(t)
  BY <1>1, <1>2, <1>3, <1>7 DEF Events, OneEach
<1>10. \A f : Answering(s, f) <=> Answering(t, f)
  BY <1>3 DEF Answering, Queued, Unseen
<1>11. \A k : Queued(s, k) <=> Queued(t, k)
  BY <1>3 DEF Queued, Unseen
<1>12. ASSUME "runtime" \in t.pumps, NEW j \in DOMAIN t.events, Queued(t, j)
       PROVE  /\ Waiting(t, t.events[j].frame) /\ Asks2(frames, t.events[j].frame)
              /\ \A f \in Nat : Waiting(t, f) /\ f < t.events[j].frame
                   => \E k \in 1..j - 1 : Queued(t, k) /\ t.events[k].frame = f
  <2>1. /\ Waiting(s, s.events[j].frame) /\ Asks2(frames, s.events[j].frame)
        /\ \A f \in Nat : Waiting(s, f) /\ f < s.events[j].frame
             => \E k \in 1..j - 1 : Queued(s, k) /\ s.events[k].frame = f
    BY <1>1, <1>3, <1>11, <1>12 DEF InTurn
  <2>2. s.events[j].frame < n /\ s.events[j].frame \in Nat
    BY <1>3, <1>7 DEF Events
  <2>3. ASSUME NEW f \in Nat, Waiting(t, f), f < t.events[j].frame
        PROVE  \E k \in 1..j - 1 : Queued(t, k) /\ t.events[k].frame = f
    BY <1>2, <1>3, <1>4, <1>11, <2>1, <2>2, <2>3
  <2> QED
    BY <1>3, <1>4, <2>1, <2>3
<1>13. ASSUME "runtime" \in t.pumps, NEW i \in DOMAIN t.asked, NEW f \in Nat, Waiting(t, f), f < t.asked[i]
       PROVE  (\E k \in 1..i - 1 : t.asked[k] = f) \/ Answering(t, f)
  BY <1>1, <1>2, <1>3, <1>4, <1>6, <1>10, <1>13 DEF InTurn
<1>14. ASSUME "runtime" \in t.pumps, "client" \in t.pumps, NEW f \in Nat, Waiting(t, f)
       PROVE  f = t.writing \/ (\E k \in DOMAIN t.asked : t.asked[k] = f) \/ Answering(t, f)
  BY <1>1, <1>2, <1>3, <1>4, <1>5, <1>10, <1>14 DEF InTurn
<1>15. InTurn(t, frames)
  BY <1>12, <1>13, <1>14 DEF InTurn
<1> QED
  BY <1>8, <1>9, <1>15 DEF SocketOK

-----------------------------------------------------------------------------
(* The sessions, step by step *)

LEMMA FramesOf ==
    ASSUME Shape, NEW r \in Requests, reqs[r].ask.kind \in Sockets
    PROVE  /\ Frames(r) \in Seq(FrameType) /\ Len(Frames(r)) \in Nat
           /\ DOMAIN Frames(r) = 1..Len(Frames(r))
           /\ \A i \in DOMAIN Frames(r) : Frames(r)[i] \in FrameType
<1>1. Frames(r) \in Seq(FrameType)
  BY FramesAssumption DEF Shape, Frames, FrameType, AnyModel
<1> QED
  BY <1>1, SeqDomain

(* How the request of a session moves on when the session does not.        *)
PcStep(q) ==
    /\ reqs'[q].pc \in Before => reqs[q].pc \in Before
    /\ reqs'[q].pc \in {"upgrade", "dial", "session"} => reqs[q].ask.kind \in Sockets
    /\ reqs'[q].pc \in HttpOnly => reqs[q].ask.kind \notin Sockets
    /\ reqs'[q].pc \in {"dial", "session"} => reqs'[q].pc = reqs[q].pc
    /\ reqs[q].pc = "done" => reqs'[q].pc = "done"

(* A row is added only when a request is done.                             *)
RowStep(q) ==
    /\ logs \subseteq logs'
    /\ \A row \in logs' \ logs : row.request = q =>
         row.turn = 0 /\ reqs'[q].pc = "done" /\ reqs[q].ask.kind \notin Sockets

LEMMA Unmoved ==
    ASSUME NEW q \in Requests, OneSession(q), ws'[q] = ws[q], reqs'[q].ask = reqs[q].ask, PcStep(q), RowStep(q)
    PROVE  OneSession(q)'
<1>1. SessionShape(ws'[q]) /\ Turns(ws'[q])
  BY DEF OneSession
<1>2. Stored(q)'
  <2>1. \A id \in ws'[q].seenTurns : \E row \in logs' : row.request = q /\ row.turn = id
    BY DEF OneSession, Stored, RowStep
  <2>2. ASSUME NEW row \in logs', row.request = q
        PROVE  /\ row.turn = 0 => reqs'[q].pc = "done" /\ reqs'[q].ask.kind \notin Sockets
               /\ row.turn # 0 => reqs'[q].ask.kind \in Sockets
               /\ row.turn # 0 /\ "runtime" \in ws'[q].pumps => row.turn \in ws'[q].seenTurns
    BY <2>2 DEF OneSession, Stored, PcStep, RowStep
  <2> QED
    BY <2>1, <2>2 DEF Stored
<1>3. InPlace(q)'
  BY DEF Realtime, Frames, OneSession, InPlace, PcStep
<1>4. (Open(q) => Kept(q, ws[q]))'
  BY DEF OneSession, PcStep, Open, At2, Kept, Realtime, Frames
<1>5. TurnsFit(q, ws[q])'
  BY DEF OneSession, TurnsFit, Frames
<1> QED
  BY <1>1, <1>2, <1>3, <1>4, <1>5 DEF OneSession

(* A request that stays as it is.                                          *)
LEMMA StaysPut ==
    ASSUME NEW q \in Requests, OneSession(q), reqs'[q] = reqs[q]
    PROVE  PcStep(q) /\ reqs'[q].ask = reqs[q].ask
BY DEF OneSession, InPlace, PcStep, Before, HttpOnly

(* A step of an open session.                                              *)
LEMMA SessionsAfter ==
    ASSUME Shape, Sessions, NEW r \in Requests, Within(r), now' = now,
           SessionShape(ws'[r]), Turns(ws'[r]), Kept(r, ws'[r]), TurnsFit(r, ws'[r]),
           ws[r].seenTurns \subseteq ws'[r].seenTurns, ws'[r].pumps \subseteq ws[r].pumps,
           logs \subseteq logs',
           \A row \in logs' \ logs : /\ row.request = r /\ row.turn # 0
                                     /\ "runtime" \in ws'[r].pumps => row.turn \in ws'[r].seenTurns,
           \A id \in ws'[r].seenTurns \ ws[r].seenTurns : \E row \in logs' : row.request = r /\ row.turn = id
    PROVE  Sessions'
<1>1. DOMAIN ws' = Requests /\ reqs' = reqs /\ reqs[r].pc = "session" /\ now' \in Nat
  BY DEF Within, Sets, Open, At2, Sessions
<1>2. \A row \in logs' : row.request \in Requests
  BY DEF Sessions
<1>3. ASSUME NEW q \in Requests, q # r PROVE OneSession(q)'
  BY <1>1, <1>3, StaysPut, Unmoved DEF Sessions, Within, Sets, RowStep
<1>4. OneSession(r)'
  <2>1. OneSession(r) /\ reqs[r].ask.kind \in Sockets
    BY <1>1 DEF Sessions, OneSession, InPlace
  <2>2. Stored(r)'
    <3>1. ASSUME NEW id \in ws'[r].seenTurns PROVE \E row \in logs' : row.request = r /\ row.turn = id
      BY <2>1, <3>1 DEF OneSession, Stored
    <3>2. ASSUME NEW row \in logs', row.request = r
          PROVE  /\ row.turn # 0
                 /\ "runtime" \in ws'[r].pumps => row.turn \in ws'[r].seenTurns
      BY <2>1, <3>2 DEF OneSession, Stored
    <3> QED
      BY <1>1, <2>1, <3>1, <3>2 DEF Stored
  <2>3. InPlace(r)'
    BY <1>1, <2>1 DEF InPlace, Before, HttpOnly
  <2>4. (Open(r) => Kept(r, ws[r]))' /\ TurnsFit(r, ws[r])'
    BY <1>1 DEF Kept, Realtime, Frames, TurnsFit
  <2> QED
    BY <2>2, <2>3, <2>4 DEF OneSession
<1> QED
  BY <1>1, <1>2, <1>3, <1>4 DEF Sessions

(* A step that stores nothing.                                             *)
LEMMA SessionsKept ==
    ASSUME Shape, Sessions, NEW r \in Requests, Within(r), now' = now, logs' = logs,
           SessionShape(ws'[r]), Turns(ws'[r]), Kept(r, ws'[r]), ws'[r].turns = ws[r].turns,
           ws[r].seenTurns = ws'[r].seenTurns, ws'[r].pumps \subseteq ws[r].pumps
    PROVE  Sessions'
BY SessionsAfter DEF Sessions, OneSession, TurnsFit

(* What is known of an open session.                                       *)
LEMMA OpenSession ==
    ASSUME Shape, Sessions, NEW r \in Requests, reqs[r].pc = "session"
    PROVE  /\ Opened(r) /\ SessionShape(ws[r]) /\ Turns(ws[r]) /\ Kept(r, ws[r]) /\ now \in Nat
           /\ Realtime(r) => Announced(ws[r])
           /\ ~Realtime(r) => SocketOK(ws[r], Frames(r))
           /\ Announced(ws[r]) \/ SocketOK(ws[r], Frames(r))
           /\ reqs[r].ask.kind \in Sockets /\ TurnsFit(r, ws[r]) /\ Stored(r)
BY DEF Sessions, Open, At2, OneSession, Opened, Kept, InPlace

LEMMA EndsSession ==
    ASSUME Shape, Sessions, NEW r \in Requests, (\E pump \in Pumps : PumpEnds(r, pump)) \/ ForceClose(r),
           now' = now
    PROVE  Sessions'
<1>1. reqs[r].pc = "session"
  BY DEF PumpEnds, ForceClose, Open, At2
<1>2. Opened(r) /\ SessionShape(ws[r]) /\ Turns(ws[r]) /\ Kept(r, ws[r])
  BY <1>1, OpenSession
<1> DEFINE s == ws[r]
           t == ws'[r]
<1>3. /\ Within(r) /\ logs' = logs
      /\ Alters(s, t, {"pumps", "closing", "writing", "forwarding"})
      /\ t.pumps \subseteq s.pumps
      /\ "client" \in t.pumps => t.writing = s.writing
      /\ t.writing # 0 => t.writing = s.writing /\ ("client" \in s.pumps => "client" \in t.pumps)
      /\ t.forwarding # NoEvent
           => t.forwarding = s.forwarding /\ ("runtime" \in s.pumps => "runtime" \in t.pumps)
  BY <1>2, EndsDoes
<1>4. SessionShape(t) /\ Turns(t) /\ (Announced(s) => Announced(t))
      /\ (SocketOK(s, Frames(r)) => SocketOK(t, Frames(r)))
  BY <1>2, <1>3, EndsKeeps
<1>5. t.turns = s.turns /\ t.seenTurns = s.seenTurns
  BY <1>3 DEF Alters, SessionFields
<1> HIDE DEF s, t
<1>6. Kept(r, t)
  BY <1>2, <1>4 DEF Kept, s
<1> QED
  BY <1>3, <1>4, <1>5, <1>6, SessionsKept DEF s, t

LEMMA WriteDownstreamSession ==
    ASSUME Shape, Sessions, NEW r \in Requests, WriteDownstream(r), now' = now
    PROVE  Sessions'
<1>1. reqs[r].pc = "session"
  BY DEF WriteDownstream, Open, At2
<1>2. Opened(r) /\ SessionShape(ws[r]) /\ Turns(ws[r]) /\ Kept(r, ws[r])
  BY <1>1, OpenSession
<1> DEFINE s == ws[r]
           t == ws'[r]
<1>3. /\ Within(r) /\ logs' = logs
      /\ Alters(s, t, {"forwarding", "delivered"}) /\ t.forwarding = NoEvent
      /\ t.delivered = (IF s.forwarding.type = "terminal" THEN s.delivered \cup {s.forwarding.id}
                        ELSE s.delivered)
  BY <1>2, WriteDownstreamDoes
<1>4. SessionShape(t) /\ Turns(t) /\ (Announced(s) => Announced(t))
      /\ (SocketOK(s, Frames(r)) => SocketOK(t, Frames(r)))
  BY <1>2, <1>3, WriteDownstreamKeeps
<1>5. t.turns = s.turns /\ t.seenTurns = s.seenTurns /\ t.pumps = s.pumps
  BY <1>3 DEF Alters, SessionFields
<1> HIDE DEF s, t
<1>6. Kept(r, t)
  BY <1>2, <1>4 DEF Kept, s
<1> QED
  BY <1>3, <1>4, <1>5, <1>6, SessionsKept DEF s, t

LEMMA WriteUpstreamSession ==
    ASSUME Shape, Sessions, NEW r \in Requests, WriteUpstream(r), now' = now
    PROVE  Sessions'
<1>1. reqs[r].pc = "session"
  BY DEF WriteUpstream, Open, At2
<1>2. Opened(r) /\ SessionShape(ws[r]) /\ Turns(ws[r]) /\ Kept(r, ws[r])
  BY <1>1, OpenSession
<1> DEFINE s == ws[r]
           t == ws'[r]
<1>3. /\ Within(r) /\ logs' = logs /\ s.writing # 0
      /\ Alters(s, t, {"writing", "asked"}) /\ t.writing = 0
      /\ t.asked = (IF Frames(r)[s.writing].type = "create" THEN Append(s.asked, s.writing) ELSE s.asked)
  BY <1>2, WriteUpstreamDoes
<1>4. SessionShape(t) /\ Turns(t) /\ (Announced(s) => Announced(t))
      /\ (SocketOK(s, Frames(r)) => SocketOK(t, Frames(r)))
  BY <1>2, <1>3, WriteUpstreamKeeps
<1>5. t.turns = s.turns /\ t.seenTurns = s.seenTurns /\ t.pumps = s.pumps
  BY <1>3 DEF Alters, SessionFields
<1> HIDE DEF s, t
<1>6. Kept(r, t)
  BY <1>2, <1>4 DEF Kept, s
<1> QED
  BY <1>3, <1>4, <1>5, <1>6, SessionsKept DEF s, t

LEMMA ProduceSession ==
    ASSUME Shape, Sessions, NEW r \in Requests, reqs[r].pc = "session", now' = now, NEW new, NEW asked,
           Produce(r, new, asked), SessionShape(ws'[r]), Turns(ws'[r]), Kept(r, ws'[r])
    PROVE  Sessions'
<1>1. Opened(r) /\ Open(r)
  BY OpenSession DEF Open, At2
<1> DEFINE s == ws[r]
           t == ws'[r]
<1>2. Within(r) /\ logs' = logs /\ Alters(s, t, {"events", "last", "asked", "produced"})
  BY <1>1, ProduceDoes
<1>3. t.turns = s.turns /\ t.seenTurns = s.seenTurns /\ t.pumps = s.pumps
  BY <1>2 DEF Alters, SessionFields
<1> QED
  BY <1>2, <1>3, SessionsKept

LEMMA PairConcat ==
    ASSUME NEW c, NEW e
    PROVE  <<c>> \o <<e>> = <<c, e>>
<1> DEFINE p == <<c>> \o <<e>>
           q == <<c, e>>
<1>1. /\ <<c>> \in Seq({c, e}) /\ <<e>> \in Seq({c, e}) /\ Len(<<c>>) = 1 /\ Len(<<e>>) = 1
      /\ <<c>>[1] = c /\ <<e>>[1] = e
  OBVIOUS
<1>2. /\ p \in Seq({c, e}) /\ Len(p) = 1 + 1
      /\ \A i \in 1..1 : p[i] = <<c>>[i]
      /\ \A i \in 1..1 : p[1 + i] = <<e>>[i]
  BY <1>1, SeqConcat
<1>3. q \in Seq({c, e}) /\ Len(q) = 2 /\ q[1] = c /\ q[2] = e
  OBVIOUS
<1>4. Len(p) = 2 /\ p[1] = c /\ p[2] = e
  BY <1>1, <1>2
<1> HIDE DEF p, q
<1>5. \A i \in 1..Len(p) : p[i] = q[i]
  BY <1>3, <1>4
<1>6. p = q
  BY <1>2, <1>3, <1>4, <1>5, SeqEqual
<1> QED
  BY <1>6 DEF p, q

(* An announced response of a Realtime runtime, asked for or not.          *)
LEMMA RealtimeSession ==
    ASSUME Shape, Sessions, NEW r \in Requests, Open(r), Realtime(r), now' = now,
           NEW frame \in Nat, NEW response \in Responses, NEW asked \in Seq(Nat),
           Produce(r, Response(r, frame, response), asked)
    PROVE  Sessions'
<1>1. reqs[r].pc = "session"
  BY DEF Open, At2
<1>2. Opened(r) /\ SessionShape(ws[r]) /\ Turns(ws[r]) /\ Announced(ws[r])
  BY <1>1, OpenSession
<1> DEFINE s == ws[r]
           t == ws'[r]
           c == [type |-> "created"]
           e == [type |-> "terminal", id |-> s.produced + 1, frame |-> frame, response |-> response]
<1>3. s.produced \in Nat
  BY <1>2 DEF SessionShape
<1>4. c \in EventType /\ c.type = "created" /\ e \in Terminals /\ e.id = s.produced + 1
  BY <1>3 DEF EventType, Terminals
<1>5. Response(r, frame, response) = <<c, e>>
  <2>1. Response(r, frame, response) = <<c>> \o <<e>>
    BY DEF Response
  <2> HIDE DEF c, e
  <2>2. <<c>> \o <<e>> = <<c, e>>
    BY PairConcat
  <2> QED
    BY <2>1, <2>2
<1> HIDE DEF c, e
<1>6. /\ Alters(s, t, {"events", "last", "asked", "produced"})
      /\ t.events = s.events \o <<c, e>> /\ t.last = <<c, e>>[Len(<<c, e>>)] /\ t.asked = asked
      /\ t.produced = s.produced + 1
  BY <1>2, <1>5, ProduceDoes
<1>7. SessionShape(t) /\ Turns(t) /\ Announced(t)
  BY <1>2, <1>4, <1>6, AnnounceKeeps
<1>8. Kept(r, t)
  BY <1>7 DEF Kept
<1> QED
  BY <1>1, <1>7, <1>8, ProduceSession

LEMMA AnswerSession ==
    ASSUME Shape, Sessions, NEW r \in Requests, Answer(r), now' = now
    PROVE  Sessions'
<1>0. Open(r) /\ ws[r].asked # <<>>
  BY DEF Answer
<1>1. reqs[r].pc = "session"
  BY <1>0 DEF Open, At2
<1>2. Opened(r) /\ SessionShape(ws[r]) /\ Turns(ws[r]) /\ (~Realtime(r) => SocketOK(ws[r], Frames(r)))
  BY <1>1, OpenSession
<1> DEFINE s == ws[r]
           t == ws'[r]
           n == Head(s.asked)
<1>3. PICK response \in Responses : Produce(r, Response(r, n, response), Tail(s.asked))
  BY DEF Answer
<1>4. n \in Nat /\ Tail(s.asked) \in Seq(Nat)
  BY <1>0, <1>2, AskedNat, SeqTail
<1>5. CASE Realtime(r)
  BY <1>0, <1>3, <1>4, <1>5, RealtimeSession
<1>6. CASE ~Realtime(r)
  <2> DEFINE e == [type |-> "terminal", id |-> s.produced + 1, frame |-> n, response |-> response]
  <2>1. s.produced \in Nat
    BY <1>2 DEF SessionShape
  <2>2. e \in Terminals /\ e.id = s.produced + 1 /\ e.frame = n
    BY <1>4, <2>1 DEF Terminals
  <2>3. Response(r, n, response) = <<e>>
    BY <1>6 DEF Response
  <2> HIDE DEF e
  <2>4. /\ Alters(s, t, {"events", "last", "asked", "produced"})
        /\ t.events = s.events \o <<e>> /\ t.last = <<e>>[Len(<<e>>)] /\ t.asked = Tail(s.asked)
        /\ t.produced = s.produced + 1
    BY <1>0, <1>2, <1>3, <2>3, ProduceDoes
  <2>5. SessionShape(t) /\ Turns(t) /\ SocketOK(t, Frames(r))
    BY <1>0, <1>2, <1>6, <2>2, <2>4, AnswerKeeps
  <2>6. Kept(r, t)
    BY <1>6, <2>5 DEF Kept
  <2> QED
    BY <1>1, <1>3, <2>5, <2>6, ProduceSession
<1> QED
  BY <1>5, <1>6

LEMMA AnswerUnaskedSession ==
    ASSUME Shape, Sessions, NEW r \in Requests, AnswerUnasked(r), now' = now
    PROVE  Sessions'
BY OpenSession, AskedNat, RealtimeSession DEF AnswerUnasked, Open, At2

LEMMA RepeatSession ==
    ASSUME Shape, Sessions, NEW r \in Requests, RepeatEvent(r), now' = now
    PROVE  Sessions'
<1>1. Open(r) /\ ws[r].last # NoEvent /\ reqs[r].pc = "session" /\ Produce(r, <<ws[r].last>>, ws[r].asked)
  BY DEF RepeatEvent, Open, At2
<1>2. Opened(r) /\ SessionShape(ws[r]) /\ Turns(ws[r]) /\ Kept(r, ws[r])
  BY <1>1, OpenSession
<1> DEFINE s == ws[r]
           t == ws'[r]
<1>3. /\ Alters(s, t, {"events", "last", "asked", "produced"})
      /\ t.events = s.events \o <<s.last>> /\ t.last = <<s.last>>[Len(<<s.last>>)] /\ t.asked = s.asked
      /\ t.produced = s.produced + 1
  BY <1>1, <1>2, ProduceDoes
<1>4. SessionShape(t) /\ Turns(t) /\ (Announced(s) => Announced(t))
      /\ (SocketOK(s, Frames(r)) => SocketOK(t, Frames(r)))
  BY <1>1, <1>2, <1>3, RepeatKeeps
<1> HIDE DEF s, t
<1>5. Kept(r, t)
  BY <1>2, <1>4 DEF Kept, s
<1> QED
  BY <1>1, <1>4, <1>5, ProduceSession DEF s, t

LEMMA TakeCreatedSession ==
    ASSUME Shape, Sessions, NEW r \in Requests, TakeCreated(r), now' = now
    PROVE  Sessions'
<1>1. /\ reqs[r].pc = "session" /\ "runtime" \in ws[r].pumps /\ ws[r].events # <<>>
      /\ Head(ws[r].events).type = "created"
  BY DEF TakeCreated, CanTake, Open, At2
<1>2. /\ Opened(r) /\ SessionShape(ws[r]) /\ Turns(ws[r]) /\ now \in Nat
      /\ Realtime(r) => Announced(ws[r])
      /\ ~Realtime(r) => SocketOK(ws[r], Frames(r))
  BY <1>1, OpenSession
<1>3. Realtime(r)
  <2> SUFFICES ASSUME OneEach(ws[r]) PROVE FALSE
    BY <1>2 DEF SocketOK
  <2>1. ws[r].events[1] = Head(ws[r].events) /\ 1 \in DOMAIN ws[r].events
    BY <1>1, <1>2, SeqTail DEF SessionShape
  <2> QED
    BY <1>1, <2>1 DEF OneEach
<1> DEFINE s == ws[r]
           t == ws'[r]
<1>4. /\ Within(r) /\ logs' = logs
      /\ t.events = Tail(s.events) /\ t.forwarding = Head(s.events) /\ t.active = TRUE
      /\ IF s.active THEN Alters(s, t, {"events", "forwarding"})
         ELSE /\ Alters(s, t, {"events", "forwarding", "active", "current"})
              /\ t.current = [s.current EXCEPT !.started = now, !.frame = 0]
  BY <1>2, TakeCreatedDoes
<1>5. SessionShape(t) /\ Turns(t) /\ Announced(t)
  BY <1>1, <1>2, <1>3, <1>4, TakeCreatedKeeps
<1>6. t.turns = s.turns /\ t.seenTurns = s.seenTurns /\ t.pumps = s.pumps
  BY <1>4 DEF Alters, SessionFields
<1>7. Kept(r, t)
  BY <1>3, <1>5 DEF Kept
<1> HIDE DEF s, t
<1> QED
  BY <1>4, <1>5, <1>6, <1>7, SessionsKept DEF s, t

LEMMA TakeKnownSession ==
    ASSUME Shape, Sessions, NEW r \in Requests, TakeKnown(r), now' = now
    PROVE  Sessions'
<1>1. /\ reqs[r].pc = "session" /\ "runtime" \in ws[r].pumps /\ ws[r].events # <<>>
      /\ Head(ws[r].events).type = "terminal" /\ Known(ws[r], Head(ws[r].events))
  BY DEF TakeKnown, CanTake, Open, At2
<1>2. /\ Opened(r) /\ SessionShape(ws[r]) /\ Turns(ws[r]) /\ Kept(r, ws[r])
      /\ Announced(ws[r]) \/ SocketOK(ws[r], Frames(r))
  BY <1>1, OpenSession
<1> DEFINE s == ws[r]
           t == ws'[r]
<1>3. Head(s.events).id \in s.seenTurns
  BY <1>1, <1>2, KnownIsSeen
<1>4. /\ Within(r) /\ logs' = logs /\ Alters(s, t, {"events", "forwarding"})
      /\ t.events = Tail(s.events) /\ t.forwarding = Head(s.events)
  BY <1>2, TakeKnownDoes
<1>5. SessionShape(t) /\ Turns(t) /\ (Announced(s) => Announced(t))
      /\ (SocketOK(s, Frames(r)) => SocketOK(t, Frames(r)))
  BY <1>1, <1>2, <1>3, <1>4, TakeKnownKeeps
<1>6. t.turns = s.turns /\ t.seenTurns = s.seenTurns /\ t.pumps = s.pumps
  BY <1>4 DEF Alters, SessionFields
<1> HIDE DEF s, t
<1>7. Kept(r, t)
  BY <1>2, <1>5 DEF Kept, s
<1> QED
  BY <1>4, <1>5, <1>6, <1>7, SessionsKept DEF s, t

LEMMA PersistTurnSession ==
    ASSUME Shape, Sessions, NEW r \in Requests, PersistTurn(r), now' = now
    PROVE  Sessions'
<1>1. /\ reqs[r].pc = "session" /\ "runtime" \in ws[r].pumps /\ ws[r].events # <<>>
      /\ Head(ws[r].events).type = "terminal" /\ ~Known(ws[r], Head(ws[r].events))
  BY DEF PersistTurn, CanTake, Open, At2
<1>2. /\ Opened(r) /\ SessionShape(ws[r]) /\ Turns(ws[r]) /\ Kept(r, ws[r]) /\ TurnsFit(r, ws[r])
      /\ Announced(ws[r]) \/ SocketOK(ws[r], Frames(r))
      /\ ~Realtime(r) => SocketOK(ws[r], Frames(r))
  BY <1>1, OpenSession
<1> DEFINE s == ws[r]
           t == ws'[r]
           e == Head(s.events)
           turn == [id |-> e.id, answers |-> e.frame, step |-> s.current]
<1>3. /\ Within(r) /\ Logs(r, e.id)
      /\ Alters(s, t, {"active", "current", "pending", "events", "forwarding", "seenTurns", "accrued", "turns"})
      /\ IF s.pending = <<>>
           THEN t.active = FALSE /\ t.current = s.current /\ t.pending = s.pending
           ELSE t.active = TRUE /\ t.current = Head(s.pending) /\ t.pending = Tail(s.pending)
      /\ t.events = Tail(s.events) /\ t.forwarding = e
      /\ t.seenTurns = s.seenTurns \cup {e.id}
      /\ t.turns = s.turns \cup {turn}
  BY <1>2, PersistTurnDoes
<1>4. SessionShape(t) /\ Turns(t) /\ (Announced(s) => Announced(t))
      /\ (SocketOK(s, Frames(r)) => SocketOK(t, Frames(r)))
  BY <1>1, <1>2, <1>3, PersistTurnKeeps
<1>5. t.pumps = s.pumps
  BY <1>3 DEF Alters, SessionFields
<1>6. e \in EventType /\ e.id # 0 /\ Unseen(s, e)
  BY <1>1, <1>2, SeqTail, EventKinds DEF SessionShape, Known, Unseen
<1>7. TurnsFit(r, t)
  <2> SUFFICES ASSUME reqs[r].ask.kind = "socket" PROVE TurnFits(Frames(r), turn)
    BY <1>2, <1>3 DEF TurnsFit
  <2>1. SocketOK(s, Frames(r))
    BY <1>2 DEF Realtime
  <2>2. s.active /\ e.frame = s.current.frame /\ Asks2(Frames(r), s.current.frame)
    BY <1>1, <1>2, <1>6, <2>1, HeadAnswersCurrent
  <2>3. StepFits(Frames(r), s.current)
    BY <2>1, <2>2 DEF SocketOK, InOrder
  <2>4. turn.step = s.current /\ turn.answers = e.frame
    OBVIOUS
  <2> HIDE DEF turn
  <2> QED
    BY <2>2, <2>3, <2>4 DEF StepFits, TurnFits
<1>8. PICK row : logs' = logs \cup {row} /\ row.request = r /\ row.turn = e.id
  BY <1>3 DEF Logs
<1> HIDE DEF s, t, e, turn
<1>9. Kept(r, t)
  BY <1>2, <1>4 DEF Kept, s
<1>10. /\ logs \subseteq logs'
       /\ \A x \in logs' \ logs : x.request = r /\ x.turn # 0 /\ ("runtime" \in t.pumps => x.turn \in t.seenTurns)
       /\ \A id \in t.seenTurns \ s.seenTurns : \E x \in logs' : x.request = r /\ x.turn = id
  BY <1>3, <1>6, <1>8
<1>11. s.seenTurns \subseteq t.seenTurns
  BY <1>3
<1> QED
  BY <1>3, <1>4, <1>5, <1>7, <1>9, <1>10, <1>11, SessionsAfter DEF s, t

LEMMA PersistTurnFailsSession ==
    ASSUME Shape, Sessions, NEW r \in Requests, PersistTurnFails(r), now' = now
    PROVE  Sessions'
<1>1. /\ reqs[r].pc = "session" /\ "runtime" \in ws[r].pumps /\ ws[r].events # <<>>
      /\ Head(ws[r].events).type = "terminal" /\ ~Known(ws[r], Head(ws[r].events))
  BY DEF PersistTurnFails, CanTake, Open, At2
<1>2. /\ Opened(r) /\ SessionShape(ws[r]) /\ Turns(ws[r]) /\ Kept(r, ws[r]) /\ TurnsFit(r, ws[r])
  BY <1>1, OpenSession
<1> DEFINE s == ws[r]
           t == ws'[r]
           e == Head(s.events)
<1>3. /\ Within(r) /\ (logs' = logs \/ Logs(r, e.id))
      /\ Alters(s, t, {"events", "pumps", "closing", "forwarding"})
      /\ t.events = Tail(s.events) /\ t.pumps = s.pumps \ {"runtime"} /\ t.forwarding = NoEvent
  BY <1>2, PersistTurnFailsDoes
<1>4. SessionShape(t) /\ Turns(t) /\ Announced(t) /\ (SocketOK(s, Frames(r)) => SocketOK(t, Frames(r)))
  BY <1>1, <1>2, <1>3, PersistTurnFailsKeeps
<1>5. t.turns = s.turns /\ t.seenTurns = s.seenTurns
  BY <1>3 DEF Alters, SessionFields
<1>6. e.id # 0
  BY <1>1, <1>2, SeqTail, EventKinds DEF SessionShape
<1>7. TurnsFit(r, t)
  BY <1>2, <1>5 DEF TurnsFit
<1> HIDE DEF s, t, e
<1>8. Kept(r, t)
  BY <1>2, <1>4 DEF Kept, s
<1>9. /\ logs \subseteq logs'
      /\ \A x \in logs' \ logs : x.request = r /\ x.turn # 0
  BY <1>3, <1>6 DEF Logs
<1>10. "runtime" \notin t.pumps /\ t.pumps \subseteq s.pumps
  BY <1>3
<1> QED
  BY <1>3, <1>4, <1>5, <1>7, <1>8, <1>9, <1>10, SessionsAfter DEF s, t

(* What the next frame asks for.                                           *)
LEMMA NextMetaType ==
    ASSUME NEW s, NEW frames \in Seq(FrameType), SessionShape(s), now \in Nat, s.sent < Len(frames)
    PROVE  LET n == s.sent + 1
               step == NextMeta(s, frames[n], n)
           IN /\ step \in StepType /\ step.frame = n /\ n \in DOMAIN frames /\ n \in Nat
              /\ step.prewarm = frames[n].prewarm
              /\ step.model = (IF frames[n].model = NoModel THEN Latest(s).model ELSE frames[n].model)
<1> DEFINE n == s.sent + 1
           frame == frames[n]
           model == IF frame.model = NoModel THEN Latest(s).model ELSE frame.model
<1>1. s.sent \in Nat /\ n \in 1..Len(frames) /\ n \in Nat
  BY SeqDomain DEF SessionShape
<1>2. n \in DOMAIN frames /\ frame \in FrameType
  BY <1>1, SeqDomain
<1>3. Latest(s) \in StepType
  <2>1. s.pending \in Seq(StepType) /\ s.current \in StepType
    BY DEF SessionShape
  <2>2. CASE s.pending # <<>>
    BY <2>1, <2>2, SeqDomain DEF Latest
  <2>3. CASE s.pending = <<>>
    BY <2>1, <2>3 DEF Latest
  <2> QED
    BY <2>2, <2>3
<1>4. model \in AnyModel /\ frame.prewarm \in BOOLEAN
  BY <1>2, <1>3 DEF FrameType, StepType
<1>5. NextMeta(s, frame, n) = [frame |-> n, model |-> model, prewarm |-> frame.prewarm, started |-> now]
  BY DEF NextMeta, Latest
<1> HIDE DEF n, frame, model
<1>6. [frame |-> n, model |-> model, prewarm |-> frame.prewarm, started |-> now] \in StepType
  BY <1>1, <1>4 DEF StepType
<1> QED
  BY <1>1, <1>2, <1>5, <1>6 DEF n, frame, model

LEMMA NextMetaFits ==
    ASSUME NEW s, NEW frames \in Seq(FrameType), SessionShape(s), now \in Nat, s.sent < Len(frames),
           InOrder(s, frames), "client" \in s.pumps
    PROVE  LET n == s.sent + 1
               step == NextMeta(s, frames[n], n)
           IN /\ StepFits(frames, step)
              /\ frames[n].type = "create" => step.model = ModelAt(frames, n)
              /\ frames[n].type # "create" => ModelAt(frames, n) = Latest(s).model
<1> DEFINE n == s.sent + 1
           step == NextMeta(s, frames[n], n)
<1>1. /\ step.frame = n /\ n \in DOMAIN frames /\ n \in Nat /\ step.prewarm = frames[n].prewarm
      /\ step.model = (IF frames[n].model = NoModel THEN Latest(s).model ELSE frames[n].model)
  BY NextMetaType
<1>2. Latest(s).model = ModelAt(frames, s.sent) /\ s.sent \in Nat /\ s.sent # 0
  BY SeqDomain DEF InOrder
<1>3. ModelAt(frames, n) = IF frames[n].type = "create" /\ frames[n].model # NoModel
                             THEN frames[n].model ELSE ModelAt(frames, s.sent)
  BY <1>2, ModelAtNext
<1>4. n # 1
  BY <1>2
<1> HIDE DEF n, step
<1>5. /\ frames[n].type = "create" => step.model = ModelAt(frames, n)
      /\ frames[n].type # "create" => ModelAt(frames, n) = Latest(s).model
  BY <1>1, <1>2, <1>3
<1>6. StepFits(frames, step)
  BY <1>1, <1>4, <1>5 DEF StepFits, Asks2
<1> QED
  BY <1>5, <1>6 DEF n, step

LEMMA RefuseSession ==
    ASSUME Shape, Sessions, NEW r \in Requests, RefuseFrame(r), now' = now
    PROVE  Sessions'
<1>1. reqs[r].pc = "session" /\ "client" \in ws[r].pumps /\ ws[r].writing = 0 /\ ws[r].sent < Len(Frames(r))
  BY DEF RefuseFrame, CanRead, Open, At2
<1>2. /\ Opened(r) /\ SessionShape(ws[r]) /\ Turns(ws[r]) /\ Kept(r, ws[r]) /\ now \in Nat
      /\ Frames(r) \in Seq(FrameType) /\ DOMAIN Frames(r) = 1..Len(Frames(r)) /\ Len(Frames(r)) \in Nat
  BY <1>1, OpenSession, FramesOf
<1> DEFINE s == ws[r]
           t == ws'[r]
           frames == Frames(r)
           n == s.sent + 1
           step == NextMeta(s, frames[n], n)
<1>3. /\ Within(r) /\ logs' = logs
      /\ t.sent = n /\ t.writing = 0 /\ t.pumps = s.pumps \ {"client"}
      /\ Alters(s, t, {"active", "current", "pending", "sent", "pumps", "closing", "writing"})
      /\ Joins(s, t, step)
  BY <1>2, RefuseDoes
<1>4. step \in StepType /\ step.frame = n
  BY <1>1, <1>2, NextMetaType
<1>5. FrameTaken(s, t) /\ t.turns = s.turns /\ t.seenTurns = s.seenTurns /\ t.pumps \subseteq s.pumps
  BY <1>1, <1>3 DEF FrameTaken, Alters, SessionFields
<1>6. SessionShape(t) /\ Turns(t) /\ (Announced(s) => Announced(t))
  BY <1>2, <1>3, <1>4, <1>5, JoinTurns
<1>7. ASSUME SocketOK(s, frames) PROVE SocketOK(t, frames)
  <2>1. InOrder(s, frames)
    BY <1>7 DEF SocketOK
  <2>2. StepFits(frames, step)
    BY <1>1, <1>2, <2>1, NextMetaFits
  <2>3. "client" \notin t.pumps
    BY <1>3
  <2> HIDE DEF step
  <2>4. InOrder(t, frames)
    BY <1>1, <1>2, <1>3, <1>4, <2>1, <2>2, <2>3, JoinInOrder
  <2> DEFINE joins == TRUE
  <2>5. joins \in BOOLEAN /\ \A f : Waiting(t, f) <=> Waiting(s, f) \/ (joins /\ f = s.sent + 1)
    <3> HIDE DEF s, t, n
    <3>1. \A f : Waiting(t, f) <=> Waiting(s, f) \/ f = step.frame
      BY <1>2, <1>3, <1>4, JoinWaits DEF s
    <3>2. \A f : f = step.frame <=> (joins /\ f = s.sent + 1)
      BY <1>4 DEF n
    <3> HIDE DEF joins
    <3>3. \A f : Waiting(t, f) <=> Waiting(s, f) \/ (joins /\ f = s.sent + 1)
      BY <3>1, <3>2
    <3> QED
      BY <3>3 DEF joins
  <2> HIDE DEF joins
  <2>6. t.writing # 0 => (joins <=> frames[s.sent + 1].type = "create")
    BY <1>3
  <2> QED
    BY <1>2, <1>5, <1>7, <2>4, <2>5, <2>6, FrameKeeps
<1> HIDE DEF s, t, step, n
<1>8. Kept(r, t)
  BY <1>2, <1>6, <1>7 DEF Kept, s
<1> QED
  BY <1>3, <1>5, <1>6, <1>8, SessionsKept DEF s, t

LEMMA prepareSession ==
    ASSUME Shape, Sessions, NEW r \in Requests, prepareNativeWebSocketRequest(r), now' = now
    PROVE  Sessions'
<1>1. reqs[r].pc = "session" /\ "client" \in ws[r].pumps /\ ws[r].writing = 0 /\ ws[r].sent < Len(Frames(r))
  BY DEF prepareNativeWebSocketRequest, CanRead, Open, At2
<1>2. /\ Opened(r) /\ SessionShape(ws[r]) /\ Turns(ws[r]) /\ Kept(r, ws[r]) /\ now \in Nat
      /\ Frames(r) \in Seq(FrameType) /\ DOMAIN Frames(r) = 1..Len(Frames(r)) /\ Len(Frames(r)) \in Nat
  BY <1>1, OpenSession, FramesOf
<1> DEFINE s == ws[r]
           t == ws'[r]
           frames == Frames(r)
           n == s.sent + 1
           step == NextMeta(s, frames[n], n)
<1>3. /\ Within(r) /\ logs' = logs /\ t.sent = n /\ t.writing = n
      /\ IF frames[n].type = "create"
           THEN /\ Alters(s, t, {"active", "current", "pending", "sent", "writing"})
                /\ Joins(s, t, step)
           ELSE Alters(s, t, {"sent", "writing"})
  BY <1>2, prepareDoes
<1>4. step \in StepType /\ step.frame = n
  BY <1>1, <1>2, NextMetaType
<1>5. FrameTaken(s, t) /\ t.turns = s.turns /\ t.seenTurns = s.seenTurns /\ t.pumps = s.pumps
  <2>1. CASE frames[n].type = "create"
    BY <1>1, <1>3, <2>1 DEF FrameTaken, Alters, SessionFields
  <2>2. CASE frames[n].type # "create"
    BY <1>1, <1>3, <2>2 DEF FrameTaken, Alters, SessionFields
  <2> QED
    BY <2>1, <2>2
<1>6. CASE frames[n].type = "create"
  <2>0. Joins(s, t, step)
    BY <1>3, <1>6
  <2>1. SessionShape(t) /\ Turns(t) /\ (Announced(s) => Announced(t))
    BY <1>2, <1>4, <1>5, <2>0, JoinTurns
  <2>2. ASSUME SocketOK(s, frames) PROVE SocketOK(t, frames)
    <3>1. InOrder(s, frames)
      BY <2>2 DEF SocketOK
    <3>2. StepFits(frames, step) /\ step.model = ModelAt(frames, n)
      BY <1>1, <1>2, <1>6, <3>1, NextMetaFits
    <3> HIDE DEF step
    <3>3. InOrder(t, frames)
      BY <1>1, <1>2, <1>3, <1>4, <2>0, <3>1, <3>2, JoinInOrder
    <3> DEFINE joins == TRUE
    <3>4. joins \in BOOLEAN /\ \A f : Waiting(t, f) <=> Waiting(s, f) \/ (joins /\ f = s.sent + 1)
      <4> HIDE DEF s, t, n
      <4>1. \A f : Waiting(t, f) <=> Waiting(s, f) \/ f = step.frame
        BY <1>2, <1>4, <2>0, JoinWaits DEF s
      <4>2. \A f : f = step.frame <=> (joins /\ f = s.sent + 1)
        BY <1>4 DEF n
      <4> HIDE DEF joins
      <4>3. \A f : Waiting(t, f) <=> Waiting(s, f) \/ (joins /\ f = s.sent + 1)
        BY <4>1, <4>2
      <4> QED
        BY <4>3 DEF joins
    <3>5. t.writing # 0 => (joins <=> frames[s.sent + 1].type = "create")
      BY <1>6
    <3> HIDE DEF joins
    <3> QED
      BY <1>2, <1>5, <2>2, <3>3, <3>4, <3>5, FrameKeeps
  <2> HIDE DEF s, t, step, n
  <2>3. Kept(r, t)
    BY <1>2, <2>1, <2>2 DEF Kept, s
  <2> QED
    BY <1>3, <1>5, <2>1, <2>3, SessionsKept DEF s, t
<1>7. CASE frames[n].type # "create"
  <2>0. Alters(s, t, {"sent", "writing"})
    BY <1>3, <1>7
  <2>1. /\ t.current = s.current /\ t.active = s.active /\ t.pending = s.pending
        /\ t.asked = s.asked /\ t.produced = s.produced /\ t.events = s.events /\ t.last = s.last
        /\ t.delivered = s.delivered /\ t.forwarding = s.forwarding /\ DOMAIN t = SessionFields
    BY <2>0 DEF Alters, SessionFields
  <2>2. n \in Nat /\ s.sent \in Nat
    BY <1>2 DEF SessionShape
  <2>3. SessionShape(t)
    BY <1>2, <1>3, <1>5, <2>1, <2>2 DEF SessionShape
  <2>4. Turns(t)
    BY <1>2, <1>5, <2>1 DEF Turns, Unseen
  <2>5. Announced(s) => Announced(t)
    BY <1>5, <2>1 DEF Announced, Queued, Unseen
  <2>6. ASSUME SocketOK(s, frames) PROVE SocketOK(t, frames)
    <3>1. InOrder(s, frames)
      BY <2>6 DEF SocketOK
    <3>2. ModelAt(frames, n) = Latest(s).model
      BY <1>1, <1>2, <1>7, <3>1, NextMetaFits
    <3>3. Latest(t) = Latest(s)
      BY <2>1 DEF Latest
    <3>4. n \in 1..Len(frames)
      BY <1>1, <1>2, <2>2
    <3>5. InOrder(t, frames)
      <4>1. ASSUME NEW i \in DOMAIN s.pending PROVE s.pending[i].frame <= n
        <5>1. s.pending[i] \in StepType
          BY <1>2, SeqDomain DEF SessionShape
        <5>2. s.pending[i].frame \in Nat
          BY <5>1 DEF StepType
        <5> QED
          BY <2>2, <3>1, <5>2 DEF InOrder
      <4>2. s.active => s.current.frame <= n
        BY <1>2, <2>2, <3>1 DEF SessionShape, StepType, InOrder
      <4> HIDE DEF n
      <4> QED
        BY <1>3, <2>1, <3>1, <3>2, <3>3, <3>4, <4>1, <4>2 DEF InOrder
    <3>6. \A f : Waiting(t, f) <=> Waiting(s, f) \/ (FALSE /\ f = s.sent + 1)
      BY <2>1 DEF Waiting
    <3>7. t.writing # 0 => (FALSE <=> frames[s.sent + 1].type = "create")
      BY <1>7
    <3> QED
      BY <1>2, <1>5, <2>6, <3>5, <3>6, <3>7, FrameKeeps
  <2> HIDE DEF s, t, n
  <2>7. Kept(r, t)
    BY <1>2, <2>5, <2>6 DEF Kept, s
  <2> QED
    BY <1>3, <1>5, <2>3, <2>4, <2>7, SessionsKept DEF s, t
<1> QED
  BY <1>6, <1>7

(* A step of one request, with or without its session.                     *)
LEMMA OneMoved ==
    ASSUME Shape, Sessions, NEW r \in Requests, Touches(r), Sets(r), now' \in Nat, logs \subseteq logs',
           \A row \in logs' \ logs : row.request = r, OneSession(r)'
    PROVE  Sessions'
<1>1. DOMAIN ws' = Requests /\ \A row \in logs' : row.request \in Requests
  BY DEF Sessions, Sets
<1>2. ASSUME NEW q \in Requests, q # r PROVE OneSession(q)'
  BY <1>2, StaysPut, Unmoved DEF Sessions, Touches, Sets, RowStep
<1> QED
  BY <1>1, <1>2 DEF Sessions

LEMMA RequestMoved ==
    ASSUME Shape, Sessions, NEW r \in Requests, Touches(r), ws' = ws, now' = now, PcStep(r), RowStep(r),
           \A row \in logs' \ logs : row.request = r
    PROVE  Sessions'
BY Unmoved, OneMoved DEF Sets, Sessions, Touches, RowStep

LEMMA NoRows ==
    ASSUME NEW r \in Requests, logs' = logs
    PROVE  RowStep(r) /\ \A row \in logs' \ logs : row.request = r
BY DEF RowStep

(* A socket that ends, early or not.                                       *)
LEMMA OverSession ==
    ASSUME Shape, Sessions, NEW r \in Requests, SessionStep(r), now' = now,
           UpgradeFails(r) \/ EndEarly(r) \/ CloseSession(r)
    PROVE  Sessions'
<1>1. Touches(r) /\ ws' = ws /\ logs' = logs
  BY SessionTouches DEF SessionMove, UpgradeFails, EndEarly, CloseSession, handlerVars, logVars
<1>2. reqs'[r].pc = "done"
  BY DEF UpgradeFails, EndEarly, CloseSession, Shape, ReqFields
<1>3. PcStep(r)
  BY <1>2 DEF PcStep, Before, HttpOnly
<1> QED
  BY <1>1, <1>3, NoRows, RequestMoved

(* Before the upgrade nothing was stored.                                  *)
LEMMA UpgradeFresh ==
    ASSUME Shape, Sessions, NEW r \in Requests, reqs[r].pc \in {"upgrade", "dial"}
    PROVE  /\ OneSession(r) /\ DOMAIN ws = Requests /\ now \in Nat /\ reqs[r].ask.kind \in Sockets
           /\ ws[r].seenTurns = {} /\ ws[r].turns = {} /\ ws[r].pumps = Pumps /\ DOMAIN ws[r] = SessionFields
           /\ \A row \in logs : row.request # r
BY DEF Sessions, OneSession, InPlace, Before, Dialling, NewSession, SessionShape, Stored, Pumps

LEMMA DialledSession ==
    ASSUME Shape, Sessions, NEW r \in Requests, Touches(r), Sets(r), now' = now, logs' = logs,
           reqs[r].pc \in {"upgrade", "dial"}, reqs'[r].pc \in {"dial", "session"},
           SessionShape(ws'[r]), Turns(ws'[r]), ws'[r].seenTurns = {}, ws'[r].turns = {},
           reqs'[r].pc = "dial" => Dialling(ws'[r]) /\ (~Realtime(r) => FirstFrame(ws'[r], Frames(r))),
           reqs'[r].pc = "session" => Kept(r, ws'[r])
    PROVE  Sessions'
<1>1. /\ OneSession(r) /\ now \in Nat /\ reqs[r].ask.kind \in Sockets
      /\ \A row \in logs : row.request # r
  BY UpgradeFresh
<1>2. reqs'[r].ask = reqs[r].ask /\ Realtime(r)' = Realtime(r) /\ Frames(r)' = Frames(r)
  BY DEF Touches, Realtime, Frames
<1>3. Stored(r)'
  BY <1>1 DEF Stored
<1>4. InPlace(r)'
  BY <1>1, <1>2 DEF InPlace, Before, HttpOnly
<1>5. (Open(r) => Kept(r, ws[r]))'
  BY <1>2 DEF Open, At2, Kept
<1>6. TurnsFit(r, ws[r])'
  BY DEF TurnsFit
<1>7. OneSession(r)'
  BY <1>3, <1>4, <1>5, <1>6 DEF OneSession
<1> QED
  BY <1>1, <1>7, OneMoved

(* What a session is once its first step has started.                      *)
LEMMA StartedSession ==
    ASSUME NEW t, NEW step \in StepType, NEW sent \in Nat,
           Alters(NewSession, t, {"sent", "active", "current"}),
           t.sent = sent, t.active = TRUE, t.current = step
    PROVE  /\ SessionShape(t) /\ Turns(t) /\ Dialling(t) /\ t.current = step /\ t.sent = sent
<1>1. /\ DOMAIN t = SessionFields /\ t.current = step /\ t.active = TRUE /\ t.pending = <<>> /\ t.seenTurns = {}
      /\ t.sent = sent /\ t.writing = 0 /\ t.asked = <<>> /\ t.produced = 0 /\ t.events = <<>>
      /\ t.forwarding = NoEvent /\ t.last = NoEvent /\ t.delivered = {} /\ t.pumps = Pumps /\ t.turns = {}
  BY DEF NewSession, SessionFields, Alters
<1>2. <<>> \in Seq(StepType) /\ <<>> \in Seq(Nat) /\ <<>> \in Seq(EventType) /\ DOMAIN <<>> = {}
  OBVIOUS
<1>3. t.active \in BOOLEAN /\ t.writing \in Nat /\ t.produced \in Nat /\ t.sent \in Nat
  <2>1. t.active \in BOOLEAN
    BY Zenon
  <2>2. t.writing \in Nat /\ t.produced \in Nat /\ t.sent \in Nat
    BY <1>1
  <2> QED
    BY <2>1, <2>2
<1>4. t.seenTurns \subseteq Nat /\ t.delivered \subseteq Nat /\ t.pumps \subseteq Pumps
  BY <1>1
<1>5. t.forwarding \in EventType /\ t.last \in EventType
  BY <1>1, NoEventType
<1>6. t.pending \in Seq(StepType) /\ t.asked \in Seq(Nat) /\ t.events \in Seq(EventType)
  BY <1>1, <1>2
<1>7. SessionShape(t)
  BY <1>1, <1>3, <1>4, <1>5, <1>6 DEF SessionShape
<1>8. Turns(t)
  BY <1>1, <1>2, NoEventType DEF Turns, Unseen
<1> QED
  BY <1>1, <1>7, <1>8 DEF Dialling

LEMMA NewIsNew ==
    ASSUME Shape, Sessions, NEW r \in Requests, reqs[r].pc = "upgrade"
    PROVE  ws[r] = NewSession
BY DEF Sessions, OneSession, InPlace, Before

LEMMA admitSession ==
    ASSUME Shape, Sessions, NEW r \in Requests, admitNativeWebSocket(r), now' = now
    PROVE  Sessions'
<1>1. /\ reqs[r].pc = "upgrade" /\ reqs[r].ask.kind = "socket" /\ Frames(r) # <<>>
      /\ Frames(r)[1].model # NoModel /\ UNCHANGED logVars
  BY DEF admitNativeWebSocket, At2, Billable, handlerVars
<1>2. /\ now \in Nat /\ DOMAIN ws = Requests /\ ws[r] = NewSession /\ reqs[r].ask.kind \in Sockets
  BY <1>1, UpgradeFresh, NewIsNew
<1>3. /\ Frames(r) \in Seq(FrameType) /\ DOMAIN Frames(r) = 1..Len(Frames(r)) /\ 1 \in DOMAIN Frames(r)
      /\ Frames(r)[1] \in FrameType
  BY <1>1, <1>2, FramesOf
<1> DEFINE frames == Frames(r)
           step == [frame |-> 1, model |-> frames[1].model, prewarm |-> frames[1].prewarm, started |-> now]
<1>4. step \in StepType /\ step.frame = 1 /\ step.model = frames[1].model /\ step.prewarm = frames[1].prewarm
  BY <1>2, <1>3 DEF StepType, FrameType
<1>5. Session(r, [NewSession EXCEPT !.sent = 1, !.active = TRUE, !.current = step])
  BY <1>2 DEF admitNativeWebSocket
<1> HIDE DEF step
<1>6. Sets(r) /\ ws'[r] = [NewSession EXCEPT !.sent = 1, !.active = TRUE, !.current = step]
  BY <1>2, <1>5, SessionSets
<1>7. /\ Alters(NewSession, ws'[r], {"sent", "active", "current"})
      /\ ws'[r].sent = 1 /\ ws'[r].active = TRUE /\ ws'[r].current = step
  BY <1>6 DEF NewSession, Alters, SessionFields
<1>8. SessionShape(ws'[r]) /\ Turns(ws'[r]) /\ Dialling(ws'[r]) /\ ws'[r].current = step /\ ws'[r].sent = 1
  <2> DEFINE t == ws'[r]
             one == 1
  <2>1. one \in Nat /\ t.sent = one
    BY <1>7
  <2> HIDE DEF t, one
  <2>2. SessionShape(t) /\ Turns(t) /\ Dialling(t) /\ t.current = step /\ t.sent = one
    BY <1>4, <1>7, <2>1, StartedSession DEF t
  <2> QED
    BY <2>2 DEF t, one
<1>9. ModelAt(frames, 1) = frames[1].model
  <2> DEFINE named == {i \in 1..1 : (i = 1 \/ frames[i].type = "create") /\ frames[i].model # NoModel}
  <2>1. named = {1}
    BY <1>1
  <2>2. Max(named) = 1
    BY <2>1, MaxIs
  <2>3. ModelAt(frames, 1) = frames[Max(named)].model
    BY DEF ModelAt
  <2> QED
    BY <2>2, <2>3
<1>10. FirstFrame(ws'[r], frames)
  BY <1>1, <1>3, <1>4, <1>8, <1>9 DEF FirstFrame, StepFits
<1>11. Touches(r) /\ reqs'[r].pc = "dial"
  <2>1. Touches(r)
    BY SessionTouches DEF SessionMove, SessionStep
  <2>2. PICK price :
          reqs' = [reqs EXCEPT ![r].pc = "dial", ![r].hold = "active", ![r].price = price,
                               ![r].configured = price.found]
    BY DEF admitNativeWebSocket
  <2> QED
    BY <2>1, <2>2 DEF Shape, ReqFields
<1>12. ws'[r].seenTurns = {} /\ ws'[r].turns = {}
  BY <1>8 DEF Dialling
<1> QED
  BY <1>1, <1>6, <1>8, <1>10, <1>11, <1>12, DialledSession DEF logVars

LEMMA UpgradeRealtimeSession ==
    ASSUME Shape, Sessions, NEW r \in Requests, UpgradeRealtime(r), now' = now
    PROVE  Sessions'
<1>1. /\ reqs[r].pc = "upgrade" /\ Realtime(r) /\ UNCHANGED logVars
  BY DEF UpgradeRealtime, At2, handlerVars
<1>2. /\ now \in Nat /\ DOMAIN ws = Requests /\ ws[r] = NewSession /\ reqs[r].ask.kind \in Sockets
  BY <1>1, UpgradeFresh, NewIsNew
<1>3. reqs[r].ask.model \in AnyModel
  BY <1>1, AnswersAssumption DEF Shape, Realtime, NoAsk, AnyModel
<1> DEFINE step == [NoStep EXCEPT !.model = reqs[r].ask.model, !.started = now]
<1>4. step \in StepType
  BY <1>2, <1>3 DEF StepType, NoStep
<1>5. Session(r, [NewSession EXCEPT !.active = TRUE, !.current = step])
  BY <1>2 DEF UpgradeRealtime
<1> HIDE DEF step
<1>6. Sets(r) /\ ws'[r] = [NewSession EXCEPT !.active = TRUE, !.current = step]
  BY <1>2, <1>5, SessionSets
<1>7. /\ Alters(NewSession, ws'[r], {"sent", "active", "current"})
      /\ ws'[r].sent = 0 /\ ws'[r].active = TRUE /\ ws'[r].current = step
  BY <1>6 DEF NewSession, Alters, SessionFields
<1>8. SessionShape(ws'[r]) /\ Turns(ws'[r]) /\ Dialling(ws'[r])
  <2> DEFINE t == ws'[r]
             none == 0
  <2>1. none \in Nat /\ t.sent = none
    BY <1>7
  <2> HIDE DEF t, none
  <2>2. SessionShape(t) /\ Turns(t) /\ Dialling(t)
    BY <1>4, <1>7, <2>1, StartedSession DEF t
  <2> QED
    BY <2>2 DEF t
<1>9. Touches(r) /\ reqs'[r].pc = "dial"
  <2>1. Touches(r)
    BY SessionTouches DEF SessionMove, SessionStep
  <2>2. reqs' = [reqs EXCEPT ![r].pc = "dial"]
    BY DEF UpgradeRealtime
  <2> QED
    BY <2>1, <2>2 DEF Shape, ReqFields
<1>10. ws'[r].seenTurns = {} /\ ws'[r].turns = {}
  BY <1>8 DEF Dialling
<1> QED
  BY <1>1, <1>6, <1>8, <1>9, <1>10, DialledSession DEF logVars

LEMMA dialSession ==
    ASSUME Shape, Sessions, NEW r \in Requests, dialNativeRuntimeWebSocket(r), now' = now
    PROVE  Sessions'
<1>1. CASE EndEarly(r)
  BY <1>1, OverSession DEF SessionStep
<1>2. CASE ~EndEarly(r)
  <2> DEFINE first == IF Realtime(r) THEN <<>> ELSE <<1>>
             s == ws[r]
             t == ws'[r]
  <2>1. /\ reqs[r].pc = "dial" /\ reqs' = [reqs EXCEPT ![r].pc = "session"]
        /\ Session(r, [s EXCEPT !.established = TRUE, !.asked = first]) /\ UNCHANGED logVars
    BY <1>2 DEF dialNativeRuntimeWebSocket, At2, handlerVars
  <2>2. OneSession(r) /\ DOMAIN ws = Requests /\ now \in Nat /\ reqs[r].ask.kind \in Sockets
    BY <2>1, UpgradeFresh
  <2>3. SessionShape(s) /\ Turns(s) /\ Dialling(s) /\ (~Realtime(r) => FirstFrame(s, Frames(r)))
    BY <2>1, <2>2 DEF OneSession, InPlace
  <2>4. first \in Seq(Nat)
    OBVIOUS
  <2> HIDE DEF first, s
  <2>5. Sets(r) /\ t = [s EXCEPT !.established = TRUE, !.asked = first]
    BY <2>1, <2>2, SessionSets
  <2> HIDE DEF t
  <2>6. Alters(s, t, {"established", "asked"}) /\ t.asked = first
    BY <2>3, <2>5 DEF SessionShape, Alters, SessionFields
  <2>7. /\ DOMAIN t = SessionFields /\ t.current = s.current /\ t.active = s.active /\ t.pending = <<>>
        /\ t.seenTurns = {} /\ t.sent = s.sent /\ t.writing = 0 /\ t.produced = 0 /\ t.events = <<>>
        /\ t.forwarding = NoEvent /\ t.last = NoEvent /\ t.delivered = {} /\ t.pumps = s.pumps /\ t.turns = {}
    BY <2>3, <2>6 DEF Alters, SessionFields, Dialling
  <2>8. SessionShape(t)
    BY <2>3, <2>4, <2>6, <2>7 DEF SessionShape, Dialling
  <2>9. Turns(t)
    BY <2>3, <2>7 DEF Turns, Unseen, Dialling
  <2>0. Touches(r) /\ reqs'[r].pc = "session"
    <3>1. Touches(r)
      BY SessionTouches DEF SessionMove, SessionStep
    <3> QED
      BY <2>1, <3>1 DEF Shape, ReqFields
  <2>10. CASE Realtime(r)
    <3>1. Announced(t)
      BY <2>7 DEF Announced
    <3>2. Kept(r, t)
      BY <2>10, <3>1 DEF Kept
    <3> QED
      BY <2>0, <2>1, <2>5, <2>7, <2>8, <2>9, <3>2, DialledSession DEF logVars, t
  <2>11. CASE ~Realtime(r)
    <3> DEFINE frames == Frames(r)
    <3>1. /\ frames \in Seq(FrameType) /\ DOMAIN frames = 1..Len(frames) /\ Len(frames) \in Nat
      BY <2>2, FramesOf
    <3>2. /\ frames # <<>> /\ t.sent = 1 /\ t.current.frame = 1 /\ StepFits(frames, t.current)
          /\ t.current.model = ModelAt(frames, 1) /\ t.active
      BY <2>3, <2>7, <2>11 DEF FirstFrame, Dialling
    <3>3. 1 \in 1..Len(frames) /\ 1 \in DOMAIN frames
      BY <3>1, <3>2
    <3>4. t.asked = <<1>> /\ DOMAIN t.asked = {1} /\ t.asked[1] = 1
      BY <2>6, <2>11 DEF first
    <3>5. \A f : Waiting(t, f) <=> f = 1
      BY <2>7, <3>2 DEF Waiting
    <3>6. DOMAIN t.pending = {} /\ DOMAIN t.events = {} /\ Latest(t) = t.current
      BY <2>7 DEF Latest
    <3>7. InOrder(t, frames)
      BY <3>2, <3>3, <3>6 DEF InOrder
    <3>8. AskedFor(t, frames)
      BY <2>7, <3>3, <3>4, <3>5 DEF AskedFor, Asks2
    <3>9. OneEach(t)
      BY <2>7, <3>6 DEF OneEach, Events
    <3>10. InTurn(t, frames)
      BY <3>4, <3>5, <3>6 DEF InTurn
    <3>11. Kept(r, t)
      BY <2>11, <3>7, <3>8, <3>9, <3>10 DEF Kept, SocketOK
    <3> QED
      BY <2>0, <2>1, <2>5, <2>7, <2>8, <2>9, <3>11, DialledSession DEF logVars, t
  <2> QED
    BY <2>10, <2>11
<1> QED
  BY <1>1, <1>2

(* The steps of the handler before and beside its session.                 *)
LEMMA RequestSession ==
    ASSUME Shape, Sessions, NEW r \in Requests, RequestStep(r), ws' = ws, now' = now
    PROVE  Sessions'
<1>1. /\ OneSession(r)
      /\ reqs[r].pc \in {"upgrade", "dial", "session"} => reqs[r].ask.kind \in Sockets
      /\ reqs[r].pc \in HttpOnly => reqs[r].ask.kind \notin Sockets
  BY DEF Sessions, OneSession, InPlace
<1> USE DEF PcStep, Before, HttpOnly, Rejected, Same, ReqFields, handlerVars, logVars
<1>2. CASE ResolveKey(r)
  BY <1>1, <1>2, ResolveKeyDoes, NoRows, RequestMoved
<1>3. CASE AcquireLease(r)
  BY <1>1, <1>3, AcquireLeaseDoes, NoRows, RequestMoved
<1>4. CASE ReadRequest(r)
  BY <1>1, <1>4, ReadRequestDoes, NoRows, RequestMoved
<1>5. CASE LookupBase(r)
  BY <1>1, <1>5, LookupBaseDoes, NoRows, RequestMoved
<1>6. CASE enforceLimits(r)
  BY <1>1, <1>6, enforceLimitsDoes, NoRows, RequestMoved
<1>7. CASE AwaitBase(r)
  <2>1. /\ Touches(r) /\ logs' = logs /\ reqs[r].pc = "price"
        /\ reqs'[r].pc \in {"rejected", "admit", "upgrade"} /\ (reqs'[r].pc = "upgrade" => ~Billable(r))
    BY <1>7, AwaitBaseDoes
  <2>2. PcStep(r)
    BY <1>1, <2>1 DEF Billable, Sockets
  <2> QED
    BY <2>1, <2>2, NoRows, RequestMoved
<1>8. CASE AdmitRequest(r)
  BY <1>1, <1>8, AdmitRequestDoes, NoRows, RequestMoved
<1>9. CASE LookupDeferred(r)
  BY <1>1, <1>9, LookupDeferredDoes, NoRows, RequestMoved
<1>10. CASE Serve(r)
  BY <1>1, <1>10, ServeDoes, NoRows, RequestMoved
<1>11. CASE ServePanics(r)
  BY <1>1, <1>11, ServePanicsDoes, NoRows, RequestMoved
<1>12. CASE FinalizeInSlot(r)
  BY <1>1, <1>12, FinalizeInSlotDoes, NoRows, RequestMoved
<1>13. CASE FinalizeInline(r)
  BY <1>1, <1>13, FinalizeInlineDoes, NoRows, RequestMoved
<1>14. CASE PriceResponse(r)
  BY <1>1, <1>14, PriceResponseDoes, NoRows, RequestMoved
<1>15. CASE SettleRequestWithLog(r)
  <2>1. /\ Touches(r) /\ reqs[r].pc = "settling" /\ reqs'[r].pc = "done" /\ (logs' = logs \/ Logs(r, 0))
    BY <1>15, SettleRequestWithLogDoes, WriteLogs
  <2>2. PcStep(r) /\ reqs[r].ask.kind \notin Sockets
    BY <1>1, <2>1
  <2>3. RowStep(r) /\ \A row \in logs' \ logs : row.request = r
    BY <2>1, <2>2 DEF RowStep, Logs
  <2> QED
    BY <2>1, <2>2, <2>3, RequestMoved
<1> QED
  BY <1>2, <1>3, <1>4, <1>5, <1>6, <1>7, <1>8, <1>9, <1>10, <1>11, <1>12, <1>13, <1>14, <1>15 DEF RequestStep

(* The process and its prices leave the sessions alone.                    *)
LEMMA ProcessSession ==
    ASSUME Shape, Sessions, now' \in Nat, ws' = ws, logs' = logs,
           \A q \in Requests : PcStep(q) /\ reqs'[q].ask = reqs[q].ask
    PROVE  Sessions'
BY NoRows, Unmoved DEF Sessions

LEMMA SessionStepNow ==
    ASSUME Shape, Sessions, NEW r \in Requests, SessionStep(r)
    PROVE  Sessions'
<1>1. now' = now
  BY SessionTouches
<1>2. CASE dialNativeRuntimeWebSocket(r)
  BY <1>1, <1>2, dialSession
<1>3. CASE UpgradeFails(r) \/ CloseSession(r)
  BY <1>1, <1>3, OverSession
<1> QED
  BY <1>1, <1>2, <1>3, admitSession, UpgradeRealtimeSession, prepareSession, RefuseSession, WriteUpstreamSession,
     AnswerSession, AnswerUnaskedSession, RepeatSession, TakeCreatedSession, TakeKnownSession,
     PersistTurnSession, PersistTurnFailsSession, WriteDownstreamSession, EndsSession DEF SessionStep

LEMMA SessionsStep ==
    ASSUME Shape, Sessions, [WebSocketNext]_wsVars
    PROVE  Sessions'
<1>1. ASSUME NEW r \in Requests, SessionStep(r)
      PROVE  Sessions'
  BY <1>1, SessionStepNow
<1>2. ASSUME NEW r \in Requests, RequestStep(r), UNCHANGED ws
      PROVE  Sessions'
  <2>1. now' = now
    BY <1>2 DEF RequestStep, ResolveKey, AcquireLease, ReadRequest, LookupBase, enforceLimits, AwaitBase,
       AdmitRequest, LookupDeferred, Serve, ServePanics, FinalizeInSlot, FinalizeInline, PriceResponse,
       SettleRequestWithLog, Reject, Quiet, Asks
  <2> QED
    BY <1>2, <2>1, RequestSession
<1>3. CASE Crash /\ UNCHANGED ws
  <2>1. ASSUME NEW q \in Requests
        PROVE  /\ reqs'[q].ask = reqs[q].ask
               /\ reqs'[q].pc = IF reqs[q].pc \in {"arriving", "rejected", "done"} THEN reqs[q].pc ELSE "gone"
    BY <1>3 DEF Crash, Shape, ReqFields
  <2>2. \A q \in Requests : PcStep(q) /\ reqs'[q].ask = reqs[q].ask
    BY <2>1 DEF PcStep, Before, HttpOnly
  <2>3. now' = now /\ now \in Nat /\ logs' = logs
    BY <1>3 DEF Crash, logVars, Sessions
  <2> QED
    BY <1>3, <2>2, <2>3, ProcessSession
<1>4. CASE (StopServing \/ ShutdownReturns \/ CloseApp \/ Tick \/ PricesChange \/ UNCHANGED wsVars) /\ UNCHANGED ws
  <2>1. reqs' = reqs /\ logs' = logs /\ now' \in {now, now + 1} /\ now \in Nat
    BY <1>4 DEF StopServing, ShutdownReturns, CloseApp, Tick, PricesChange, handlerVars, logVars, Sessions,
       wsVars, allVars, servingVars
  <2>2. \A q \in Requests : PcStep(q) /\ reqs'[q].ask = reqs[q].ask
    BY <2>1, StaysPut DEF Sessions
  <2>3. now' \in Nat
    BY <2>1
  <2> QED
    BY <1>4, <2>1, <2>2, <2>3, ProcessSession
<1>5. UNCHANGED wsVars => UNCHANGED ws
  BY DEF wsVars
<1> QED
  BY <1>1, <1>2, <1>3, <1>4, <1>5 DEF WebSocketNext

LEMMA SessionsInit ==
    ASSUME WebSocketInit
    PROVE  Sessions
<1>1. now = 0 /\ logs = {} /\ ws = [r \in Requests |-> NewSession]
  BY DEF WebSocketInit, ServingInit, WebSocketStart
<1>2. ASSUME NEW r \in Requests PROVE OneSession(r)
  <2>1. ws[r] = NewSession /\ reqs[r].pc \in {"gone", "arriving"}
    BY <1>1 DEF WebSocketInit, ServingInit, NewRequest
  <2> DEFINE s == ws[r]
  <2>2. /\ DOMAIN s = SessionFields /\ s.current = NoStep /\ s.active = FALSE /\ s.pending = <<>> /\ s.seenTurns = {}
        /\ s.sent = 0 /\ s.writing = 0 /\ s.asked = <<>> /\ s.produced = 0 /\ s.events = <<>>
        /\ s.forwarding = NoEvent /\ s.last = NoEvent /\ s.delivered = {} /\ s.pumps = Pumps /\ s.turns = {}
    BY <2>1 DEF NewSession, SessionFields
  <2> HIDE DEF s
  <2>3. <<>> \in Seq(StepType) /\ <<>> \in Seq(Nat) /\ <<>> \in Seq(EventType) /\ DOMAIN <<>> = {}
    OBVIOUS
  <2>4. NoStep \in StepType
    BY DEF NoStep, StepType, AnyModel
  <2>5. s.active \in BOOLEAN
    BY <2>2, Zenon
  <2>6. s.seenTurns \subseteq Nat /\ s.delivered \subseteq Nat /\ s.pumps \subseteq Pumps
    BY <2>2
  <2>7. SessionShape(s)
    BY <2>2, <2>3, <2>4, <2>5, <2>6, NoEventType DEF SessionShape
  <2>8. Turns(s)
    BY <2>2, <2>3, NoEventType DEF Turns, Unseen
  <2>9. Stored(r)
    BY <1>1, <2>2 DEF Stored, s
  <2>10. InPlace(r) /\ ~Open(r)
    BY <2>1 DEF InPlace, Before, HttpOnly, Open, At2
  <2>11. TurnsFit(r, s)
    BY <2>2 DEF TurnsFit
  <2> QED
    BY <2>7, <2>8, <2>9, <2>10, <2>11 DEF OneSession, s
<1> QED
  BY <1>1, <1>2 DEF Sessions

(* What is known of every session holds for ever.                          *)
THEOREM SessionsInvariant == WebSocketSpec => []Sessions
<1>1. Shape /\ Sessions /\ [WebSocketNext]_wsVars => Sessions'
  BY SessionsStep
<1>2. WebSocketInit => Sessions
  BY SessionsInit
<1> QED
  BY <1>1, <1>2, LifeInvariant, PTL DEF WebSocketSpec

(* A completion is forwarded only after its turn was stored, and a turn is *)
(* accounted to the frame it answers: the model, the wish to generate and  *)
(* the number are that frame's, however many frames the client sends       *)
(* ahead, whatever the runtime repeats, and whichever pump fails when.     *)
THEOREM TurnsStoredInOrder == WebSocketSpec => []TurnsInOrder
<1>1. ASSUME Sessions
      PROVE  TurnsInOrder
  <2>1. \A r \in Requests : SessionShape(ws[r]) /\ Turns(ws[r]) /\ Stored(r) /\ TurnsFit(r, ws[r])
    BY <1>1 DEF Sessions, OneSession
  <2>2. SessionTypeOK
    BY <2>1 DEF SessionTypeOK, SessionShape, Turns
  <2>3. PersistedBeforeForwarded
    BY <2>1 DEF PersistedBeforeForwarded, Turns, Stored
  <2>4. TurnsMatchFrames
    BY <2>1 DEF TurnsMatchFrames, TurnsFit, TurnFits
  <2> QED
    BY <2>2, <2>3, <2>4 DEF TurnsInOrder
<1> QED
  BY <1>1, SessionsInvariant, PTL

-----------------------------------------------------------------------------
(* The smallest and the largest of some numbers *)

LEMMA SmallestOf ==
    ASSUME NEW S \in SUBSET Nat, S # {}
    PROVE  \E x \in S : \A y \in S : x <= y
<1>1. PICK x \in S : \A y \in S : ~(<<y, x>> \in OpToRel(<, Nat))
  BY NatLessThanWellFounded, WFMin
<1>2. \A y \in S : ~(y < x)
  BY <1>1 DEF OpToRel
<1> QED
  BY <1>2

LEMMA LargestOf ==
    ASSUME NEW N \in Nat, NEW S \in SUBSET (0..N), S # {}
    PROVE  Max(S) \in S /\ \A y \in S : y <= Max(S)
<1> DEFINE T == {N - x : x \in S}
<1>1. T \in SUBSET Nat /\ T # {}
  OBVIOUS
<1>2. PICK z \in T : \A y \in T : z <= y
  BY <1>1, SmallestOf
<1>3. PICK m \in S : z = N - m
  BY <1>2
<1>4. \A y \in S : m >= y
  <2> TAKE y \in S
  <2>1. N - y \in T /\ y \in Int /\ m \in Int
    OBVIOUS
  <2> HIDE DEF T
  <2>2. N - m <= N - y
    BY <1>2, <1>3, <2>1
  <2> QED
    BY <2>1, <2>2
<1>5. Max(S) = m
  BY <1>3, <1>4, MaxIs
<1> QED
  BY <1>3, <1>4, <1>5

-----------------------------------------------------------------------------
(* What was asked for and what was answered *)

LEMMA AnsweredInit ==
    ASSUME WebSocketInit
    PROVE  Answered
BY DEF WebSocketInit, ServingInit, NewRequest, Answered

LEMMA AnsweredOne ==
    ASSUME Answered, NEW r \in Requests, Touches(r), reqs'[r].started \in Nat,
           reqs'[r].response \in Responses \cup {NoResponse}, reqs[r].pc = "gone" => reqs'[r].pc = "gone"
    PROVE  Answered'
BY DEF Answered, Touches

LEMMA RequestAnswered ==
    ASSUME Shape, Answered, now \in Nat, NEW r \in Requests, RequestStep(r)
    PROVE  Answered'
<1>1. reqs[r].started \in Nat /\ reqs[r].response \in Responses \cup {NoResponse}
  BY DEF Answered
<1> DEFINE Fine == /\ Touches(r)
                   /\ reqs'[r].started \in {reqs[r].started, now}
                   /\ reqs'[r].response \in Responses \cup {reqs[r].response}
                   /\ reqs[r].pc = "gone" => reqs'[r].pc = "gone"
<1> USE DEF Rejected, Same, ReqFields
<1>2. CASE ResolveKey(r)
  BY <1>1, <1>2, ResolveKeyDoes, AnsweredOne
<1>3. CASE AcquireLease(r)
  BY <1>1, <1>3, AcquireLeaseDoes, AnsweredOne
<1>4. CASE ReadRequest(r)
  BY <1>1, <1>4, ReadRequestDoes, AnsweredOne
<1>5. CASE LookupBase(r)
  BY <1>1, <1>5, LookupBaseDoes, AnsweredOne
<1>6. CASE enforceLimits(r)
  BY <1>1, <1>6, enforceLimitsDoes, AnsweredOne
<1>7. CASE AwaitBase(r)
  <2>1. Fine
    BY <1>7, AwaitBaseDoes
  <2> QED
    BY <1>1, <2>1, AnsweredOne
<1>8. CASE AdmitRequest(r)
  BY <1>1, <1>8, AdmitRequestDoes, AnsweredOne
<1>9. CASE LookupDeferred(r)
  BY <1>1, <1>9, LookupDeferredDoes, AnsweredOne
<1>10. CASE Serve(r)
  BY <1>1, <1>10, ServeDoes, AnsweredOne
<1>11. CASE ServePanics(r)
  BY <1>1, <1>11, ServePanicsDoes, AnsweredOne
<1>12. CASE FinalizeInSlot(r)
  BY <1>1, <1>12, FinalizeInSlotDoes, AnsweredOne
<1>13. CASE FinalizeInline(r)
  BY <1>1, <1>13, FinalizeInlineDoes, AnsweredOne
<1>14. CASE PriceResponse(r)
  BY <1>1, <1>14, PriceResponseDoes, AnsweredOne
<1>15. CASE SettleRequestWithLog(r)
  <2>1. Fine
    BY <1>15, SettleRequestWithLogDoes
  <2> QED
    BY <1>1, <2>1, AnsweredOne
<1> QED
  BY <1>2, <1>3, <1>4, <1>5, <1>6, <1>7, <1>8, <1>9, <1>10, <1>11, <1>12, <1>13, <1>14, <1>15 DEF RequestStep

LEMMA AnsweredStep ==
    ASSUME Shape, Answered, now \in Nat, [WebSocketNext]_wsVars
    PROVE  Answered'
<1>1. ASSUME NEW r \in Requests, SessionStep(r) PROVE Answered'
  BY <1>1, SessionTouches, AnsweredOne DEF SessionMove, Answered
<1>2. ASSUME NEW r \in Requests, RequestStep(r) PROVE Answered'
  BY <1>2, RequestAnswered
<1>3. CASE Crash
  <2>1. \A q \in Requests :
          /\ reqs'[q].ask = reqs[q].ask /\ reqs'[q].started = reqs[q].started
          /\ reqs'[q].response = reqs[q].response /\ (reqs[q].pc = "gone" => reqs'[q].pc = "gone")
    BY <1>3 DEF Crash, Shape, ReqFields
  <2> QED
    BY <2>1 DEF Answered
<1>4. CASE StopServing \/ ShutdownReturns \/ CloseApp \/ Tick \/ PricesChange \/ UNCHANGED wsVars
  BY <1>4 DEF StopServing, ShutdownReturns, CloseApp, Tick, PricesChange, Answered, wsVars, allVars, servingVars
<1> QED
  BY <1>1, <1>2, <1>3, <1>4 DEF WebSocketNext

-----------------------------------------------------------------------------
(* The requests of a minute *)

(* What is forgotten is a prefix, and all of it is old.                    *)
LEMMA SinceIs ==
    ASSUME NEW times \in Seq(Nat), NEW cutoff \in Int
    PROVE  \E f \in 1..Len(times) + 1 :
             /\ Since(times, cutoff) = SubSeq(times, f, Len(times))
             /\ \A j \in 1..f - 1 : times[j] < cutoff
<1> DEFINE N == Len(times)
           Ok(i) == (\A j \in 1..i-1 : times[j] < cutoff) /\ (i <= N => times[i] >= cutoff)
           S == {i \in 1..N + 1 : i <= N => times[i] >= cutoff}
<1>1. N \in Nat /\ \A i \in 1..N : times[i] \in Nat
  OBVIOUS
<1> HIDE DEF N
<1>2. S \in SUBSET Nat /\ N + 1 \in S
  BY <1>1
<1>3. PICK m \in S : \A i \in S : m <= i
  BY <1>2, SmallestOf
<1>4. Ok(m)
  <2>1. m \in 1..N + 1 /\ (m <= N => times[m] >= cutoff)
    OBVIOUS
  <2>2. ASSUME NEW j \in 1..m - 1 PROVE times[j] < cutoff
    <3>1. j \in 1..N /\ j < m
      BY <1>1, <2>1
    <3>2. j \notin S
      <4> HIDE DEF S
      <4> QED
        BY <1>1, <1>3, <2>1, <3>1
    <3>3. ~(times[j] >= cutoff) /\ times[j] \in Nat
      BY <1>1, <3>1, <3>2
    <3> QED
      BY <3>3
  <2> QED
    BY <2>1, <2>2
<1> DEFINE f == CHOOSE i \in 1..N + 1 : Ok(i)
<1>5. f \in 1..N + 1 /\ Ok(f)
  <2>1. \E i \in 1..N + 1 : Ok(i)
    BY <1>4
  <2> HIDE DEF Ok
  <2> QED
    BY <2>1
<1>6. Since(times, cutoff) = SubSeq(times, f, N)
  BY DEF Since, N
<1> HIDE DEF f
<1> QED
  BY <1>5, <1>6 DEF N

LEMMA LiveRecent ==
    ASSUME NEW times \in Seq(Nat), NEW all \in Seq(Nat), now \in Nat, Recent(times, all)
    PROVE  Live(times) \in Seq(Nat) /\ Recent(Live(times), all)
<1> DEFINE N == Len(times)
           M == Len(all)
           live == Live(times)
<1>1. now - Minute \in Int
  BY ServingAssumption
<1>2. PICK f \in 1..N + 1 : live = SubSeq(times, f, N) /\ \A j \in 1..f - 1 : times[j] < now - Minute
  BY <1>1, SinceIs DEF Live
<1>3. N \in Nat /\ M \in Nat
  OBVIOUS
<1>4. f \in 1..Len(times) + 1 /\ Len(times) \in f - 1..Len(times)
  BY <1>2
<1> HIDE DEF live
<1>5. /\ live \in Seq(Nat) /\ Len(live) = N - f + 1
      /\ \A i \in 1..N - f + 1 : live[i] = times[f + i - 1]
  <2> DEFINE sub == SubSeq(times, f, N)
  <2>1. /\ sub \in Seq(Nat) /\ Len(sub) = N - f + 1
        /\ \A i \in 1..N - f + 1 : sub[i] = times[f + i - 1]
    BY <1>3, <1>4, SubSeqProperties
  <2>2. live = sub
    BY <1>2
  <2> HIDE DEF sub
  <2> QED
    BY <2>1, <2>2
<1>6. PICK n \in 0..M : /\ N = M - n /\ \A i \in 1..N : times[i] = all[n + i]
                        /\ \A i \in 1..n : all[i] < now - Minute
  BY DEF Recent
<1> HIDE DEF N, M
<1>7. f \in 1..N + 1
  BY <1>2
<1> DEFINE k == n + f - 1
<1>8. k \in 0..M /\ Len(live) = M - k
  BY <1>3, <1>5, <1>6, <1>7
<1>9. ASSUME NEW i \in 1..Len(live) PROVE live[i] = all[k + i]
  <2>1. i \in 1..N - f + 1 /\ f + i - 1 \in 1..N /\ n + (f + i - 1) = k + i
    BY <1>3, <1>5, <1>6, <1>7
  <2>2. live[i] = times[f + i - 1]
    BY <1>5, <2>1
  <2> HIDE DEF k
  <2> QED
    BY <1>6, <2>1, <2>2
<1>10. ASSUME NEW i \in 1..k PROVE all[i] < now - Minute
  <2>1. CASE i <= n
    BY <1>6, <2>1
  <2>2. CASE i > n
    <3>1. i - n \in 1..f - 1 /\ i - n \in 1..N /\ n + (i - n) = i
      BY <1>3, <1>6, <1>7, <2>2
    <3>2. times[i - n] < now - Minute /\ times[i - n] = all[n + (i - n)]
      BY <1>2, <1>6, <3>1
    <3> QED
      BY <3>1, <3>2
  <2> QED
    BY <1>6, <1>7, <2>1, <2>2
<1> HIDE DEF k
<1> QED
  BY <1>5, <1>8, <1>9, <1>10 DEF Recent, M, live

(* A request is let through: the one that came RateLimit requests before   *)
(* it is older than a minute.                                              *)
LEMMA GrantKeeps ==
    ASSUME NEW live \in Seq(Nat), NEW all \in Seq(Nat), now \in Nat, Recent(live, all), Spaced(all),
           Len(live) < RateLimit
    PROVE  /\ Append(live, now) \in Seq(Nat) /\ Append(all, now) \in Seq(Nat)
           /\ Recent(Append(live, now), Append(all, now)) /\ Spaced(Append(all, now))
<1> DEFINE N == Len(live)
           M == Len(all)
           l == Append(live, now)
           a == Append(all, now)
<1>1. N \in Nat /\ M \in Nat /\ RateLimit \in Nat /\ Minute \in Nat /\ N < RateLimit
  BY ServingAssumption
<1>2. /\ l \in Seq(Nat) /\ Len(l) = N + 1 /\ DOMAIN l = 1..N + 1
      /\ \A i \in 1..N : l[i] = live[i] /\ live[i] \in Nat
      /\ l[N + 1] = now
  OBVIOUS
<1>3. /\ a \in Seq(Nat) /\ Len(a) = M + 1 /\ DOMAIN a = 1..M + 1 /\ DOMAIN all = 1..M
      /\ \A i \in 1..M : a[i] = all[i] /\ all[i] \in Nat
      /\ a[M + 1] = now
  OBVIOUS
<1>4. PICK n \in 0..M : /\ N = M - n /\ \A i \in 1..N : live[i] = all[n + i]
                        /\ \A i \in 1..n : all[i] < now - Minute
  BY DEF Recent
<1>5. /\ \A i \in 1..M : all[i] <= now
      /\ \A i, j \in 1..M : i <= j => all[i] <= all[j]
      /\ \A i \in 1..M : i + RateLimit \in 1..M => all[i + RateLimit] > all[i] + Minute
  BY <1>3 DEF Spaced
<1> HIDE DEF N, M, l, a
<1>6. Recent(l, a)
  <2>1. n \in 0..Len(a) /\ Len(l) = Len(a) - n
    BY <1>1, <1>2, <1>3, <1>4
  <2>2. ASSUME NEW i \in 1..Len(l) PROVE l[i] = a[n + i]
    <3>1. CASE i \in 1..N
      BY <1>1, <1>2, <1>3, <1>4, <3>1
    <3>2. CASE i = N + 1
      BY <1>1, <1>2, <1>3, <1>4, <3>2
    <3> QED
      BY <1>1, <1>2, <3>1, <3>2
  <2>3. ASSUME NEW i \in 1..n PROVE a[i] < now - Minute
    <3>1. i \in 1..M
      BY <1>1, <1>4
    <3> QED
      BY <1>3, <1>4, <3>1
  <2> QED
    BY <2>1, <2>2, <2>3 DEF Recent
<1>7. \A i \in 1..M + 1 : i \in 1..M \/ i = M + 1
  BY <1>1
<1>8. \A i \in DOMAIN a : a[i] <= now
  <2> SUFFICES ASSUME NEW i \in 1..M + 1 PROVE a[i] <= now
    BY <1>3
  <2>1. CASE i \in 1..M
    BY <1>3, <1>5, <2>1
  <2>2. CASE i = M + 1
    BY <1>3, <2>2
  <2> QED
    BY <1>7, <2>1, <2>2
<1>9. ASSUME NEW i \in DOMAIN a, NEW j \in DOMAIN a, i <= j PROVE a[i] <= a[j]
  <2>1. CASE j \in 1..M
    BY <1>1, <1>3, <1>5, <1>9, <2>1
  <2>2. CASE j = M + 1
    BY <1>3, <1>8, <2>2
  <2> QED
    BY <1>3, <1>7, <2>1, <2>2
<1>10. ASSUME NEW i \in DOMAIN a, i + RateLimit \in DOMAIN a PROVE a[i + RateLimit] > a[i] + Minute
  <2>1. i \in 1..M
    BY <1>1, <1>3, <1>10
  <2>2. CASE i + RateLimit \in 1..M
    BY <1>3, <1>5, <2>1, <2>2
  <2>3. CASE i + RateLimit = M + 1
    <3>1. i \in 1..n
      BY <1>1, <1>4, <2>1, <2>3
    <3>2. all[i] < now - Minute /\ all[i] \in Nat /\ a[i] = all[i]
      BY <1>3, <1>4, <2>1, <3>1
    <3> QED
      BY <1>1, <1>3, <2>3, <3>2
  <2> QED
    BY <1>3, <1>7, <1>10, <2>2, <2>3
<1>11. Spaced(a)
  BY <1>8, <1>9, <1>10 DEF Spaced
<1> QED
  BY <1>2, <1>3, <1>6, <1>11 DEF l, a

(* Time passes.                                                            *)
LEMMA LaterRecent ==
    ASSUME NEW times, NEW all \in Seq(Nat), now \in Nat, now' \in {now, now + 1},
           Recent(times, all), Spaced(all)
    PROVE  /\ \E n \in 0..Len(all) :
                /\ Len(times) = Len(all) - n
                /\ \A i \in 1..Len(times) : times[i] = all[n + i]
                /\ \A i \in 1..n : all[i] < now' - Minute
           /\ \A i \in DOMAIN all : all[i] <= now'
<1>1. Minute \in Nat /\ DOMAIN all = 1..Len(all) /\ Len(all) \in Nat /\ \A i \in 1..Len(all) : all[i] \in Nat
  BY ServingAssumption
<1>2. PICK n \in 0..Len(all) :
        /\ Len(times) = Len(all) - n
        /\ \A i \in 1..Len(times) : times[i] = all[n + i]
        /\ \A i \in 1..n : all[i] < now - Minute
  BY DEF Recent
<1>3. ASSUME NEW i \in 1..n PROVE all[i] < now' - Minute
  BY <1>1, <1>2
<1>4. ASSUME NEW i \in DOMAIN all PROVE all[i] <= now'
  BY <1>1 DEF Spaced
<1> QED
  BY <1>2, <1>3, <1>4

LEMMA RatesLater ==
    ASSUME RatesKept, now \in Nat, now' \in {now, now + 1}, UNCHANGED rateVars
    PROVE  RatesKept'
<1>1. UNCHANGED <<rates, granted, swept>>
  BY DEF rateVars
<1>2. ASSUME RateLimit # 0, NEW k \in Keys
      PROVE  /\ rates'[k] \in Seq(Nat) /\ granted'[k] \in Seq(Nat)
             /\ Recent(rates[k], granted[k])' /\ Spaced(granted[k])'
  <2>1. /\ rates[k] \in Seq(Nat) /\ granted[k] \in Seq(Nat) /\ Recent(rates[k], granted[k])
        /\ Spaced(granted[k])
    BY <1>2 DEF RatesKept
  <2> DEFINE times == rates[k]
             all == granted[k]
  <2>2. /\ \E n \in 0..Len(all) :
                /\ Len(times) = Len(all) - n
                /\ \A i \in 1..Len(times) : times[i] = all[n + i]
                /\ \A i \in 1..n : all[i] < now' - Minute
        /\ \A i \in DOMAIN all : all[i] <= now'
    BY <2>1, LaterRecent
  <2>3. Recent(rates[k], granted[k])'
    BY <1>1, <2>2 DEF Recent
  <2>4. Spaced(granted[k])'
    BY <1>1, <2>1, <2>2 DEF Spaced
  <2> QED
    BY <1>1, <2>1, <2>3, <2>4
<1>3. DOMAIN rates' = Keys /\ DOMAIN granted' = Keys /\ swept' \in Nat
  BY <1>1 DEF RatesKept
<1> QED
  BY <1>2, <1>3 DEF RatesKept

(* A key is let through, or not; every key may be swept.                   *)
LEMMA RatesPass ==
    ASSUME RatesKept, now \in Nat, now' = now, NEW r \in Requests, reqs[r].ask.key \in Keys, Passes(r)
    PROVE  RatesKept'
<1> DEFINE k == reqs[r].ask.key
           sweep == swept = 0 \/ now - swept >= Minute
           kept == [o \in Keys |-> IF sweep THEN Live(rates[o]) ELSE rates[o]]
           live == Live(kept[k])
<1>1. CASE RateLimit = 0
  BY <1>1 DEF Passes, allowRate, RatesKept
<1>2. CASE RateLimit # 0
  <2>0. /\ rates' = [kept EXCEPT ![k] = IF Len(live) < RateLimit THEN Append(live, now) ELSE live]
        /\ swept' \in {now, swept}
        /\ granted' = IF Len(live) < RateLimit THEN [granted EXCEPT ![k] = Append(granted[k], now)] ELSE granted
    BY <1>2 DEF Passes, allowRate
  <2>1. /\ DOMAIN rates = Keys /\ DOMAIN granted = Keys /\ swept \in Nat
        /\ \A o \in Keys : /\ rates[o] \in Seq(Nat) /\ granted[o] \in Seq(Nat)
                           /\ Recent(rates[o], granted[o]) /\ Spaced(granted[o])
    BY <1>2 DEF RatesKept
  <2>2. \A o \in Keys : kept[o] \in Seq(Nat) /\ Recent(kept[o], granted[o])
    BY <2>1, LiveRecent
  <2>3. DOMAIN kept = Keys
    OBVIOUS
  <2> HIDE DEF kept
  <2>4. live \in Seq(Nat) /\ Recent(live, granted[k])
    BY <2>1, <2>2, LiveRecent
  <2> HIDE DEF live, k
  <2>5. k \in Keys
    BY DEF k
  <2>6. DOMAIN rates' = Keys /\ DOMAIN granted' = Keys /\ swept' \in Nat
    BY <2>0, <2>1, <2>3
  <2>7. ASSUME NEW o \in Keys
        PROVE  /\ rates'[o] \in Seq(Nat) /\ granted'[o] \in Seq(Nat)
               /\ Recent(rates'[o], granted'[o]) /\ Spaced(granted'[o])
    <3>1. CASE o # k
      BY <2>0, <2>1, <2>2, <2>3, <3>1
    <3>2. CASE o = k /\ Len(live) < RateLimit
      <4>1. rates'[k] = Append(live, now) /\ granted'[k] = Append(granted[k], now)
        BY <2>0, <2>1, <2>3, <2>5, <3>2
      <4>2. /\ Append(live, now) \in Seq(Nat) /\ Append(granted[k], now) \in Seq(Nat)
            /\ Recent(Append(live, now), Append(granted[k], now)) /\ Spaced(Append(granted[k], now))
        <5> DEFINE all == granted[k]
        <5>1. all \in Seq(Nat) /\ Spaced(all) /\ Recent(live, all)
          BY <2>1, <2>4, <2>5
        <5> HIDE DEF all
        <5>2. /\ Append(live, now) \in Seq(Nat) /\ Append(all, now) \in Seq(Nat)
              /\ Recent(Append(live, now), Append(all, now)) /\ Spaced(Append(all, now))
          BY <2>4, <3>2, <5>1, GrantKeeps
        <5> QED
          BY <5>2 DEF all
      <4> QED
        BY <3>2, <4>1, <4>2
    <3>3. CASE o = k /\ ~(Len(live) < RateLimit)
      BY <2>0, <2>1, <2>3, <2>4, <2>5, <3>3
    <3> QED
      BY <3>1, <3>2, <3>3
  <2>8. ASSUME NEW o \in Keys PROVE Recent(rates[o], granted[o])' /\ Spaced(granted[o])'
    BY <2>7 DEF Recent, Spaced
  <2> QED
    BY <2>6, <2>7, <2>8 DEF RatesKept
<1> QED
  BY <1>1, <1>2

LEMMA RequestRates ==
    ASSUME Shape, Answered, RatesKept, now \in Nat, NEW r \in Requests, RequestStep(r)
    PROVE  RatesKept'
<1>1. now' = now
  BY DEF RequestStep, ResolveKey, AcquireLease, ReadRequest, LookupBase, enforceLimits, AwaitBase,
     AdmitRequest, LookupDeferred, Serve, ServePanics, FinalizeInSlot, FinalizeInline, PriceResponse,
     SettleRequestWithLog, Reject, Quiet, Asks
<1>2. CASE enforceLimits(r) /\ ~Rejected(r)
  BY <1>1, <1>2, enforceLimitsDoes, AnswersAssumption, RatesPass DEF Answered, Shape
<1>3. CASE Rejected(r)
  BY <1>1, <1>3, RatesLater DEF Rejected, handlerVars
<1>4. CASE ~enforceLimits(r)
  <2>1. UNCHANGED rateVars
    BY <1>4 DEF RequestStep, ResolveKey, AcquireLease, ReadRequest, LookupBase, AwaitBase,
     AdmitRequest, LookupDeferred, Serve, ServePanics, FinalizeInSlot, FinalizeInline, PriceResponse,
     SettleRequestWithLog, Reject, handlerVars
  <2> QED
    BY <1>1, <2>1, RatesLater
<1> QED
  BY <1>2, <1>3, <1>4

LEMMA RatesStep ==
    ASSUME Shape, Answered, RatesKept, now \in Nat, [WebSocketNext]_wsVars
    PROVE  RatesKept'
<1>1. ASSUME NEW r \in Requests, SessionStep(r) PROVE RatesKept'
  BY <1>1, SessionTouches, RatesLater
<1>2. ASSUME NEW r \in Requests, RequestStep(r) PROVE RatesKept'
  BY <1>2, RequestRates
<1>3. CASE Crash
  <2>1. rates' = [k \in Keys |-> <<>>] /\ granted' = [k \in Keys |-> <<>>] /\ swept' = 0 /\ now' = now
    BY <1>3 DEF Crash
  <2>2. ASSUME NEW k \in Keys
        PROVE  /\ rates'[k] \in Seq(Nat) /\ granted'[k] \in Seq(Nat)
               /\ Recent(rates[k], granted[k])' /\ Spaced(granted[k])'
    BY <2>1 DEF Recent, Spaced
  <2> QED
    BY <2>1, <2>2 DEF RatesKept
<1>4. CASE StopServing \/ ShutdownReturns \/ CloseApp \/ Tick \/ PricesChange \/ UNCHANGED wsVars
  BY <1>4, RatesLater DEF StopServing, ShutdownReturns, CloseApp, Tick, PricesChange, wsVars,
     allVars, servingVars, handlerVars
<1> QED
  BY <1>1, <1>2, <1>3, <1>4 DEF WebSocketNext

LEMMA RatesInit ==
    ASSUME WebSocketInit
    PROVE  RatesKept
<1>1. rates = [k \in Keys |-> <<>>] /\ granted = [k \in Keys |-> <<>>] /\ swept = 0 /\ now = 0
  BY DEF WebSocketInit, ServingInit
<1>2. ASSUME NEW k \in Keys
      PROVE  /\ rates[k] \in Seq(Nat) /\ granted[k] \in Seq(Nat)
             /\ Recent(rates[k], granted[k]) /\ Spaced(granted[k])
  BY <1>1 DEF Recent, Spaced
<1> QED
  BY <1>1, <1>2 DEF RatesKept

(* Times that are spaced leave no room for one more in any minute.         *)
LEMMA SpacedRespects ==
    ASSUME NEW all \in Seq(Nat), Spaced(all), RateLimit # 0, NEW i \in DOMAIN all
    PROVE  Cardinality({j \in DOMAIN all : all[j] \in all[i]..all[i] + Minute}) <= RateLimit
<1> DEFINE N == Len(all)
           S == {j \in DOMAIN all : all[j] \in all[i]..all[i] + Minute}
<1>1. /\ N \in Nat /\ DOMAIN all = 1..N /\ \A j \in 1..N : all[j] \in Nat
      /\ RateLimit \in Nat /\ Minute \in Nat
  BY ServingAssumption
<1> HIDE DEF N
<1>2. S \in SUBSET Nat /\ i \in S
  BY <1>1
<1>3. PICK m \in S : \A j \in S : m <= j
  BY <1>2, SmallestOf
<1>4. m \in 1..N /\ all[m] <= all[i] + Minute /\ all[i] <= all[m]
  BY <1>1
<1>5. ASSUME NEW j \in S PROVE j \in m..m + RateLimit - 1
  <2>1. j \in 1..N /\ all[j] <= all[i] + Minute /\ m <= j
    BY <1>1, <1>3
  <2>2. ASSUME j >= m + RateLimit PROVE FALSE
    <3>1. m + RateLimit \in 1..N
      BY <1>1, <1>4, <2>1, <2>2
    <3>2. all[m + RateLimit] > all[m] + Minute /\ all[m + RateLimit] <= all[j]
      BY <1>1, <1>4, <2>1, <2>2, <3>1 DEF Spaced
    <3>3. all[m] \in Nat /\ all[i] \in Nat /\ all[j] \in Nat /\ all[m + RateLimit] \in Nat
      BY <1>1, <1>4, <2>1, <3>1
    <3> QED
      BY <1>1, <1>4, <2>1, <3>2, <3>3
  <2> QED
    BY <1>1, <1>4, <2>1, <2>2
<1> HIDE DEF S
<1> DEFINE I == m..m + RateLimit - 1
<1>6. m \in Int /\ m + RateLimit - 1 \in Int
  BY <1>1, <1>4
<1>7. IsFiniteSet(I) /\ Cardinality(I) = RateLimit
  <2>1. IsFiniteSet(I) /\ Cardinality(I) = IF m > m + RateLimit - 1 THEN 0 ELSE (m + RateLimit - 1) - m + 1
    BY <1>6, FS_Interval
  <2> HIDE DEF I
  <2> QED
    BY <1>1, <1>4, <2>1
<1>8. S \in SUBSET I
  BY <1>5
<1> HIDE DEF I
<1>9. Cardinality(S) <= RateLimit
  BY <1>7, <1>8, FS_Subset
<1> QED
  BY <1>9 DEF S

LEMMA RatesRespected ==
    ASSUME RatesKept
    PROVE  RateRespected
<1>1. ASSUME RateLimit # 0, NEW k \in Keys, NEW i \in DOMAIN granted[k]
      PROVE  Cardinality({j \in DOMAIN granted[k] : granted[k][j] \in granted[k][i]..granted[k][i] + Minute})
               <= RateLimit
  <2> DEFINE all == granted[k]
  <2>1. all \in Seq(Nat) /\ Spaced(all) /\ i \in DOMAIN all
    BY <1>1 DEF RatesKept
  <2> HIDE DEF all
  <2>2. Cardinality({j \in DOMAIN all : all[j] \in all[i]..all[i] + Minute}) <= RateLimit
    BY <1>1, <2>1, SpacedRespects
  <2> QED
    BY <2>2 DEF all
<1> QED
  BY <1>1 DEF RateRespected

-----------------------------------------------------------------------------
(* The usage of a response *)

Counts == 0..MaxInt64

LEMMA MaxInt64Nat == MaxInt64 \in Nat /\ Counts \in SUBSET Nat /\ 0 \in Counts
<1>1. MaxInt64 \in Nat
  BY BillingAssumption
<1> QED
  BY <1>1 DEF Counts

LEMMA SumCounts ==
    ASSUME NEW a \in Counts, NEW b \in Counts
    PROVE  saturatingSum(a, b) \in Counts
BY MaxInt64Nat DEF Counts, saturatingSum

LEMMA ReadUsageType ==
    ASSUME NEW event \in UsageEvents
    PROVE  readUsage(event) \in [Counters -> Counts]
<1> DEFINE u == event.usage
           prompt == IF event.disjoint THEN saturatingSum(u.prompt, u.cached) ELSE u.prompt
           image == IF u.image_output = 0 /\ event.modal THEN u.completion ELSE u.image_output
<1>1. u \in [Counters -> Counts]
  BY DEF UsageEvents, Counts
<1>2. /\ "prompt" \in Counters /\ "cached" \in Counters /\ "completion" \in Counters
      /\ "image_output" \in Counters
  BY DEF Counters
<1>3. u.prompt \in Counts /\ u.cached \in Counts /\ u.completion \in Counts /\ u.image_output \in Counts
  BY <1>1, <1>2
<1>4. prompt \in Counts /\ image \in Counts
  BY <1>3, SumCounts
<1>5. readUsage(event) = [u EXCEPT !.prompt = prompt, !.image_output = image]
  BY DEF readUsage
<1> HIDE DEF u, prompt, image
<1> QED
  BY <1>1, <1>2, <1>4, <1>5

(* Every counter is the largest that an event reported.                    *)
Reports(events, c) == {0} \cup {readUsage(events[i])[c] : i \in DOMAIN events}
Largest(events) == [c \in Counters |-> Max(Reports(events, c))]
Whole(u) == [u EXCEPT !.total =
              Most(u.total, saturatingSum(saturatingSum(u.prompt, u.cache_write), u.completion))]

LEMMA ParseUsage ==
    ASSUME NEW events
    PROVE  ParseResponse(events).usage = Whole(Largest(events))
BY DEF ParseResponse, Whole, Largest, Reports

LEMMA LargestType ==
    ASSUME NEW events \in Seq(UsageEvents)
    PROVE  Largest(events) \in [Counters -> Counts]
<1>1. ASSUME NEW c \in Counters PROVE Max(Reports(events, c)) \in Counts
  <2>1. \A i \in DOMAIN events : events[i] \in UsageEvents
    BY SeqDomain
  <2>2. \A i \in DOMAIN events : readUsage(events[i])[c] \in Counts
    BY <2>1, ReadUsageType
  <2>3. Reports(events, c) \in SUBSET (0..MaxInt64) /\ Reports(events, c) # {}
    BY <2>2, MaxInt64Nat DEF Reports, Counts
  <2>4. Max(Reports(events, c)) \in Reports(events, c)
    BY <2>3, MaxInt64Nat, LargestOf
  <2> QED
    BY <2>3, <2>4 DEF Counts
<1> QED
  BY <1>1 DEF Largest

LEMMA WholeType ==
    ASSUME NEW u \in [Counters -> Counts]
    PROVE  /\ Whole(u) \in [Counters -> Counts]
           /\ \A c \in Counters \ {"total"} : Whole(u)[c] = u[c]
<1> DEFINE total == Most(u.total, saturatingSum(saturatingSum(u.prompt, u.cache_write), u.completion))
<1>1. /\ "prompt" \in Counters /\ "cache_write" \in Counters /\ "completion" \in Counters
      /\ "total" \in Counters
  BY DEF Counters
<1>2. u.prompt \in Counts /\ u.cache_write \in Counts /\ u.completion \in Counts /\ u.total \in Counts
  BY <1>1
<1>3. saturatingSum(u.prompt, u.cache_write) \in Counts
  BY <1>2, SumCounts
<1>4. saturatingSum(saturatingSum(u.prompt, u.cache_write), u.completion) \in Counts
  BY <1>2, <1>3, SumCounts
<1>5. total \in Counts
  BY <1>2, <1>4 DEF Most
<1>6. Whole(u) = [u EXCEPT !.total = total]
  BY DEF Whole
<1> HIDE DEF total
<1> QED
  BY <1>1, <1>5, <1>6

LEMMA UsageType ==
    ASSUME NEW response \in Responses \cup {NoResponse}
    PROVE  /\ response.events \in Seq(UsageEvents)
           /\ ParseResponse(response.events).usage \in [Counters -> Counts]
<1>1. response.events \in Seq(UsageEvents)
  <2>1. CASE response \in Responses
    BY <2>1, AnswersAssumption
  <2>2. CASE response = NoResponse
    <3>1. response.events = <<>>
      BY <2>2 DEF NoResponse
    <3> QED
      BY <3>1
  <2> QED
    BY <2>1, <2>2
<1> QED
  BY <1>1, ParseUsage, LargestType, WholeType

LEMMA TotalIsCount ==
    ASSUME NEW u \in [Counters -> Counts]
    PROVE  u.total \in Nat
BY MaxInt64Nat DEF Counters

LEMMA TurnTokens ==
    ASSUME NEW step, NEW response \in Responses
    PROVE  TurnResult(step, response).usage.total \in Nat
<1> DEFINE result == ParseResponse(response.events)
<1>1. TurnResult(step, response).usage = result.usage
  <2>1. result.usage = result.usage /\ "usage" \in DOMAIN result
    BY DEF ParseResponse
  <2> HIDE DEF result
  <2>2. \A q : [result EXCEPT !.quality = q].usage = result.usage
    BY <2>1
  <2>3. \A q, f : [result EXCEPT !.quality = q, !.found = f].usage = result.usage
    BY <2>1
  <2> QED
    BY <2>2, <2>3 DEF TurnResult, result
<1> QED
  BY <1>1, UsageType, TotalIsCount

LEMMA ParsedUsage ==
    ASSUME NEW r \in Requests
    PROVE  Parsed(r).usage = IF reqs[r].ask.kind = "count" THEN NoUsage
                             ELSE ParseResponse(reqs[r].response.events).usage
<1> DEFINE result == ParseResponse(reqs[r].response.events)
<1>1. "usage" \in DOMAIN result
  BY DEF ParseResponse
<1>2. [NoResult EXCEPT !.quality = "not_generated"].usage = NoUsage
  BY DEF NoResult
<1> HIDE DEF result
<1>3. \A q, f : [result EXCEPT !.quality = q, !.found = f].usage = result.usage
  BY <1>1
<1> QED
  BY <1>2, <1>3 DEF Parsed, result

LEMMA ParsedTokens ==
    ASSUME NEW r \in Requests, Answered
    PROVE  Parsed(r).usage.total \in Nat
BY UsageType, TotalIsCount, ParsedUsage DEF Answered, NoUsage, Counters

-----------------------------------------------------------------------------
(* The daily counters *)

LEMMA DayType ==
    ASSUME NEW t \in Nat
    PROVE  t \div DayLength \in Nat /\ t \div DayLength <= (t + 1) \div DayLength
BY ServingAssumption

LEMMA LoggedMore ==
    ASSUME NEW S, IsFiniteSet(S), NEW row, \A x \in S \cup {row} : x.tokens \in Nat, row \notin S
    PROVE  Logged(S) \in Nat /\ Logged(S \cup {row}) = Logged(S) + row.tokens
<1> DEFINE T == S \cup {row}
           f == [x \in T |-> x.tokens]
           g == [x \in S |-> x.tokens]
<1>1. IsFiniteSet(T) /\ T \ {row} = S /\ row \in T
  BY FS_AddElement
<1>2. (\A x \in T : f[x] \in Nat) /\ (\A x \in S : g[x] \in Nat) /\ (\A x \in S : f[x] = g[x]) /\ f[row] = row.tokens
  OBVIOUS
<1> HIDE DEF T, f, g
<1>3. \A x \in T : f[x] \in Int
  BY <1>2
<1>4. Total(f, T) = Total(f, T \ {row}) + f[row]
  BY <1>1, <1>3, TotalSplit
<1>5. Total(f, S) = Total(g, S)
  BY <1>2, TotalSame
<1>6. Total(g, S) \in Nat
  BY <1>2, TotalOfNaturals
<1> QED
  BY <1>1, <1>2, <1>4, <1>5, <1>6 DEF Logged, T, f, g

LEMMA LoggedNothing ==
    ASSUME NEW S, IsFiniteSet(S), \A x \in S : x.tokens = 0
    PROVE  Logged(S) = 0
<1> DEFINE g == [x \in S |-> x.tokens]
<1>1. (\A x \in S : g[x] \in Int) /\ \A x \in S : g[x] = 0
  OBVIOUS
<1> HIDE DEF g
<1>2. Total(g, S) = 0
  BY <1>1, TotalType
<1> QED
  BY <1>2 DEF Logged, g

(* Nothing is logged, and time may pass.                                   *)
LEMMA CountedLater ==
    ASSUME Shape, Sessions, Counted, now' \in {now, now + 1}, UNCHANGED logVars,
           \A q \in Requests : reqs'[q].ask = reqs[q].ask
    PROVE  Counted'
<1>1. UNCHANGED <<daily, logs, spans>> /\ now \in Nat
  BY DEF logVars, Sessions
<1>2. Day \in Nat /\ Day' \in Nat /\ Day <= Day'
  BY <1>1, DayType DEF Day
<1>3. \A o, d : RowsOf(o, d)' = RowsOf(o, d)
  BY <1>1 DEF RowsOf, Sessions
<1>4. ASSUME ~spans, NEW o \in Owners PROVE daily[o].day <= Day'
  BY <1>2, <1>4 DEF Counted
<1>5. ASSUME ~spans, NEW o \in Owners
      PROVE  daily'[o].used = Logged(RowsOf(o, daily[o].day)')
  BY <1>1, <1>3, <1>5 DEF Counted
<1>6. ASSUME ~spans, NEW o \in Owners
      PROVE  \A d \in Nat : \A row \in RowsOf(o, d)' : row.tokens # 0 => d <= daily'[o].day
  BY <1>1, <1>3, <1>6 DEF Counted
<1>7. ASSUME ~spans, NEW o \in Owners
      PROVE  daily'[o].used = Logged(RowsOf(o, daily[o].day))'
  BY <1>1, <1>5, <1>7 DEF Logged
<1> QED
  BY <1>1, <1>4, <1>6, <1>7 DEF Counted

(* A row is logged, of today when it counts.                               *)
LEMMA CountedWrite ==
    ASSUME Shape, Sessions, Counted, now' = now, NEW r \in Requests, NEW turn, NEW started \in Nat,
           NEW tokens \in Nat, NEW charge, writeLogTx(r, turn, started, tokens, charge),
           \A row \in logs : ~(row.request = r /\ row.turn = turn),
           \A q \in Requests : reqs'[q].ask = reqs[q].ask
    PROVE  Counted'
<1> DEFINE day == started \div DayLength
           row == [request |-> r, turn |-> turn, day |-> day, tokens |-> tokens,
                   cost |-> charge.cost, complete |-> charge.complete]
           mine(o) == o \in {reqs[r].ask.key, Tenant}
<1>1. /\ logs' = logs \cup {row} /\ row \notin logs
      /\ row.request = r /\ row.day = day /\ row.tokens = tokens
  BY DEF writeLogTx
<1>2. daily' = [o \in Owners |-> IF mine(o) THEN applyDailyTokenDelta(daily[o], day, tokens) ELSE daily[o]]
  BY DEF writeLogTx
<1>3. spans' = (spans \/ (tokens > 0 /\ day # Day))
  BY DEF writeLogTx
<1> HIDE DEF row
<1>4. day \in Nat /\ Day \in Nat /\ Day' = Day
  BY DayType DEF Day, Sessions
<1> HIDE DEF day, mine
<1>5. /\ IsFiniteSet(logs) /\ \A x \in logs : x.tokens \in Nat /\ x.day \in Nat
      /\ spans \in BOOLEAN
      /\ \A o \in Owners : DOMAIN daily[o] = {"used", "day"} /\ daily[o].day \in Int /\ daily[o].used \in Nat
  BY DEF Counted
<1>6. IsFiniteSet(logs') /\ \A x \in logs' : x.tokens \in Nat /\ x.day \in Nat
  BY <1>1, <1>4, <1>5, FS_AddElement
<1>7. spans' \in BOOLEAN
  BY <1>3
<1>8. ASSUME NEW o \in Owners
      PROVE  /\ DOMAIN daily'[o] = {"used", "day"}
             /\ ~mine(o) \/ tokens = 0 => daily'[o] = daily[o]
             /\ mine(o) /\ tokens # 0 =>
                  /\ daily'[o].day = day
                  /\ daily'[o].used = tokens + IF daily[o].day = day THEN daily[o].used ELSE 0
  BY <1>2, <1>5 DEF applyDailyTokenDelta
<1>9. ASSUME NEW o \in Owners PROVE daily'[o].day \in Int /\ daily'[o].used \in Nat
  BY <1>4, <1>5, <1>8
<1>10. \A o, d : RowsOf(o, d)' = IF d = day /\ mine(o) THEN RowsOf(o, d) \cup {row} ELSE RowsOf(o, d)
  BY <1>1 DEF Sessions, mine, RowsOf
<1>11. \A o, d : IsFiniteSet(RowsOf(o, d)) /\ RowsOf(o, d) \subseteq logs
  BY <1>5, FS_Subset DEF RowsOf
<1>12. ASSUME ~spans', NEW o \in Owners
       PROVE  /\ daily'[o].day <= Day'
              /\ daily'[o].used = Logged(RowsOf(o, daily[o].day))'
              /\ \A d \in Nat : \A x \in RowsOf(o, d)' : x.tokens # 0 => d <= daily'[o].day
  <2>1. ~spans /\ (tokens = 0 \/ day = Day)
    <3>1. tokens > 0 \/ tokens = 0
      OBVIOUS
    <3> QED
      BY <1>3, <1>12, <3>1, Zenon
  <2> DEFINE was == daily[o].day
             is == daily'[o].day
             rows == RowsOf(o, was)
             rows2 == RowsOf(o, day)
  <2>2. /\ was <= Day /\ daily[o].used = Logged(rows) /\ was \in Int /\ daily[o].used \in Nat
        /\ \A d \in Nat : \A x \in RowsOf(o, d) : x.tokens # 0 => d <= was
    BY <2>1 DEF Counted
  <2> DEFINE after == {x \in logs' : x.day = is /\ (o = Tenant \/ reqs'[x.request].ask.key = o)}
  <2>3. Logged(RowsOf(o, daily[o].day))' = Logged(after)
    BY DEF Logged, RowsOf
  <2>4. after = IF is = day /\ mine(o) THEN RowsOf(o, is) \cup {row} ELSE RowsOf(o, is)
    <3>1. \A d : RowsOf(o, d)' = {x \in logs' : x.day = d /\ (o = Tenant \/ reqs'[x.request].ask.key = o)}
      BY DEF RowsOf
    <3>2. \A d : {x \in logs' : x.day = d /\ (o = Tenant \/ reqs'[x.request].ask.key = o)}
                  = IF d = day /\ mine(o) THEN RowsOf(o, d) \cup {row} ELSE RowsOf(o, d)
      BY <1>10, <3>1
    <3> QED
      BY <3>2
  <2>5. \A x : IsFiniteSet(RowsOf(o, x)) /\ row \notin RowsOf(o, x) /\ \A y \in RowsOf(o, x) \cup {row} : y.tokens \in Nat
    BY <1>1, <1>5, <1>11
  <2>6. \A x : Logged(RowsOf(o, x)) \in Nat /\ Logged(RowsOf(o, x) \cup {row}) = Logged(RowsOf(o, x)) + tokens
    BY <1>1, <2>5, LoggedMore
  <2>7. CASE ~mine(o) \/ tokens = 0
    <3>1. daily'[o] = daily[o]
      BY <1>8, <2>7
    <3>2. Logged(after) = Logged(rows)
      <4>1. after \in {rows, rows \cup {row}} /\ (tokens # 0 => after = rows)
        BY <2>4, <2>7, <3>1
      <4>2. tokens = 0 => Logged(rows \cup {row}) = Logged(rows)
        BY <2>6
      <4> HIDE DEF after, rows
      <4> QED
        BY <4>1, <4>2
    <3>3. \A d \in Nat : \A x \in RowsOf(o, d)' : x.tokens # 0 => x \in RowsOf(o, d)
      BY <1>1, <1>10, <2>7
    <3> QED
      BY <1>4, <2>2, <2>3, <3>1, <3>2, <3>3
  <2>8. CASE mine(o) /\ tokens # 0
    <3>1. is = day /\ day = Day /\ daily'[o].used = tokens + IF was = day THEN daily[o].used ELSE 0
      BY <1>8, <2>1, <2>8
    <3>2. Logged(after) = Logged(rows2) + tokens /\ Logged(rows2) \in Nat
      BY <2>4, <2>6, <2>8, <3>1
    <3>3. Logged(rows2) = IF was = day THEN daily[o].used ELSE 0
      <4>1. CASE was = day
        BY <2>2, <4>1
      <4>2. CASE was # day
        <5>1. \A x \in rows2 : x.tokens = 0
          BY <1>4, <2>2, <3>1, <4>2
        <5>2. Logged(rows2) = 0
          BY <2>5, <5>1, LoggedNothing
        <5> QED
          BY <4>2, <5>2
      <4> QED
        BY <4>1, <4>2
    <3>4. daily'[o].used = Logged(after)
      <4> HIDE DEF after, rows2
      <4> QED
        BY <2>2, <3>1, <3>2, <3>3
    <3>5. ASSUME NEW d \in Nat, NEW x \in RowsOf(o, d)', x.tokens # 0 PROVE d <= is
      <4>1. d = day \/ x \in RowsOf(o, d)
        BY <1>10
      <4>2. x \in RowsOf(o, d) => d <= was
        BY <2>2, <3>5
      <4> HIDE DEF is, was
      <4>3. was <= is /\ is \in Int /\ was \in Int
        BY <1>4, <2>2, <3>1
      <4> QED
        BY <1>4, <3>1, <4>1, <4>2, <4>3
    <3>6. is <= Day'
      BY <1>4, <3>1
    <3> QED
      BY <2>3, <3>4, <3>5, <3>6
  <2> QED
    BY <2>7, <2>8
<1>13. DOMAIN daily' = Owners
  BY <1>2
<1> QED
  BY <1>6, <1>7, <1>8, <1>9, <1>12, <1>13 DEF Counted

(* A turn that is stored is new, and its usage was read from its response. *)
LEMMA TurnWrites ==
    ASSUME Shape, Sessions, NEW r \in Requests, PersistTurn(r) \/ PersistTurnFails(r)
    PROVE  \/ UNCHANGED logVars
           \/ \E turn \in Nat \ {0}, started \in Nat, tokens \in Nat :
                /\ \E charge : writeLogTx(r, turn, started, tokens, charge)
                /\ \A row \in logs : ~(row.request = r /\ row.turn = turn)
<1> DEFINE s == ws[r]
           event == Head(s.events)
           result == TurnResult(s.current, event.response)
<1>1. /\ reqs[r].pc = "session" /\ "runtime" \in s.pumps /\ s.events # <<>> /\ event.type = "terminal"
      /\ ~Known(s, event)
  BY DEF PersistTurn, PersistTurnFails, CanTake, Open, At2
<1>2. SessionShape(s) /\ Stored(r)
  BY <1>1, OpenSession
<1>3. s.events \in Seq(EventType) /\ s.current \in StepType
  BY <1>2 DEF SessionShape
<1>4. event \in EventType
  BY <1>1, <1>3, SeqTail
<1>5. event \in Terminals
  BY <1>1, <1>4 DEF EventType, Terminals
<1>6. event.response \in Responses /\ event.id \in Nat \ {0} /\ s.current.started \in Nat
  BY <1>3, <1>5 DEF Terminals, StepType
<1>7. result.usage.total \in Nat
  BY <1>6, TurnTokens
<1>8. event.id \notin s.seenTurns
  BY <1>1 DEF Known
<1>9. \A row \in logs : ~(row.request = r /\ row.turn = event.id)
  BY <1>1, <1>2, <1>6, <1>8 DEF Stored
<1>10. CASE PersistTurn(r)
  <2>1. PICK price \in Lookups(r, s.current.model, result.tier, result.usage.prompt) :
          writeLogTx(r, event.id, s.current.started, result.usage.total,
                     TurnCharge(result, event.response, price))
    BY <1>10 DEF PersistTurn
  <2> HIDE DEF s, event, result
  <2> QED
    BY <1>6, <1>7, <1>9, <2>1
<1>11. CASE PersistTurnFails(r) /\ ~(UNCHANGED logVars)
  <2>1. PICK price \in Lookups(r, s.current.model, result.tier, result.usage.prompt) :
          writeLogTx(r, event.id, s.current.started, result.usage.total,
                     TurnCharge(result, event.response, price))
    BY <1>11 DEF PersistTurnFails
  <2> HIDE DEF s, event, result
  <2> QED
    BY <1>6, <1>7, <1>9, <2>1
<1> QED
  BY <1>10, <1>11

LEMMA SessionLogs ==
    ASSUME NEW r \in Requests, SessionStep(r), ~PersistTurn(r), ~PersistTurnFails(r)
    PROVE  UNCHANGED logVars
<1> USE DEF handlerVars
<1>1. CASE UpgradeFails(r) \/ dialNativeRuntimeWebSocket(r) \/ CloseSession(r)
  BY <1>1 DEF UpgradeFails, dialNativeRuntimeWebSocket, EndEarly, CloseSession
<1>2. CASE admitNativeWebSocket(r) \/ UpgradeRealtime(r)
  BY <1>2 DEF admitNativeWebSocket, UpgradeRealtime
<1>3. CASE prepareNativeWebSocketRequest(r) \/ RefuseFrame(r) \/ WriteUpstream(r)
  BY <1>3 DEF prepareNativeWebSocketRequest, RefuseFrame, WriteUpstream
<1>4. CASE Answer(r) \/ AnswerUnasked(r) \/ RepeatEvent(r)
  BY <1>4 DEF Answer, AnswerUnasked, RepeatEvent, Produce
<1>5. CASE TakeCreated(r) \/ TakeKnown(r) \/ WriteDownstream(r)
  BY <1>5 DEF TakeCreated, TakeKnown, WriteDownstream
<1>6. CASE (\E pump \in Pumps : PumpEnds(r, pump)) \/ ForceClose(r)
  BY <1>6 DEF PumpEnds, ForceClose
<1> QED
  BY <1>1, <1>2, <1>3, <1>4, <1>5, <1>6 DEF SessionStep

LEMMA CountedStep ==
    ASSUME Shape, Sessions, Answered, Counted, [WebSocketNext]_wsVars
    PROVE  Counted'
<1>0. now \in Nat /\ \A q \in Requests : reqs'[q].ask = reqs[q].ask
  BY ShapeStep DEF Sessions
<1>1. ASSUME NEW r \in Requests, SessionStep(r) PROVE Counted'
  <2>1. now' = now
    BY <1>1, SessionTouches
  <2>2. CASE UNCHANGED logVars
    BY <1>0, <2>1, <2>2, CountedLater
  <2>3. CASE ~(UNCHANGED logVars)
    BY <1>0, <1>1, <2>1, <2>3, SessionLogs, TurnWrites, CountedWrite
  <2> QED
    BY <2>2, <2>3
<1>2. ASSUME NEW r \in Requests, RequestStep(r) PROVE Counted'
  <2>1. now' = now
    BY <1>2 DEF RequestStep, ResolveKey, AcquireLease, ReadRequest, LookupBase, enforceLimits, AwaitBase,
       AdmitRequest, LookupDeferred, Serve, ServePanics, FinalizeInSlot, FinalizeInline, PriceResponse,
       SettleRequestWithLog, Reject, Quiet, Asks
  <2>2. CASE UNCHANGED logVars
    BY <1>0, <2>1, <2>2, CountedLater
  <2>3. CASE ~(UNCHANGED logVars)
    <3>1. SettleRequestWithLog(r)
      BY <1>2, <2>3 DEF RequestStep, ResolveKey, AcquireLease, ReadRequest, LookupBase, enforceLimits, AwaitBase,
         AdmitRequest, LookupDeferred, Serve, ServePanics, FinalizeInSlot, FinalizeInline, PriceResponse,
         Reject, handlerVars
    <3> DEFINE tokens == Parsed(r).usage.total
               none == 0
    <3>2. writeLogTx(r, none, reqs[r].started, tokens, Charge(r)) /\ reqs[r].pc = "settling"
      BY <2>3, <3>1, SettleRequestWithLogDoes
    <3>3. tokens \in Nat /\ reqs[r].started \in Nat
      BY ParsedTokens DEF Answered
    <3>4. \A row \in logs : ~(row.request = r /\ row.turn = none)
      BY <3>2 DEF Sessions, OneSession, Stored
    <3> HIDE DEF tokens, none
    <3> QED
      BY <1>0, <2>1, <3>2, <3>3, <3>4, CountedWrite
  <2> QED
    BY <2>2, <2>3
<1>3. CASE Crash \/ StopServing \/ ShutdownReturns \/ CloseApp \/ Tick \/ PricesChange \/ UNCHANGED wsVars
  <2>1. UNCHANGED logVars /\ now' \in {now, now + 1}
    BY <1>3 DEF Crash, StopServing, ShutdownReturns, CloseApp, Tick, PricesChange, wsVars, allVars, servingVars, handlerVars
  <2> QED
    BY <1>0, <2>1, CountedLater
<1> QED
  BY <1>1, <1>2, <1>3 DEF WebSocketNext

LEMMA CountedInit ==
    ASSUME WebSocketInit
    PROVE  Counted
<1>1. /\ logs = {} /\ daily = [o \in Owners |-> [used |-> 0, day |-> -1]] /\ spans = FALSE /\ now = 0
  BY DEF WebSocketInit, ServingInit
<1>2. IsFiniteSet({}) /\ \A o, d : RowsOf(o, d) = {}
  BY <1>1, FS_EmptySet DEF RowsOf
<1>3. Day \in Nat
  BY <1>1, DayType DEF Day
<1>4. Logged({}) = 0
  BY <1>2, LoggedNothing
<1>5. ASSUME NEW o \in Owners
      PROVE  DOMAIN daily[o] = {"used", "day"} /\ daily[o].day = -1 /\ daily[o].used = 0
  BY <1>1
<1>6. -1 \in Int /\ -1 <= Day
  BY <1>3
<1> QED
  BY <1>1, <1>2, <1>4, <1>5, <1>6 DEF Counted

LEMMA CountedExact ==
    ASSUME Sessions, Counted
    PROVE  DailyCountExact
<1>1. ASSUME ~spans, NEW o \in Owners
      PROVE  dailyTokensForDay(daily[o]) = Logged(RowsOf(o, Day))
  <2>1. /\ daily[o].day <= Day /\ daily[o].day \in Int
        /\ daily[o].used = Logged(RowsOf(o, daily[o].day))
        /\ \A d \in Nat : \A row \in RowsOf(o, d) : row.tokens # 0 => d <= daily[o].day
    BY <1>1 DEF Counted
  <2>2. Day \in Nat
    BY DayType DEF Day, Sessions
  <2>3. CASE daily[o].day = Day
    BY <2>1, <2>3 DEF dailyTokensForDay
  <2>4. CASE daily[o].day # Day
    BY <2>1, <2>2, <2>4, FS_Subset, LoggedNothing DEF Counted, RowsOf, dailyTokensForDay
  <2> QED
    BY <2>3, <2>4
<1> QED
  BY <1>1 DEF DailyCountExact, RowsOf

(* For any limits and any number of requests: no minute, wherever it       *)
(* begins, lets more requests of a key through than its limit, although    *)
(* the sweeps forget old times for every key; while no request is logged   *)
(* on a later day than it started, a counter the daily limit is checked    *)
(* against is the sum of what was logged that day, with the turns of       *)
(* sockets and through a crash; and a lease is held by a handler that has  *)
(* not returned, a slot by at most FinalizationSlots finalizers.           *)
THEOREM LimitsAlwaysKept == WebSocketSpec => []LimitsKept
<1>1. /\ Shape /\ Sessions /\ Answered /\ RatesKept /\ Counted /\ [WebSocketNext]_wsVars
      => (Answered /\ RatesKept /\ Counted)'
  BY AnsweredStep, RatesStep, CountedStep DEF Sessions
<1>2. WebSocketInit => Answered /\ RatesKept /\ Counted
  BY AnsweredInit, RatesInit, CountedInit
<1>3. Life /\ Sessions /\ RatesKept /\ Counted => LimitsKept
  BY RatesRespected, CountedExact DEF LimitsKept, Life
<1> QED
  BY <1>1, <1>2, <1>3, LifeInvariant, SessionsInvariant, PTL DEF WebSocketSpec

-----------------------------------------------------------------------------
(* The prices of a request *)

LEMMA FirstMore ==
    ASSUME NEW ask, NEW S, NEW T, S \subseteq T, NEW price, First(ask, S, price)
    PROVE  First(ask, T, price)
BY DEF First

LEMMA FinalMore ==
    ASSUME NEW ask, NEW result, NEW S, NEW T, S \subseteq T, NEW price, Final(ask, result, S, price)
    PROVE  Final(ask, result, T, price)
BY FirstMore DEF Final

LEMMA FirstNone ==
    ASSUME NEW ask, NEW S, NEW price, ~price.found
    PROVE  First(ask, S, price)
BY DEF First

LEMMA FirstOfNone ==
    ASSUME NEW ask, NEW price, First(ask, {}, price)
    PROVE  ~price.found
BY DEF First

LEMMA FirstFinal ==
    ASSUME NEW ask, NEW result, NEW S, NEW price, First(ask, S, price)
    PROVE  Final(ask, result, S, price)
BY DEF Final

LEMMA NoPriceFound ==
    ~NoPrice.found /\ ~NoLookup.price.found /\ ~Pending.price.found /\ NoLookup # Pending
    /\ \A price : Found(price).price = price /\ Found(price) # Pending
BY DEF NoPrice, NoLookup, Pending, Found

(* A lookup that finds a price finds one of the snapshot in force.         *)
LEMMA LookupFirst ==
    ASSUME NEW r \in Requests, InForce \in seen[r], NEW price \in Lookups(r, reqs[r].ask.model, "", 0)
    PROVE  First(reqs[r].ask, seen[r], price)
BY NoPriceFound, FirstNone DEF First, requestPriceDimensions, Lookups

LEMMA FinalPriced ==
    ASSUME NEW r \in Requests, OnePriced(r), Generates(r), reqs[r].pc = "pricing", NEW price \in FinalPrice(r)
    PROVE  /\ Final(reqs[r].ask, Parsed(r), seen[r], price)
           /\ reqs[r].configured => price.found
<1> DEFINE result == Parsed(r)
           ask == reqs[r].ask
           start == StartingPrice(r)
<1>1. InForce \in seen[r]
  BY DEF OnePriced, Asking, Finalizing
<1>2. First(ask, seen[r], start) /\ (reqs[r].configured => start.found)
  BY DEF OnePriced, StartingPrice, Settled
<1>3. CASE price = start
  BY <1>2, <1>3, FirstFinal
<1>4. CASE price # start
  BY <1>1, <1>4, NoPriceFound DEF FinalPrice, Lookups, Final, requestPriceDimensions
<1> QED
  BY <1>3, <1>4

(* What a request was answered is all that its result depends on.          *)
LEMMA ParsedStays ==
    ASSUME NEW r \in Requests, reqs'[r].ask = reqs[r].ask, reqs'[r].response = reqs[r].response
    PROVE  Parsed(r)' = Parsed(r)
BY DEF Parsed

(* Prices a request keeps are still prices of a snapshot it has seen.      *)
LEMMA PricedKept ==
    ASSUME NEW r \in Requests, OnePriced(r), seen[r] \subseteq seen'[r],
           Asking(r)' => InForce' \in seen'[r],
           reqs'[r].pc = "arriving" => seen'[r] = {},
           \A f \in {"ask", "price", "configured", "response"} : reqs'[r][f] = reqs[r][f],
           reqs'[r].base \in {reqs[r].base, NoLookup, Pending},
           reqs'[r].deferred \in {reqs[r].deferred, NoLookup, Pending},
           reqs'[r].pc \notin Settled => reqs[r].pc \notin Settled
    PROVE  OnePriced(r)'
<1>1. /\ reqs'[r].ask = reqs[r].ask /\ reqs'[r].price = reqs[r].price
      /\ reqs'[r].configured = reqs[r].configured /\ reqs'[r].response = reqs[r].response
  OBVIOUS
<1>2. Parsed(r)' = Parsed(r) /\ (Generates(r)' <=> Generates(r))
  BY <1>1, ParsedStays DEF Generates
<1>3. SUFFICES ASSUME Generates(r)
      PROVE /\ First(reqs'[r].ask, seen'[r], reqs'[r].base.price)
            /\ First(reqs'[r].ask, seen'[r], reqs'[r].deferred.price)
            /\ reqs'[r].pc \notin Settled => First(reqs'[r].ask, seen'[r], reqs'[r].price)
            /\ Final(reqs'[r].ask, Parsed(r)', seen'[r], reqs'[r].price)
            /\ reqs'[r].configured => reqs'[r].price.found
  BY <1>2 DEF OnePriced
<1>4. /\ First(reqs[r].ask, seen[r], reqs[r].base.price)
      /\ First(reqs[r].ask, seen[r], reqs[r].deferred.price)
      /\ reqs[r].pc \notin Settled => First(reqs[r].ask, seen[r], reqs[r].price)
      /\ Final(reqs[r].ask, Parsed(r), seen[r], reqs[r].price)
      /\ reqs[r].configured => reqs[r].price.found
  BY <1>3 DEF OnePriced
<1>5. First(reqs'[r].ask, seen'[r], reqs'[r].base.price)
  BY <1>1, <1>4, FirstMore, FirstNone, NoPriceFound
<1>6. First(reqs'[r].ask, seen'[r], reqs'[r].deferred.price)
  BY <1>1, <1>4, FirstMore, FirstNone, NoPriceFound
<1>7. reqs'[r].pc \notin Settled => First(reqs'[r].ask, seen'[r], reqs'[r].price)
  BY <1>1, <1>4, FirstMore
<1>8. Final(reqs'[r].ask, Parsed(r)', seen'[r], reqs'[r].price)
  BY <1>1, <1>2, <1>4, FinalMore
<1> QED
  BY <1>1, <1>4, <1>5, <1>6, <1>7, <1>8

LEMMA PricedOther ==
    ASSUME NEW q \in Requests, OnePriced(q), reqs'[q] = reqs[q], seen[q] \subseteq seen'[q],
           Asking(q) => InForce' \in seen'[q], seen[q] = {} => seen'[q] = {}
    PROVE  OnePriced(q)'
BY PricedKept DEF Asking, OnePriced

LEMMA PricedOne ==
    ASSUME Priced, NEW r \in Requests, Touches(r), InForce' = InForce, seen' = seen, OnePriced(r)'
    PROVE  Priced'
<1>1. ASSUME NEW q \in Requests \ {r} PROVE OnePriced(q)'
  BY PricedOther DEF Priced, OnePriced, Touches
<1> QED
  BY <1>1 DEF Priced

(* A step of a request at work that looks no price up.                     *)
Onward(r) ==
    /\ Touches(r) /\ InForce' = InForce /\ seen' = seen
    /\ reqs[r].pc \in {"acquire"} \cup Leased \cup Finalizing /\ reqs'[r].pc # "arriving"
    /\ \A f \in {"price", "configured", "response"} : reqs'[r][f] = reqs[r][f]
    /\ reqs'[r].base \in {reqs[r].base, NoLookup, Pending}
    /\ reqs'[r].deferred \in {reqs[r].deferred, NoLookup, Pending}
    /\ reqs'[r].pc \notin Settled => reqs[r].pc \notin Settled

LEMMA OnwardPriced ==
    ASSUME Priced, NEW r \in Requests, Onward(r)
    PROVE  Priced'
BY PricedKept, PricedOne DEF Onward, Priced, OnePriced, Asking, Touches

LEMMA ResolveKeyPriced ==
    ASSUME Shape, Priced, NEW r \in Requests, ResolveKey(r)
    PROVE  Priced'
<1>1. Touches(r) /\ reqs[r].pc = "arriving" /\ OnePriced(r) /\ seen[r] = {}
  BY ResolveKeyDoes DEF Priced, OnePriced
<1>2. CASE Rejected(r)
  BY <1>1, <1>2, QuietInForce, PricedKept, PricedOne DEF Rejected, Same, ReqFields, Asking, Leased,
     Finalizing, OnePriced, Settled
<1>3. CASE ~Rejected(r)
  <2>1. /\ seen' = [seen EXCEPT ![r] = {InForce}] /\ reqs'[r].pc = "acquire"
        /\ \A f \in {"ask", "price", "configured", "response", "base", "deferred"} : reqs'[r][f] = reqs[r][f]
    BY <1>1, <1>3, ResolveKeyDoes DEF Same, ReqFields
  <2>2. InForce' = InForce
    BY <1>3, ResolveKeyDoes DEF InForce, Rows, pricingVars
  <2>3. seen'[r] = {InForce} /\ DOMAIN seen' = Requests /\ \A q \in Requests \ {r} : seen'[q] = seen[q]
    BY <2>1 DEF Priced
  <2>4. OnePriced(r)'
    BY <1>1, <2>1, <2>2, <2>3, PricedKept DEF Settled
  <2>5. ASSUME NEW q \in Requests \ {r} PROVE OnePriced(q)'
    BY <1>1, <2>2, <2>3, PricedOther DEF Priced, Touches, OnePriced
  <2> QED
    BY <2>3, <2>4, <2>5 DEF Priced
<1> QED
  BY <1>2, <1>3

LEMMA LookupBasePriced ==
    ASSUME Shape, Priced, NEW r \in Requests, LookupBase(r)
    PROVE  Priced'
<1>1. /\ Touches(r) /\ reqs[r].base = Pending /\ InForce' = InForce /\ seen' = seen
      /\ reqs'[r].pc = reqs[r].pc /\ reqs'[r].ask = reqs[r].ask
      /\ \A f \in {"price", "configured", "response", "deferred"} : reqs'[r][f] = reqs[r][f]
  BY LookupBaseDoes, AsksInForce DEF Same, ReqFields
<1>2. PICK price \in Lookups(r, reqs[r].ask.model, "", 0) : reqs'[r].base = Found(price)
  BY LookupBaseDoes
<1>3. OnePriced(r) /\ InForce \in seen[r]
  BY <1>1 DEF Priced, OnePriced, Asking
<1>4. First(reqs'[r].ask, seen'[r], reqs'[r].base.price)
  <2>1. reqs'[r].base.price = price
    BY <1>2, NoPriceFound
  <2>2. First(reqs[r].ask, seen[r], price)
    BY <1>3, LookupFirst
  <2> QED
    BY <1>1, <2>1, <2>2
<1>5. Parsed(r)' = Parsed(r) /\ (Generates(r)' <=> Generates(r))
  BY <1>1, ParsedStays DEF Generates
<1>6. OnePriced(r)'
  BY <1>1, <1>3, <1>4, <1>5 DEF OnePriced
<1> QED
  BY <1>1, <1>6, PricedOne

LEMMA LookupDeferredPriced ==
    ASSUME Shape, Priced, NEW r \in Requests, LookupDeferred(r)
    PROVE  Priced'
<1>1. /\ Touches(r) /\ reqs[r].deferred = Pending /\ InForce' = InForce /\ seen' = seen
      /\ reqs'[r].pc = reqs[r].pc /\ reqs'[r].ask = reqs[r].ask
      /\ \A f \in {"price", "configured", "response", "base"} : reqs'[r][f] = reqs[r][f]
  BY LookupDeferredDoes, AsksInForce DEF Same, ReqFields
<1>2. PICK price \in Lookups(r, reqs[r].ask.model, "", 0) : reqs'[r].deferred = Found(price)
  BY LookupDeferredDoes
<1>3. OnePriced(r) /\ InForce \in seen[r]
  BY <1>1 DEF Priced, OnePriced, Asking
<1>4. First(reqs'[r].ask, seen'[r], reqs'[r].deferred.price)
  <2>1. reqs'[r].deferred.price = price
    BY <1>2, NoPriceFound
  <2>2. First(reqs[r].ask, seen[r], price)
    BY <1>3, LookupFirst
  <2> QED
    BY <1>1, <2>1, <2>2
<1>5. Parsed(r)' = Parsed(r) /\ (Generates(r)' <=> Generates(r))
  BY <1>1, ParsedStays DEF Generates
<1>6. OnePriced(r)'
  BY <1>1, <1>3, <1>4, <1>5 DEF OnePriced
<1> QED
  BY <1>1, <1>6, PricedOne

LEMMA AwaitBasePriced ==
    ASSUME Shape, Priced, NEW r \in Requests, AwaitBase(r)
    PROVE  Priced'
<1>1. CASE Rejected(r)
  BY <1>1, AwaitBaseDoes, QuietInForce, OnwardPriced DEF Onward, Rejected, Same, ReqFields, Leased,
     Settled
<1>2. CASE ~Rejected(r)
  <2>1. /\ Touches(r) /\ reqs[r].pc = "price" /\ reqs'[r].ask = reqs[r].ask
        /\ reqs'[r].pc \in {"admit", "upgrade"} /\ Quiet
        /\ \A f \in {"response", "base", "deferred"} : reqs'[r][f] = reqs[r][f]
    BY <1>2, AwaitBaseDoes DEF Same, ReqFields
  <2>2. reqs'[r].price = reqs[r].base.price /\ (reqs'[r].configured <=> ~Generates(r) \/ reqs[r].base.price.found)
    BY <1>2, AwaitBaseDoes
  <2>3. InForce' = InForce /\ seen' = seen
    BY <2>1, QuietInForce
  <2>4. OnePriced(r) /\ InForce' \in seen'[r]
    BY <2>1, <2>3 DEF Priced, OnePriced, Asking, Leased
  <2>5. Parsed(r)' = Parsed(r) /\ (Generates(r)' <=> Generates(r))
    BY <2>1, ParsedStays DEF Generates
  <2>6. ASSUME Generates(r)
        PROVE  /\ First(reqs'[r].ask, seen'[r], reqs'[r].base.price)
               /\ First(reqs'[r].ask, seen'[r], reqs'[r].deferred.price)
               /\ First(reqs'[r].ask, seen'[r], reqs'[r].price)
               /\ reqs'[r].configured => reqs'[r].price.found
    BY <2>1, <2>2, <2>3, <2>4, <2>6 DEF OnePriced
  <2>7. OnePriced(r)'
    BY <2>1, <2>4, <2>5, <2>6, FirstFinal DEF OnePriced
  <2> QED
    BY <2>1, <2>3, <2>7, PricedOne
<1> QED
  BY <1>1, <1>2

LEMMA ServePriced ==
    ASSUME Shape, Priced, NEW r \in Requests, Serve(r)
    PROVE  Priced'
BY ServeDoes, QuietInForce, FirstFinal, PricedOne DEF Same, ReqFields, Priced, OnePriced, Asking,
   Leased, Generates, Settled

LEMMA PriceResponsePriced ==
    ASSUME Shape, Priced, NEW r \in Requests, PriceResponse(r)
    PROVE  Priced'
BY PriceResponseDoes, AsksInForce, ParsedStays, FinalPriced, PricedOne DEF Same, ReqFields, Priced,
   OnePriced, Asking, Finalizing, Generates, Settled

LEMMA RequestPriced ==
    ASSUME Shape, Priced, NEW r \in Requests, RequestStep(r)
    PROVE  Priced'
<1> USE DEF Onward, Rejected, Same, ReqFields, Leased, Finalizing, Settled
<1>1. CASE ResolveKey(r) \/ LookupBase(r) \/ AwaitBase(r) \/ LookupDeferred(r) \/ Serve(r) \/ PriceResponse(r)
  BY <1>1, ResolveKeyPriced, LookupBasePriced, AwaitBasePriced, LookupDeferredPriced, ServePriced, PriceResponsePriced
<1>2. CASE AcquireLease(r)
  BY <1>2, AcquireLeaseDoes, QuietInForce, OnwardPriced
<1>3. CASE ReadRequest(r)
  <2>1. CASE Rejected(r)
    BY <1>3, <2>1, ReadRequestDoes, QuietInForce, OnwardPriced
  <2>2. CASE ~Rejected(r)
    BY <1>3, <2>2, ReadRequestDoes, QuietInForce, OnwardPriced
  <2> QED
    BY <2>1, <2>2
<1>4. CASE enforceLimits(r)
  <2>1. Onward(r)
    BY <1>4, enforceLimitsDoes, QuietInForce
  <2> QED
    BY <2>1, OnwardPriced
<1>5. CASE AdmitRequest(r)
  <2>1. CASE Rejected(r)
    BY <1>5, <2>1, AdmitRequestDoes, QuietInForce, OnwardPriced
  <2>2. CASE ~Rejected(r)
    BY <1>5, <2>2, AdmitRequestDoes, QuietInForce, OnwardPriced
  <2> QED
    BY <2>1, <2>2
<1>6. CASE ServePanics(r)
  BY <1>6, ServePanicsDoes, QuietInForce, OnwardPriced
<1>7. CASE FinalizeInSlot(r)
  BY <1>7, FinalizeInSlotDoes, QuietInForce, OnwardPriced
<1>8. CASE FinalizeInline(r)
  BY <1>8, FinalizeInlineDoes, QuietInForce, OnwardPriced
<1>9. CASE SettleRequestWithLog(r)
  BY <1>9, SettleRequestWithLogDoes, QuietInForce, OnwardPriced
<1> QED
  BY <1>1, <1>2, <1>3, <1>4, <1>5, <1>6, <1>7, <1>8, <1>9 DEF RequestStep

(* A session prices its turns by themselves: its request keeps its price.  *)
LEMMA SessionPriced ==
    ASSUME Shape, Priced, NEW r \in Requests, SessionStep(r)
    PROVE  Priced'
<1>1. /\ Touches(r) /\ reqs[r].pc \in {"upgrade", "dial", "session"} /\ reqs'[r].pc \in {"dial", "session", "done"}
      /\ \A f \in {"base", "deferred", "response"} : reqs'[r][f] = reqs[r][f]
      /\ Generates(r) => \A f \in {"price", "configured"} : reqs'[r][f] = reqs[r][f]
      /\ InForce' = InForce /\ seen' = seen
  BY SessionTouches DEF SessionMove
<1>2. CASE Generates(r)
  BY <1>1, <1>2, OnwardPriced DEF Onward, Leased, Settled
<1>3. CASE ~Generates(r)
  BY <1>1, <1>3, PricedOne DEF Generates, Touches, Priced, OnePriced, Asking, Leased
<1> QED
  BY <1>2, <1>3

LEMMA PricedStep ==
    ASSUME Shape, Priced, [WebSocketNext]_wsVars
    PROVE  Priced'
<1>1. ASSUME NEW r \in Requests, SessionStep(r) PROVE Priced'
  BY <1>1, SessionPriced
<1>2. ASSUME NEW r \in Requests, RequestStep(r) PROVE Priced'
  BY <1>2, RequestPriced
<1>3. CASE Crash
  <2>1. seen' = seen
    BY <1>3 DEF Crash
  <2>2. ASSUME NEW q \in Requests
        PROVE  /\ \A f \in {"ask", "price", "configured", "response"} : reqs'[q][f] = reqs[q][f]
               /\ reqs'[q].pc = IF reqs[q].pc \in {"arriving", "rejected", "done"} THEN reqs[q].pc ELSE "gone"
               /\ reqs'[q].base = IF reqs[q].base = Pending THEN NoLookup ELSE reqs[q].base
               /\ reqs'[q].deferred = IF reqs[q].deferred = Pending THEN NoLookup ELSE reqs[q].deferred
    BY <1>3 DEF Crash, Shape, ReqFields
  <2>3. ASSUME NEW q \in Requests PROVE OnePriced(q)'
    BY <2>1, <2>2, NoPriceFound, PricedKept DEF Priced, Asking, Leased, Finalizing, OnePriced,
       Settled
  <2> QED
    BY <2>1, <2>3 DEF Priced
<1>4. CASE StopServing \/ ShutdownReturns \/ CloseApp \/ Tick \/ UNCHANGED wsVars
  <2>1. reqs' = reqs /\ seen' = seen /\ UNCHANGED pricingVars
    BY <1>4 DEF StopServing, ShutdownReturns, CloseApp, Tick, wsVars, allVars, servingVars
  <2>2. InForce' = InForce
    BY <2>1 DEF pricingVars, InForce, Rows
  <2>3. ASSUME NEW q \in Requests PROVE OnePriced(q)'
    BY <2>1, <2>2, PricedOther DEF Priced, OnePriced
  <2> QED
    BY <2>1, <2>3 DEF Priced
<1>5. CASE PricesChange
  <2>1. reqs' = reqs /\ seen' = [r \in Requests |-> IF seen[r] = {} THEN {} ELSE seen[r] \cup {InForce'}]
    BY <1>5 DEF PricesChange
  <2>2. ASSUME NEW q \in Requests PROVE OnePriced(q)'
    BY <2>1, PricedOther DEF Priced, OnePriced
  <2> QED
    BY <2>1, <2>2 DEF Priced
<1> QED
  BY <1>1, <1>2, <1>3, <1>4, <1>5 DEF WebSocketNext

LEMMA PricedInit ==
    ASSUME WebSocketInit
    PROVE  Priced
<1>1. seen = [r \in Requests |-> {}]
  BY DEF WebSocketInit, ServingInit
<1>2. ASSUME NEW r \in Requests PROVE OnePriced(r)
  BY <1>1, NoPriceFound, FirstNone, FirstFinal DEF WebSocketInit, ServingInit, NewRequest, Asking,
     Leased, Finalizing, OnePriced
<1> QED
  BY <1>1, <1>2 DEF Priced

-----------------------------------------------------------------------------
(* What a request is charged *)

LEMMA ChargeStays ==
    ASSUME NEW r \in Requests,
           \A f \in {"ask", "price", "configured", "response"} : reqs'[r][f] = reqs[r][f]
    PROVE  Charge(r)' = Charge(r)
BY ParsedStays DEF Charge

(* A row of a request is one of a request that is done, and which no step  *)
(* prices any more.                                                        *)
Finished(q) ==
    reqs[q].pc = "done" /\ reqs[q].ask.kind \notin Sockets =>
      \A f \in {"ask", "price", "configured", "response"} : reqs'[q][f] = reqs[q][f]

LEMMA BilledKept ==
    ASSUME Sessions, Billed, \A q \in Requests : Finished(q),
           \A row \in logs' : row \in logs \/ row.turn # 0 \/
             (/\ row.cost = Charge(row.request)'.cost
              /\ row.complete = Charge(row.request)'.complete)
    PROVE  Billed'
<1>1. SUFFICES ASSUME NEW row \in logs', row.turn = 0
               PROVE  row.cost = Charge(row.request)'.cost /\ row.complete = Charge(row.request)'.complete
  BY DEF Billed
<1>2. CASE row \in logs
  BY <1>1, <1>2, ChargeStays DEF Sessions, OneSession, Stored, Finished, Billed
<1> QED
  BY <1>1, <1>2

LEMMA RequestFinished ==
    ASSUME Shape, NEW r \in Requests, RequestStep(r)
    PROVE  \A q \in Requests : Finished(q)
<1>1. Touches(r)
  BY RequestTouches
<1>2. reqs[r].pc = "done" => \A f \in {"ask", "price", "configured", "response"} : reqs'[r][f] = reqs[r][f]
  <2> SUFFICES ASSUME reqs[r].pc = "done"
               PROVE  \A f \in {"ask", "price", "configured", "response"} : reqs'[r][f] = reqs[r][f]
    OBVIOUS
  <2>1. LookupBase(r) \/ LookupDeferred(r)
    BY DEF RequestStep, ResolveKey, AcquireLease, ReadRequest, enforceLimits, AwaitBase, AdmitRequest, Serve,
       ServePanics, FinalizeInSlot, FinalizeInline, PriceResponse, SettleRequestWithLog, At2
  <2> QED
    BY <2>1, LookupBaseDoes, LookupDeferredDoes, ZenonT(30) DEF Same, ReqFields
<1> QED
  BY <1>1, <1>2 DEF Touches, Finished

LEMMA BilledStep ==
    ASSUME Shape, Sessions, Billed, [WebSocketNext]_wsVars
    PROVE  Billed'
<1>1. ASSUME NEW r \in Requests, SessionStep(r) PROVE Billed'
  <2>1. Touches(r) /\ reqs[r].pc # "done"
    BY <1>1, SessionTouches DEF SessionMove
  <2>2. \A q \in Requests : Finished(q)
    BY <2>1 DEF Touches, Finished
  <2>3. CASE UNCHANGED logVars
    BY <2>2, <2>3, BilledKept DEF logVars
  <2>4. CASE ~(UNCHANGED logVars)
    BY <1>1, <2>2, <2>4, SessionLogs, TurnWrites, WriteLogs, BilledKept DEF Logs
  <2> QED
    BY <2>3, <2>4
<1>2. ASSUME NEW r \in Requests, RequestStep(r) PROVE Billed'
  <2>1. \A q \in Requests : Finished(q)
    BY <1>2, RequestFinished
  <2>2. CASE UNCHANGED logVars
    BY <2>1, <2>2, BilledKept DEF logVars
  <2>3. CASE ~(UNCHANGED logVars)
    <3>1. SettleRequestWithLog(r)
      BY <1>2, <2>3 DEF RequestStep, ResolveKey, AcquireLease, ReadRequest, LookupBase, enforceLimits, AwaitBase,
         AdmitRequest, LookupDeferred, Serve, ServePanics, FinalizeInSlot, FinalizeInline, PriceResponse,
         Reject, handlerVars
    <3>2. /\ writeLogTx(r, 0, reqs[r].started, Parsed(r).usage.total, Charge(r))
          /\ Same(r, {"pc", "lease", "hold"})
      BY <2>3, <3>1, SettleRequestWithLogDoes
    <3>3. Charge(r)' = Charge(r)
      BY <3>2, ChargeStays DEF Same, ReqFields
    <3>4. \A row \in logs' : row \in logs \/
             (/\ row.request = r /\ row.cost = Charge(r).cost /\ row.complete = Charge(r).complete)
      BY <3>2 DEF writeLogTx
    <3> QED
      BY <2>1, <3>3, <3>4, BilledKept
  <2> QED
    BY <2>2, <2>3
<1>3. CASE Crash
  <2>1. /\ UNCHANGED logVars
        /\ \A q \in Requests : \A f \in {"ask", "price", "configured", "response"} : reqs'[q][f] = reqs[q][f]
    BY <1>3 DEF Crash, Shape, ReqFields
  <2> QED
    BY <2>1, BilledKept DEF Finished, logVars
<1>4. CASE StopServing \/ ShutdownReturns \/ CloseApp \/ Tick \/ PricesChange \/ UNCHANGED wsVars
  <2>1. UNCHANGED logVars /\ reqs' = reqs
    BY <1>4 DEF StopServing, ShutdownReturns, CloseApp, Tick, PricesChange, wsVars, allVars, servingVars, handlerVars
  <2> QED
    BY <2>1, BilledKept DEF Finished, logVars
<1> QED
  BY <1>1, <1>2, <1>3, <1>4 DEF WebSocketNext

LEMMA BilledInit ==
    ASSUME WebSocketInit
    PROVE  Billed
BY DEF WebSocketInit, ServingInit, Billed

LEMMA AddNothing == saturatingAdd(0, 0) = 0
<1>1. MaxInt64 \in Nat \ {0}
  BY BillingAssumption
<1> QED
  BY <1>1 DEF saturatingAdd

(* No usage costs nothing.                                                 *)
LEMMA NothingCosts ==
    ASSUME NEW price
    PROVE  CostNanoUSD(price, NoUsage) = 0
<1> DEFINE charged == Charged(NoUsage)
<1>1. /\ NoUsage.prompt = 0 /\ NoUsage.completion = 0 /\ NoUsage.cached = 0 /\ NoUsage.cache_write = 0
      /\ NoUsage.reasoning = 0 /\ NoUsage.image_input = 0 /\ NoUsage.cached_image = 0 /\ NoUsage.image_output = 0
  BY DEF NoUsage, Counters
<1>2. Least(0, 0) = 0
  BY DEF Least
<1>3. charged = [input |-> 0, cached |-> 0, image_input |-> 0, cached_image |-> 0, output |-> 0,
                 image_output |-> 0, cache_write |-> 0, reasoning |-> 0]
  BY <1>1, <1>2 DEF Charged
<1>4. \A rate \in {"input", "cached", "image_input", "cached_image", "output", "image_output", "cache_write", "reasoning"} :
        charged[rate] = 0
  BY <1>3
<1>5. \A x : saturatingMultiply(0, x) = 0
  BY DEF saturatingMultiply
<1> HIDE DEF charged
<1> DEFINE and(cost, rate) == saturatingAdd(cost, saturatingMultiply(charged[rate], price.rates[rate]))
<1>6. \A rate \in {"input", "cached", "image_input", "cached_image", "output", "image_output", "cache_write", "reasoning"} :
        and(0, rate) = 0
  BY <1>4, <1>5, AddNothing
<1>7. CostNanoUSD(price, NoUsage) =
        and(and(and(and(and(and(and(and(0, "input"), "cached"), "image_input"), "cached_image"),
            "output"), "image_output"), "cache_write"), "reasoning")
  BY DEF CostNanoUSD, charged
<1> HIDE DEF and
<1> QED
  BY <1>6, <1>7

(* A response whose usage was found is assessed.                           *)
Assessable == {"", "complete"}

LEMMA FoundQuality ==
    ASSUME NEW r \in Requests, Generates(r), Parsed(r).found
    PROVE  Parsed(r).quality \in Assessable
<1> USE DEF Assessable
<1> DEFINE result == ParseResponse(reqs[r].response.events)
           q == reqs[r].response.quality
<1>1. result.quality = "" /\ {"quality", "found"} \subseteq DOMAIN result
  BY DEF ParseResponse
<1>2. reqs[r].ask.kind # "count"
  BY DEF Generates
<1>3. Parsed(r) = IF q = "" THEN result ELSE [result EXCEPT !.quality = q, !.found = q = "complete"]
  BY <1>2 DEF Parsed
<1> HIDE DEF result, q
<1>4. CASE q = ""
  BY <1>1, <1>3, <1>4
<1>5. CASE q # ""
  BY <1>1, <1>3, <1>5
<1> QED
  BY <1>4, <1>5

(* What a usage costs at a price, and whether that is known.               *)
Assessed(price, u, cost, complete) ==
    /\ complete = (u = NoUsage \/ UsageComplete(price, u))
    /\ cost = IF complete THEN CostNanoUSD(price, u) ELSE 0

LEMMA AssessFound ==
    ASSUME NEW result, NEW price, result.quality \in Assessable, result.found, price.found
    PROVE  Assessed(price, result.usage, Assess(result, price).cost, Assess(result, price).complete)
<1> DEFINE u == result.usage
           charge == Assess(result, price)
<1>1. CASE u = NoUsage
  BY <1>1, NothingCosts DEF Assess, Assessable, Assessed
<1>2. CASE u # NoUsage /\ UsageComplete(price, u)
  BY <1>2 DEF Assess, Assessable, Assessed
<1>3. CASE u # NoUsage /\ ~UsageComplete(price, u)
  BY <1>3 DEF Assess, Assessable, Assessed
<1> QED
  BY <1>1, <1>2, <1>3

LEMMA FinalDimensions ==
    ASSUME NEW r \in Requests, NEW price, price.found, Final(reqs[r].ask, Parsed(r), seen[r], price)
    PROVE  \E s \in seen[r] : \E d \in Dimensions(r) : price = Resolve(s, d)
<1> DEFINE asked == requestPriceDimensions(r, reqs[r].ask.model, "", 0)
           answered == requestPriceDimensions(r, reqs[r].ask.model, Parsed(r).tier, Parsed(r).usage.prompt)
<1>1. asked \in Dimensions(r) /\ answered \in Dimensions(r)
  BY DEF Dimensions
<1>2. \E s \in seen[r] : price = Resolve(s, asked) \/ price = Resolve(s, answered)
  BY DEF Final, First, requestPriceDimensions
<1> HIDE DEF asked, answered
<1> QED
  BY <1>1, <1>2

LEMMA BilledCharged ==
    ASSUME Sessions, Priced, Billed
    PROVE  ServedUsageIsCharged
<1>1. ASSUME NEW row \in logs, row.turn = 0, Generates(row.request), reqs[row.request].response.ok,
             reqs[row.request].configured, Parsed(row.request).found
      PROVE  \E s \in seen[row.request] : \E d \in Dimensions(row.request) :
               Resolve(s, d).found /\ Assessed(Resolve(s, d), Parsed(row.request).usage, row.cost, row.complete)
  <2> DEFINE r == row.request
             price == reqs[r].price
             result == Parsed(r)
  <2>1. r \in Requests
    BY <1>1 DEF Sessions
  <2>2. price.found /\ Final(reqs[r].ask, result, seen[r], price)
    BY <1>1, <2>1 DEF Priced, OnePriced
  <2>3. \E s \in seen[r] : \E d \in Dimensions(r) : price = Resolve(s, d)
    BY <2>1, <2>2, FinalDimensions
  <2>4. result.quality \in Assessable /\ result.found
    BY <1>1, <2>1, FoundQuality
  <2>5. Charge(r) = Assess(result, price)
    BY <1>1 DEF Charge
  <2>6. row.cost = Assess(result, price).cost /\ row.complete = Assess(result, price).complete
    BY <1>1, <2>5 DEF Billed
  <2>7. Assessed(price, result.usage, Assess(result, price).cost, Assess(result, price).complete)
    <3> HIDE DEF price, result
    <3> QED
      BY <2>2, <2>4, AssessFound
  <2> QED
    BY <2>2, <2>3, <2>6, <2>7
<1> QED
  BY <1>1 DEF ServedUsageIsCharged, Assessed

(* Said twice, the events report what they report.                         *)
LEMMA RepeatedReports ==
    ASSUME NEW events \in Seq(UsageEvents), NEW c
    PROVE  Reports(events \o events, c) = Reports(events, c)
<1> DEFINE n == Len(events)
           twice == events \o events
<1>1. /\ n \in Nat /\ DOMAIN events = 1..n /\ DOMAIN twice = 1..n + n
      /\ \A i \in 1..n : twice[i] = events[i]
      /\ \A i \in 1..n : twice[n + i] = events[i]
  BY SeqConcat
<1> HIDE DEF n, twice
<1>2. ASSUME NEW i \in DOMAIN twice PROVE \E j \in DOMAIN events : twice[i] = events[j]
  <2>1. CASE i <= n
    BY <1>1, <1>2, <2>1
  <2>2. CASE ~(i <= n)
    <3>1. i - n \in 1..n /\ n + (i - n) = i
      BY <1>1, <1>2, <2>2
    <3> QED
      BY <1>1, <3>1
  <2> QED
    BY <2>1, <2>2
<1>3. ASSUME NEW j \in DOMAIN events PROVE j \in DOMAIN twice /\ twice[j] = events[j]
  BY <1>1, <1>3
<1>4. {readUsage(twice[i])[c] : i \in DOMAIN twice} = {readUsage(events[i])[c] : i \in DOMAIN events}
  BY <1>2, <1>3
<1> QED
  BY <1>4 DEF Reports, twice

(* Every prompt token is charged at one rate.                              *)
LEMMA PromptCharged ==
    ASSUME NEW u \in [Counters -> Counts]
    PROVE  LET charged == Charged(u)
           IN charged.input + charged.cached + charged.image_input + charged.cached_image = u.prompt
<1> DEFINE imageInput == Least(u.image_input, u.prompt)
           cachedInput == Least(u.cached, u.prompt)
           cachedImage == Least(u.cached_image, Least(imageInput, cachedInput))
           textInput == u.prompt - imageInput
           cachedText == Least(textInput, cachedInput - cachedImage)
           charged == Charged(u)
<1>1. {"prompt", "image_input", "cached", "cached_image"} \subseteq Counters
  BY DEF Counters
<1>2. u.prompt \in Nat /\ u.image_input \in Nat /\ u.cached \in Nat /\ u.cached_image \in Nat
  BY <1>1, MaxInt64Nat
<1>3. imageInput \in Nat /\ cachedInput \in Nat
  BY <1>2 DEF Least
<1>4. Least(imageInput, cachedInput) \in Nat
  BY <1>3 DEF Least
<1>5. cachedImage \in Nat
  BY <1>2, <1>4 DEF Least
<1>6. textInput \in Int /\ cachedInput - cachedImage \in Int
  BY <1>2, <1>3, <1>5
<1>7. cachedText \in Int
  BY <1>6 DEF Least
<1>8. /\ charged.input = textInput - cachedText /\ charged.cached = cachedText
      /\ charged.image_input = imageInput - cachedImage /\ charged.cached_image = cachedImage
  BY DEF Charged
<1>9. textInput = u.prompt - imageInput
  OBVIOUS
<1> HIDE DEF imageInput, cachedInput, cachedImage, textInput, cachedText, charged
<1>10. charged.input + charged.cached + charged.image_input + charged.cached_image = u.prompt
  BY <1>2, <1>3, <1>5, <1>7, <1>6, <1>8, <1>9
<1> QED
  BY <1>10 DEF charged

LEMMA UsageOnce ==
    ASSUME Answered
    PROVE  RepeatedUsageChargedOnce
<1>1. ASSUME NEW r \in Requests, NEW events, events = reqs[r].response.events
      PROVE  /\ ParseResponse(events \o events).usage = ParseResponse(events).usage
             /\ LET charged == Charged(ParseResponse(events).usage)
                IN charged.input + charged.cached + charged.image_input + charged.cached_image
                     = ParseResponse(events).usage.prompt
  BY <1>1, UsageType, RepeatedReports, ParseUsage, PromptCharged DEF Answered, Largest
<1> QED
  BY <1>1 DEF RepeatedUsageChargedOnce

(* For any prices, answers and interleavings: what a successful, priced    *)
(* answer used is charged at a price that was in force since the request   *)
(* came, and neither a change of the prices, a failed lookup nor a crash   *)
(* makes it less; usage that is reported twice is charged once, and every  *)
(* prompt token at one rate.                                               *)
THEOREM UsageIsCharged == WebSocketSpec => []ChargedForUsage
<1>1. /\ Shape /\ Sessions /\ Answered /\ Priced /\ Billed /\ [WebSocketNext]_wsVars
      => (Answered /\ Priced /\ Billed)'
  BY AnsweredStep, PricedStep, BilledStep DEF Sessions
<1>2. WebSocketInit => Answered /\ Priced /\ Billed
  BY AnsweredInit, PricedInit, BilledInit
<1>3. Sessions /\ Answered /\ Priced /\ Billed => ChargedForUsage
  BY BilledCharged, UsageOnce DEF ChargedForUsage
<1> QED
  BY <1>1, <1>2, <1>3, LifeInvariant, SessionsInvariant, PTL DEF WebSocketSpec

=============================================================================
