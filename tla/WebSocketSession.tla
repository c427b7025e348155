------------------------- MODULE WebSocketSession -------------------------
(***************************************************************************)
(* A WebSocket of the public API: handleWebSocket, serveNativeWebSocket,   *)
(* admitNativeWebSocket, prepareNativeWebSocketRequest and                 *)
(* persistNativeWebSocketTurn (internal/app/native_websocket.go), on top   *)
(* of Serving, which brings the connection here and prices its turns.      *)
(*                                                                         *)
(* Two pumps copy messages, one from the client and one from the runtime,  *)
(* and share the accounting under a mutex: a pump's transform is one step, *)
(* its write another.  The client's frames are chosen in the initial state *)
(* and numbered; the runtime answers them in order, each with an id of its *)
(* own, and may repeat what it sent.  A Realtime runtime also starts       *)
(* responses nobody asked for; their frame is 0.  Byte counts, timings,    *)
(* details and the quota events are left out.                              *)
(***************************************************************************)
EXTENDS Serving

CONSTANT MaxEvents   \* bound: terminal events of one session

ASSUME FramesAssumption ==
  \A s \in Scenarios : \A r \in Requests : s.asks[r].kind \in Sockets =>
    s.asks[r].frames \in Seq([type : STRING, model : Models \cup {NoModel}, prewarm : BOOLEAN])

NoStep == [frame |-> 0, model |-> NoModel, prewarm |-> FALSE, started |-> 0]
NoEvent == [type |-> "none"]
Pumps == {"client", "runtime"}

VARIABLE ws          \* [Requests -> session]

wsVars == <<allVars, ws>>

(* nativeWebSocketAccounting, and what is between the two ends. *)
NewSession ==
  [established |-> FALSE, current |-> NoStep, active |-> FALSE, pending |-> <<>>, seenTurns |-> {},
   accrued |-> 0, sent |-> 0, writing |-> 0, asked |-> <<>>, events |-> <<>>, last |-> NoEvent,
   produced |-> 0, forwarding |-> NoEvent, delivered |-> {}, turns |-> {},
   pumps |-> Pumps, closing |-> FALSE]

WebSocketStart == ws = [r \in Requests |-> NewSession]

Realtime(r) == reqs[r].ask.kind = "realtime"
Open(r) == At2(r, "session")
Frames(r) == reqs[r].ask.frames
Session(r, changed) == ws' = [ws EXCEPT ![r] = changed]

----------------------------------------------------------------------------
(* Before the pumps. *)

(* A socket that was never established gives its hold back; the release may *)
(* fail, and the hold is left to the reclaimer.                             *)
EndEarly(r) ==
  /\ \E hold \in {reqs[r].hold} \cup (IF reqs[r].hold = "active" /\ phase # "closed"
                                        THEN {"released"} ELSE {}) :
       reqs' = [reqs EXCEPT ![r].pc = "done", ![r].lease = FALSE, ![r].hold = hold]
  /\ UNCHANGED <<handlerVars, ws>> /\ Quiet

(* The upgrade fails; or the first frame does not come, is not JSON, names *)
(* no model or one that is not allowed.                                    *)
UpgradeFails(r) ==
  At2(r, "upgrade") /\ reqs[r].deferred # Pending /\ EndEarly(r)

(* admitNativeWebSocket: the model of the first frame is priced and admitted. *)
admitNativeWebSocket(r) ==
  /\ At2(r, "upgrade") /\ ~Billable(r)
  /\ Frames(r) # <<>> /\ Frames(r)[1].model # NoModel
  /\ \E price \in Lookups(r, Frames(r)[1].model, "", 0) :
       /\ price.found \/ ~Deny
       /\ reqs' = [reqs EXCEPT ![r].pc = "dial", ![r].hold = "active", ![r].price = price,
                               ![r].configured = price.found]
  /\ Session(r, [ws[r] EXCEPT !.sent = 1, !.active = TRUE,
                   !.current = [frame |-> 1, model |-> Frames(r)[1].model,
                                prewarm |-> Frames(r)[1].prewarm, started |-> now]])
  /\ UNCHANGED handlerVars /\ Asks

(* A Realtime socket is admitted already and waits for no frame: a step is *)
(* current although nothing was asked for.                                 *)
UpgradeRealtime(r) ==
  /\ At2(r, "upgrade") /\ Realtime(r) /\ reqs[r].deferred # Pending
  /\ reqs' = [reqs EXCEPT ![r].pc = "dial"]
  /\ Session(r, [ws[r] EXCEPT !.active = TRUE,
                   !.current = [NoStep EXCEPT !.model = reqs[r].ask.model, !.started = now]])
  /\ UNCHANGED handlerVars /\ Quiet

(* The runtime is dialled and the first frame written. *)
dialNativeRuntimeWebSocket(r) ==
  /\ At2(r, "dial")
  /\ \/ EndEarly(r)
     \/ /\ reqs' = [reqs EXCEPT ![r].pc = "session"]
        /\ Session(r, [ws[r] EXCEPT !.established = TRUE,
                                    !.asked = IF Realtime(r) THEN <<>> ELSE <<1>>])
        /\ UNCHANGED handlerVars /\ Quiet

----------------------------------------------------------------------------
(* The client's pump. *)

(* What the next frame of the client asks for: it inherits what the step    *)
(* before it had, except the wish to generate.                              *)
NextMeta(s, frame, n) ==
  LET before == IF s.pending # <<>> THEN s.pending[Len(s.pending)] ELSE s.current
  IN [frame |-> n, model |-> IF frame.model = NoModel THEN before.model ELSE frame.model,
      prewarm |-> frame.prewarm, started |-> now]

startStep(s, step) == [s EXCEPT !.active = TRUE, !.current = step]

(* A step waits while another one is current. *)
Enqueue(s, step) ==
  IF s.active THEN [s EXCEPT !.pending = Append(@, step)] ELSE startStep(s, step)

(* A pump ends: the first one to end closes the other side. *)
PumpEnded(s, pump) ==
  [s EXCEPT !.pumps = @ \ {pump}, !.closing = TRUE,
            !.writing = IF pump = "client" THEN 0 ELSE @,
            !.forwarding = IF pump = "runtime" THEN NoEvent ELSE @]

CanRead(r) ==
  /\ Open(r) /\ "client" \in ws[r].pumps /\ ws[r].writing = 0 /\ ws[r].sent < Len(Frames(r))

(* prepareNativeWebSocketRequest: a response.create starts a step. *)
prepareNativeWebSocketRequest(r) ==
  LET n == ws[r].sent + 1
      frame == Frames(r)[n]
  IN /\ CanRead(r)
     /\ Session(r, [IF frame.type = "create"
                      THEN Enqueue(ws[r], NextMeta(ws[r], frame, n)) ELSE ws[r]
                    EXCEPT !.sent = n, !.writing = n])
     /\ UNCHANGED <<reqs, handlerVars>> /\ Quiet

(* The model is not allowed, the device's token was revoked, or a          *)
(* session.update changes the model: the refused step stays in the         *)
(* accounting, and the pump ends.                                          *)
RefuseFrame(r) ==
  LET n == ws[r].sent + 1
  IN /\ CanRead(r)
     /\ Session(r, PumpEnded([Enqueue(ws[r], NextMeta(ws[r], Frames(r)[n], n))
                              EXCEPT !.sent = n], "client"))
     /\ UNCHANGED <<reqs, handlerVars>> /\ Quiet

WriteUpstream(r) ==
  LET s == ws[r]
  IN /\ Open(r) /\ s.writing # 0
     /\ Session(r, [s EXCEPT !.writing = 0,
                      !.asked = IF Frames(r)[s.writing].type = "create"
                                  THEN Append(@, s.writing) ELSE @])
     /\ UNCHANGED <<reqs, handlerVars>> /\ Quiet

----------------------------------------------------------------------------
(* The runtime, which is external. *)

Produce(r, new, asked) ==
  /\ ws[r].produced < MaxEvents
  /\ Session(r, [ws[r] EXCEPT !.events = @ \o new, !.last = new[Len(new)], !.asked = asked,
                              !.produced = @ + 1])
  /\ UNCHANGED <<reqs, handlerVars>> /\ Quiet

(* One response: its terminal event, which Realtime announces. *)
Response(r, frame, response) ==
  (IF Realtime(r) THEN <<[type |-> "created"]>> ELSE <<>>) \o
  <<[type |-> "terminal", id |-> ws[r].produced + 1, frame |-> frame, response |-> response]>>

(* It answers the oldest frame, a prewarm without usage. *)
Answer(r) ==
  /\ Open(r) /\ ws[r].asked # <<>>
  /\ LET n == Head(ws[r].asked)
     IN \E response \in Responses :
          /\ Frames(r)[n].prewarm <=> response.events = <<>>
          /\ Produce(r, Response(r, n, response), Tail(ws[r].asked))

(* A Realtime response that the runtime started by itself. *)
AnswerUnasked(r) ==
  /\ Open(r) /\ Realtime(r)
  /\ \E response \in Responses :
       Produce(r, Response(r, 0, response), ws[r].asked)

(* It sends its last event again. *)
RepeatEvent(r) ==
  /\ Open(r) /\ ws[r].last # NoEvent
  /\ Produce(r, <<ws[r].last>>, ws[r].asked)

----------------------------------------------------------------------------
(* The runtime's pump. *)

CanTake(r, type) ==
  /\ Open(r) /\ "runtime" \in ws[r].pumps /\ ws[r].forwarding = NoEvent
  /\ ws[r].events # <<>> /\ Head(ws[r].events).type = type

(* response.created starts a step when none is current. *)
TakeCreated(r) ==
  LET s == ws[r]
      taken == [s EXCEPT !.events = Tail(s.events), !.forwarding = Head(s.events)]
  IN /\ CanTake(r, "created")
     /\ Session(r, IF s.active THEN taken
                   ELSE startStep(taken, [s.current EXCEPT !.started = now, !.frame = 0]))
     /\ UNCHANGED <<reqs, handlerVars>> /\ Quiet

(* A turn that was seen, or that no step waits for, is only forwarded. *)
Known(s, event) == ~s.active \/ event.id \in s.seenTurns

TakeKnown(r) ==
  LET s == ws[r]
  IN /\ CanTake(r, "terminal") /\ Known(s, Head(s.events))
     /\ Session(r, [s EXCEPT !.events = Tail(@), !.forwarding = Head(s.events)])
     /\ UNCHANGED <<reqs, handlerVars>> /\ Quiet

(* The usage of a turn: a prewarm that was asked for generated nothing. *)
TurnResult(step, response) ==
  LET result == ParseResponse(response.events)
  IN IF step.prewarm /\ response.events = <<>>
       THEN [result EXCEPT !.quality = "not_generated"]
     ELSE IF response.quality = "" THEN result
     ELSE [result EXCEPT !.quality = response.quality, !.found = response.quality = "complete"]

(* A turn that failed is never charged. *)
TurnCharge(result, response, price) ==
  IF ~response.ok THEN [cost |-> 0, complete |-> TRUE] ELSE Assess(result, price)

(* The oldest waiting step becomes current. *)
NextStep(s) ==
  IF s.pending = <<>> THEN [s EXCEPT !.active = FALSE]
  ELSE startStep([s EXCEPT !.pending = Tail(@)], Head(s.pending))

(* Mutant of PersistTurn: a turn that could not be stored is forwarded. *)
ForwardAnyway(r) ==
  LET s == ws[r]
      event == Head(s.events)
  IN /\ CanTake(r, "terminal") /\ ~Known(s, event)
     /\ Session(r, [NextStep(s) EXCEPT !.events = Tail(@), !.forwarding = event])
     /\ UNCHANGED <<reqs, handlerVars>> /\ Quiet

(* persistNativeWebSocketTurn: the turn of the current step is priced,       *)
(* stored with its log, and only then forwarded.  The store knows no turn    *)
(* that seenTurns does not, so it always inserts.                            *)
PersistTurn(r) ==
  LET s == ws[r]
      event == Head(s.events)
      step == s.current
      result == TurnResult(step, event.response)
  IN /\ CanTake(r, "terminal") /\ ~Known(s, event) /\ phase # "closed"
     /\ \E price \in Lookups(r, step.model, result.tier, result.usage.prompt) :
          LET charge == TurnCharge(result, event.response, price)
          IN /\ writeLogTx(r, event.id, step.started, result.usage.total, charge)
             /\ Session(r, [NextStep(s) EXCEPT
                  !.events = Tail(@), !.forwarding = event, !.seenTurns = @ \cup {event.id},
                  !.accrued = saturatingAdd(@, charge.cost),
                  !.turns = @ \cup {[id |-> event.id, answers |-> event.frame, step |-> step]}])
     /\ UNCHANGED <<reqs, rateVars, slots, wg>> /\ Asks

(* The transaction fails, or only its acknowledgement is lost: the pump ends *)
(* and the completion is not forwarded.                                      *)
PersistTurnFails(r) ==
  LET event == Head(ws[r].events)
      result == TurnResult(ws[r].current, event.response)
  IN /\ CanTake(r, "terminal") /\ ~Known(ws[r], event)
     /\ Session(r, PumpEnded([ws[r] EXCEPT !.events = Tail(@)], "runtime"))
     /\ \/ UNCHANGED logVars
        \/ /\ phase # "closed"
           /\ \E price \in Lookups(r, ws[r].current.model, result.tier, result.usage.prompt) :
                writeLogTx(r, event.id, ws[r].current.started, result.usage.total,
                           TurnCharge(result, event.response, price))
     /\ UNCHANGED <<reqs, rateVars, slots, wg>> /\ Asks

WriteDownstream(r) ==
  LET s == ws[r]
  IN /\ Open(r) /\ s.forwarding # NoEvent
     /\ Session(r, [s EXCEPT !.forwarding = NoEvent,
                      !.delivered = IF s.forwarding.type = "terminal" THEN @ \cup {s.forwarding.id}
                                    ELSE @])
     /\ UNCHANGED <<reqs, handlerVars>> /\ Quiet

----------------------------------------------------------------------------
(* The end of a session. *)

(* A side closes, a write fails or the heartbeat is not answered.  After the *)
(* first pump the other side is told, and may answer.                        *)
PumpEnds(r, pump) ==
  /\ Open(r) /\ pump \in ws[r].pumps
  /\ Session(r, PumpEnded(ws[r], pump))
  /\ UNCHANGED <<reqs, handlerVars>> /\ Quiet

(* Mutant of ForceClose: the handler waits for the other side. *)
WaitForPeer(r) == FALSE /\ UNCHANGED wsVars

(* A second later both connections are closed. *)
ForceClose(r) ==
  /\ Open(r) /\ ws[r].closing /\ ws[r].pumps # {}
  /\ Session(r, [ws[r] EXCEPT !.pumps = {}, !.writing = 0, !.forwarding = NoEvent])
  /\ UNCHANGED <<reqs, handlerVars>> /\ Quiet

(* The hold is settled with what the turns accrued, or that fails. *)
CloseSession(r) ==
  /\ Open(r) /\ ws[r].pumps = {}
  /\ \E hold \in {"active"} \cup (IF phase # "closed" THEN {"settled"} ELSE {}) :
       reqs' = [reqs EXCEPT ![r].pc = "done", ![r].lease = FALSE, ![r].hold = hold]
  /\ UNCHANGED <<handlerVars, ws>> /\ Quiet

SessionStep(r) ==
  \/ UpgradeFails(r) \/ admitNativeWebSocket(r) \/ UpgradeRealtime(r)
  \/ dialNativeRuntimeWebSocket(r)
  \/ prepareNativeWebSocketRequest(r) \/ RefuseFrame(r) \/ WriteUpstream(r)
  \/ Answer(r) \/ AnswerUnasked(r) \/ RepeatEvent(r)
  \/ TakeCreated(r) \/ TakeKnown(r) \/ PersistTurn(r) \/ PersistTurnFails(r) \/ WriteDownstream(r)
  \/ \E pump \in Pumps : PumpEnds(r, pump)
  \/ ForceClose(r) \/ CloseSession(r)

----------------------------------------------------------------------------
WebSocketInit == ServingInit /\ WebSocketStart

WebSocketNext ==
  \/ \E r \in Requests : SessionStep(r)
  \/ /\ \/ \E r \in Requests : RequestStep(r)
        \/ StopServing \/ ShutdownReturns \/ CloseApp \/ Tick \/ Crash \/ PricesChange
     /\ UNCHANGED ws

(* The handler's own timer and its last step always come. *)
SessionFairness ==
  \A r \in Requests : WF_wsVars(ForceClose(r)) /\ WF_wsVars(CloseSession(r))

WebSocketSpec == WebSocketInit /\ [][WebSocketNext]_wsVars /\ SessionFairness

----------------------------------------------------------------------------
(* What a session promises. *)

(* A step waits only behind a current one, and an event is held only by the *)
(* pump that forwards it.                                                   *)
SessionTypeOK ==
  \A r \in Requests :
    /\ ws[r].pumps \subseteq Pumps
    /\ ws[r].pending # <<>> => ws[r].active
    /\ ws[r].forwarding # NoEvent => "runtime" \in ws[r].pumps

(* What a session settles is what the log says of the turns it has stored,   *)
(* up to the largest int64 (accruedNanoUSD, SettleRequestReservation).       *)
AccruedIsLogged ==
  \A r \in Requests :
    LET rows == {row \in logs : row.request = r /\ row.turn \in ws[r].seenTurns}
    IN ws[r].accrued = Least(MaxInt64, Total([row \in rows |-> row.cost], rows))

(* A completion the client has seen is in the log: it is stored before it   *)
(* is forwarded, and a failure to store it ends the session ("persistTurn   *)
(* has durably accrued this turn before its completion is forwarded").      *)
PersistedBeforeForwarded ==
  \A r \in Requests : \A id \in ws[r].delivered :
    \E row \in logs : row.request = r /\ row.turn = id

(* The model in force at a frame: the last one named up to it, by the first *)
(* frame or by one that asks for a response.                                *)
ModelAt(frames, n) ==
  LET named == {i \in 1..n : (i = 1 \/ frames[i].type = "create") /\ frames[i].model # NoModel}
  IN frames[Max(named)].model

(* A turn of a Responses socket is logged and priced as the frame it answers: *)
(* its model, its wish to generate, its start, however many frames the client *)
(* sent ahead and whatever the runtime repeats (startStep, the pending queue; *)
(* "Generation intent is per frame").                                         *)
TurnsMatchFrames ==
  \A r \in Requests : reqs[r].ask.kind = "socket" =>
    \A turn \in ws[r].turns :
      /\ turn.step.frame = turn.answers
      /\ turn.step.model = ModelAt(Frames(r), turn.answers)
      /\ turn.step.prewarm = Frames(r)[turn.answers].prewarm

(* Once one side is gone the session ends, whatever the other side does: the *)
(* lease is given back and the hold handed to the settlement.                *)
SessionsEnd ==
  \A r \in Requests : (Open(r) /\ ws[r].closing) ~> ~Open(r)

(* Turns are stored before their last frame goes out, and a response is     *)
(* accounted to the frame that asked for it.                                *)
TurnsInOrder == SessionTypeOK /\ PersistedBeforeForwarded /\ TurnsMatchFrames

(* Prices are those of the stored rows, and they add up to what a session   *)
(* settles.                                                                 *)
PricesAddUp == PricesConsistent /\ AccruedIsLogged
=============================================================================
