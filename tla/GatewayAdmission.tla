-------------------------- MODULE GatewayAdmission --------------------------
(***************************************************************************)
(* internal/gateway/admission.go: the process-wide admission controller in *)
(* front of the store's admission.  A caller passes the circuit breaker,   *)
(* takes one of the in-flight slots (waiting in a bounded queue), takes    *)
(* its body's bytes from a weighted semaphore, and holds all three as a    *)
(* lease until the handler returns.  One action is one access to shared    *)
(* state: a channel operation, a semaphore call or a critical section.     *)
(*                                                                         *)
(* A Go channel hands a freed place to the sender parked longest, and the  *)
(* semaphore serves its queue in order; both are modelled so.  The wall    *)
(* clock is abstracted: an open circuit may become half-open at any time   *)
(* (openDuration), and a wait may end at any time (queueTimeout, or the    *)
(* client going away, which ends it the same way).  The rejected counter   *)
(* and the other numbers of AdmissionStatus are left out.                  *)
(***************************************************************************)
EXTENDS Integers, Sequences, FiniteSets, Sums

CONSTANTS
    Callers,          \* goroutines that call Acquire
    MaxInFlight,      \* capacity of slots
    MaxQueue,         \* capacity of waiters
    BodyLimit,        \* MaxRequestBytesInFlight
    BodySizes,        \* expected body sizes of requests
    Waits,            \* is queueTimeout positive?
    FailureThreshold  \* 0: the breaker is off

ASSUME AdmissionAssumption ==
    /\ MaxInFlight \in Nat \ {0}
    /\ MaxQueue \in Nat
    /\ BodyLimit \in Nat \ {0}
    /\ BodySizes \subseteq Nat
    /\ Waits \in BOOLEAN
    /\ FailureThreshold \in Nat
    /\ IsFiniteSet(Callers)

VARIABLES
    slots,        \* elements in the slots channel
    slotQueue,    \* callers parked on it
    waiters,      \* elements in the waiters channel
    bytes,        \* the semaphore's current weight
    bodyQueue,    \* callers parked on it
    failures,     \* consecutiveFailures, counted up to the threshold
    circuit,      \* openUntil: zero, in the future, in the past
    probeActive,
    caller        \* what each caller is doing and what it holds

slotVars == <<slots, slotQueue>>
bodyVars == <<bytes, bodyQueue>>
breakerVars == <<failures, circuit, probeActive>>
admissionVars == <<slotVars, waiters, bodyVars, breakerVars, caller>>

-----------------------------------------------------------------------------
\* Inside acquire: "slot" is about to try for a slot, "enqueue" to join the
\* queue, "select" is in the queue and about to wait, "parked" waits for a
\* slot, "body" has one, "bodyParked" waits for bytes, "granted" was given
\* them, "acquired" returns a lease.  On the way out: "drop" still has its
\* slot, "cancel" perhaps the probe, "leave" perhaps a place in the queue.
Acquiring == {"slot", "enqueue", "select", "parked", "body", "bodyParked", "granted", "acquired",
              "drop", "cancel", "leave"}
HasSlot == {"body", "bodyParked", "granted", "acquired", "leased", "recorded", "drop"}
HasBytes == {"granted", "acquired", "leased", "recorded"}

CallerType == [pc: Acquiring \cup {"idle", "leased", "recorded"},
               probe: BOOLEAN, queued: BOOLEAN, weight: Nat]

AdmissionInit ==
    /\ slots = 0 /\ slotQueue = <<>> /\ waiters = 0
    /\ bytes = 0 /\ bodyQueue = <<>>
    /\ failures = 0 /\ circuit = "closed" /\ probeActive = FALSE
    /\ caller = [c \in Callers |-> [pc |-> "idle", probe |-> FALSE, queued |-> FALSE, weight |-> 1]]

\* The queue after c, who is in it at most once, has left it.
Without(queue, c) ==
    LET ahead == CHOOSE i \in 0..Len(queue) : (\A j \in 1..i : queue[j] # c)
                                              /\ (i < Len(queue) => queue[i + 1] = c)
    IN SubSeq(queue, 1, ahead) \o SubSeq(queue, ahead + 2, Len(queue))
At(c, pc) == caller[c].pc = pc
Goto(c, pc) == caller' = [caller EXCEPT ![c].pc = pc]

-----------------------------------------------------------------------------
(* The circuit breaker *)

\* An unknown or empty body counts one byte, a large one the whole budget.
Weight(size) == IF size < 1 THEN 1 ELSE IF size > BodyLimit THEN BodyLimit ELSE size

\* A closed circuit admits everyone, a half-open one a single probe.  A caller
\* that is turned away stays idle.
allow(c, size) ==
    /\ At(c, "idle")
    /\ circuit = "closed" \/ (circuit = "half_open" /\ ~probeActive)
    /\ probeActive' = (probeActive \/ circuit = "half_open")
    /\ caller' = [caller EXCEPT ![c] = [pc |-> "slot", probe |-> circuit = "half_open",
                                        queued |-> FALSE, weight |-> Weight(size)]]
    /\ UNCHANGED <<slotVars, waiters, bodyVars, failures, circuit>>

\* Mutant of ProbeAfterCancel: a caller that gives up keeps the probe.
KeepProbe(probe) == probeActive
ProbeAfterCancel(probe) == probeActive /\ ~probe

cancelProbe(c) ==
    /\ At(c, "cancel")
    /\ probeActive' = ProbeAfterCancel(caller[c].probe)
    /\ caller' = [caller EXCEPT ![c].pc = "leave", ![c].probe = FALSE]
    /\ UNCHANGED <<slotVars, waiters, bodyVars, failures, circuit>>

\* openUntil after an outcome, given the failures in a row.
CircuitAfter(ok, count) ==
    IF ok THEN "closed" ELSE IF count = FailureThreshold THEN "open" ELSE circuit

\* The handler reports how the upstream call went, whether or not it was the
\* probe.
recordOutcome(c, ok) ==
    /\ At(c, "leased")
    /\ Goto(c, "recorded")
    /\ IF FailureThreshold = 0 THEN UNCHANGED breakerVars
       ELSE /\ probeActive' = FALSE
            /\ failures' = IF ok THEN 0 ELSE IF failures < FailureThreshold THEN failures + 1 ELSE failures
            /\ circuit' = CircuitAfter(ok, failures')
    /\ UNCHANGED <<slotVars, waiters, bodyVars>>

CoolDown ==
    /\ circuit = "open"
    /\ circuit' = "half_open"
    /\ UNCHANGED <<slotVars, waiters, bodyVars, failures, probeActive, caller>>

-----------------------------------------------------------------------------
(* Slots *)

TakeSlot(c) ==
    /\ slots < MaxInFlight
    /\ slots' = slots + 1
    /\ Goto(c, "body")
    /\ UNCHANGED <<slotQueue, waiters, bodyVars, breakerVars>>

\* The first select: a slot that is free now, or the queue if there is one.
TrySlot(c) ==
    /\ At(c, "slot")
    /\ \/ TakeSlot(c)
       \/ /\ slots = MaxInFlight
          /\ Goto(c, IF Waits /\ MaxQueue > 0 THEN "enqueue" ELSE "cancel")
          /\ UNCHANGED <<slotVars, waiters, bodyVars, breakerVars>>

Enqueue(c) ==
    /\ At(c, "enqueue")
    /\ IF waiters < MaxQueue
       THEN waiters' = waiters + 1 /\ caller' = [caller EXCEPT ![c].pc = "select", ![c].queued = TRUE]
       ELSE UNCHANGED waiters /\ Goto(c, "cancel")
    /\ UNCHANGED <<slotVars, bodyVars, breakerVars>>

\* The second select takes a slot or parks on the channel.
SelectSlot(c) ==
    /\ At(c, "select")
    /\ \/ TakeSlot(c)
       \/ /\ slots = MaxInFlight
          /\ slotQueue' = Append(slotQueue, c)
          /\ Goto(c, "parked")
          /\ UNCHANGED <<slots, waiters, bodyVars, breakerVars>>

SlotTimeout(c) ==
    /\ At(c, "select") \/ At(c, "parked")
    /\ slotQueue' = Without(slotQueue, c)
    /\ Goto(c, "cancel")
    /\ UNCHANGED <<slots, waiters, bodyVars, breakerVars>>

\* <-slots: the place goes to the first parked caller, if any.
DropSlot(c) ==
    /\ At(c, "drop")
    /\ IF slotQueue = <<>>
       THEN slots' = slots - 1 /\ Goto(c, "cancel") /\ UNCHANGED slotQueue
       ELSE /\ slotQueue' = Tail(slotQueue)
            /\ caller' = [caller EXCEPT ![c].pc = "cancel", ![Head(slotQueue)].pc = "body"]
            /\ UNCHANGED slots
    /\ UNCHANGED <<waiters, bodyVars, breakerVars>>

-----------------------------------------------------------------------------
(* Body bytes *)

\* What the first n callers of a queue ask for.
Load(queue, n) == Total([i \in 1..n |-> caller[queue[i]].weight], 1..n)

\* c gives up `freed` bytes; the semaphore serves the head of `queue` as far
\* as the bytes go.
ReleaseBytes(c, freed, queue, pc) ==
    \E n \in 0..Len(queue) :
        LET left == bytes - freed IN
        /\ left + Load(queue, n) <= BodyLimit
        /\ n < Len(queue) => left + Load(queue, n + 1) > BodyLimit
        /\ bytes' = left + Load(queue, n)
        /\ bodyQueue' = SubSeq(queue, n + 1, Len(queue))
        /\ caller' = [d \in Callers |->
              IF d = c THEN [caller[c] EXCEPT !.pc = pc]
              ELSE IF \E i \in 1..n : queue[i] = d THEN [caller[d] EXCEPT !.pc = "granted"]
              ELSE caller[d]]
        /\ UNCHANGED <<slotVars, waiters, breakerVars>>

\* Bytes that are free and that nobody waits for are taken at once; otherwise
\* the caller waits, or gives its slot back if there is no waiting.
TryBody(c) ==
    /\ At(c, "body")
    /\ IF bodyQueue = <<>> /\ bytes + caller[c].weight <= BodyLimit
       THEN bytes' = bytes + caller[c].weight /\ Goto(c, "acquired") /\ UNCHANGED bodyQueue
       ELSE IF Waits
       THEN bodyQueue' = Append(bodyQueue, c) /\ Goto(c, "bodyParked") /\ UNCHANGED bytes
       ELSE Goto(c, "drop") /\ UNCHANGED bodyVars
    /\ UNCHANGED <<slotVars, waiters, breakerVars>>

\* Mutants of BodyTimeout: the wait for bytes does not end with the queue's
\* timeout; bytes that came too late are kept.
NoBodyTimeout(c) ==
    /\ At(c, "granted")
    /\ ReleaseBytes(c, caller[c].weight, bodyQueue, "drop")
KeepLateBytes(c) ==
    \/ /\ At(c, "bodyParked")
       /\ ReleaseBytes(c, 0, Without(bodyQueue, c), "drop")
    \/ /\ At(c, "granted")
       /\ ReleaseBytes(c, 0, bodyQueue, "drop")

\* The wait ends before the bytes came, or the bytes came too late and are
\* put back.
BodyTimeout(c) ==
    \/ /\ At(c, "bodyParked")
       /\ ReleaseBytes(c, 0, Without(bodyQueue, c), "drop")
    \/ /\ At(c, "granted")
       /\ ReleaseBytes(c, caller[c].weight, bodyQueue, "drop")

BodyGranted(c) ==
    /\ At(c, "granted")
    /\ Goto(c, "acquired")
    /\ UNCHANGED <<slotVars, waiters, bodyVars, breakerVars>>

-----------------------------------------------------------------------------
\* acquire returns, with a lease or without; a place in the queue is given up
\* only now.
Return(c) ==
    /\ At(c, "acquired") \/ At(c, "leave")
    /\ waiters' = IF caller[c].queued THEN waiters - 1 ELSE waiters
    /\ caller' = [caller EXCEPT ![c].pc = IF @ = "acquired" THEN "leased" ELSE "idle", ![c].queued = FALSE]
    /\ UNCHANGED <<slotVars, bodyVars, breakerVars>>

\* The handler returns, with or without having reported an outcome.
Release(c) ==
    /\ At(c, "leased") \/ At(c, "recorded")
    /\ ReleaseBytes(c, caller[c].weight, bodyQueue, "drop")

AcquireStep(c) ==
    \/ TrySlot(c) \/ Enqueue(c) \/ SelectSlot(c) \/ DropSlot(c)
    \/ TryBody(c) \/ BodyGranted(c)
    \/ cancelProbe(c) \/ Return(c)

CallerStep(c) ==
    \/ \E size \in BodySizes : allow(c, size)
    \/ AcquireStep(c)
    \/ SlotTimeout(c)
    \/ BodyTimeout(c)
    \/ \E ok \in BOOLEAN : recordOutcome(c, ok)
    \/ Release(c)

AdmissionNext == CoolDown \/ \E c \in Callers : CallerStep(c)

AdmissionSpec == AdmissionInit /\ [][AdmissionNext]_admissionVars

\* A runnable goroutine runs and a timer fires.  Nothing is assumed of the
\* leases of others: they may be held forever.
FairAdmissionControl ==
    /\ AdmissionSpec
    /\ \A c \in Callers : /\ WF_admissionVars(AcquireStep(c))
                          /\ WF_admissionVars(SlotTimeout(c))
                          /\ WF_admissionVars(BodyTimeout(c))

-----------------------------------------------------------------------------
(* Properties *)

\* Every field has its type, and the breaker's: a circuit is only ever open
\* after FailureThreshold failures in a row.
AdmissionTypeOK ==
    /\ slots \in 0..MaxInFlight
    /\ slotQueue \in Seq(Callers)
    /\ waiters \in 0..MaxQueue
    /\ bytes \in 0..BodyLimit
    /\ bodyQueue \in Seq(Callers)
    /\ failures \in 0..FailureThreshold
    /\ circuit \in {"closed", "open", "half_open"}
    /\ probeActive \in BOOLEAN
    /\ caller \in [Callers -> CallerType]
    /\ circuit # "closed" => failures = FailureThreshold /\ FailureThreshold > 0

\* No slot and no place in the queue is lost or given back twice on any way
\* out of acquire: the channels hold exactly one element for each caller that
\* is inside (acquire, Lease.Release).
SlotsExact ==
    /\ slots = Cardinality({c \in Callers : caller[c].pc \in HasSlot})
    /\ waiters = Cardinality({c \in Callers : caller[c].queued})

\* The body budget is never overdrawn and never leaks: the semaphore counts
\* exactly the weights of the callers that were given bytes, also when the
\* bytes come after the wait ended and are put back (acquire, Lease.Release).
BytesExact ==
    bytes = Total([c \in Callers |-> caller[c].weight], {c \in Callers : caller[c].pc \in HasBytes})

\* Nothing leaks and nothing is given back twice on any of the ways out of
\* acquire and Release: the slots, the places in the queue and the bytes in
\* use are exactly those of the callers that hold them.
ResourcesExact == AdmissionTypeOK /\ SlotsExact /\ BytesExact

\* The half-open circuit never waits for a probe that is over: while
\* probeActive is set, the caller that set it is still on its way or in
\* flight and will clear it, however it got out of acquire (cancelProbe).
ProbeOwned == probeActive => \E c \in Callers : caller[c].probe

\* acquire always returns: whatever the leases of other callers do, nobody
\* waits for a slot or for bytes for ever (queueTimeout).
AcquireAnswers ==
    \A c \in Callers : caller[c].pc \in Acquiring ~> caller[c].pc \in {"idle", "leased"}

=============================================================================
