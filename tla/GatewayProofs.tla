---------------------------- MODULE GatewayProofs ----------------------------
(***************************************************************************)
(* Two parts of the gateway that share no state. The admission controller, *)
(* for any number of callers and any limits: no probe is lost, and no      *)
(* slot, place in the queue or byte. And retention, for any number of      *)
(* rows, days, jobs and reports and any policy: compaction neither loses   *)
(* nor invents usage, a run that ends by itself leaves nothing that was    *)
(* due, and no report misses a request.                                    *)
(***************************************************************************)
EXTENDS GatewayAdmission, Retention, SumsProofs, FiniteSetTheorems, TLAPS

-----------------------------------------------------------------------------
(* Admission: the probe *)

\* ProbeOwned is not inductive: a caller that starts over forgets that it was
\* the probe, so it must have given the probe up before.
ProbeInv ==
    /\ caller \in [Callers -> CallerType]
    /\ probeActive \in BOOLEAN
    /\ \A c \in Callers : caller[c].pc \in {"idle", "leave"} => ~caller[c].probe
    /\ ProbeOwned

\* What all steps except allow and cancelProbe do to the probe: no caller
\* starts or ends being it, nobody becomes idle but from "leave", and the
\* flag is at most cleared.
Quiet ==
    /\ caller' \in [Callers -> CallerType]
    /\ probeActive' \in BOOLEAN
    /\ probeActive' => probeActive
    /\ \A c \in Callers : /\ caller'[c].probe = caller[c].probe
                          /\ caller'[c].pc \in {"idle", "leave"} => caller[c].pc \in {"idle", "leave"}

\* A step that leaves the probe alone keeps the invariant.
LEMMA QuietKeeps ==
    ASSUME ProbeInv, Quiet
    PROVE  ProbeInv'
BY DEF ProbeInv, ProbeOwned, Quiet

\* A caller row with another pc is a caller row, and is the probe if it was.
LEMMA MovedType ==
    ASSUME NEW row \in CallerType, NEW pc \in Acquiring \cup {"idle", "leased", "recorded"}
    PROVE  /\ [row EXCEPT !.pc = pc] \in CallerType
           /\ [row EXCEPT !.pc = pc].probe = row.probe
           /\ [row EXCEPT !.pc = pc].pc = pc
BY Zenon DEF CallerType

\* Moving one caller is quiet, unless it leaves.
LEMMA GotoQuiet ==
    ASSUME caller \in [Callers -> CallerType], NEW c \in Callers,
           NEW pc \in (Acquiring \cup {"leased", "recorded"}) \ {"leave"}, Goto(c, pc),
           probeActive' \in BOOLEAN, probeActive' => probeActive
    PROVE  Quiet
<1>1. pc \in Acquiring \cup {"idle", "leased", "recorded"} /\ pc \notin {"idle", "leave"}
  BY DEF Acquiring
<1>2. caller[c] \in CallerType
  OBVIOUS
<1>3. caller' = [caller EXCEPT ![c] = [caller[c] EXCEPT !.pc = pc]]
  BY Zenon DEF Goto
<1> QED BY <1>1, <1>2, <1>3, MovedType, Zenon DEF Quiet

\* Releasing bytes is quiet: the callers served move on inside acquire.
LEMMA ReleaseBytesQuiet ==
    ASSUME caller \in [Callers -> CallerType], probeActive \in BOOLEAN, NEW c \in Callers,
           NEW freed, NEW queue, ReleaseBytes(c, freed, queue, "drop")
    PROVE  Quiet
<1>1. /\ {"drop", "granted"} \subseteq Acquiring \cup {"idle", "leased", "recorded"}
      /\ "drop" \notin {"idle", "leave"} /\ "granted" \notin {"idle", "leave"}
  BY DEF Acquiring
<1>2. PICK n : caller' = [d \in Callers |->
          IF d = c THEN [caller[c] EXCEPT !.pc = "drop"]
          ELSE IF \E i \in 1..n : queue[i] = d THEN [caller[d] EXCEPT !.pc = "granted"]
          ELSE caller[d]]
  BY Zenon DEF ReleaseBytes
<1>3. probeActive' = probeActive
  BY Zenon DEF ReleaseBytes, breakerVars
<1>4. ASSUME NEW d \in Callers
      PROVE  /\ caller'[d] \in CallerType
             /\ caller'[d].probe = caller[d].probe
             /\ caller'[d].pc \in {"idle", "leave"} => caller[d].pc \in {"idle", "leave"}
  <2>1. caller[d] \in CallerType
    OBVIOUS
  <2>2. ASSUME NEW pc \in {"drop", "granted"}, caller'[d] = [caller[d] EXCEPT !.pc = pc]
        PROVE  /\ caller'[d] \in CallerType
               /\ caller'[d].probe = caller[d].probe
               /\ caller'[d].pc \notin {"idle", "leave"}
    <3>1. pc \in Acquiring \cup {"idle", "leased", "recorded"}
      BY <1>1, Zenon
    <3>2. caller'[d].pc = pc
      <4>1. [caller[d] EXCEPT !.pc = pc].pc = pc
        BY <2>1, <3>1, MovedType, Zenon
      <4> QED
        BY <2>2, <4>1, Zenon
    <3>3. pc # "idle" /\ pc # "leave"
      BY <2>2
    <3>4. caller'[d] \in CallerType /\ caller'[d].probe = caller[d].probe
      <4>1. /\ [caller[d] EXCEPT !.pc = pc] \in CallerType
            /\ [caller[d] EXCEPT !.pc = pc].probe = caller[d].probe
        BY <2>1, <3>1, MovedType, Zenon
      <4> QED
        BY <2>2, <4>1, Zenon
    <3> QED BY <3>2, <3>3, <3>4, Zenon
  <2>3. CASE \E pc \in {"drop", "granted"} : caller'[d] = [caller[d] EXCEPT !.pc = pc]
    BY <2>2, <2>3, Zenon
  <2>4. CASE caller'[d] = caller[d]
    BY <2>1, <2>4
  <2> QED BY <1>2, <2>3, <2>4, Zenon
<1>5. caller' = [d \in Callers |-> caller'[d]]
  BY <1>2, Zenon
<1> QED BY <1>3, <1>4, <1>5, Zenon DEF Quiet

\* Every step of a caller but allow and cancelProbe is quiet.
LEMMA QuietSteps ==
    ASSUME ProbeInv, NEW c \in Callers,
           \/ TrySlot(c) \/ Enqueue(c) \/ SelectSlot(c) \/ SlotTimeout(c) \/ DropSlot(c)
           \/ TryBody(c) \/ BodyTimeout(c) \/ BodyGranted(c) \/ Return(c) \/ Release(c)
           \/ \E ok \in BOOLEAN : recordOutcome(c, ok)
    PROVE  Quiet
<1>1. caller \in [Callers -> CallerType] /\ probeActive \in BOOLEAN
  BY DEF ProbeInv
<1>2. /\ {"body", "enqueue", "cancel", "parked", "acquired", "bodyParked", "drop", "recorded"}
             \subseteq (Acquiring \cup {"leased", "recorded"}) \ {"leave"}
      /\ "select" \in Acquiring /\ "body" \in Acquiring /\ "cancel" \in Acquiring
  BY DEF Acquiring
<1>3. CASE TrySlot(c)
  BY <1>1, <1>2, <1>3, GotoQuiet DEF TrySlot, TakeSlot, breakerVars
<1>4. CASE Enqueue(c)
  <2>1. probeActive' = probeActive
    BY <1>4, Zenon DEF Enqueue, breakerVars
  <2>2. CASE Goto(c, "cancel")
    BY <1>1, <1>2, <2>1, <2>2, GotoQuiet
  <2>3. CASE caller' = [caller EXCEPT ![c].pc = "select", ![c].queued = TRUE]
    BY <1>1, <1>2, <2>1, <2>3, Zenon DEF Quiet, CallerType
  <2> QED BY <1>4, <2>2, <2>3, Zenon DEF Enqueue
<1>5. CASE SelectSlot(c)
  BY <1>1, <1>2, <1>5, GotoQuiet DEF SelectSlot, TakeSlot, breakerVars
<1>6. CASE SlotTimeout(c)
  BY <1>1, <1>2, <1>6, GotoQuiet DEF SlotTimeout, breakerVars
<1>7. CASE DropSlot(c)
  <2>1. probeActive' = probeActive
    BY <1>7, Zenon DEF DropSlot, breakerVars
  <2>2. CASE Goto(c, "cancel")
    BY <1>1, <1>2, <2>1, <2>2, GotoQuiet
  <2>3. CASE caller' = [caller EXCEPT ![c].pc = "cancel", ![Head(slotQueue)].pc = "body"]
    <3> DEFINE first == [caller EXCEPT ![c].pc = "cancel"]
               h == Head(slotQueue)
    <3>1. first \in [Callers -> CallerType]
      BY <1>1, <1>2, Zenon DEF CallerType
    <3>2. \A d \in Callers : /\ first[d].probe = caller[d].probe
                             /\ first[d].pc \in {"idle", "leave"} => caller[d].pc \in {"idle", "leave"}
      BY <1>1, <1>2, Zenon DEF CallerType
    <3>3. caller' = [first EXCEPT ![h].pc = "body"]
      BY <2>3, Zenon
    <3> HIDE DEF first, h
    <3>4. [first EXCEPT ![h].pc = "body"] \in [Callers -> CallerType]
      BY <1>2, <3>1, Zenon DEF CallerType
    <3>5. \A d \in Callers : /\ caller'[d].probe = first[d].probe
                             /\ caller'[d].pc \in {"idle", "leave"} => first[d].pc \in {"idle", "leave"}
      BY <1>2, <3>1, <3>3, Zenon DEF CallerType
    <3> QED BY <1>1, <2>1, <3>2, <3>3, <3>4, <3>5, Zenon DEF Quiet
  <2> QED BY <1>7, <2>2, <2>3, Zenon DEF DropSlot
<1>8. CASE TryBody(c)
  BY <1>1, <1>2, <1>8, GotoQuiet DEF TryBody, breakerVars
<1>9. CASE BodyTimeout(c)
  BY <1>1, <1>9, ReleaseBytesQuiet, Zenon DEF BodyTimeout
<1>10. CASE BodyGranted(c)
  BY <1>1, <1>2, <1>10, GotoQuiet DEF BodyGranted, breakerVars
<1>11. CASE Return(c)
  <2>1. probeActive' = probeActive
    BY <1>11, Zenon DEF Return, breakerVars
  <2> QED BY <1>1, <1>11, <2>1, ZenonT(60) DEF Return, Quiet, CallerType, At
<1>12. CASE Release(c)
  BY <1>1, <1>12, ReleaseBytesQuiet, Zenon DEF Release
<1>13. CASE \E ok \in BOOLEAN : recordOutcome(c, ok)
  <2>1. Goto(c, "recorded") /\ probeActive' \in BOOLEAN /\ (probeActive' => probeActive)
    BY <1>1, <1>13, Zenon DEF recordOutcome, breakerVars
  <2> QED BY <1>1, <1>2, <2>1, GotoQuiet
<1> QED BY <1>3, <1>4, <1>5, <1>6, <1>7, <1>8, <1>9, <1>10, <1>11, <1>12, <1>13

\* A caller let through by the breaker keeps the invariant: it was not the
\* probe, and is it now exactly if it set the flag.
LEMMA AllowKeeps ==
    ASSUME ProbeInv, NEW c \in Callers, NEW size \in BodySizes, allow(c, size)
    PROVE  ProbeInv'
<1>1. Weight(size) \in Nat
  BY AdmissionAssumption DEF Weight
<1>2. caller' = [caller EXCEPT ![c] = [pc |-> "slot", probe |-> circuit = "half_open",
                                       queued |-> FALSE, weight |-> Weight(size)]]
  BY Zenon DEF allow
<1>3. caller' \in [Callers -> CallerType]
  <2>1. [pc |-> "slot", probe |-> circuit = "half_open", queued |-> FALSE, weight |-> Weight(size)]
           \in CallerType
    BY <1>1, Zenon DEF CallerType, Acquiring
  <2> QED BY <1>2, <2>1, Zenon DEF ProbeInv
<1>4. probeActive' = (probeActive \/ circuit = "half_open")
  BY Zenon DEF allow
<1>5. caller'[c].probe <=> circuit = "half_open"
  BY <1>2, Zenon DEF ProbeInv
<1>6. \A d \in Callers : d # c => caller'[d] = caller[d]
  BY <1>2, Zenon DEF ProbeInv
<1>7. caller'[c].pc = "slot" /\ ~caller[c].probe
  <2>1. caller'[c].pc = "slot"
    BY <1>2, Zenon DEF ProbeInv
  <2>2. caller[c].pc \in {"idle", "leave"}
    BY Zenon DEF allow, At
  <2> QED BY <2>1, <2>2, Zenon DEF ProbeInv
<1>8. \A d \in Callers : caller'[d].pc \in {"idle", "leave"} => ~caller'[d].probe
  BY <1>6, <1>7, Zenon DEF ProbeInv
<1>9. ProbeOwned'
  BY <1>4, <1>5, <1>6, <1>7, Zenon DEF ProbeInv, ProbeOwned
<1> QED BY <1>3, <1>4, <1>8, <1>9, Zenon DEF ProbeInv

\* A caller that gives the probe up clears the flag with it.
LEMMA CancelKeeps ==
    ASSUME ProbeInv, NEW c \in Callers, cancelProbe(c)
    PROVE  ProbeInv'
<1>1. caller' = [caller EXCEPT ![c].pc = "leave", ![c].probe = FALSE]
  BY Zenon DEF cancelProbe
<1>2. probeActive' = (probeActive /\ ~caller[c].probe)
  BY Zenon DEF cancelProbe, ProbeAfterCancel
<1>3. caller' \in [Callers -> CallerType]
  <2>1. "leave" \in Acquiring
    BY DEF Acquiring
  <2> QED BY <1>1, <2>1, Zenon DEF ProbeInv, CallerType
<1>4. caller'[c].probe = FALSE /\ \A d \in Callers : d # c => caller'[d] = caller[d]
  BY <1>1, Zenon DEF ProbeInv, CallerType
<1>5. \A d \in Callers : caller'[d].pc \in {"idle", "leave"} => ~caller'[d].probe
  BY <1>4, Zenon DEF ProbeInv
<1>6. ProbeOwned'
  BY <1>2, <1>4, Zenon DEF ProbeInv, ProbeOwned
<1> QED BY <1>2, <1>3, <1>5, <1>6, Zenon DEF ProbeInv

\* A half-open circuit never waits for a probe that is over, with any number
\* of callers and any limits: every way out of acquire, and every outcome
\* recorded in between, leaves the flag with a caller that will clear it
\* (allow, cancelProbe, recordOutcome).
THEOREM ProbeCorrect == AdmissionSpec => []ProbeOwned
<1>1. AdmissionInit => ProbeInv
  <2> SUFFICES ASSUME AdmissionInit PROVE ProbeInv
    OBVIOUS
  <2>1. caller \in [Callers -> CallerType]
    BY DEF AdmissionInit, CallerType
  <2> QED BY <2>1, Zenon DEF AdmissionInit, ProbeInv, ProbeOwned
<1>2. ProbeInv /\ [AdmissionNext]_admissionVars => ProbeInv'
  <2> SUFFICES ASSUME ProbeInv, [AdmissionNext]_admissionVars PROVE ProbeInv'
    OBVIOUS
  <2>1. CASE UNCHANGED admissionVars
    BY <2>1, Zenon DEF ProbeInv, ProbeOwned, admissionVars, breakerVars
  <2>2. CASE CoolDown
    BY <2>2, Zenon DEF ProbeInv, ProbeOwned, CoolDown
  <2>3. ASSUME NEW c \in Callers, CallerStep(c) PROVE ProbeInv'
    BY <2>3, AllowKeeps, CancelKeeps, QuietSteps, QuietKeeps, Zenon DEF CallerStep, AcquireStep
  <2> QED BY <2>1, <2>2, <2>3, Zenon DEF AdmissionNext
<1>3. ProbeInv => ProbeOwned
  BY DEF ProbeInv
<1> QED BY <1>1, <1>2, <1>3, PTL DEF AdmissionSpec

-----------------------------------------------------------------------------
(* Queues *)

\* q holds callers that wait at pc, each once.
Orderly(q, f, pc) ==
    /\ \A i \in 1..Len(q) : f[q[i]].pc = pc
    /\ \A i, j \in 1..Len(q) : q[i] = q[j] => i = j

\* A queue stays in order while the callers in it stay where they are,
LEMMA OrderlyKept ==
    ASSUME NEW q \in Seq(Callers), NEW f, NEW g, NEW pc, Orderly(q, f, pc),
           \A d \in Callers : f[d].pc = pc => g[d].pc = pc
    PROVE  Orderly(q, g, pc)
<1>1. \A i \in 1..Len(q) : q[i] \in Callers
  OBVIOUS
<1> QED
  BY <1>1 DEF Orderly

\* when a caller joins at its end,
LEMMA OrderlyAppend ==
    ASSUME NEW q \in Seq(Callers), NEW f, NEW g, NEW pc, NEW c \in Callers, Orderly(q, f, pc),
           f[c].pc # pc, g[c].pc = pc, \A d \in Callers : f[d].pc = pc => g[d].pc = pc
    PROVE  Orderly(Append(q, c), g, pc)
<1>1. Len(Append(q, c)) = Len(q) + 1 /\ Len(q) \in Nat
  OBVIOUS
<1>2. \A i \in 1..Len(q) + 1 : Append(q, c)[i] = IF i = Len(q) + 1 THEN c ELSE q[i]
  OBVIOUS
<1>3. \A i \in 1..Len(q) : q[i] \in Callers /\ q[i] # c
  BY DEF Orderly
<1> DEFINE r == Append(q, c)
<1> HIDE DEF r
<1>4. Orderly(r, g, pc)
  BY <1>1, <1>2, <1>3 DEF Orderly, r
<1> QED
  BY <1>4 DEF r

\* and when its first n callers leave.
LEMMA OrderlyRest ==
    ASSUME NEW q \in Seq(Callers), NEW f, NEW g, NEW pc, Orderly(q, f, pc), NEW n \in 0..Len(q),
           \A d \in Callers : f[d].pc = pc /\ (\A i \in 1..n : q[i] # d) => g[d].pc = pc
    PROVE  /\ SubSeq(q, n + 1, Len(q)) \in Seq(Callers)
           /\ Orderly(SubSeq(q, n + 1, Len(q)), g, pc)
<1> DEFINE r == SubSeq(q, n + 1, Len(q))
<1>1. /\ r \in Seq(Callers) /\ Len(r) = Len(q) - n /\ Len(q) \in Nat
      /\ \A i \in 1..Len(q) - n : r[i] = q[i + n]
  OBVIOUS
<1>2. \A i \in 1..Len(q) - n : i + n \in 1..Len(q) /\ q[i + n] \in Callers /\ \A j \in 1..n : q[j] # q[i + n]
  BY DEF Orderly
<1> HIDE DEF r
<1>3. \A i \in 1..Len(r) : g[r[i]].pc = pc
  BY <1>1, <1>2 DEF Orderly
<1>4. \A i, j \in 1..Len(r) : r[i] = r[j] => i = j
  <2> SUFFICES ASSUME NEW i \in 1..Len(r), NEW j \in 1..Len(r), r[i] = r[j]
               PROVE  i = j
    OBVIOUS
  <2>1. i + n \in 1..Len(q) /\ j + n \in 1..Len(q) /\ q[i + n] = q[j + n]
    BY <1>1, <1>2
  <2>2. i + n = j + n
    BY <2>1 DEF Orderly
  <2> QED
    BY <1>1, <2>2
<1> QED
  BY <1>1, <1>3, <1>4 DEF Orderly, r

\* The same for one caller anywhere in the queue.
LEMMA OrderlyWithout ==
    ASSUME NEW q \in Seq(Callers), NEW f, NEW pc, NEW c, Orderly(q, f, pc)
    PROVE  /\ Without(q, c) \in Seq(Callers)
           /\ Orderly(Without(q, c), f, pc)
           /\ \A i \in 1..Len(Without(q, c)) : Without(q, c)[i] # c
<1> DEFINE P(i) == (\A j \in 1..i : q[j] # c) /\ (i < Len(q) => q[i + 1] = c)
           a == CHOOSE i \in 0..Len(q) : P(i)
           r == SubSeq(q, 1, a) \o SubSeq(q, a + 2, Len(q))
<1>0. Len(q) \in Nat /\ \A i \in 1..Len(q) : q[i] \in Callers
  OBVIOUS
<1>1. \E i \in 0..Len(q) : P(i)
  <2>1. CASE \A j \in 1..Len(q) : q[j] # c
    <3>1. P(Len(q)) /\ Len(q) \in 0..Len(q)
      BY <1>0, <2>1
    <3> QED
      BY <3>1
  <2>2. ASSUME NEW k \in 1..Len(q), q[k] = c
        PROVE  \E i \in 0..Len(q) : P(i)
    <3>1. k - 1 \in 0..Len(q) /\ (k - 1) + 1 = k
      BY <1>0
    <3>2. \A j \in 1..k - 1 : j \in 1..Len(q) /\ j # k
      BY <1>0
    <3>3. \A j \in 1..k - 1 : q[j] # c
      BY <2>2, <3>2 DEF Orderly
    <3>4. P(k - 1)
      BY <2>2, <3>1, <3>3
    <3> HIDE DEF P
    <3> QED
      BY <3>1, <3>4
  <2> QED
    BY <2>1, <2>2
<1>2. a \in 0..Len(q) /\ P(a)
  BY <1>1, Zenon
<1>3. Without(q, c) = r
  BY DEF Without
<1> HIDE DEF a
<1>4. CASE a = Len(q)
  <2>1. SubSeq(q, 1, a) = q /\ SubSeq(q, a + 2, Len(q)) = <<>>
    BY <1>0, <1>4
  <2>2. r = q
    <3>1. q \o <<>> = q
      OBVIOUS
    <3>2. r = q \o <<>>
      BY <2>1, Zenon
    <3> QED
      BY <3>1, <3>2
  <2>3. \A i \in 1..Len(q) : q[i] # c
    BY <1>2, <1>4
  <2> HIDE DEF r, P
  <2> QED
    BY <1>3, <2>2, <2>3
<1>5. CASE a < Len(q)
  <2>1. /\ r \in Seq(Callers)
        /\ Len(r) = Len(q) - 1
        /\ \A i \in 1..Len(q) - 1 : r[i] = IF i <= a THEN q[i] ELSE q[i + 1]
    <3> DEFINE u == SubSeq(q, 1, a)
               v == SubSeq(q, a + 2, Len(q))
    <3>1. u \in Seq(Callers) /\ Len(u) = a /\ \A i \in 1..a : u[i] = q[i]
      BY <1>0, <1>2
    <3>2. v \in Seq(Callers) /\ Len(v) = Len(q) - a - 1 /\ \A i \in 1..Len(q) - a - 1 : v[i] = q[i + a + 1]
      BY <1>0, <1>2, <1>5
    <3> HIDE DEF u, v
    <3>3. r = u \o v
      BY DEF u, v
    <3>4. u \o v \in Seq(Callers) /\ Len(u \o v) = Len(q) - 1
      <4>1. u \o v \in Seq(Callers) /\ Len(u \o v) = Len(u) + Len(v)
        <5>1. u \in Seq(Callers) /\ v \in Seq(Callers)
          BY <3>1, <3>2
        <5> HIDE DEF r, P
        <5> QED
          BY <5>1
      <4>2. a \in Nat /\ a + (Len(q) - a - 1) = Len(q) - 1
        BY <1>0, <1>2
      <4> QED
        BY <3>1, <3>2, <4>1, <4>2
    <3>5. ASSUME NEW i \in 1..Len(q) - 1
          PROVE  (u \o v)[i] = IF i <= a THEN q[i] ELSE q[i + 1]
      <4>1. CASE i <= a
        BY <1>0, <1>2, <3>1, <3>2, <4>1
      <4>2. CASE i > a
        <5>1. (u \o v)[i] = v[i - a] /\ i - a \in 1..Len(q) - a - 1
          BY <1>0, <1>2, <1>5, <3>1, <3>2, <4>2
        <5>2. v[i - a] = q[(i - a) + a + 1]
          BY <3>2, <5>1
        <5>3. a \in Nat /\ (i - a) + a + 1 = i + 1 /\ ~(i <= a)
          BY <1>0, <1>2, <4>2
        <5>4. (u \o v)[i] = q[i + 1]
          BY <5>1, <5>2, <5>3
        <5> QED
          BY <5>3, <5>4
      <4>3. a \in Nat /\ i \in Nat
        BY <1>0, <1>2
      <4>4. i <= a \/ i > a
        BY <4>3
      <4> QED
        BY <4>1, <4>2, <4>4
    <3> HIDE DEF r
    <3> QED
      BY <3>3, <3>4, <3>5
  <2>2. q[a + 1] = c /\ a + 1 \in 1..Len(q)
    BY <1>0, <1>2, <1>5
  <2>3. \A i \in 1..Len(q) : i # a + 1 => q[i] # c
    BY <2>2 DEF Orderly
  <2> DEFINE pos(i) == IF i <= a THEN i ELSE i + 1
  <2> HIDE DEF r, P
  <2>4. \A i \in 1..Len(r) : pos(i) \in 1..Len(q) /\ pos(i) # a + 1 /\ r[i] = q[pos(i)]
    <3> SUFFICES ASSUME NEW i \in 1..Len(r)
                 PROVE  pos(i) \in 1..Len(q) /\ pos(i) # a + 1 /\ r[i] = q[pos(i)]
      OBVIOUS
    <3>1. i \in 1..Len(q) - 1 /\ r[i] = (IF i <= a THEN q[i] ELSE q[i + 1]) /\ a \in Nat
      BY <1>0, <1>2, <2>1
    <3>2. CASE i <= a
      BY <1>0, <3>1, <3>2
    <3>3. CASE ~(i <= a)
      BY <1>0, <3>1, <3>3
    <3> QED
      BY <3>2, <3>3
  <2>5. \A i, j \in 1..Len(r) : pos(i) = pos(j) => i = j
    <3>1. a \in Nat
      BY <1>0, <1>2
    <3> QED
      BY <1>0, <2>1, <3>1
  <2> HIDE DEF pos, r, P
  <2>6. \A i \in 1..Len(r) : r[i] # c /\ r[i] \in Callers /\ f[r[i]].pc = pc
    BY <1>0, <2>3, <2>4 DEF Orderly
  <2>7. \A i, j \in 1..Len(r) : r[i] = r[j] => i = j
    BY <2>4, <2>5 DEF Orderly
  <2>8. Orderly(r, f, pc)
    BY <2>6, <2>7 DEF Orderly
  <2> QED
    BY <1>3, <2>1, <2>6, <2>8
<1> QED
  BY <1>0, <1>2, <1>4, <1>5

-----------------------------------------------------------------------------
(* Slots, places in the queue and bytes *)

\* Who holds what when the callers are as in f, and how much that is.
SlotHolders(f) == {c \in Callers : f[c].pc \in HasSlot}
InQueue(f) == {c \in Callers : f[c].queued}
ByteHolders(f) == {c \in Callers : f[c].pc \in HasBytes}
Weights(f) == [c \in Callers |-> f[c].weight]

SlotsUsed(f) == Cardinality(SlotHolders(f))
PlacesUsed(f) == Cardinality(InQueue(f))
BytesUsed(f) == Total(Weights(f), ByteHolders(f))

Bit(b) == IF b THEN 1 ELSE 0
Held(row) == IF row.pc \in HasBytes THEN row.weight ELSE 0

BreakerOK ==
    /\ failures \in 0..FailureThreshold
    /\ circuit \in {"closed", "open", "half_open"}
    /\ probeActive \in BOOLEAN
    /\ circuit # "closed" => failures = FailureThreshold /\ FailureThreshold > 0

\* ResourcesExact is not inductive: that a caller is served or gives up once,
\* rests on the queues holding just the callers that wait, each once, and that
\* a place in the queue is not taken twice on who can still be holding one.
AdmissionInv ==
    /\ slots \in 0..MaxInFlight /\ slots = SlotsUsed(caller)
    /\ waiters \in 0..MaxQueue /\ waiters = PlacesUsed(caller)
    /\ bytes \in 0..BodyLimit /\ bytes = BytesUsed(caller)
    /\ BreakerOK
    /\ caller \in [Callers -> CallerType]
    /\ slotQueue \in Seq(Callers) /\ Orderly(slotQueue, caller, "parked")
    /\ bodyQueue \in Seq(Callers) /\ Orderly(bodyQueue, caller, "bodyParked")
    /\ \A c \in Callers : caller[c].pc \in {"idle", "slot", "enqueue"} => ~caller[c].queued

\* When one caller moves, the counts change by what it held and holds.
LEMMA OneCaller ==
    ASSUME NEW f \in [Callers -> CallerType], NEW g \in [Callers -> CallerType], NEW c \in Callers,
           \A d \in Callers : d # c => g[d] = f[d]
    PROVE  /\ SlotsUsed(f) \in Nat /\ SlotsUsed(g) \in Nat
           /\ SlotsUsed(g) = SlotsUsed(f) - Bit(f[c].pc \in HasSlot) + Bit(g[c].pc \in HasSlot)
           /\ PlacesUsed(f) \in Nat /\ PlacesUsed(g) \in Nat
           /\ PlacesUsed(g) = PlacesUsed(f) - Bit(f[c].queued) + Bit(g[c].queued)
           /\ BytesUsed(f) \in Nat /\ BytesUsed(g) \in Nat
           /\ BytesUsed(g) = BytesUsed(f) - Held(f[c]) + Held(g[c])
<1>0. IsFiniteSet(Callers)
  BY AdmissionAssumption, Zenon
<1>1. /\ IsFiniteSet(SlotHolders(f)) /\ IsFiniteSet(SlotHolders(g))
      /\ IsFiniteSet(InQueue(f)) /\ IsFiniteSet(InQueue(g))
      /\ IsFiniteSet(ByteHolders(f)) /\ IsFiniteSet(ByteHolders(g))
  <2>1. /\ SlotHolders(f) \subseteq Callers /\ SlotHolders(g) \subseteq Callers
        /\ InQueue(f) \subseteq Callers /\ InQueue(g) \subseteq Callers
        /\ ByteHolders(f) \subseteq Callers /\ ByteHolders(g) \subseteq Callers
    BY DEF SlotHolders, InQueue, ByteHolders
  <2> QED
    BY <1>0, <2>1, FS_Subset, Zenon
<1>2. /\ SlotHolders(f) \ {c} = SlotHolders(g) \ {c}
      /\ c \in SlotHolders(f) <=> f[c].pc \in HasSlot
      /\ c \in SlotHolders(g) <=> g[c].pc \in HasSlot
  BY DEF SlotHolders
<1>3. /\ InQueue(f) \ {c} = InQueue(g) \ {c}
      /\ c \in InQueue(f) <=> f[c].queued
      /\ c \in InQueue(g) <=> g[c].queued
  BY DEF InQueue
<1>4. /\ ByteHolders(f) \ {c} = ByteHolders(g) \ {c}
      /\ c \in ByteHolders(f) <=> f[c].pc \in HasBytes
      /\ c \in ByteHolders(g) <=> g[c].pc \in HasBytes
  BY DEF ByteHolders
<1>5. ASSUME NEW h \in [Callers -> CallerType]
      PROVE  \A d \in ByteHolders(h) : Weights(h)[d] \in Nat /\ Weights(h)[d] = h[d].weight
  <2>1. \A d \in Callers : h[d].weight \in Nat
    BY Zenon DEF CallerType
  <2> QED
    BY <2>1 DEF ByteHolders, Weights
<1>6. \A d \in ByteHolders(f) \ {c} : Weights(f)[d] = Weights(g)[d]
  BY DEF ByteHolders, Weights
<1>7. /\ SlotsUsed(f) \in Nat /\ SlotsUsed(g) \in Nat
      /\ SlotsUsed(g) = SlotsUsed(f) - Bit(f[c].pc \in HasSlot) + Bit(g[c].pc \in HasSlot)
  BY <1>1, <1>2, CountChange DEF SlotsUsed, Bit
<1>8. /\ PlacesUsed(f) \in Nat /\ PlacesUsed(g) \in Nat
      /\ PlacesUsed(g) = PlacesUsed(f) - Bit(f[c].queued) + Bit(g[c].queued)
  BY <1>1, <1>3, CountChange DEF PlacesUsed, Bit
<1>9. BytesUsed(f) \in Nat /\ BytesUsed(g) \in Nat
  BY <1>1, <1>5, TotalOfNaturals DEF BytesUsed
<1>10. BytesUsed(g) = BytesUsed(f) - Held(f[c]) + Held(g[c])
  <2> DEFINE S == ByteHolders(f)
             T == ByteHolders(g)
             u == Weights(f)
             v == Weights(g)
  <2>1. (\A d \in S : u[d] \in Int) /\ (\A d \in T : v[d] \in Int)
    BY <1>5
  <2>2. Held(f[c]) = (IF c \in S THEN u[c] ELSE 0) /\ Held(g[c]) = (IF c \in T THEN v[c] ELSE 0)
    BY <1>4, <1>5 DEF Held
  <2>3. S \ {c} = T \ {c} /\ \A d \in S \ {c} : u[d] = v[d]
    BY <1>4, <1>6
  <2>4. IsFiniteSet(S) /\ IsFiniteSet(T)
    BY <1>1
  <2>5. BytesUsed(f) = Total(u, S) /\ BytesUsed(g) = Total(v, T)
    BY Zenon DEF BytesUsed
  <2> HIDE DEF S, T, u, v
  <2>6. /\ Total(u, S) \in Int /\ Total(v, T) \in Int
        /\ Total(v, T) = Total(u, S) - (IF c \in S THEN u[c] ELSE 0) + (IF c \in T THEN v[c] ELSE 0)
    BY <2>1, <2>3, <2>4, TotalChange
  <2> QED
    BY <2>2, <2>5, <2>6
<1> QED
  BY <1>7, <1>8, <1>9, <1>10

\* A caller row is a record of its parts.
LEMMA RowParts ==
    ASSUME NEW row \in CallerType
    PROVE  /\ row.queued \in BOOLEAN /\ row.weight \in Nat
           /\ Held(row) \in Nat
<1>1. row.queued \in BOOLEAN /\ row.weight \in Nat
  BY Zenon DEF CallerType
<1> QED
  BY <1>1 DEF Held

\* The invariant after one caller has moved, and the shared counters with it.
LEMMA MoveKeeps ==
    ASSUME AdmissionInv, NEW c \in Callers, NEW row \in CallerType,
           caller' = [caller EXCEPT ![c] = row],
           slots' = slots - Bit(caller[c].pc \in HasSlot) + Bit(row.pc \in HasSlot),
           slots' <= MaxInFlight,
           waiters' = waiters - Bit(caller[c].queued) + Bit(row.queued),
           waiters' <= MaxQueue,
           bytes' = bytes - Held(caller[c]) + Held(row),
           bytes' <= BodyLimit,
           BreakerOK',
           slotQueue' \in Seq(Callers), Orderly(slotQueue', caller', "parked"),
           bodyQueue' \in Seq(Callers), Orderly(bodyQueue', caller', "bodyParked"),
           row.pc \in {"idle", "slot", "enqueue"} => ~row.queued
    PROVE  AdmissionInv'
<1>1. caller \in [Callers -> CallerType] /\ caller' \in [Callers -> CallerType]
  BY Zenon DEF AdmissionInv
<1>2. caller'[c] = row /\ \A d \in Callers : d # c => caller'[d] = caller[d]
  BY <1>1, Zenon
<1>3. /\ SlotsUsed(caller') \in Nat
      /\ SlotsUsed(caller') = SlotsUsed(caller) - Bit(caller[c].pc \in HasSlot) + Bit(row.pc \in HasSlot)
      /\ PlacesUsed(caller') \in Nat
      /\ PlacesUsed(caller') = PlacesUsed(caller) - Bit(caller[c].queued) + Bit(row.queued)
      /\ BytesUsed(caller') \in Nat
      /\ BytesUsed(caller') = BytesUsed(caller) - Held(caller[c]) + Held(row)
  BY <1>1, <1>2, OneCaller, Zenon
<1>4. slots = SlotsUsed(caller) /\ waiters = PlacesUsed(caller) /\ bytes = BytesUsed(caller)
  BY DEF AdmissionInv
<1>5. slots' = SlotsUsed(caller') /\ waiters' = PlacesUsed(caller') /\ bytes' = BytesUsed(caller')
  BY <1>3, <1>4, Zenon
<1>6. MaxInFlight \in Nat /\ MaxQueue \in Nat /\ BodyLimit \in Nat
  BY AdmissionAssumption
<1>7. slots' \in 0..MaxInFlight /\ waiters' \in 0..MaxQueue /\ bytes' \in 0..BodyLimit
  BY <1>3, <1>5, <1>6
<1>8. \A d \in Callers : caller'[d].pc \in {"idle", "slot", "enqueue"} => ~caller'[d].queued
  BY <1>2, Zenon DEF AdmissionInv
<1>9. /\ (slots = SlotsUsed(caller))' /\ (waiters = PlacesUsed(caller))' /\ (bytes = BytesUsed(caller))'
      /\ Orderly(slotQueue, caller, "parked")' /\ Orderly(bodyQueue, caller, "bodyParked")'
  BY <1>5, Zenon DEF SlotsUsed, SlotHolders, PlacesUsed, InQueue, BytesUsed, ByteHolders, Weights, Orderly
<1> QED
  BY <1>1, <1>7, <1>8, <1>9, Zenon DEF AdmissionInv

\* A queue that the step and the caller leave alone is still in order.
LEMMA QueuesKept ==
    ASSUME AdmissionInv, NEW c \in Callers, NEW row, caller' = [caller EXCEPT ![c] = row]
    PROVE  /\ (slotQueue' = slotQueue /\ caller[c].pc # "parked" =>
                  slotQueue' \in Seq(Callers) /\ Orderly(slotQueue', caller', "parked"))
           /\ (bodyQueue' = bodyQueue /\ caller[c].pc # "bodyParked" =>
                  bodyQueue' \in Seq(Callers) /\ Orderly(bodyQueue', caller', "bodyParked"))
<1>1. /\ slotQueue \in Seq(Callers) /\ Orderly(slotQueue, caller, "parked")
      /\ bodyQueue \in Seq(Callers) /\ Orderly(bodyQueue, caller, "bodyParked")
  BY Zenon DEF AdmissionInv
<1>2. \A d \in Callers : d # c => caller'[d] = caller[d]
  BY Zenon DEF AdmissionInv
<1>3. ASSUME caller[c].pc # "parked" PROVE Orderly(slotQueue, caller', "parked")
  <2>1. \A d \in Callers : caller[d].pc = "parked" => caller'[d].pc = "parked"
    BY <1>2, <1>3, Zenon
  <2> QED
    BY <1>1, <2>1, OrderlyKept
<1>4. ASSUME caller[c].pc # "bodyParked" PROVE Orderly(bodyQueue, caller', "bodyParked")
  <2>1. \A d \in Callers : caller[d].pc = "bodyParked" => caller'[d].pc = "bodyParked"
    BY <1>2, <1>4, Zenon
  <2> QED
    BY <1>1, <2>1, OrderlyKept
<1> QED
  BY <1>1, <1>3, <1>4, Zenon

Program == Acquiring \cup {"idle", "leased", "recorded"}

\* A caller that only moves on keeps the rest of its row.
LEMMA RowAfterGoto ==
    ASSUME NEW row \in CallerType, NEW pc \in Program
    PROVE  /\ [row EXCEPT !.pc = pc] \in CallerType
           /\ [row EXCEPT !.pc = pc].pc = pc
           /\ [row EXCEPT !.pc = pc].queued = row.queued
           /\ [row EXCEPT !.pc = pc].weight = row.weight
BY Zenon DEF CallerType, Program

\* The invariant after a caller went on to pc: what it held before and holds
\* then is all that the counters must account for.
LEMMA GotoKeeps ==
    ASSUME AdmissionInv, NEW c \in Callers, NEW pc \in Program, Goto(c, pc),
           pc \notin {"idle", "slot"}, pc = "enqueue" => ~caller[c].queued,
           waiters' = waiters, UNCHANGED breakerVars \/ BreakerOK',
           slots' = slots - Bit(caller[c].pc \in HasSlot) + Bit(pc \in HasSlot), slots' <= MaxInFlight,
           bytes' = bytes - Held(caller[c]) + (IF pc \in HasBytes THEN caller[c].weight ELSE 0),
           bytes' <= BodyLimit,
           slotQueue' \in Seq(Callers), Orderly(slotQueue', caller', "parked"),
           bodyQueue' \in Seq(Callers), Orderly(bodyQueue', caller', "bodyParked")
    PROVE  AdmissionInv'
<1> DEFINE row == [caller[c] EXCEPT !.pc = pc]
<1>1. caller[c] \in CallerType
  BY DEF AdmissionInv
<1>2. caller' = [caller EXCEPT ![c] = row]
  BY Zenon DEF Goto
<1>3. /\ row \in CallerType /\ row.pc = pc /\ row.queued = caller[c].queued
      /\ row.weight = caller[c].weight
  BY <1>1, RowAfterGoto, Zenon
<1> HIDE DEF row
<1>4. BreakerOK'
  BY Zenon DEF AdmissionInv, BreakerOK, breakerVars
<1>5. Held(row) = IF pc \in HasBytes THEN caller[c].weight ELSE 0
  BY <1>3, Zenon DEF Held
<1>6. waiters \in 0..MaxQueue /\ MaxQueue \in Nat
  BY AdmissionAssumption DEF AdmissionInv
<1>7. waiters' = waiters - Bit(caller[c].queued) + Bit(row.queued) /\ waiters' <= MaxQueue
  BY <1>3, <1>6 DEF Bit
<1>8. row.pc \in {"idle", "slot", "enqueue"} => ~row.queued
  BY <1>3
<1> QED
  BY <1>2, <1>3, <1>4, <1>5, <1>7, <1>8, MoveKeeps, Zenon

\* The numbers the invariant speaks of are numbers.
LEMMA Counts ==
    ASSUME AdmissionInv
    PROVE  /\ slots \in Nat /\ slots <= MaxInFlight /\ MaxInFlight \in Nat
           /\ waiters \in Nat /\ waiters <= MaxQueue /\ MaxQueue \in Nat
           /\ bytes \in Nat /\ bytes <= BodyLimit /\ BodyLimit \in Nat
           /\ \A c \in Callers : caller[c].weight \in Nat /\ caller[c].queued \in BOOLEAN
<1>1. MaxInFlight \in Nat /\ MaxQueue \in Nat /\ BodyLimit \in Nat
  BY AdmissionAssumption
<1>2. slots \in 0..MaxInFlight /\ waiters \in 0..MaxQueue /\ bytes \in 0..BodyLimit
  BY Zenon DEF AdmissionInv
<1>3. \A c \in Callers : caller[c].weight \in Nat /\ caller[c].queued \in BOOLEAN
  <2>1. \A c \in Callers : caller[c] \in CallerType
    BY DEF AdmissionInv
  <2> QED
    BY <2>1, RowParts, Zenon
<1> QED
  BY <1>1, <1>2, <1>3

\* Taking a free slot.
LEMMA TakeSlotKeeps ==
    ASSUME AdmissionInv, NEW c \in Callers, At(c, "slot") \/ At(c, "select"), TakeSlot(c)
    PROVE  AdmissionInv'
<1>1. /\ slots < MaxInFlight /\ slots' = slots + 1 /\ Goto(c, "body")
      /\ slotQueue' = slotQueue /\ waiters' = waiters /\ bytes' = bytes /\ bodyQueue' = bodyQueue
      /\ UNCHANGED breakerVars
  BY Zenon DEF TakeSlot, bodyVars
<1>2. /\ caller[c].pc \notin HasSlot /\ caller[c].pc \notin HasBytes /\ "body" \in HasSlot /\ "body" \notin HasBytes
      /\ "body" \in Program /\ caller[c].pc # "parked" /\ caller[c].pc # "bodyParked"
  BY DEF At, HasSlot, HasBytes, Program, Acquiring
<1>3. /\ slots' = slots - Bit(caller[c].pc \in HasSlot) + Bit("body" \in HasSlot) /\ slots' <= MaxInFlight
      /\ bytes' = bytes - Held(caller[c]) + (IF "body" \in HasBytes THEN caller[c].weight ELSE 0)
      /\ bytes' <= BodyLimit
  BY <1>1, <1>2, Counts DEF Bit, Held
<1>4. /\ slotQueue' \in Seq(Callers) /\ Orderly(slotQueue', caller', "parked")
      /\ bodyQueue' \in Seq(Callers) /\ Orderly(bodyQueue', caller', "bodyParked")
  BY <1>1, <1>2, QueuesKept, Zenon DEF Goto
<1> QED
  BY <1>1, <1>2, <1>3, <1>4, GotoKeeps

\* Moves that neither take nor give anything.
LEMMA PassKeeps ==
    ASSUME AdmissionInv, NEW c \in Callers, NEW pc \in Program, Goto(c, pc),
           pc \notin {"idle", "slot"}, pc = "enqueue" => ~caller[c].queued,
           caller[c].pc \notin {"parked", "bodyParked"},
           caller[c].pc \in HasSlot <=> pc \in HasSlot,
           caller[c].pc \in HasBytes <=> pc \in HasBytes,
           UNCHANGED <<slotVars, waiters, bodyVars>>, UNCHANGED breakerVars \/ BreakerOK'
    PROVE  AdmissionInv'
<1>1. /\ slots' = slots /\ slotQueue' = slotQueue /\ waiters' = waiters /\ bytes' = bytes
      /\ bodyQueue' = bodyQueue
  BY Zenon DEF slotVars, bodyVars
<1>2. /\ slots' = slots - Bit(caller[c].pc \in HasSlot) + Bit(pc \in HasSlot) /\ slots' <= MaxInFlight
      /\ bytes' = bytes - Held(caller[c]) + (IF pc \in HasBytes THEN caller[c].weight ELSE 0)
      /\ bytes' <= BodyLimit
  BY <1>1, Counts DEF Bit, Held
<1>3. /\ slotQueue' \in Seq(Callers) /\ Orderly(slotQueue', caller', "parked")
      /\ bodyQueue' \in Seq(Callers) /\ Orderly(bodyQueue', caller', "bodyParked")
  BY <1>1, QueuesKept, Zenon DEF Goto
<1> QED
  BY <1>1, <1>2, <1>3, GotoKeeps

\* The first select.
LEMMA TrySlotKeeps ==
    ASSUME AdmissionInv, NEW c \in Callers, TrySlot(c)
    PROVE  AdmissionInv'
<1>1. At(c, "slot")
  BY Zenon DEF TrySlot
<1>2. CASE TakeSlot(c)
  BY <1>1, <1>2, TakeSlotKeeps
<1>3. ASSUME NEW pc \in {"enqueue", "cancel"}, Goto(c, pc),
             UNCHANGED <<slotVars, waiters, bodyVars, breakerVars>>
      PROVE  AdmissionInv'
  <2>1. /\ pc \in Program /\ pc \notin {"idle", "slot"} /\ pc \notin HasSlot /\ pc \notin HasBytes
        /\ caller[c].pc \notin HasSlot /\ caller[c].pc \notin HasBytes
        /\ caller[c].pc \notin {"parked", "bodyParked"}
    BY <1>1 DEF At, HasSlot, HasBytes, Program, Acquiring
  <2>2. ~caller[c].queued
    BY <1>1, Zenon DEF AdmissionInv, At
  <2>3. UNCHANGED <<slotVars, waiters, bodyVars>> /\ UNCHANGED breakerVars
    BY <1>3, Zenon
  <2> QED
    BY <1>3, <2>1, <2>2, <2>3, PassKeeps
<1> QED
  BY <1>2, <1>3, Zenon DEF TrySlot

\* Joining the queue, or finding it full.
LEMMA EnqueueKeeps ==
    ASSUME AdmissionInv, NEW c \in Callers, Enqueue(c)
    PROVE  AdmissionInv'
<1>1. /\ caller[c].pc \notin HasSlot /\ caller[c].pc \notin HasBytes
      /\ caller[c].pc \notin {"parked", "bodyParked"}
      /\ "cancel" \in Program /\ "cancel" \notin HasSlot /\ "cancel" \notin HasBytes
      /\ "select" \in Program /\ "select" \notin HasSlot /\ "select" \notin HasBytes
  BY DEF Enqueue, At, HasSlot, HasBytes, Program, Acquiring
<1>2. ~caller[c].queued
  BY Zenon DEF AdmissionInv, Enqueue, At
<1>3. UNCHANGED <<slotVars, bodyVars>> /\ UNCHANGED breakerVars
  BY Zenon DEF Enqueue
<1>4. CASE waiters' = waiters /\ Goto(c, "cancel")
  BY <1>1, <1>2, <1>3, <1>4, PassKeeps
<1>5. CASE waiters < MaxQueue /\ waiters' = waiters + 1
           /\ caller' = [caller EXCEPT ![c].pc = "select", ![c].queued = TRUE]
  <2> DEFINE row == [caller[c] EXCEPT !.pc = "select", !.queued = TRUE]
  <2>1. caller[c] \in CallerType
    BY DEF AdmissionInv
  <2>2. row \in CallerType /\ row.pc = "select" /\ row.queued = TRUE
    BY <1>1, <2>1, Zenon DEF CallerType, Program
  <2>3. caller' = [caller EXCEPT ![c] = row]
    BY <1>5, Zenon
  <2> HIDE DEF row
  <2>4. /\ slots' = slots /\ bytes' = bytes /\ slotQueue' = slotQueue /\ bodyQueue' = bodyQueue
    BY <1>3, Zenon DEF slotVars, bodyVars
  <2>5. /\ slots' = slots - Bit(caller[c].pc \in HasSlot) + Bit(row.pc \in HasSlot) /\ slots' <= MaxInFlight
        /\ bytes' = bytes - Held(caller[c]) + Held(row) /\ bytes' <= BodyLimit
        /\ waiters' = waiters - Bit(caller[c].queued) + Bit(row.queued) /\ waiters' <= MaxQueue
    BY <1>1, <1>2, <1>5, <2>2, <2>4, Counts DEF Bit, Held
  <2>6. BreakerOK'
    BY <1>3, Zenon DEF AdmissionInv, BreakerOK, breakerVars
  <2>7. /\ slotQueue' \in Seq(Callers) /\ Orderly(slotQueue', caller', "parked")
        /\ bodyQueue' \in Seq(Callers) /\ Orderly(bodyQueue', caller', "bodyParked")
    BY <1>1, <2>3, <2>4, QueuesKept, Zenon
  <2>8. row.pc \in {"idle", "slot", "enqueue"} => ~row.queued
    BY <2>2
  <2> QED
    BY <2>2, <2>3, <2>5, <2>6, <2>7, <2>8, MoveKeeps, Zenon
<1> QED
  BY <1>4, <1>5, Zenon DEF Enqueue

\* The second select: a slot, or a place at the end of those who wait.
LEMMA SelectSlotKeeps ==
    ASSUME AdmissionInv, NEW c \in Callers, SelectSlot(c)
    PROVE  AdmissionInv'
<1>1. At(c, "select")
  BY Zenon DEF SelectSlot
<1>2. CASE TakeSlot(c)
  BY <1>1, <1>2, TakeSlotKeeps
<1>3. CASE /\ slotQueue' = Append(slotQueue, c) /\ Goto(c, "parked")
           /\ UNCHANGED <<slots, waiters, bodyVars, breakerVars>>
  <2>1. /\ caller[c].pc \notin HasSlot /\ caller[c].pc \notin HasBytes /\ "parked" \notin HasSlot
        /\ "parked" \notin HasBytes /\ "parked" \in Program
        /\ caller[c].pc # "parked" /\ caller[c].pc # "bodyParked"
    BY <1>1 DEF At, HasSlot, HasBytes, Program, Acquiring
  <2>2. /\ slots' = slots /\ waiters' = waiters /\ bytes' = bytes /\ bodyQueue' = bodyQueue
        /\ UNCHANGED breakerVars
    BY <1>3, Zenon DEF bodyVars
  <2>3. /\ slots' = slots - Bit(caller[c].pc \in HasSlot) + Bit("parked" \in HasSlot) /\ slots' <= MaxInFlight
        /\ bytes' = bytes - Held(caller[c]) + (IF "parked" \in HasBytes THEN caller[c].weight ELSE 0)
        /\ bytes' <= BodyLimit
    BY <2>1, <2>2, Counts DEF Bit, Held
  <2>4. bodyQueue' \in Seq(Callers) /\ Orderly(bodyQueue', caller', "bodyParked")
    BY <1>3, <2>1, <2>2, QueuesKept, Zenon DEF Goto
  <2>5. /\ caller'[c].pc = "parked" /\ \A d \in Callers : d # c => caller'[d] = caller[d]
    BY <1>3, Zenon DEF AdmissionInv, Goto, CallerType
  <2>6. slotQueue \in Seq(Callers) /\ Orderly(slotQueue, caller, "parked")
    BY Zenon DEF AdmissionInv
  <2>7. Orderly(Append(slotQueue, c), caller', "parked")
    BY <2>1, <2>5, <2>6, OrderlyAppend
  <2>8. Append(slotQueue, c) \in Seq(Callers)
    BY <2>6
  <2>9. slotQueue' \in Seq(Callers) /\ Orderly(slotQueue', caller', "parked")
    BY <1>3, <2>7, <2>8, Zenon
  <2> QED
    BY <1>3, <2>1, <2>2, <2>3, <2>4, <2>9, GotoKeeps
<1> QED
  BY <1>2, <1>3, Zenon DEF SelectSlot

\* Giving up the wait for a slot.
LEMMA SlotTimeoutKeeps ==
    ASSUME AdmissionInv, NEW c \in Callers, SlotTimeout(c)
    PROVE  AdmissionInv'
<1>1. /\ caller[c].pc \notin HasSlot /\ caller[c].pc \notin HasBytes /\ "cancel" \notin HasSlot
      /\ "cancel" \notin HasBytes /\ "cancel" \in Program /\ caller[c].pc # "bodyParked"
  BY DEF SlotTimeout, At, HasSlot, HasBytes, Program, Acquiring
<1>2. /\ slotQueue' = Without(slotQueue, c) /\ Goto(c, "cancel")
      /\ slots' = slots /\ waiters' = waiters /\ bytes' = bytes /\ bodyQueue' = bodyQueue
      /\ UNCHANGED breakerVars
  BY Zenon DEF SlotTimeout, bodyVars
<1>3. /\ slots' = slots - Bit(caller[c].pc \in HasSlot) + Bit("cancel" \in HasSlot) /\ slots' <= MaxInFlight
      /\ bytes' = bytes - Held(caller[c]) + (IF "cancel" \in HasBytes THEN caller[c].weight ELSE 0)
      /\ bytes' <= BodyLimit
  BY <1>1, <1>2, Counts DEF Bit, Held
<1>4. bodyQueue' \in Seq(Callers) /\ Orderly(bodyQueue', caller', "bodyParked")
  BY <1>1, <1>2, QueuesKept, Zenon DEF Goto
<1>5. \A d \in Callers : caller[d].pc = "parked" /\ d # c => caller'[d].pc = "parked"
  BY <1>2, Zenon DEF AdmissionInv, Goto
<1>6. slotQueue \in Seq(Callers) /\ Orderly(slotQueue, caller, "parked")
  BY Zenon DEF AdmissionInv
<1>7. slotQueue' \in Seq(Callers) /\ Orderly(slotQueue', caller', "parked")
  <2> DEFINE q == Without(slotQueue, c)
  <2>1. q \in Seq(Callers) /\ Orderly(q, caller, "parked") /\ \A i \in 1..Len(q) : q[i] # c
    BY <1>6, OrderlyWithout
  <2> HIDE DEF q
  <2>2. \A i \in 1..Len(q) : q[i] \in Callers
    BY <2>1
  <2>3. Orderly(q, caller', "parked")
    BY <1>5, <2>1, <2>2 DEF Orderly
  <2> QED
    BY <1>2, <2>1, <2>3 DEF q
<1> QED
  BY <1>1, <1>2, <1>3, <1>4, <1>7, GotoKeeps

\* The slot given back goes to the first caller that waits for one: one
\* holder takes the other's place, and the count stays.
LEMMA HandOffKeeps ==
    ASSUME AdmissionInv, NEW c \in Callers, caller[c].pc = "drop", slotQueue # <<>>,
           slotQueue' = Tail(slotQueue),
           caller' = [caller EXCEPT ![c].pc = "cancel", ![Head(slotQueue)].pc = "body"],
           UNCHANGED <<slots, waiters, bodyVars, breakerVars>>
    PROVE  AdmissionInv'
<1> DEFINE h == Head(slotQueue)
           first == [caller EXCEPT ![c] = [caller[c] EXCEPT !.pc = "cancel"]]
           last == [first EXCEPT ![h] = [first[h] EXCEPT !.pc = "body"]]
<1>1. /\ caller \in [Callers -> CallerType]
      /\ slotQueue \in Seq(Callers) /\ Orderly(slotQueue, caller, "parked")
      /\ bodyQueue \in Seq(Callers) /\ Orderly(bodyQueue, caller, "bodyParked")
  BY Zenon DEF AdmissionInv
<1>2. h \in Callers /\ h = slotQueue[1] /\ Len(slotQueue) \in Nat /\ Len(slotQueue) > 0
  BY <1>1
<1>3. caller[h].pc = "parked"
  <2>1. 1 \in 1..Len(slotQueue)
    BY <1>2
  <2> QED
    BY <1>1, <1>2, <2>1, Zenon DEF Orderly
<1>4. /\ "cancel" \in Program /\ "cancel" \notin HasSlot /\ "cancel" \notin HasBytes
      /\ "drop" \in HasSlot /\ "drop" \notin HasBytes
      /\ "body" \in Program /\ "body" \in HasSlot /\ "body" \notin HasBytes
      /\ "parked" \notin HasSlot /\ "parked" \notin HasBytes
  BY DEF HasSlot, HasBytes, Program, Acquiring
<1>5. h # c
  BY <1>3
<1>6. caller' = last
  BY Zenon
<1>7. /\ first \in [Callers -> CallerType] /\ first[c].pc = "cancel"
      /\ first[c].queued = caller[c].queued
      /\ \A d \in Callers : d # c => first[d] = caller[d]
  <2>1. /\ [caller[c] EXCEPT !.pc = "cancel"] \in CallerType
        /\ [caller[c] EXCEPT !.pc = "cancel"].pc = "cancel"
        /\ [caller[c] EXCEPT !.pc = "cancel"].queued = caller[c].queued
    BY <1>1, <1>4, RowAfterGoto
  <2> QED
    BY <1>1, <2>1, Zenon
<1> HIDE DEF first, h
<1>8. /\ last \in [Callers -> CallerType] /\ last[h].pc = "body"
      /\ last[h].queued = first[h].queued
      /\ \A d \in Callers : d # h => last[d] = first[d]
  <2>1. /\ [first[h] EXCEPT !.pc = "body"] \in CallerType
        /\ [first[h] EXCEPT !.pc = "body"].pc = "body"
        /\ [first[h] EXCEPT !.pc = "body"].queued = first[h].queued
    BY <1>2, <1>4, <1>7, RowAfterGoto
  <2> QED
    BY <1>2, <1>7, <2>1, Zenon
<1> HIDE DEF last
<1>9. first[h].pc = "parked"
  BY <1>2, <1>3, <1>5, <1>7
<1>10. /\ SlotsUsed(last) = SlotsUsed(caller) /\ PlacesUsed(last) = PlacesUsed(caller)
       /\ BytesUsed(last) = BytesUsed(caller)
  <2>1. /\ SlotsUsed(caller) \in Nat /\ SlotsUsed(first) \in Nat
        /\ SlotsUsed(first) = SlotsUsed(caller) - Bit(caller[c].pc \in HasSlot) + Bit(first[c].pc \in HasSlot)
        /\ PlacesUsed(caller) \in Nat /\ PlacesUsed(first) \in Nat
        /\ PlacesUsed(first) = PlacesUsed(caller) - Bit(caller[c].queued) + Bit(first[c].queued)
        /\ BytesUsed(caller) \in Nat /\ BytesUsed(first) \in Nat
        /\ BytesUsed(first) = BytesUsed(caller) - Held(caller[c]) + Held(first[c])
    BY <1>1, <1>7, OneCaller
  <2>2. /\ SlotsUsed(last) \in Nat
        /\ SlotsUsed(last) = SlotsUsed(first) - Bit(first[h].pc \in HasSlot) + Bit(last[h].pc \in HasSlot)
        /\ PlacesUsed(last) \in Nat
        /\ PlacesUsed(last) = PlacesUsed(first) - Bit(first[h].queued) + Bit(last[h].queued)
        /\ BytesUsed(last) \in Nat
        /\ BytesUsed(last) = BytesUsed(first) - Held(first[h]) + Held(last[h])
    BY <1>2, <1>7, <1>8, OneCaller
  <2>3. /\ Bit(caller[c].pc \in HasSlot) = 1 /\ Bit(first[c].pc \in HasSlot) = 0
        /\ Bit(first[h].pc \in HasSlot) = 0 /\ Bit(last[h].pc \in HasSlot) = 1
        /\ Held(caller[c]) = 0 /\ Held(first[c]) = 0 /\ Held(first[h]) = 0 /\ Held(last[h]) = 0
    BY <1>4, <1>7, <1>8, <1>9, Zenon DEF Bit, Held
  <2>4. /\ Bit(first[c].queued) = Bit(caller[c].queued) /\ Bit(last[h].queued) = Bit(first[h].queued)
        /\ Bit(caller[c].queued) \in Nat /\ Bit(first[h].queued) \in Nat
    BY <1>7, <1>8 DEF Bit
  <2> QED
    BY <2>1, <2>2, <2>3, <2>4
<1>11. \A d \in Callers : /\ d # h /\ caller[d].pc = "parked" => last[d].pc = "parked"
                          /\ caller[d].pc = "bodyParked" => last[d].pc = "bodyParked"
  BY <1>3, <1>7, <1>8
<1>12. Orderly(bodyQueue, last, "bodyParked")
  BY <1>1, <1>11, OrderlyKept
<1>13. Tail(slotQueue) \in Seq(Callers) /\ Orderly(Tail(slotQueue), last, "parked")
  <2>1. Tail(slotQueue) = SubSeq(slotQueue, 1 + 1, Len(slotQueue))
    BY <1>1
  <2>2. \A d \in Callers : caller[d].pc = "parked" /\ (\A i \in 1..1 : slotQueue[i] # d) => last[d].pc = "parked"
    BY <1>2, <1>11
  <2>3. 1 \in 0..Len(slotQueue)
    BY <1>2
  <2>4. /\ SubSeq(slotQueue, 1 + 1, Len(slotQueue)) \in Seq(Callers)
        /\ Orderly(SubSeq(slotQueue, 1 + 1, Len(slotQueue)), last, "parked")
    BY <1>1, <2>2, <2>3, OrderlyRest
  <2> QED
    BY <2>1, <2>4
<1>14. \A d \in Callers : last[d].pc \in {"idle", "slot", "enqueue"} => ~last[d].queued
  <2>1. \A d \in Callers : caller[d].pc \in {"idle", "slot", "enqueue"} => ~caller[d].queued
    BY Zenon DEF AdmissionInv
  <2>2. "cancel" \notin {"idle", "slot", "enqueue"} /\ "body" \notin {"idle", "slot", "enqueue"}
    OBVIOUS
  <2> QED
    BY <1>7, <1>8, <2>1, <2>2, Zenon
<1>15. /\ slots' = slots /\ waiters' = waiters /\ bytes' = bytes /\ bodyQueue' = bodyQueue
       /\ UNCHANGED breakerVars
  BY Zenon DEF bodyVars
<1>16. /\ (slots = SlotsUsed(caller))' /\ (waiters = PlacesUsed(caller))' /\ (bytes = BytesUsed(caller))'
       /\ Orderly(slotQueue, caller, "parked")' /\ Orderly(bodyQueue, caller, "bodyParked")'
  <2>1. slots = SlotsUsed(caller) /\ waiters = PlacesUsed(caller) /\ bytes = BytesUsed(caller)
    BY Zenon DEF AdmissionInv
  <2>2. slots' = SlotsUsed(caller') /\ waiters' = PlacesUsed(caller') /\ bytes' = BytesUsed(caller')
    BY <1>6, <1>10, <1>15, <2>1, Zenon
  <2>3. Orderly(slotQueue', caller', "parked") /\ Orderly(bodyQueue', caller', "bodyParked")
    BY <1>6, <1>12, <1>13, <1>15, Zenon
  <2> QED
    BY <2>2, <2>3, Zenon DEF SlotsUsed, SlotHolders, PlacesUsed, InQueue, BytesUsed, ByteHolders, Weights, Orderly
<1>17. BreakerOK'
  BY <1>15, Zenon DEF AdmissionInv, BreakerOK, breakerVars
<1> QED
  BY <1>1, <1>6, <1>8, <1>13, <1>14, <1>15, <1>16, <1>17, Zenon DEF AdmissionInv

\* Giving the slot back.
LEMMA DropSlotKeeps ==
    ASSUME AdmissionInv, NEW c \in Callers, DropSlot(c)
    PROVE  AdmissionInv'
<1>1. caller[c].pc = "drop"
  BY Zenon DEF DropSlot, At
<1>2. UNCHANGED <<waiters, bodyVars, breakerVars>>
  BY Zenon DEF DropSlot
<1>3. CASE slots' = slots - 1 /\ Goto(c, "cancel") /\ UNCHANGED slotQueue
  <2>1. /\ caller[c].pc \in HasSlot /\ caller[c].pc \notin HasBytes /\ "cancel" \notin HasSlot
        /\ "cancel" \notin HasBytes /\ "cancel" \in Program
        /\ caller[c].pc # "parked" /\ caller[c].pc # "bodyParked"
    BY <1>1 DEF HasSlot, HasBytes, Program, Acquiring
  <2>2. waiters' = waiters /\ bytes' = bytes /\ bodyQueue' = bodyQueue /\ UNCHANGED breakerVars
    BY <1>2, Zenon DEF bodyVars
  <2>3. /\ slots' = slots - Bit(caller[c].pc \in HasSlot) + Bit("cancel" \in HasSlot) /\ slots' <= MaxInFlight
        /\ bytes' = bytes - Held(caller[c]) + (IF "cancel" \in HasBytes THEN caller[c].weight ELSE 0)
        /\ bytes' <= BodyLimit
    BY <1>3, <2>1, <2>2, Counts DEF Bit, Held
  <2>4. /\ slotQueue' \in Seq(Callers) /\ Orderly(slotQueue', caller', "parked")
        /\ bodyQueue' \in Seq(Callers) /\ Orderly(bodyQueue', caller', "bodyParked")
    BY <1>3, <2>1, <2>2, QueuesKept, Zenon DEF Goto
  <2> QED
    BY <1>3, <2>1, <2>2, <2>3, <2>4, GotoKeeps
<1>4. CASE /\ slotQueue # <<>> /\ slotQueue' = Tail(slotQueue)
           /\ caller' = [caller EXCEPT ![c].pc = "cancel", ![Head(slotQueue)].pc = "body"]
           /\ UNCHANGED slots
  <2>1. UNCHANGED <<slots, waiters, bodyVars, breakerVars>>
    BY <1>2, <1>4, Zenon
  <2> QED
    BY <1>1, <1>4, <2>1, HandOffKeeps
<1> QED
  BY <1>3, <1>4, Zenon DEF DropSlot

\* Taking the bytes, waiting for them, or giving up.
LEMMA TryBodyKeeps ==
    ASSUME AdmissionInv, NEW c \in Callers, TryBody(c)
    PROVE  AdmissionInv'
<1>1. /\ caller[c].pc \in HasSlot /\ caller[c].pc \notin HasBytes
      /\ caller[c].pc # "parked" /\ caller[c].pc # "bodyParked"
      /\ "acquired" \in Program /\ "acquired" \in HasSlot /\ "acquired" \in HasBytes
      /\ "bodyParked" \in Program /\ "bodyParked" \in HasSlot /\ "bodyParked" \notin HasBytes
      /\ "drop" \in Program /\ "drop" \in HasSlot /\ "drop" \notin HasBytes
  BY DEF TryBody, At, HasSlot, HasBytes, Program, Acquiring
<1>2. /\ slots' = slots /\ slotQueue' = slotQueue /\ waiters' = waiters /\ UNCHANGED breakerVars
  BY Zenon DEF TryBody, slotVars
<1>3. CASE /\ bytes + caller[c].weight <= BodyLimit /\ bytes' = bytes + caller[c].weight
           /\ Goto(c, "acquired") /\ UNCHANGED bodyQueue
  <2>1. /\ slots' = slots - Bit(caller[c].pc \in HasSlot) + Bit("acquired" \in HasSlot) /\ slots' <= MaxInFlight
        /\ bytes' = bytes - Held(caller[c]) + (IF "acquired" \in HasBytes THEN caller[c].weight ELSE 0)
        /\ bytes' <= BodyLimit
    BY <1>1, <1>2, <1>3, Counts DEF Bit, Held
  <2>2. /\ slotQueue' \in Seq(Callers) /\ Orderly(slotQueue', caller', "parked")
        /\ bodyQueue' \in Seq(Callers) /\ Orderly(bodyQueue', caller', "bodyParked")
    BY <1>1, <1>2, <1>3, QueuesKept, Zenon DEF Goto
  <2> QED
    BY <1>1, <1>2, <1>3, <2>1, <2>2, GotoKeeps
<1>4. CASE bodyQueue' = Append(bodyQueue, c) /\ Goto(c, "bodyParked") /\ UNCHANGED bytes
  <2>1. /\ slots' = slots - Bit(caller[c].pc \in HasSlot) + Bit("bodyParked" \in HasSlot) /\ slots' <= MaxInFlight
        /\ bytes' = bytes - Held(caller[c]) + (IF "bodyParked" \in HasBytes THEN caller[c].weight ELSE 0)
        /\ bytes' <= BodyLimit
    BY <1>1, <1>2, <1>4, Counts DEF Bit, Held
  <2>2. slotQueue' \in Seq(Callers) /\ Orderly(slotQueue', caller', "parked")
    BY <1>1, <1>2, <1>4, QueuesKept, Zenon DEF Goto
  <2>3. caller'[c].pc = "bodyParked" /\ \A d \in Callers : d # c => caller'[d] = caller[d]
    BY <1>4, Zenon DEF AdmissionInv, Goto, CallerType
  <2>4. bodyQueue \in Seq(Callers) /\ Orderly(bodyQueue, caller, "bodyParked")
    BY Zenon DEF AdmissionInv
  <2>5. Orderly(Append(bodyQueue, c), caller', "bodyParked")
    BY <1>1, <2>3, <2>4, OrderlyAppend
  <2>6. Append(bodyQueue, c) \in Seq(Callers)
    BY <2>4
  <2>7. bodyQueue' \in Seq(Callers) /\ Orderly(bodyQueue', caller', "bodyParked")
    BY <1>4, <2>5, <2>6, Zenon
  <2> QED
    BY <1>1, <1>2, <1>4, <2>1, <2>2, <2>7, GotoKeeps
<1>5. CASE Goto(c, "drop") /\ UNCHANGED bodyVars
  <2>1. UNCHANGED <<slotVars, waiters, bodyVars>>
    BY <1>2, <1>5, Zenon DEF slotVars
  <2> QED
    BY <1>1, <1>2, <1>5, <2>1, PassKeeps
<1> QED
  BY <1>3, <1>4, <1>5, Zenon DEF TryBody

\* Leaving the wait with the bytes.
LEMMA BodyGrantedKeeps ==
    ASSUME AdmissionInv, NEW c \in Callers, BodyGranted(c)
    PROVE  AdmissionInv'
<1>1. /\ caller[c].pc \in HasSlot /\ caller[c].pc \in HasBytes
      /\ caller[c].pc \notin {"parked", "bodyParked"}
      /\ "acquired" \in Program /\ "acquired" \in HasSlot /\ "acquired" \in HasBytes
  BY DEF BodyGranted, At, HasSlot, HasBytes, Program, Acquiring
<1>2. Goto(c, "acquired") /\ UNCHANGED <<slotVars, waiters, bodyVars>> /\ UNCHANGED breakerVars
  BY Zenon DEF BodyGranted
<1> QED
  BY <1>1, <1>2, PassKeeps

\* The handler's report touches only the breaker.
LEMMA RecordKeeps ==
    ASSUME AdmissionInv, NEW c \in Callers, NEW ok \in BOOLEAN, recordOutcome(c, ok)
    PROVE  AdmissionInv'
<1>1. /\ caller[c].pc \in HasSlot /\ caller[c].pc \in HasBytes
      /\ caller[c].pc \notin {"parked", "bodyParked"}
      /\ "recorded" \in Program /\ "recorded" \in HasSlot /\ "recorded" \in HasBytes
  BY DEF recordOutcome, At, HasSlot, HasBytes, Program, Acquiring
<1>2. Goto(c, "recorded") /\ UNCHANGED <<slotVars, waiters, bodyVars>>
  BY Zenon DEF recordOutcome
<1>3. UNCHANGED breakerVars \/ BreakerOK'
  <2>1. BreakerOK /\ FailureThreshold \in Nat
    BY AdmissionAssumption DEF AdmissionInv
  <2>2. CASE /\ FailureThreshold # 0 /\ probeActive' = FALSE
             /\ failures' = (IF ok THEN 0 ELSE IF failures < FailureThreshold THEN failures + 1 ELSE failures)
             /\ circuit' = CircuitAfter(ok, failures')
    <3>1. CASE ok
      <4>1. failures' = 0 /\ circuit' = "closed" /\ probeActive' = FALSE
        BY <2>2, <3>1, Zenon DEF CircuitAfter
      <4>2. 0 \in 0..FailureThreshold
        BY <2>1
      <4> QED
        BY <4>1, <4>2, Zenon DEF BreakerOK
    <3>2. CASE ~ok
      <4>1. /\ failures' = (IF failures < FailureThreshold THEN failures + 1 ELSE failures)
            /\ circuit' = (IF failures' = FailureThreshold THEN "open" ELSE circuit)
            /\ probeActive' = FALSE /\ FailureThreshold # 0
        BY <2>2, <3>2, Zenon DEF CircuitAfter
      <4>2. failures \in 0..FailureThreshold /\ (circuit # "closed" => failures = FailureThreshold)
        BY <2>1, Zenon DEF BreakerOK
      <4>3. failures' \in 0..FailureThreshold /\ FailureThreshold > 0 /\ (circuit # "closed" => failures' = FailureThreshold)
        BY <2>1, <4>1, <4>2
      <4> QED
        BY <2>1, <4>1, <4>3, Zenon DEF BreakerOK
    <3> QED
      BY <3>1, <3>2
  <2> QED
    BY <2>2, Zenon DEF recordOutcome
<1> QED
  BY <1>1, <1>2, <1>3, PassKeeps

\* The rest of acquire and allow: the caller's row changes in other parts too.
LEMMA RowKeeps ==
    ASSUME AdmissionInv, NEW c \in Callers, NEW row \in CallerType, caller' = [caller EXCEPT ![c] = row],
           caller[c].pc \notin {"parked", "bodyParked"},
           caller[c].pc \in HasSlot <=> row.pc \in HasSlot,
           Held(caller[c]) = Held(row),
           UNCHANGED <<slotVars, bodyVars>>,
           waiters' = waiters - Bit(caller[c].queued) + Bit(row.queued), waiters' <= MaxQueue,
           BreakerOK', row.pc \in {"idle", "slot", "enqueue"} => ~row.queued
    PROVE  AdmissionInv'
<1>1. slots' = slots /\ slotQueue' = slotQueue /\ bytes' = bytes /\ bodyQueue' = bodyQueue
  BY Zenon DEF slotVars, bodyVars
<1>2. Held(row) \in Nat
  BY RowParts
<1>3. /\ slots' = slots - Bit(caller[c].pc \in HasSlot) + Bit(row.pc \in HasSlot) /\ slots' <= MaxInFlight
      /\ bytes' = bytes - Held(caller[c]) + Held(row) /\ bytes' <= BodyLimit
  BY <1>1, <1>2, Counts DEF Bit
<1>4. /\ slotQueue' \in Seq(Callers) /\ Orderly(slotQueue', caller', "parked")
      /\ bodyQueue' \in Seq(Callers) /\ Orderly(bodyQueue', caller', "bodyParked")
  BY <1>1, QueuesKept, Zenon
<1> QED
  BY <1>3, <1>4, MoveKeeps, Zenon

\* A new call starts with nothing.
LEMMA AllowExact ==
    ASSUME AdmissionInv, NEW c \in Callers, NEW size \in BodySizes, allow(c, size)
    PROVE  AdmissionInv'
<1> DEFINE row == [pc |-> "slot", probe |-> circuit = "half_open", queued |-> FALSE, weight |-> Weight(size)]
<1>1. Weight(size) \in Nat
  BY AdmissionAssumption DEF Weight
<1>2. row \in CallerType /\ row.pc = "slot" /\ row.queued = FALSE
  BY <1>1, Zenon DEF CallerType, Acquiring
<1>3. caller' = [caller EXCEPT ![c] = row]
  BY Zenon DEF allow
<1> HIDE DEF row
<1>4. caller[c].pc = "idle"
  BY Zenon DEF allow, At
<1>5. /\ "idle" \notin HasSlot /\ "idle" \notin HasBytes /\ "slot" \notin HasSlot /\ "slot" \notin HasBytes
      /\ "idle" \notin {"parked", "bodyParked"}
  BY DEF HasSlot, HasBytes
<1>6. ~caller[c].queued
  BY <1>4, Zenon DEF AdmissionInv
<1>7. UNCHANGED <<slotVars, bodyVars>> /\ waiters' = waiters
  BY Zenon DEF allow
<1>8. waiters' = waiters - Bit(caller[c].queued) + Bit(row.queued) /\ waiters' <= MaxQueue
  BY <1>2, <1>6, <1>7, Counts DEF Bit
<1>9. BreakerOK'
  <2>1. probeActive' = (probeActive \/ circuit = "half_open") /\ failures' = failures /\ circuit' = circuit
    BY Zenon DEF allow
  <2>2. BreakerOK
    BY DEF AdmissionInv
  <2> QED
    BY <2>1, <2>2, Zenon DEF BreakerOK
<1>10. Held(caller[c]) = Held(row)
  BY <1>2, <1>4, <1>5, Zenon DEF Held
<1> QED
  BY <1>2, <1>3, <1>4, <1>5, <1>7, <1>8, <1>9, <1>10, RowKeeps, Zenon

\* Giving up the probe changes nothing else.
LEMMA CancelExact ==
    ASSUME AdmissionInv, NEW c \in Callers, cancelProbe(c)
    PROVE  AdmissionInv'
<1> DEFINE row == [caller[c] EXCEPT !.pc = "leave", !.probe = FALSE]
<1>1. caller[c] \in CallerType /\ "leave" \in Acquiring
  BY DEF AdmissionInv, Acquiring
<1>2. row \in CallerType /\ row.pc = "leave" /\ row.queued = caller[c].queued
  BY <1>1, Zenon DEF CallerType
<1>3. caller' = [caller EXCEPT ![c] = row]
  BY Zenon DEF cancelProbe
<1> HIDE DEF row
<1>4. caller[c].pc = "cancel"
  BY Zenon DEF cancelProbe, At
<1>5. /\ "cancel" \notin HasSlot /\ "cancel" \notin HasBytes /\ "leave" \notin HasSlot /\ "leave" \notin HasBytes
      /\ "cancel" \notin {"parked", "bodyParked"} /\ "leave" \notin {"idle", "slot", "enqueue"}
  BY DEF HasSlot, HasBytes
<1>6. UNCHANGED <<slotVars, bodyVars>> /\ waiters' = waiters
  BY Zenon DEF cancelProbe
<1>7. waiters' = waiters - Bit(caller[c].queued) + Bit(row.queued) /\ waiters' <= MaxQueue
  BY <1>2, <1>6, Counts DEF Bit
<1>8. BreakerOK'
  <2>1. /\ probeActive' = (probeActive /\ ~caller[c].probe) /\ failures' = failures /\ circuit' = circuit
    BY Zenon DEF cancelProbe, ProbeAfterCancel
  <2>2. BreakerOK
    BY DEF AdmissionInv
  <2> QED
    BY <2>1, <2>2, Zenon DEF BreakerOK
<1>9. Held(caller[c]) = Held(row)
  BY <1>2, <1>4, <1>5, Zenon DEF Held
<1> QED
  BY <1>2, <1>3, <1>4, <1>5, <1>6, <1>7, <1>8, <1>9, RowKeeps, Zenon

\* acquire returns, and gives up the place in the queue if it still has one.
LEMMA ReturnKeeps ==
    ASSUME AdmissionInv, NEW c \in Callers, Return(c)
    PROVE  AdmissionInv'
<1> DEFINE next == IF caller[c].pc = "acquired" THEN "leased" ELSE "idle"
           row == [caller[c] EXCEPT !.pc = next, !.queued = FALSE]
<1>1. /\ caller[c] \in CallerType /\ next \in Acquiring \cup {"idle", "leased", "recorded"}
  BY DEF AdmissionInv
<1>2. caller[c].pc \in {"acquired", "leave"}
  BY Zenon DEF Return, At
<1>3. caller' = [caller EXCEPT ![c].pc = next, ![c].queued = FALSE]
  BY Zenon DEF Return
<1>4. /\ next = (IF caller[c].pc = "acquired" THEN "leased" ELSE "idle")
  OBVIOUS
<1> HIDE DEF next
<1>5. row \in CallerType /\ row.pc = next /\ row.queued = FALSE /\ row.weight = caller[c].weight
  BY <1>1, Zenon DEF CallerType
<1>6. caller' = [caller EXCEPT ![c] = row]
  BY <1>3, Zenon
<1> HIDE DEF row
<1>7. /\ caller[c].pc \notin {"parked", "bodyParked"}
      /\ caller[c].pc \in HasSlot <=> next \in HasSlot
      /\ caller[c].pc \in HasBytes <=> next \in HasBytes
  <2>1. CASE caller[c].pc = "acquired"
    BY <1>4, <2>1 DEF HasSlot, HasBytes
  <2>2. CASE caller[c].pc = "leave"
    BY <1>4, <2>2 DEF HasSlot, HasBytes
  <2> QED
    BY <1>2, <2>1, <2>2
<1>8. UNCHANGED <<slotVars, bodyVars>> /\ UNCHANGED breakerVars
  BY Zenon DEF Return
<1>9. waiters' = IF caller[c].queued THEN waiters - 1 ELSE waiters
  BY Zenon DEF Return
<1>10. waiters' = waiters - Bit(caller[c].queued) + Bit(row.queued) /\ waiters' <= MaxQueue
  BY <1>5, <1>9, Counts DEF Bit
<1>11. BreakerOK'
  BY <1>8, Zenon DEF AdmissionInv, BreakerOK, breakerVars
<1>12. Held(caller[c]) = Held(row)
  BY <1>5, <1>7, Zenon DEF Held
<1>13. caller[c].pc \in HasSlot <=> row.pc \in HasSlot
  BY <1>5, <1>7, Zenon
<1> QED
  BY <1>5, <1>6, <1>7, <1>8, <1>10, <1>11, <1>12, <1>13, RowKeeps, Zenon

\* Bytes given back go to the callers at the head of the queue: what they ask
\* for is what the semaphore adds, and each of them is served once.
LEMMA ReleaseBytesKeeps ==
    ASSUME AdmissionInv, NEW c \in Callers, NEW freed, NEW queue \in Seq(Callers),
           ReleaseBytes(c, freed, queue, "drop"),
           caller[c].pc \in HasSlot, freed = Held(caller[c]),
           Orderly(queue, caller, "bodyParked"), \A i \in 1..Len(queue) : queue[i] # c
    PROVE  AdmissionInv'
<1>1. PICK n \in 0..Len(queue) :
         /\ (bytes - freed) + Load(queue, n) <= BodyLimit
         /\ bytes' = (bytes - freed) + Load(queue, n)
         /\ bodyQueue' = SubSeq(queue, n + 1, Len(queue))
         /\ caller' = [d \in Callers |->
               IF d = c THEN [caller[c] EXCEPT !.pc = "drop"]
               ELSE IF \E i \in 1..n : queue[i] = d THEN [caller[d] EXCEPT !.pc = "granted"]
               ELSE caller[d]]
         /\ UNCHANGED <<slotVars, waiters, breakerVars>>
  BY Zenon DEF ReleaseBytes
<1> DEFINE served == {queue[i] : i \in 1..n}
           w == Weights(caller)
           others == ByteHolders(caller) \ {c}
<1>2. /\ caller \in [Callers -> CallerType]
      /\ slotQueue \in Seq(Callers) /\ Orderly(slotQueue, caller, "parked")
      /\ slots = SlotsUsed(caller) /\ waiters = PlacesUsed(caller) /\ bytes = BytesUsed(caller)
      /\ \A d \in Callers : caller[d].pc \in {"idle", "slot", "enqueue"} => ~caller[d].queued
  BY Zenon DEF AdmissionInv
<1>3. Len(queue) \in Nat /\ n \in Nat /\ n <= Len(queue) /\ \A i \in 1..n : i \in 1..Len(queue)
  BY <1>1
<1>4. \A i \in 1..n : queue[i] \in Callers /\ queue[i] # c /\ caller[queue[i]].pc = "bodyParked"
  BY <1>3 DEF Orderly
<1>5. \A i, j \in 1..n : queue[i] = queue[j] => i = j
  BY <1>3 DEF Orderly
<1>6. /\ "bodyParked" \in HasSlot /\ "bodyParked" \notin HasBytes /\ "bodyParked" \notin {"parked"}
      /\ "drop" \in HasSlot /\ "drop" \notin HasBytes /\ "drop" \in Program
      /\ "granted" \in HasSlot /\ "granted" \in HasBytes /\ "granted" \in Program
      /\ "drop" \notin {"idle", "slot", "enqueue", "parked"} /\ "parked" \notin HasSlot
      /\ "granted" \notin {"idle", "slot", "enqueue", "parked"}
  BY DEF HasSlot, HasBytes, Program, Acquiring
<1>7. \A d : d \in served <=> \E i \in 1..n : queue[i] = d
  OBVIOUS
<1>8. \A d \in served : d \in Callers /\ d # c /\ caller[d].pc = "bodyParked"
  BY <1>4
<1> HIDE DEF served
<1>9. caller' = [d \in Callers |->
               IF d = c THEN [caller[c] EXCEPT !.pc = "drop"]
               ELSE IF d \in served THEN [caller[d] EXCEPT !.pc = "granted"]
               ELSE caller[d]]
  BY <1>1, <1>7, Zenon
<1>10. /\ caller'[c] \in CallerType /\ caller'[c].pc = "drop" /\ caller'[c].queued = caller[c].queued
       /\ caller'[c].weight = caller[c].weight
  <2>1. caller'[c] = [caller[c] EXCEPT !.pc = "drop"] /\ caller[c] \in CallerType
    BY <1>2, <1>9, Zenon
  <2> DEFINE row == [caller[c] EXCEPT !.pc = "drop"]
  <2>2. /\ row \in CallerType /\ row.pc = "drop" /\ row.queued = caller[c].queued
        /\ row.weight = caller[c].weight
    BY <1>6, <2>1, RowAfterGoto
  <2> QED
    BY <2>1, <2>2, Zenon
<1>11. ASSUME NEW d \in served
       PROVE  /\ caller'[d] \in CallerType /\ caller'[d].pc = "granted" /\ caller'[d].queued = caller[d].queued
              /\ caller'[d].weight = caller[d].weight
  <2>1. caller'[d] = [caller[d] EXCEPT !.pc = "granted"] /\ caller[d] \in CallerType
    BY <1>2, <1>8, <1>9, <1>11, Zenon
  <2> DEFINE row == [caller[d] EXCEPT !.pc = "granted"]
  <2>2. /\ row \in CallerType /\ row.pc = "granted" /\ row.queued = caller[d].queued
        /\ row.weight = caller[d].weight
    BY <1>6, <2>1, RowAfterGoto
  <2> QED
    BY <2>1, <2>2, Zenon
<1>12. \A d \in Callers : d # c /\ d \notin served => caller'[d] = caller[d]
  BY <1>9, Zenon
<1>13. caller' \in [Callers -> CallerType]
  <2>1. \A d \in Callers : caller'[d] \in CallerType
    BY <1>2, <1>10, <1>11, <1>12, Zenon
  <2>2. caller' = [d \in Callers |-> caller'[d]]
    BY <1>9, Zenon
  <2> QED
    BY <2>1, <2>2, Zenon
<1>14. SlotHolders(caller') = SlotHolders(caller)
  <2>1. \A d \in Callers : caller'[d].pc \in HasSlot <=> caller[d].pc \in HasSlot
    BY <1>6, <1>8, <1>10, <1>11, <1>12, Zenon
  <2> QED
    BY <2>1 DEF SlotHolders
<1>15. InQueue(caller') = InQueue(caller)
  <2>1. \A d \in Callers : caller'[d].queued = caller[d].queued
    BY <1>10, <1>11, <1>12, Zenon
  <2> QED
    BY <2>1 DEF InQueue
<1>16. Weights(caller') = w
  <2>1. \A d \in Callers : caller'[d].weight = caller[d].weight
    BY <1>10, <1>11, <1>12, Zenon
  <2> QED
    BY <2>1 DEF Weights
<1>17. ByteHolders(caller') = others \cup served
  <2>1. \A d \in Callers : caller'[d].pc \in HasBytes <=> (d # c /\ caller[d].pc \in HasBytes) \/ d \in served
    BY <1>6, <1>8, <1>10, <1>11, <1>12, Zenon
  <2> QED
    BY <1>8, <2>1 DEF ByteHolders
<1>18. /\ IsFiniteSet(Callers) /\ others \subseteq Callers /\ served \subseteq Callers
       /\ ByteHolders(caller) \subseteq Callers /\ others \cap served = {}
  BY <1>6, <1>8, AdmissionAssumption DEF ByteHolders
<1>19. IsFiniteSet(others) /\ IsFiniteSet(served) /\ IsFiniteSet(ByteHolders(caller))
  BY <1>18, FS_Subset, Zenon
<1>20. \A d \in Callers : w[d] \in Nat /\ w[d] = caller[d].weight
  BY <1>2, RowParts DEF Weights
<1>21. Total(w, others) = bytes - freed /\ Total(w, others) \in Nat
  <2>1. Total(w, others) \in Nat
    BY <1>18, <1>19, <1>20, TotalOfNaturals
  <2>2. CASE c \in ByteHolders(caller)
    <3>1. \A d \in ByteHolders(caller) : w[d] \in Int
      BY <1>18, <1>20
    <3>2. Total(w, ByteHolders(caller)) = Total(w, others) + w[c]
      BY <1>19, <2>2, <3>1, TotalSplit
    <3>3. freed = w[c]
      BY <1>20, <2>2 DEF Held, ByteHolders
    <3>4. bytes = Total(w, ByteHolders(caller)) /\ w[c] \in Nat
      BY <1>2, <1>20, Zenon DEF BytesUsed
    <3> QED
      BY <2>1, <3>2, <3>3, <3>4
  <2>3. CASE c \notin ByteHolders(caller)
    <3>1. others = ByteHolders(caller)
      BY <2>3
    <3>2. bytes = Total(w, others)
      BY <1>2, <3>1, Zenon DEF BytesUsed
    <3>3. freed = 0
      BY <2>3 DEF Held, ByteHolders
    <3> QED
      BY <2>1, <3>2, <3>3
  <2> QED
    BY <2>2, <2>3
<1>22. Total(w, served) = Load(queue, n) /\ Total(w, served) \in Nat
  <2> DEFINE h == [i \in 1..n |-> caller[queue[i]].weight]
             I == 1..n
  <2>1. \A i \in I : h[i] = w[queue[i]] /\ h[i] \in Int
    BY <1>4, <1>20
  <2>2. IsFiniteSet(I)
    BY <1>3, FS_Interval
  <2>3. \A i, j \in I : queue[i] = queue[j] => i = j
    BY <1>5
  <2>4. Load(queue, n) = Total(h, I)
    BY Zenon DEF Load
  <2>5. served = {queue[i] : i \in I}
    BY DEF served
  <2> HIDE DEF h, I, w
  <2>6. Total(h, I) = Total(w, {queue[i] : i \in I})
    BY <2>1, <2>2, <2>3, TotalReindex
  <2>7. Total(w, served) \in Nat
    BY <1>18, <1>19, <1>20, TotalOfNaturals
  <2> QED
    BY <2>4, <2>5, <2>6, <2>7, Zenon
<1>23. BytesUsed(caller') = bytes'
  <2>1. \A d \in others \cup served : w[d] \in Int
    BY <1>18, <1>20
  <2>2. Total(w, others \cup served) = Total(w, others) + Total(w, served)
    BY <1>18, <1>19, <2>1, TotalUnion
  <2>3. BytesUsed(caller') = Total(w, others \cup served)
    BY <1>16, <1>17, Zenon DEF BytesUsed
  <2> QED
    BY <1>1, <1>21, <1>22, <2>2, <2>3, Zenon
<1>24. bytes' \in 0..BodyLimit
  <2>1. BodyLimit \in Nat
    BY Counts
  <2> QED
    BY <1>1, <1>21, <1>22, <2>1
<1>25. slots' = slots /\ slotQueue' = slotQueue /\ waiters' = waiters /\ UNCHANGED breakerVars
  BY <1>1, Zenon DEF slotVars
<1>26. Orderly(slotQueue, caller', "parked")
  <2>1. \A d \in Callers : caller[d].pc = "parked" => caller'[d].pc = "parked"
    BY <1>6, <1>8, <1>12, Zenon
  <2> QED
    BY <1>2, <2>1, OrderlyKept
<1>27. bodyQueue' \in Seq(Callers) /\ Orderly(bodyQueue', caller', "bodyParked")
  <2>1. ASSUME NEW d \in Callers, caller[d].pc = "bodyParked", \A i \in 1..n : queue[i] # d, d # c
        PROVE  caller'[d].pc = "bodyParked"
    BY <1>7, <1>12, <2>1, Zenon
  <2> DEFINE r == SubSeq(queue, n + 1, Len(queue))
             g == [d \in Callers |-> IF d = c THEN caller[c] ELSE caller'[d]]
  <2>2. \A d \in Callers : caller[d].pc = "bodyParked" /\ (\A i \in 1..n : queue[i] # d) => g[d].pc = "bodyParked"
    BY <2>1, Zenon
  <2>3. r \in Seq(Callers) /\ Orderly(r, g, "bodyParked")
    <3> HIDE DEF g
    <3> QED
      BY <2>2, OrderlyRest
  <2>4. \A i \in 1..Len(r) : r[i] \in Callers /\ r[i] # c
    BY <1>3
  <2>5. \A i \in 1..Len(r) : g[r[i]] = caller'[r[i]]
    BY <2>4, Zenon
  <2>6. bodyQueue' = r
    BY <1>1, Zenon
  <2> HIDE DEF r, g
  <2>7. Orderly(r, caller', "bodyParked")
    BY <2>3, <2>5 DEF Orderly
  <2> QED
    BY <2>3, <2>6, <2>7, Zenon
<1>28. \A d \in Callers : caller'[d].pc \in {"idle", "slot", "enqueue"} => ~caller'[d].queued
  BY <1>2, <1>6, <1>10, <1>11, <1>12, Zenon
<1>29. /\ (slots = SlotsUsed(caller))' /\ (waiters = PlacesUsed(caller))' /\ (bytes = BytesUsed(caller))'
       /\ Orderly(slotQueue, caller, "parked")' /\ Orderly(bodyQueue, caller, "bodyParked")'
  <2>1. slots' = SlotsUsed(caller') /\ waiters' = PlacesUsed(caller') /\ bytes' = BytesUsed(caller')
    BY <1>2, <1>14, <1>15, <1>23, <1>25, Zenon DEF SlotsUsed, PlacesUsed
  <2>2. Orderly(slotQueue', caller', "parked") /\ Orderly(bodyQueue', caller', "bodyParked")
    BY <1>25, <1>26, <1>27, Zenon
  <2> QED
    BY <2>1, <2>2, Zenon DEF SlotsUsed, SlotHolders, PlacesUsed, InQueue, BytesUsed, ByteHolders, Weights, Orderly
<1>30. BreakerOK'
  BY <1>25, Zenon DEF AdmissionInv, BreakerOK, breakerVars
<1>31. slots \in 0..MaxInFlight /\ waiters \in 0..MaxQueue
  BY Zenon DEF AdmissionInv
<1> QED
  BY <1>2, <1>13, <1>24, <1>25, <1>27, <1>28, <1>29, <1>30, <1>31, Zenon DEF AdmissionInv

\* The wait for bytes ends, before they came or too late.
LEMMA BodyTimeoutKeeps ==
    ASSUME AdmissionInv, NEW c \in Callers, BodyTimeout(c)
    PROVE  AdmissionInv'
<1>1. bodyQueue \in Seq(Callers) /\ Orderly(bodyQueue, caller, "bodyParked")
  BY Zenon DEF AdmissionInv
<1>2. CASE At(c, "bodyParked") /\ ReleaseBytes(c, 0, Without(bodyQueue, c), "drop")
  <2>1. caller[c].pc \in HasSlot /\ Held(caller[c]) = 0
    BY <1>2 DEF At, Held, HasSlot, HasBytes
  <2> DEFINE q == Without(bodyQueue, c)
  <2>2. q \in Seq(Callers) /\ Orderly(q, caller, "bodyParked") /\ \A i \in 1..Len(q) : q[i] # c
    BY <1>1, OrderlyWithout
  <2>3. ReleaseBytes(c, Held(caller[c]), q, "drop")
    BY <1>2, <2>1, Zenon
  <2> HIDE DEF q
  <2> QED
    BY <2>1, <2>2, <2>3, ReleaseBytesKeeps
<1>3. CASE At(c, "granted") /\ ReleaseBytes(c, caller[c].weight, bodyQueue, "drop")
  <2>1. caller[c].pc \in HasSlot /\ caller[c].weight = Held(caller[c]) /\ caller[c].pc # "bodyParked"
    BY <1>3 DEF At, Held, HasSlot, HasBytes
  <2>2. \A i \in 1..Len(bodyQueue) : bodyQueue[i] # c
    BY <1>1, <2>1 DEF Orderly
  <2> QED
    BY <1>1, <1>3, <2>1, <2>2, ReleaseBytesKeeps
<1> QED
  BY <1>2, <1>3, Zenon DEF BodyTimeout

\* The lease is given back.
LEMMA ReleaseKeeps ==
    ASSUME AdmissionInv, NEW c \in Callers, Release(c)
    PROVE  AdmissionInv'
<1>1. bodyQueue \in Seq(Callers) /\ Orderly(bodyQueue, caller, "bodyParked")
  BY Zenon DEF AdmissionInv
<1>2. caller[c].pc \in {"leased", "recorded"} /\ ReleaseBytes(c, caller[c].weight, bodyQueue, "drop")
  BY Zenon DEF Release, At
<1>3. caller[c].pc \in HasSlot /\ caller[c].weight = Held(caller[c]) /\ caller[c].pc # "bodyParked"
  BY <1>2 DEF Held, HasSlot, HasBytes
<1>4. \A i \in 1..Len(bodyQueue) : bodyQueue[i] # c
  BY <1>1, <1>3 DEF Orderly
<1> QED
  BY <1>1, <1>2, <1>3, <1>4, ReleaseBytesKeeps

\* Every slot, every place in the queue and every byte in use belongs to
\* exactly one caller that will give it back, with any number of callers and
\* any limits, however waits time out, bytes arrive late and slots are handed
\* on (acquire, Lease.Release, semaphore.Weighted).
THEOREM ResourcesCorrect == AdmissionSpec => []ResourcesExact
<1>1. AdmissionInit => AdmissionInv
  <2> SUFFICES ASSUME AdmissionInit PROVE AdmissionInv
    OBVIOUS
  <2>1. caller \in [Callers -> CallerType]
    BY DEF AdmissionInit, CallerType
  <2>2. \A c \in Callers : caller[c].pc = "idle" /\ ~caller[c].queued
    BY DEF AdmissionInit
  <2>3. SlotHolders(caller) = {} /\ InQueue(caller) = {} /\ ByteHolders(caller) = {}
    BY <2>2 DEF SlotHolders, InQueue, ByteHolders, HasSlot, HasBytes
  <2>4. SlotsUsed(caller) = 0 /\ PlacesUsed(caller) = 0
    BY <2>3, FS_EmptySet DEF SlotsUsed, PlacesUsed
  <2>5. BytesUsed(caller) = 0
    <3>1. Total(Weights(caller), {}) = 0
      BY FS_EmptySet, TotalType
    <3> QED
      BY <2>3, <3>1, Zenon DEF BytesUsed
  <2>6. Orderly(<<>>, caller, "parked") /\ Orderly(<<>>, caller, "bodyParked")
    BY DEF Orderly
  <2>7. /\ 0 \in 0..MaxInFlight /\ 0 \in 0..MaxQueue /\ 0 \in 0..BodyLimit /\ 0 \in 0..FailureThreshold
        /\ <<>> \in Seq(Callers)
    BY AdmissionAssumption
  <2> QED
    BY <2>1, <2>2, <2>4, <2>5, <2>6, <2>7, Zenon DEF AdmissionInit, AdmissionInv, BreakerOK
<1>2. AdmissionInv /\ [AdmissionNext]_admissionVars => AdmissionInv'
  <2> SUFFICES ASSUME AdmissionInv, [AdmissionNext]_admissionVars PROVE AdmissionInv'
    OBVIOUS
  <2>1. CASE UNCHANGED admissionVars
    BY <2>1, Zenon DEF AdmissionInv, BreakerOK, admissionVars, slotVars, bodyVars, breakerVars,
                       SlotsUsed, SlotHolders, PlacesUsed, InQueue, BytesUsed, ByteHolders, Weights, Orderly
  <2>2. CASE CoolDown
    <3>1. /\ circuit = "open" /\ circuit' = "half_open" /\ failures' = failures /\ probeActive' = probeActive
          /\ UNCHANGED <<slotVars, waiters, bodyVars, caller>>
      BY <2>2, Zenon DEF CoolDown
    <3>2. BreakerOK'
      BY <3>1 DEF AdmissionInv, BreakerOK
    <3> QED
      BY <3>1, <3>2, Zenon DEF AdmissionInv, slotVars, bodyVars,
                   SlotsUsed, SlotHolders, PlacesUsed, InQueue, BytesUsed, ByteHolders, Weights, Orderly
  <2>3. ASSUME NEW c \in Callers, CallerStep(c) PROVE AdmissionInv'
    <3>1. CASE AcquireStep(c)
      BY <3>1, TrySlotKeeps, EnqueueKeeps, SelectSlotKeeps, DropSlotKeeps, TryBodyKeeps,
         BodyGrantedKeeps, CancelExact, ReturnKeeps, Zenon DEF AcquireStep
    <3> QED
      BY <2>3, <3>1, AllowExact, SlotTimeoutKeeps, BodyTimeoutKeeps, RecordKeeps, ReleaseKeeps,
         Zenon DEF CallerStep
  <2> QED BY <2>1, <2>2, <2>3, Zenon DEF AdmissionNext
<1>3. AdmissionInv => ResourcesExact
  BY Zenon DEF AdmissionInv, BreakerOK, ResourcesExact, AdmissionTypeOK, SlotsExact, BytesExact,
               SlotsUsed, SlotHolders, PlacesUsed, InQueue, BytesUsed, ByteHolders, Weights
<1> QED BY <1>1, <1>2, <1>3, PTL DEF AdmissionSpec

-----------------------------------------------------------------------------
(* Retention: usage *)

\* What the assumption says of the constants.
LEMMA RetentionFacts ==
    /\ IsFiniteSet(Items) /\ Batch \in Nat /\ Batch # 0 /\ NoLock \notin Jobs
    /\ \A rule \in {"success", "details", "events", "failed events", "reservations", "incomplete",
                    "logs", "observations", "invitations"} : Keep[rule] \in Nat
<1>1. /\ IsFiniteSet(Items) /\ Batch \in Nat \ {0} /\ NoLock \notin Jobs
      /\ Keep \in [{"success", "details", "events", "failed events", "reservations", "incomplete",
                    "logs", "observations", "invitations"} -> Nat]
  BY RetentionAssumption, Zenon
<1>2. Batch \in Nat /\ Batch # 0
  BY <1>1
<1> QED
  BY <1>1, <1>2, Zenon

\* The requests of a set of rows that count for a day.
Of(ids, d) == {i \in ids : Counted(i, d)}

LEMMA UsageType ==
    ASSUME NEW ids \in SUBSET Items
    PROVE  /\ LogUsage(ids) \in [Days -> Nat]
           /\ \A d \in Days : LogUsage(ids)[d] = Cardinality(Of(ids, d)) /\ IsFiniteSet(Of(ids, d))
<1>1. ASSUME NEW d \in Days
      PROVE  IsFiniteSet(Of(ids, d)) /\ Cardinality(Of(ids, d)) \in Nat
  <2>1. Of(ids, d) \subseteq Items
    BY DEF Of
  <2>2. IsFiniteSet(Of(ids, d))
    BY <2>1, RetentionFacts, FS_Subset
  <2> QED
    BY <2>2, FS_CardinalityType
<1>2. LogUsage(ids) = [d \in Days |-> Cardinality(Of(ids, d))]
  BY Zenon DEF LogUsage, Of
<1> QED
  BY <1>1, <1>2, Zenon

\* Rows that are apart are counted apart.
LEMMA UsageOfUnion ==
    ASSUME NEW ids \in SUBSET Items, NEW others \in SUBSET Items, ids \cap others = {}, NEW d \in Days
    PROVE  LogUsage(ids \cup others)[d] = LogUsage(ids)[d] + LogUsage(others)[d]
<1>1. Of(ids \cup others, d) = Of(ids, d) \cup Of(others, d) /\ Of(ids, d) \cap Of(others, d) = {}
  BY Zenon DEF Of
<1>2. /\ LogUsage(ids)[d] = Cardinality(Of(ids, d)) /\ IsFiniteSet(Of(ids, d))
      /\ LogUsage(others)[d] = Cardinality(Of(others, d)) /\ IsFiniteSet(Of(others, d))
  BY UsageType
<1>3. ids \cup others \in SUBSET Items
  OBVIOUS
<1>4. LogUsage(ids \cup others)[d] = Cardinality(Of(ids \cup others, d))
  BY <1>3, UsageType
<1>5. Cardinality(Of(ids, d) \cup Of(others, d))
         = Cardinality(Of(ids, d)) + Cardinality(Of(others, d)) - Cardinality(Of(ids, d) \cap Of(others, d))
  BY <1>2, FS_Union
<1>6. Cardinality(Of(ids, d) \cap Of(others, d)) = 0
  BY <1>1, FS_EmptySet
<1>7. Cardinality(Of(ids, d)) \in Nat /\ Cardinality(Of(others, d)) \in Nat
  BY <1>2, FS_CardinalityType
<1> DEFINE a == Cardinality(Of(ids, d))
           b == Cardinality(Of(others, d))
           c == Cardinality(Of(ids, d) \cap Of(others, d))
<1>8. LogUsage(ids \cup others)[d] = a + b - c /\ LogUsage(ids)[d] = a /\ LogUsage(others)[d] = b /\ c = 0
  BY <1>1, <1>2, <1>4, <1>5, <1>6, Zenon
<1>9. a \in Nat /\ b \in Nat
  BY <1>7, Zenon
<1> HIDE DEF a, b, c
<1> QED
  BY <1>8, <1>9

\* Rows that are no logs count for nothing.
LEMMA NoUsageWithoutLogs ==
    ASSUME NEW ids \in SUBSET Items, \A i \in ids : Row(i).kind # "log", NEW d \in Days
    PROVE  LogUsage(ids)[d] = 0
<1>1. Of(ids, d) = {}
  BY Zenon DEF Of, Counted
<1> QED
  BY <1>1, UsageType, FS_EmptySet

\* Usage that leaves with some rows.
LEMMA UsageOfRest ==
    ASSUME NEW rows \in SUBSET Items, NEW gone \in SUBSET Items, NEW ids \in SUBSET Items,
           ids \subseteq gone, ids \subseteq rows, \A i \in gone \ ids : Row(i).kind # "log", NEW d \in Days
    PROVE  /\ LogUsage(ids)[d] \in Nat /\ LogUsage(rows \ gone)[d] \in Nat
           /\ LogUsage(ids)[d] + LogUsage(rows \ gone)[d] = LogUsage(rows)[d]
<1> DEFINE plain == (rows \cap gone) \ ids
           rest == rows \ gone
<1>1. plain \in SUBSET Items /\ rest \in SUBSET Items /\ ids \cup plain \in SUBSET Items
  OBVIOUS
<1>2. rows = (ids \cup plain) \cup rest /\ (ids \cup plain) \cap rest = {} /\ ids \cap plain = {}
  OBVIOUS
<1>3. \A i \in plain : Row(i).kind # "log"
  BY Zenon
<1> HIDE DEF plain, rest
<1>4. LogUsage(rows)[d] = LogUsage(ids \cup plain)[d] + LogUsage(rest)[d]
  BY <1>1, <1>2, UsageOfUnion
<1>5. LogUsage(ids \cup plain)[d] = LogUsage(ids)[d] + LogUsage(plain)[d]
  BY <1>1, <1>2, UsageOfUnion
<1>6. LogUsage(plain)[d] = 0
  BY <1>1, <1>3, NoUsageWithoutLogs
<1>7. LogUsage(ids)[d] \in Nat /\ LogUsage(rest)[d] \in Nat
  BY <1>1, UsageType
<1> QED
  BY <1>4, <1>5, <1>6, <1>7 DEF rest

\* More rows, more usage.
LEMMA UsageGrows ==
    ASSUME NEW ids \in SUBSET Items, NEW more \in SUBSET Items, ids \subseteq more, NEW d \in Days
    PROVE  LogUsage(ids)[d] <= LogUsage(more)[d]
<1>1. more \ ids \in SUBSET Items /\ more = ids \cup (more \ ids) /\ ids \cap (more \ ids) = {}
  OBVIOUS
<1>2. LogUsage(more)[d] = LogUsage(ids)[d] + LogUsage(more \ ids)[d]
  BY <1>1, UsageOfUnion
<1>3. LogUsage(ids)[d] \in Nat /\ LogUsage(more \ ids)[d] \in Nat
  BY <1>1, UsageType
<1> QED
  BY <1>2, <1>3

-----------------------------------------------------------------------------
(* What is due *)

LEMMA OperationFacts ==
    /\ Len(Operations) = 8
    /\ Operations[1] = "scrub" /\ Operations[2] = "success" /\ Operations[3] = "details"
    /\ Operations[4] = "events" /\ Operations[5] = "reservations" /\ Operations[6] = "logs"
    /\ Operations[7] = "observations" /\ Operations[8] = "invitations"
BY DEF Operations

Deletions == {"success", "details", "events", "reservations", "logs", "observations", "invitations"}

LEMMA DeletionFacts ==
    /\ \A n \in 2..8 : Operations[n] \in Deletions
    /\ \A op \in Deletions : \E n \in 2..8 : op = Operations[n]
    /\ \A n \in 1..8 : n = 1 \/ n \in 2..8
<1>1. \A n \in 2..8 : n = 2 \/ n = 3 \/ n = 4 \/ n = 5 \/ n = 6 \/ n = 7 \/ n = 8
  OBVIOUS
<1>2. 2 \in 2..8 /\ 3 \in 2..8 /\ 4 \in 2..8 /\ 5 \in 2..8 /\ 6 \in 2..8 /\ 7 \in 2..8 /\ 8 \in 2..8
  OBVIOUS
<1>3. \A n \in 1..8 : n = 1 \/ n \in 2..8
  OBVIOUS
<1>4. \A n \in 2..8 : Operations[n] \in Deletions
  BY <1>1, OperationFacts, Zenon DEF Deletions
<1>5. \A op \in Deletions : \E n \in 2..8 : op = Operations[n]
  BY <1>2, OperationFacts, Zenon DEF Deletions
<1> QED
  BY <1>3, <1>4, <1>5

LEMMA SelectsIs ==
    ASSUME NEW i, NEW now
    PROVE  /\ Selects("success", i, now) <=> deleteSuccessDetails(i, now)
           /\ Selects("details", i, now) <=> deleteOldDetails(i, now)
           /\ Selects("events", i, now) <=> deleteLifecycle(i, now)
           /\ Selects("reservations", i, now) <=> deleteReservations(i, now)
           /\ Selects("logs", i, now) <=> OldLog(i, now)
           /\ Selects("observations", i, now) <=> deleteQuotaObservations(i, now)
           /\ Selects("invitations", i, now) <=> deleteInvitations(i, now)
           /\ Selects("success", i, now)' <=> deleteSuccessDetails(i, now)'
           /\ Selects("details", i, now)' <=> deleteOldDetails(i, now)'
           /\ Selects("events", i, now)' <=> deleteLifecycle(i, now)'
           /\ Selects("reservations", i, now)' <=> deleteReservations(i, now)'
           /\ Selects("logs", i, now)' <=> OldLog(i, now)'
           /\ Selects("observations", i, now)' <=> deleteQuotaObservations(i, now)'
           /\ Selects("invitations", i, now)' <=> deleteInvitations(i, now)'
BY DEF Selects, deleteSuccessDetails, deleteOldDetails, deleteLifecycle, deleteReservations, OldLog,
       deleteQuotaObservations, deleteInvitations

\* No deletion takes a row that is open, but an event.
LEMMA SelectsClosed ==
    ASSUME NEW i, NEW now, NEW op \in Deletions, Selects(op, i, now), Row(i).kind \in {"reservation", "invitation"}
    PROVE  i \notin open
<1>1. Row(i).kind \notin {"detail", "event", "log", "observation"}
  OBVIOUS
<1> QED
  BY <1>1, SelectsIs DEF Deletions, deleteSuccessDetails, deleteOldDetails, deleteLifecycle, deleteReservations, OldLog,
       deleteQuotaObservations, deleteInvitations

\* Only compaction takes logs.
LEMMA SelectsKind ==
    ASSUME NEW i, NEW now, NEW op \in Deletions, Selects(op, i, now), op # "logs"
    PROVE  Row(i).kind # "log"
BY SelectsIs DEF Deletions, deleteSuccessDetails, deleteOldDetails, deleteLifecycle, deleteReservations,
       deleteQuotaObservations, deleteInvitations

\* What decides whether a row is due: when it and its log were finished, and
\* whether it is open.
LEMMA SelectsSame ==
    ASSUME NEW i, NEW now, NEW op \in Deletions, plan' = plan, at'[i] = at[i], (i \in open') = (i \in open),
           Row(i).kind = "detail" =>
              at'[Row(i).log] = at[Row(i).log] /\ Row(i).log \in table /\ Row(i).log \in table'
    PROVE  Selects(op, i, now)' <=> Selects(op, i, now)
<1>2. deleteSuccessDetails(i, now)' <=> deleteSuccessDetails(i, now)
  BY Zenon DEF deleteSuccessDetails, Row, OlderThan
<1>3. deleteOldDetails(i, now)' <=> deleteOldDetails(i, now)
  BY Zenon DEF deleteOldDetails, Row, OlderThan
<1>4. deleteLifecycle(i, now)' <=> deleteLifecycle(i, now)
  BY Zenon DEF deleteLifecycle, Row, OlderThan
<1>5. deleteReservations(i, now)' <=> deleteReservations(i, now)
  BY Zenon DEF deleteReservations, Row, OlderThan
<1>6. OldLog(i, now)' <=> OldLog(i, now)
  BY Zenon DEF OldLog, Row, OlderThan
<1>7. deleteQuotaObservations(i, now)' <=> deleteQuotaObservations(i, now)
  BY Zenon DEF deleteQuotaObservations, Row, OlderThan
<1>8. deleteInvitations(i, now)' <=> deleteInvitations(i, now)
  BY Zenon DEF deleteInvitations, Row, OlderThan
<1> QED
  BY <1>2, <1>3, <1>4, <1>5, <1>6, <1>7, <1>8, SelectsIs, Zenon DEF Deletions

-----------------------------------------------------------------------------
(* The inductive invariant *)

\* The rows that ever were, and what belongs to them.
RowsOK ==
    /\ plan \in Plans /\ written \subseteq DOMAIN plan.rows
    /\ clock \in Nat /\ at \in [Items -> Nat]
    /\ \A i \in written : Row(i).kind = "detail" => Row(i).log \in written

\* What a job has locked.
BatchOK(w) ==
    /\ w.due \subseteq written /\ w.ids \subseteq table
    /\ w.pc # "commit" => w.ids = {}
    /\ w.pc = "commit" /\ Operations[w.op] # "logs" => \A i \in w.ids : Row(i).kind # "log"

\* A row that was due when the run began stays due until it goes; the
\* operations before the present one, in a round that did nothing and never
\* gave way, found none.
DueOK(w) ==
    /\ \A i \in w.due \cap table : \E n \in 2..8 : Selects(Operations[n], i, w.now)
    /\ w.pc \in {"next", "select", "commit"} /\ ~w.progress /\ ~w.missed =>
          \A n \in 2..8 : n < w.op => \A i \in w.due \cap table : ~Selects(Operations[n], i, w.now)
    /\ w.pc = "commit" /\ w.ids = {} =>
          \A n \in 2..8 : n = w.op => \A i \in w.due \cap table : ~Selects(Operations[n], i, w.now)
    /\ w.pc = "finished" /\ ~w.missed => w.due \cap table = {}

\* A report that has read the logs covers what it should with the rollups.
ReportOK(r, rolled, used) ==
    /\ r.pc = "reading" => r.kind = "usage" /\ \A d \in Days : r.seen[d] + rolled[d] >= r.low[d]
    /\ r.pc = "done" /\ r.kind = "usage" => \A d \in Days : r.seen[d] >= r.low[d]
    /\ r.pc = "done" /\ r.kind = "heatmap" => \A d \in Days : r.low[d] <= r.seen[d] /\ r.seen[d] <= used[d]

JobsOK == \A j \in Jobs : BatchOK(job[j]) /\ DueOK(job[j])
ReportsOK == \A q \in Reports : ReportOK(report[q], rollups, LogUsage(written))

RetentionInv == RetentionTypeOK /\ RowsOK /\ UsageConserved /\ JobsOK /\ ReportsOK

LEMMA RetentionTypes ==
    ASSUME RetentionInv
    PROVE  /\ table \subseteq written /\ written \subseteq Items /\ table \subseteq Items
           /\ written \subseteq DOMAIN plan.rows /\ plan \in Plans
           /\ rollups \in [Days -> Nat] /\ clock \in Nat /\ at \in [Items -> Nat]
           /\ job \in [Jobs -> Job] /\ report \in [Reports -> ReportType]
           /\ lock \in Jobs \cup {NoLock} /\ \A j \in Jobs : job[j].pc \in {"select", "commit"} <=> lock = j
BY Zenon DEF RetentionInv, RetentionTypeOK, RowsOK

\* The columns of a job.
LEMMA JobTypes ==
    ASSUME NEW w \in Job
    PROVE  /\ w.pc \in {"idle", "next", "select", "commit", "finished", "stopped"}
           /\ w.op \in 1..8 /\ w.now \in Nat /\ w.progress \in BOOLEAN /\ w.missed \in BOOLEAN
           /\ w.ids \in SUBSET Items /\ w.due \in SUBSET Items
BY OperationFacts, Zenon DEF Job

\* A detail and its log.
LEMMA DetailFacts ==
    ASSUME RetentionInv, NEW i \in written, Row(i).kind = "detail"
    PROVE  Row(i).log \in written /\ Row(Row(i).log).kind = "log"
<1>1. plan \in Plans /\ i \in DOMAIN plan.rows /\ Row(i).log \in written
  BY Zenon DEF RetentionInv, RowsOK
<1>2. plan.rows[plan.rows[i].log].kind = "log"
  BY <1>1, PlansAssumption, Zenon DEF Row
<1> QED
  BY <1>1, <1>2, Zenon DEF Row

\* Steps that leave alone what decides whether a row is due, except that one
\* is settled.
Steady ==
    /\ plan' = plan /\ \A i \in written : i \in table' => i \in table
    /\ \A i \in written : \/ at'[i] = at[i] /\ (i \in open') = (i \in open)
                          \/ i \in open /\ Row(i).kind \in {"reservation", "invitation"}

LEMMA SelectsKept ==
    ASSUME RetentionInv, RetentionTypeOK', Steady, NEW i \in written, i \in table',
           NEW now, NEW op \in Deletions, Selects(op, i, now)
    PROVE  \A d \in Deletions : Selects(d, i, now)' <=> Selects(d, i, now)
<1>1. plan' = plan /\ i \in table
  BY Zenon DEF Steady
<1>2. at'[i] = at[i] /\ (i \in open') = (i \in open)
  <2>1. CASE i \in open /\ Row(i).kind \in {"reservation", "invitation"}
    BY <2>1, SelectsClosed
  <2> QED
    BY <2>1, Zenon DEF Steady
<1>3. Row(i).kind = "detail" => at'[Row(i).log] = at[Row(i).log] /\ Row(i).log \in table /\ Row(i).log \in table'
  <2> SUFFICES ASSUME Row(i).kind = "detail"
               PROVE  at'[Row(i).log] = at[Row(i).log] /\ Row(i).log \in table /\ Row(i).log \in table'
    OBVIOUS
  <2>1. Row(i).log \in table /\ Row(i)' = Row(i)
    BY <1>1, Zenon DEF RetentionInv, RetentionTypeOK, Row
  <2>2. Row(i).log \in table'
    BY <2>1, Zenon DEF RetentionTypeOK
  <2>3. Row(i).log \in written /\ Row(Row(i).log).kind = "log"
    BY DetailFacts
  <2>4. Row(Row(i).log).kind \notin {"reservation", "invitation"}
    BY <2>3
  <2>5. at'[Row(i).log] = at[Row(i).log]
    BY <2>3, <2>4, Zenon DEF Steady
  <2> QED
    BY <2>1, <2>2, <2>5
<1> QED
  BY <1>1, <1>2, <1>3, SelectsSame

\* What a job knows survives the steps of the others.
LEMMA DueKept ==
    ASSUME RetentionInv, RetentionTypeOK', Steady, NEW w, w.due \subseteq written, DueOK(w)
    PROVE  DueOK(w)'
<1>1. ASSUME NEW i \in w.due, i \in table'
      PROVE  /\ i \in table
             /\ \E n \in 2..8 : Selects(Operations[n], i, w.now)'
             /\ \A n \in 2..8 : Selects(Operations[n], i, w.now)' <=> Selects(Operations[n], i, w.now)
  <2>1. i \in written /\ i \in table
    BY <1>1, Zenon DEF Steady
  <2>2. PICK n \in 2..8 : Selects(Operations[n], i, w.now)
    BY <2>1, Zenon DEF DueOK
  <2>3. Operations[n] \in Deletions
    BY DeletionFacts
  <2>4. \A d \in Deletions : Selects(d, i, w.now)' <=> Selects(d, i, w.now)
    BY <1>1, <2>1, <2>2, <2>3, SelectsKept
  <2> QED
    BY <2>1, <2>2, <2>4, DeletionFacts, Zenon
<1> QED
  BY <1>1, Zenon DEF DueOK

\* The reports in hand, while rollups and logs grow.
LEMMA ReportsKept ==
    ASSUME RetentionInv, report' = report, plan' = plan, rollups' \in [Days -> Nat],
           \A d \in Days : rollups'[d] >= rollups[d], written \subseteq written', written' \subseteq Items
    PROVE  ReportsOK'
<1>1. LogUsage(written)' = LogUsage(written')
  BY Zenon DEF LogUsage, Counted, Row
<1>2. \A d \in Days : /\ LogUsage(written)[d] <= LogUsage(written')[d]
                      /\ LogUsage(written)[d] \in Nat /\ LogUsage(written')[d] \in Nat
                      /\ rollups[d] \in Nat /\ rollups'[d] \in Nat
  BY RetentionTypes, UsageGrows, UsageType
<1>3. ASSUME NEW q \in Reports
      PROVE  ReportOK(report[q], rollups', LogUsage(written'))
  <2>1. ReportOK(report[q], rollups, LogUsage(written)) /\ report[q] \in ReportType
    BY RetentionTypes, Zenon DEF RetentionInv, ReportsOK
  <2>2. \A d \in Days : report[q].seen[d] \in Nat /\ report[q].low[d] \in Nat
    BY <2>1 DEF ReportType
  <2> DEFINE r == report[q]
             used == LogUsage(written)
             uses == LogUsage(written')
  <2>3. /\ ReportOK(r, rollups, used) /\ \A d \in Days : r.seen[d] \in Nat /\ r.low[d] \in Nat
        /\ \A d \in Days : used[d] <= uses[d] /\ used[d] \in Nat /\ uses[d] \in Nat /\ rollups[d] \in Nat /\ rollups'[d] \in Nat
    BY <1>2, <2>1, <2>2
  <2> HIDE DEF r, used, uses
  <2>4. ReportOK(r, rollups', uses)
    BY <2>3 DEF ReportOK
  <2> QED
    BY <2>4 DEF r, uses
<1> QED
  BY <1>1, <1>3, Zenon DEF ReportsOK

\* Nothing is compacted and no log is written.
LEMMA UsageSame ==
    ASSUME RetentionInv, plan' = plan, table' = table, written' = written, rollups' = rollups
    PROVE  UsageConserved'
BY Zenon DEF RetentionInv, UsageConserved, Usage, Plus, LogUsage, Counted, Row

LEMMA BatchKept ==
    ASSUME plan' = plan, written \subseteq written', NEW w, BatchOK(w), w.ids \subseteq table'
    PROVE  BatchOK(w)'
BY Zenon DEF BatchOK, Row

\* The other jobs of a step of job j: they have no rows locked, or no row goes.
LEMMA OtherJobs ==
    ASSUME RetentionInv, RetentionTypeOK', Steady, written \subseteq written', NEW k \in Jobs,
           lock # k \/ table \subseteq table', job'[k] = job[k]
    PROVE  BatchOK(job[k])' /\ DueOK(job[k])'
<1>1. PICK w : w = job[k]
  OBVIOUS
<1>2. BatchOK(w) /\ DueOK(w)
  BY <1>1, Zenon DEF RetentionInv, JobsOK
<1>3. w.ids \subseteq table'
  <2>1. CASE lock # k
    <3>1. w.pc # "commit"
      BY <1>1, <2>1, RetentionTypes
    <3> QED
      BY <1>2, <3>1, Zenon DEF BatchOK
  <2>2. CASE table \subseteq table'
    BY <1>2, <2>2, Zenon DEF BatchOK
  <2> QED
    BY <2>1, <2>2
<1>4. BatchOK(w)' /\ plan' = plan
  BY <1>2, <1>3, BatchKept, Zenon DEF Steady
<1>5. w.due \subseteq written
  BY <1>2, Zenon DEF BatchOK
<1>6. DueOK(w)'
  BY <1>2, <1>5, DueKept
<1>7. job'[k] = w
  BY <1>1
<1> QED
  BY <1>4, <1>6, <1>7, Zenon DEF BatchOK, DueOK

\* A step of job j.
LEMMA JobStep ==
    ASSUME RetentionInv, RetentionTypeOK', Steady, written \subseteq written', NEW j \in Jobs,
           lock = j \/ table \subseteq table', NEW w, job' = [job EXCEPT ![j] = w], BatchOK(w)', DueOK(w)'
    PROVE  JobsOK'
<1>1. job \in [Jobs -> Job]
  BY RetentionTypes
<1>2. job'[j] = w /\ \A k \in Jobs \ {j} : job'[k] = job[k]
  BY <1>1, Zenon
<1>3. BatchOK(job[j])' /\ DueOK(job[j])'
  BY <1>2, Zenon DEF BatchOK, DueOK
<1>4. ASSUME NEW k \in Jobs \ {j}
      PROVE  BatchOK(job[k])' /\ DueOK(job[k])'
  <2>1. k \in Jobs /\ (lock # k \/ table \subseteq table') /\ job'[k] = job[k]
    BY <1>2, Zenon
  <2> QED
    BY <2>1, OtherJobs
<1>5. \A k \in Jobs : BatchOK(job[k])' /\ DueOK(job[k])'
  BY <1>3, <1>4, Zenon
<1> QED
  BY <1>5, Zenon DEF JobsOK

\* A step of no job.
LEMMA NoJobStep ==
    ASSUME RetentionInv, RetentionTypeOK', Steady, written \subseteq written', job' = job, table \subseteq table'
    PROVE  JobsOK'
<1>1. \A k \in Jobs : BatchOK(job[k])' /\ DueOK(job[k])'
  BY OtherJobs
<1> QED
  BY <1>1, Zenon DEF JobsOK

\* A lock that passes between one job and nobody.
LEMMA OnlyTwo ==
    ASSUME NEW jobs, NEW j, NEW none, none \notin jobs, NEW old, NEW new,
           new \in {old, j, none}, new = old \/ old \in {j, none}
    PROVE  \A k \in jobs \ {j} : new = k <=> old = k
OBVIOUS

\* The types of a step of job j, which takes the lock, keeps it or releases it.
LEMMA JobStepTypes ==
    ASSUME RetentionInv, plan' = plan, table' \subseteq written', written' \subseteq Items, rollups' \in [Days -> Nat],
           report' = report, \A i \in table' : Row(i).kind = "detail" => Row(i).log \in table',
           NEW j \in Jobs, NEW w \in Job, job' = [job EXCEPT ![j] = w],
           lock' \in {lock, j, NoLock}, lock' = lock \/ lock \in {j, NoLock},
           w.pc \in {"select", "commit"} <=> lock' = j
    PROVE  RetentionTypeOK'
<1>1. /\ job \in [Jobs -> Job] /\ report \in [Reports -> ReportType] /\ lock \in Jobs \cup {NoLock}
      /\ \A k \in Jobs : job[k].pc \in {"select", "commit"} <=> lock = k
  BY RetentionTypes
<1>2. job' \in [Jobs -> Job] /\ job'[j] = w /\ \A k \in Jobs \ {j} : job'[k] = job[k]
  BY <1>1, Zenon
<1>3. lock' \in Jobs \cup {NoLock}
  BY <1>1
<1>4. NoLock \notin Jobs
  BY RetentionFacts
<1>5. \A k \in Jobs \ {j} : lock' = k <=> lock = k
  BY <1>4, OnlyTwo
<1>6. ASSUME NEW k \in Jobs
      PROVE  job'[k].pc \in {"select", "commit"} <=> lock' = k
  <2>1. CASE k = j
    BY <1>2, <2>1, Zenon
  <2>2. CASE k # j
    <3>1. job'[k] = job[k] /\ (lock' = k <=> lock = k)
      BY <1>2, <1>5, <2>2, Zenon
    <3>2. job[k].pc \in {"select", "commit"} <=> lock = k
      BY <1>1, Zenon
    <3> QED
      BY <3>1, <3>2
  <2> QED
    BY <2>1, <2>2
<1>7. \A i \in table' : Row(i)'.kind = "detail" => Row(i)'.log \in table'
  BY Zenon DEF Row
<1> QED
  BY <1>1, <1>2, <1>3, <1>6, <1>7, Zenon DEF RetentionTypeOK

-----------------------------------------------------------------------------
(* The steps of a job *)

\* A step that changes only a job and the lock.
LEMMA OnlyJob ==
    ASSUME RetentionInv, NEW j \in Jobs, NEW w \in Job, job' = [job EXCEPT ![j] = w],
           UNCHANGED <<table, at, open, payload, rollups, clock, report, written, plan>>,
           lock' \in {lock, j, NoLock}, lock' = lock \/ lock \in {j, NoLock},
           w.pc \in {"select", "commit"} <=> lock' = j,
           w.due \subseteq written, w.ids \subseteq table, w.pc # "commit" => w.ids = {},
           w.pc = "commit" /\ Operations[w.op] # "logs" => \A i \in w.ids : Row(i).kind # "log",
           DueOK(w)
    PROVE  RetentionInv'
<1>1. /\ table' = table /\ at' = at /\ open' = open /\ rollups' = rollups /\ clock' = clock
      /\ report' = report /\ written' = written /\ plan' = plan
  OBVIOUS
<1>2. Steady
  BY <1>1, Zenon DEF Steady
<1>3. \A i \in table' : Row(i).kind = "detail" => Row(i).log \in table'
  BY <1>1, Zenon DEF RetentionInv, RetentionTypeOK
<1>4. RetentionTypeOK'
  <2>1. table' \subseteq written' /\ written' \subseteq Items /\ rollups' \in [Days -> Nat]
    BY <1>1, RetentionTypes, Zenon
  <2> QED
    BY <1>1, <1>3, <2>1, JobStepTypes
<1>5. RowsOK'
  BY <1>1, Zenon DEF RetentionInv, RowsOK, Row
<1>6. UsageConserved'
  BY <1>1, UsageSame
<1>7. BatchOK(w)'
  BY <1>1, Zenon DEF BatchOK, Row
<1>8. DueOK(w)'
  BY <1>2, <1>4, DueKept
<1>9. written \subseteq written' /\ table \subseteq table'
  BY <1>1
<1>10. JobsOK'
  BY <1>2, <1>4, <1>7, <1>8, <1>9, JobStep
<1>11. \A d \in Days : rollups'[d] >= rollups[d]
  BY <1>1, RetentionTypes
<1>12. ReportsOK'
  BY <1>1, <1>11, RetentionTypes, ReportsKept
<1> QED
  BY <1>4, <1>5, <1>6, <1>10, <1>12, Zenon DEF RetentionInv

\* What is known of the job that moves.
LEMMA TheJob ==
    ASSUME RetentionInv, NEW j \in Jobs
    PROVE  job[j] \in Job /\ BatchOK(job[j]) /\ DueOK(job[j])
BY RetentionTypes, Zenon DEF RetentionInv, JobsOK

LEMMA RunKept ==
    ASSUME RetentionInv, NEW j \in Jobs, RunRetention(j)
    PROVE  RetentionInv'
<1> DEFINE w == [NoJob EXCEPT !.pc = "next", !.now = clock, !.due = AllDue(clock)]
<1>1. /\ job[j].pc \in {"idle", "finished", "stopped"} /\ job' = [job EXCEPT ![j] = w]
      /\ UNCHANGED <<table, at, open, payload, rollups, clock, lock, report, written, plan>>
  BY Zenon DEF RunRetention
<1>2. \A i \in AllDue(clock) : i \in table /\ \E n \in 2..8 : Selects(Operations[n], i, clock)
  BY OperationFacts, Zenon DEF AllDue, Due
<1>3. AllDue(clock) \subseteq written /\ AllDue(clock) \in SUBSET Items
  BY <1>2, RetentionTypes
<1>4. NoJob \in Job /\ NoJob.op = 1 /\ NoJob.ids = {}
  BY OperationFacts DEF NoJob, Job
<1>5. "next" \in {"idle", "next", "select", "commit", "finished", "stopped"} /\ clock \in Nat
  BY RetentionTypes
<1>6. w \in Job /\ w.pc = "next" /\ w.now = clock /\ w.due = AllDue(clock) /\ w.op = 1 /\ w.ids = {}
  BY <1>3, <1>4, <1>5, Zenon DEF Job
<1> HIDE DEF w
<1>7. lock # j
  BY <1>1, RetentionTypes
<1>8. w.pc \notin {"select", "commit"} /\ w.pc # "finished" /\ w.pc # "commit"
  BY <1>6
<1>9. \A n \in 2..8 : ~(n < w.op)
  BY <1>6
<1>10. DueOK(w)
  BY <1>2, <1>6, <1>8, <1>9, Zenon DEF DueOK
<1>11. lock' \in {lock, j, NoLock} /\ lock' = lock /\ (w.pc \in {"select", "commit"} <=> lock' = j)
  BY <1>1, <1>7, <1>8
<1>12. w.due \subseteq written /\ w.ids \subseteq table /\ w.ids = {}
  BY <1>3, <1>6
<1>13. UNCHANGED <<table, at, open, payload, rollups, clock, report, written, plan>>
  BY <1>1
<1> QED
  BY <1>1, <1>6, <1>8, <1>10, <1>11, <1>12, <1>13, OnlyJob

LEMMA StopKept ==
    ASSUME RetentionInv, NEW j \in Jobs, RetentionFails(j) \/ Deadline(j)
    PROVE  RetentionInv'
<1> DEFINE v == job[j]
           w == [v EXCEPT !.pc = "stopped", !.ids = {}]
<1>1. /\ UNCHANGED <<table, at, open, payload, rollups, clock, report, written, plan>>
      /\ \/ v.pc \in {"select", "commit"} /\ job' = [job EXCEPT ![j].pc = "stopped", ![j].ids = {}] /\ lock' = NoLock
         \/ v.pc = "next" /\ job' = [job EXCEPT ![j].pc = "stopped"] /\ lock' = lock
  BY Zenon DEF RetentionFails, Deadline
<1>2. v \in Job /\ BatchOK(v) /\ DueOK(v) /\ job \in [Jobs -> Job]
  BY TheJob, RetentionTypes
<1>3. "stopped" \in {"idle", "next", "select", "commit", "finished", "stopped"} /\ {} \in SUBSET Items
  OBVIOUS
<1>4. w \in Job /\ w.pc = "stopped" /\ w.ids = {} /\ w.due = v.due /\ w.now = v.now
  BY <1>2, <1>3, Zenon DEF Job
<1>5. lock' \in {lock, j, NoLock} /\ (lock' = lock \/ lock \in {j, NoLock}) /\ lock' # j
  <2>1. v.pc \in {"select", "commit"} <=> lock = j
    BY RetentionTypes
  <2>2. NoLock # j
    BY RetentionFacts
  <2>3. CASE v.pc \in {"select", "commit"} /\ lock' = NoLock
    BY <2>1, <2>2, <2>3, Zenon
  <2>4. CASE v.pc = "next" /\ lock' = lock
    <3>1. lock # j
      BY <2>1, <2>4
    <3> QED
      BY <2>4, <3>1, Zenon
  <2> QED
    BY <1>1, <2>3, <2>4, Zenon
<1>6. job' = [job EXCEPT ![j] = w]
  <2>1. CASE job' = [job EXCEPT ![j].pc = "stopped", ![j].ids = {}]
    BY <2>1, <1>2
  <2>2. CASE v.pc = "next" /\ job' = [job EXCEPT ![j].pc = "stopped"]
    <3>1. v.ids = {}
      BY <1>2, <2>2 DEF BatchOK
    <3>2. [v EXCEPT !.pc = "stopped"] = w
      BY <1>2, <3>1 DEF Job
    <3> QED
      BY <2>2, <3>2, Zenon
  <2> QED
    BY <1>1, <2>1, <2>2, Zenon
<1> HIDE DEF w
<1>7. w.pc \notin {"next", "select", "commit"} /\ w.pc # "finished" /\ w.pc # "commit" /\ w.pc \notin {"select", "commit"}
  BY <1>4
<1>8. DueOK(w)
  BY <1>2, <1>4, <1>7, Zenon DEF DueOK
<1>9. w.due \subseteq written /\ w.ids \subseteq table
  BY <1>2, <1>4, Zenon DEF BatchOK
<1>10. UNCHANGED <<table, at, open, payload, rollups, clock, report, written, plan>>
  BY <1>1
<1>11. w.pc \in {"select", "commit"} <=> lock' = j
  BY <1>5, <1>7
<1> QED
  BY <1>4, <1>5, <1>6, <1>7, <1>8, <1>9, <1>10, <1>11, OnlyJob

\* The job after an operation.
Advanced(v, did, missed) ==
    LET progress == v.progress \/ did
        last == [v EXCEPT !.ids = {}, !.missed = @ \/ missed]
    IN  IF v.op < Len(Operations) THEN [last EXCEPT !.pc = "next", !.op = @ + 1, !.progress = progress]
        ELSE IF progress THEN [last EXCEPT !.pc = "next", !.op = 1, !.progress = FALSE]
        ELSE [last EXCEPT !.pc = "finished"]

LEMMA AdvanceIs ==
    ASSUME NEW j, NEW did, NEW missed, Advance(j, did, missed)
    PROVE  job' = [job EXCEPT ![j] = Advanced(job[j], did, missed)]
BY Zenon DEF Advance, Advanced

LEMMA AdvancedFacts ==
    ASSUME NEW v \in Job, NEW did \in BOOLEAN, NEW missed \in BOOLEAN, NEW w, w = Advanced(v, did, missed)
    PROVE  /\ w \in Job /\ w.ids = {} /\ w.due = v.due /\ w.now = v.now /\ w.pc \in {"next", "finished"}
           /\ ~w.missed => ~v.missed /\ ~missed
           /\ v.op < 8 => w.pc = "next" /\ w.op = v.op + 1 /\ (~w.progress => ~v.progress /\ ~did)
           /\ ~(v.op < 8) /\ w.pc = "next" => w.op = 1
           /\ w.pc = "finished" => v.op = 8 /\ ~v.progress /\ ~did
<1> DEFINE progress == v.progress \/ did
           late == v.missed \/ missed
           last == [v EXCEPT !.ids = {}, !.missed = late]
<1>1. Len(Operations) = 8 /\ v.op \in 1..8 /\ v.progress \in BOOLEAN /\ v.missed \in BOOLEAN
  BY OperationFacts, JobTypes
<1>2. progress \in BOOLEAN /\ late \in BOOLEAN /\ {} \in SUBSET Items
  OBVIOUS
<1>3. /\ "next" \in {"idle", "next", "select", "commit", "finished", "stopped"}
      /\ "finished" \in {"idle", "next", "select", "commit", "finished", "stopped"}
      /\ "next" \in {"next", "finished"} /\ "finished" \in {"next", "finished"} /\ "next" # "finished"
      /\ FALSE \in BOOLEAN
  OBVIOUS
<1>4. w = IF v.op < 8 THEN [last EXCEPT !.pc = "next", !.op = @ + 1, !.progress = progress]
          ELSE IF progress THEN [last EXCEPT !.pc = "next", !.op = 1, !.progress = FALSE]
          ELSE [last EXCEPT !.pc = "finished"]
  BY <1>1, Zenon DEF Advanced
<1> HIDE DEF progress, late
<1>5. /\ last \in Job /\ last.ids = {} /\ last.due = v.due /\ last.now = v.now /\ last.missed = late
      /\ last.op = v.op /\ last.progress = v.progress
  BY <1>2, Zenon DEF Job
<1>6. (~late => ~v.missed /\ ~missed) /\ (~progress => ~v.progress /\ ~did)
  BY Zenon DEF late, progress
<1> HIDE DEF last
<1>7. CASE v.op < 8
  <2>1. w = [last EXCEPT !.pc = "next", !.op = last.op + 1, !.progress = progress]
    BY <1>4, <1>7, Zenon
  <2>2. last.op + 1 \in 1..8 /\ last.op + 1 \in 1..Len(Operations) /\ last.op + 1 = v.op + 1
    BY <1>1, <1>5, <1>7
  <2> DEFINE more == last.op + 1
  <2>3. more \in 1..Len(Operations) /\ more = v.op + 1 /\ w = [last EXCEPT !.pc = "next", !.op = more, !.progress = progress]
    BY <2>1, <2>2
  <2> HIDE DEF more
  <2>4. /\ w \in Job /\ w.pc = "next" /\ w.op = more /\ w.progress = progress
        /\ w.ids = last.ids /\ w.due = last.due /\ w.now = last.now /\ w.missed = last.missed
    BY <1>2, <1>3, <1>5, <2>3, Zenon DEF Job
  <2>5. w.ids = {} /\ w.due = v.due /\ w.now = v.now /\ w.missed = late /\ w.op = v.op + 1
    BY <1>5, <2>3, <2>4, Zenon
  <2>6. w.pc \in {"next", "finished"} /\ w.pc # "finished"
    BY <1>3, <2>4, Zenon
  <2> QED
    BY <1>6, <1>7, <2>4, <2>5, <2>6, Zenon
<1>8. CASE ~(v.op < 8) /\ progress
  <2>1. w = [last EXCEPT !.pc = "next", !.op = 1, !.progress = FALSE]
    BY <1>4, <1>8, Zenon
  <2>2. 1 \in 1..Len(Operations)
    BY <1>1
  <2>3. /\ w \in Job /\ w.pc = "next" /\ w.op = 1
        /\ w.ids = last.ids /\ w.due = last.due /\ w.now = last.now /\ w.missed = last.missed
    BY <1>3, <1>5, <2>1, <2>2, Zenon DEF Job
  <2>4. w.ids = {} /\ w.due = v.due /\ w.now = v.now /\ w.missed = late
    BY <1>5, <2>3, Zenon
  <2>5. w.pc \in {"next", "finished"} /\ w.pc # "finished"
    BY <1>3, <2>3, Zenon
  <2> QED
    BY <1>6, <1>8, <2>3, <2>4, <2>5, Zenon
<1>9. CASE ~(v.op < 8) /\ ~progress
  <2>1. w = [last EXCEPT !.pc = "finished"]
    BY <1>4, <1>9, Zenon
  <2>2. /\ w \in Job /\ w.pc = "finished"
        /\ w.ids = last.ids /\ w.due = last.due /\ w.now = last.now /\ w.missed = last.missed
    BY <1>3, <1>5, <2>1, Zenon DEF Job
  <2>3. w.ids = {} /\ w.due = v.due /\ w.now = v.now /\ w.missed = late
    BY <1>5, <2>2, Zenon
  <2>4. w.pc \in {"next", "finished"} /\ w.pc # "next" /\ v.op = 8
    BY <1>1, <1>9, <2>2
  <2> QED
    BY <1>6, <1>9, <2>2, <2>3, <2>4, Zenon
<1> QED
  BY <1>7, <1>8, <1>9, Zenon

\* An operation that is over: what a round did not find is not there.
LEMMA AdvanceDue ==
    ASSUME NEW v \in Job, NEW did \in BOOLEAN, NEW missed \in BOOLEAN, NEW w, w = Advanced(v, did, missed),
           v.pc \in {"next", "commit"}, ~did /\ ~missed => v.pc = "commit" /\ v.ids = {}, DueOK(v)
    PROVE  DueOK(w)
<1>1. /\ w \in Job /\ w.ids = {} /\ w.due = v.due /\ w.now = v.now /\ w.pc \in {"next", "finished"}
      /\ ~w.missed => ~v.missed /\ ~missed
      /\ v.op < 8 => w.pc = "next" /\ w.op = v.op + 1 /\ (~w.progress => ~v.progress /\ ~did)
      /\ ~(v.op < 8) /\ w.pc = "next" => w.op = 1
      /\ w.pc = "finished" => v.op = 8 /\ ~v.progress /\ ~did
  BY AdvancedFacts
<1>2. w.pc # "commit" /\ v.pc \in {"next", "select", "commit"} /\ v.op \in 1..8
  BY <1>1, JobTypes
\* Nothing is left for the operations of this round.
<1> DEFINE None(n) == \A i \in v.due \cap table : ~Selects(Operations[n], i, v.now)
<1>3. ~v.progress /\ ~v.missed => \A n \in 2..8 : n < v.op => None(n)
  BY <1>2, Zenon DEF DueOK
<1>4. ~did /\ ~missed => \A n \in 2..8 : n = v.op => None(n)
  BY Zenon DEF DueOK
<1>5. \A i \in v.due \cap table : \E n \in 2..8 : Selects(Operations[n], i, v.now)
  BY Zenon DEF DueOK
<1> HIDE DEF None
<1>6. w.pc = "next" /\ ~w.progress /\ ~w.missed => \A n \in 2..8 : n < w.op => None(n)
  <2>1. CASE v.op < 8
    <3>1. \A n \in 2..8 : n < w.op => n < v.op \/ n = v.op
      BY <1>1, <1>2, <2>1
    <3> QED
      BY <1>1, <1>3, <1>4, <2>1, <3>1, Zenon
  <2>2. CASE ~(v.op < 8) /\ w.pc = "next"
    <3>1. \A n \in 2..8 : ~(n < w.op)
      BY <1>1, <2>2
    <3> QED
      BY <3>1, Zenon
  <2> QED
    BY <2>1, <2>2, Zenon
<1>7. w.pc = "finished" /\ ~w.missed => \A n \in 2..8 : None(n)
  <2>1. \A n \in 2..8 : v.op = 8 => n < v.op \/ n = v.op
    OBVIOUS
  <2> QED
    BY <1>1, <1>3, <1>4, <2>1, Zenon
<1>8. w.pc = "finished" /\ ~w.missed => w.due \cap table = {}
  BY <1>1, <1>5, <1>7, Zenon DEF None
<1>9. w.pc \in {"next", "select", "commit"} => w.pc = "next"
  BY <1>1
<1> QED
  BY <1>1, <1>2, <1>5, <1>6, <1>8, <1>9, Zenon DEF DueOK, None

LEMMA LockKept ==
    ASSUME RetentionInv, NEW j \in Jobs, retentionTx(j)
    PROVE  RetentionInv'
<1> DEFINE v == job[j]
<1>1. /\ v.pc = "next"
      /\ \/ lock = NoLock /\ lock' = j /\ job' = [job EXCEPT ![j].pc = "select"]
         \/ lock # NoLock /\ Advance(j, FALSE, TRUE) /\ lock' = lock
      /\ UNCHANGED <<table, at, open, payload, rollups, clock, report, written, plan>>
  BY Zenon DEF retentionTx
<1>2. v \in Job /\ BatchOK(v) /\ DueOK(v) /\ job \in [Jobs -> Job]
  BY TheJob, RetentionTypes
<1>3. lock # j /\ v.ids = {} /\ v.due \subseteq written
  BY <1>1, <1>2, RetentionTypes DEF BatchOK
<1>4. UNCHANGED <<table, at, open, payload, rollups, clock, report, written, plan>>
  BY <1>1
<1>5. CASE lock = NoLock /\ lock' = j /\ job' = [job EXCEPT ![j].pc = "select"]
  <2> DEFINE w == [v EXCEPT !.pc = "select"]
  <2>1. "select" \in {"idle", "next", "select", "commit", "finished", "stopped"}
    OBVIOUS
  <2>2. /\ w \in Job /\ w.pc = "select" /\ w.ids = v.ids /\ w.due = v.due /\ w.now = v.now /\ w.op = v.op
        /\ w.progress = v.progress /\ w.missed = v.missed
    BY <1>2, <2>1, Zenon DEF Job
  <2>3. job' = [job EXCEPT ![j] = w]
    BY <1>2, <1>5, Zenon
  <2> HIDE DEF w
  <2>4. w.pc # "commit" /\ w.pc # "finished" /\ v.pc \in {"next", "select", "commit"} /\ w.pc \in {"select", "commit"}
    BY <1>1, <2>2
  <2>5. DueOK(w)
    BY <1>2, <2>2, <2>4, Zenon DEF DueOK
  <2>6. w.due \subseteq written /\ w.ids \subseteq table /\ w.ids = {}
    BY <1>3, <2>2
  <2>7. lock' \in {lock, j, NoLock} /\ lock \in {j, NoLock} /\ (w.pc \in {"select", "commit"} <=> lock' = j)
    BY <1>5, <2>4
  <2> QED
    BY <1>4, <2>2, <2>3, <2>4, <2>5, <2>6, <2>7, OnlyJob
<1>6. CASE Advance(j, FALSE, TRUE) /\ lock' = lock
  <2>1. PICK w : w = Advanced(v, FALSE, TRUE)
    OBVIOUS
  <2>2. job' = [job EXCEPT ![j] = w]
    BY <1>6, <2>1, AdvanceIs
  <2>3. FALSE \in BOOLEAN /\ TRUE \in BOOLEAN /\ v.pc \in {"next", "commit"}
    BY <1>1
  <2>4. w \in Job /\ w.ids = {} /\ w.due = v.due /\ w.pc \in {"next", "finished"}
    <3>1. \A did, missed \in BOOLEAN : w = Advanced(v, did, missed) =>
             w \in Job /\ w.ids = {} /\ w.due = v.due /\ w.pc \in {"next", "finished"}
      BY <1>2, AdvancedFacts
    <3> QED
      BY <2>1, <2>3, <3>1, Zenon
  <2>5. DueOK(w)
    <3>1. \A did, missed \in BOOLEAN :
             w = Advanced(v, did, missed) /\ (~did /\ ~missed => v.pc = "commit" /\ v.ids = {}) => DueOK(w)
      BY <1>2, <2>3, AdvanceDue
    <3> QED
      BY <2>1, <2>3, <3>1, Zenon
  <2>6. w.pc # "commit" /\ w.pc \notin {"select", "commit"} /\ w.due \subseteq written /\ w.ids \subseteq table
    BY <1>3, <2>4
  <2>7. lock' \in {lock, j, NoLock} /\ lock' = lock /\ (w.pc \in {"select", "commit"} <=> lock' = j)
    BY <1>3, <1>6, <2>6
  <2> QED
    BY <1>4, <2>2, <2>4, <2>5, <2>6, <2>7, OnlyJob
<1> QED
  BY <1>1, <1>5, <1>6, Zenon

LEMMA SelectKept ==
    ASSUME RetentionInv, NEW j \in Jobs, SelectBatch(j)
    PROVE  RetentionInv'
<1> DEFINE v == job[j]
           op == Operations[v.op]
           due == Due(op, v.now)
<1>1. /\ v.pc = "select"
      /\ UNCHANGED <<table, at, open, payload, rollups, clock, lock, report, written, plan>>
  BY Zenon DEF SelectBatch
<1>2. PICK ids \in SUBSET due : /\ Cardinality(ids) = Batch \/ (ids = due /\ Cardinality(ids) < Batch)
                                /\ job' = [job EXCEPT ![j].pc = "commit", ![j].ids = ids]
  BY Zenon DEF SelectBatch
<1>3. v \in Job /\ BatchOK(v) /\ DueOK(v) /\ job \in [Jobs -> Job] /\ v.op \in 1..8
  BY TheJob, RetentionTypes, JobTypes
<1>4. lock = j
  BY <1>1, RetentionTypes
<1>5. \A i \in table : i \in due <=> Selects(op, i, v.now)
  BY Zenon DEF Due
<1>6. due \subseteq table
  BY Zenon DEF Due
<1> DEFINE w == [v EXCEPT !.pc = "commit", !.ids = ids]
<1> HIDE DEF due
<1>7. "commit" \in {"idle", "next", "select", "commit", "finished", "stopped"} /\ ids \in SUBSET Items /\ ids \subseteq table
  BY <1>6, RetentionTypes
<1>8. /\ w \in Job /\ w.pc = "commit" /\ w.ids = ids /\ w.due = v.due /\ w.now = v.now /\ w.op = v.op
      /\ w.progress = v.progress /\ w.missed = v.missed
  BY <1>3, <1>7, Zenon DEF Job
<1>9. job' = [job EXCEPT ![j] = w]
  BY <1>2, <1>3, Zenon
<1> HIDE DEF w
<1>10. ids = {} => due = {}
  <2>1. ids = {} => Cardinality(ids) = 0
    BY FS_EmptySet
  <2> QED
    BY <1>2, <2>1, RetentionFacts
<1>11. op # "logs" => \A i \in ids : Row(i).kind # "log"
  <2> SUFFICES ASSUME op # "logs", NEW i \in ids
               PROVE  Row(i).kind # "log"
    OBVIOUS
  <2>1. Selects(op, i, v.now)
    BY <1>5, <1>7, Zenon
  <2>2. CASE v.op = 1
    <3>1. op = "scrub"
      BY <2>2, OperationFacts
    <3>2. Row(i).kind = "event"
      BY <2>1, <3>1 DEF Selects, scrubLifecyclePayloads
    <3> QED
      BY <3>2
  <2>3. CASE v.op \in 2..8
    <3>1. op \in Deletions
      BY <2>3, DeletionFacts
    <3> QED
      BY <2>1, <3>1, SelectsKind
  <2> QED
    BY <1>3, <2>2, <2>3, DeletionFacts
<1>12. DueOK(w)
  <2>1. w.pc # "finished" /\ v.pc \in {"next", "select", "commit"}
    BY <1>1, <1>8
  <2>2. ids = {} => \A i \in table : ~Selects(op, i, v.now)
    BY <1>5, <1>10, Zenon
  <2> QED
    BY <1>3, <1>8, <2>1, <2>2, Zenon DEF DueOK
<1>13. w.due \subseteq written /\ w.ids \subseteq table
  BY <1>3, <1>7, <1>8, Zenon DEF BatchOK
<1>14. Operations[w.op] # "logs" => \A i \in w.ids : Row(i).kind # "log"
  BY <1>8, <1>11, Zenon
<1>15. lock' \in {lock, j, NoLock} /\ lock' = lock /\ (w.pc \in {"select", "commit"} <=> lock' = j)
  BY <1>1, <1>4, <1>8
<1>16. UNCHANGED <<table, at, open, payload, rollups, clock, report, written, plan>>
  BY <1>1
<1> QED
  BY <1>8, <1>9, <1>12, <1>13, <1>14, <1>15, <1>16, OnlyJob

\* A transaction that commits, and what it takes away.
LEMMA CommitKept ==
    ASSUME RetentionInv, NEW j \in Jobs, job[j].pc = "commit", Committed(j),
           table' \subseteq table, rollups' \in [Days -> Nat], \A d \in Days : rollups'[d] >= rollups[d],
           \A i \in table' : Row(i).kind = "detail" => Row(i).log \in table', UsageConserved'
    PROVE  RetentionInv'
<1> DEFINE v == job[j]
           did == v.ids # {}
<1>1. /\ lock' = NoLock /\ Advance(j, did, FALSE)
      /\ at' = at /\ open' = open /\ clock' = clock /\ report' = report /\ written' = written /\ plan' = plan
  BY Zenon DEF Committed
<1>2. v \in Job /\ BatchOK(v) /\ DueOK(v) /\ job \in [Jobs -> Job]
  BY TheJob, RetentionTypes
<1>3. PICK w : w = Advanced(v, did, FALSE)
  OBVIOUS
<1>4. job' = [job EXCEPT ![j] = w]
  BY <1>1, <1>3, AdvanceIs
<1>5. did \in BOOLEAN /\ FALSE \in BOOLEAN /\ v.pc \in {"next", "commit"} /\ (~did /\ ~FALSE => v.pc = "commit" /\ v.ids = {})
  OBVIOUS
<1> HIDE DEF did
<1>6. w \in Job /\ w.ids = {} /\ w.due = v.due /\ w.pc \in {"next", "finished"}
  <2>1. \A done, missed \in BOOLEAN : w = Advanced(v, done, missed) =>
           w \in Job /\ w.ids = {} /\ w.due = v.due /\ w.pc \in {"next", "finished"}
    BY <1>2, AdvancedFacts
  <2> QED
    BY <1>3, <1>5, <2>1, Zenon
<1>7. DueOK(w)
  <2>1. \A done, missed \in BOOLEAN :
           w = Advanced(v, done, missed) /\ (~done /\ ~missed => v.pc = "commit" /\ v.ids = {}) => DueOK(w)
    BY <1>2, <1>5, AdvanceDue
  <2> QED
    BY <1>3, <1>5, <2>1, Zenon
<1>8. lock = j /\ lock' \in {lock, j, NoLock} /\ lock \in {j, NoLock} /\ (w.pc \in {"select", "commit"} <=> lock' = j)
  <2>1. lock = j /\ NoLock # j
    BY RetentionTypes, RetentionFacts
  <2>2. w.pc \notin {"select", "commit"}
    BY <1>6
  <2> QED
    BY <1>1, <2>1, <2>2
<1>9. table' \subseteq written' /\ written' \subseteq Items
  BY <1>1, RetentionTypes, Zenon
<1>10. RetentionTypeOK'
  BY <1>1, <1>4, <1>6, <1>8, <1>9, JobStepTypes
<1>11. Steady
  BY <1>1, Zenon DEF Steady
<1>12. w.due \subseteq written
  BY <1>2, <1>6, Zenon DEF BatchOK
<1>13. DueOK(w)'
  BY <1>7, <1>10, <1>11, <1>12, DueKept
<1>14. BatchOK(w)'
  <2>1. w.pc # "commit"
    BY <1>6
  <2> QED
    BY <1>1, <1>6, <1>12, <2>1, Zenon DEF BatchOK
<1>15. written \subseteq written'
  BY <1>1
<1>16. JobsOK'
  BY <1>4, <1>8, <1>10, <1>11, <1>13, <1>14, <1>15, JobStep
<1>17. ReportsOK'
  BY <1>1, <1>9, <1>15, ReportsKept
<1>18. RowsOK'
  BY <1>1, Zenon DEF RetentionInv, RowsOK, Row
<1> QED
  BY <1>10, <1>16, <1>17, <1>18, Zenon DEF RetentionInv

\* The rows of a batch.
LEMMA BatchFacts ==
    ASSUME RetentionInv, NEW j \in Jobs, NEW ops, Commits(j, ops)
    PROVE  /\ job[j].pc = "commit" /\ Operations[job[j].op] \in ops
           /\ job[j].ids \subseteq table /\ job[j].ids \subseteq Items
           /\ Operations[job[j].op] # "logs" => \A i \in job[j].ids : Row(i).kind # "log"
<1>1. job[j].pc = "commit" /\ Operations[job[j].op] \in ops
  BY Zenon DEF Commits
<1>2. BatchOK(job[j]) /\ table \subseteq Items
  BY TheJob, RetentionTypes
<1> QED
  BY <1>1, <1>2, Zenon DEF BatchOK

\* Details keep their log.
LEMMA LogsStay ==
    ASSUME RetentionInv, NEW i \in table, Row(i).kind = "detail"
    PROVE  i \in written /\ Row(i).log \in table /\ Row(Row(i).log).kind = "log"
<1>1. i \in written /\ Row(i).log \in table
  BY Zenon DEF RetentionInv, RetentionTypeOK
<1> QED
  BY <1>1, DetailFacts

LEMMA ScrubKept ==
    ASSUME RetentionInv, NEW j \in Jobs, ScrubBatch(j)
    PROVE  RetentionInv'
<1>1. Commits(j, {"scrub"}) /\ Committed(j) /\ table' = table /\ rollups' = rollups
  BY Zenon DEF ScrubBatch
<1>2. written' = written /\ plan' = plan
  BY <1>1, Zenon DEF Committed
<1>3. UsageConserved'
  BY <1>1, <1>2, UsageSame
<1>4. \A i \in table' : Row(i).kind = "detail" => Row(i).log \in table'
  BY <1>1, LogsStay
<1>5. rollups' \in [Days -> Nat] /\ (\A d \in Days : rollups'[d] >= rollups[d]) /\ table' \subseteq table
  BY <1>1, RetentionTypes
<1>6. job[j].pc = "commit"
  BY <1>1, BatchFacts
<1> QED
  BY <1>1, <1>3, <1>4, <1>5, <1>6, CommitKept

\* Usage day by day.
LEMMA UsagePoint ==
    ASSUME RetentionInv, NEW d \in Days
    PROVE  /\ rollups[d] + LogUsage(table)[d] = LogUsage(written)[d] /\ Usage[d] = LogUsage(written)[d]
           /\ rollups[d] \in Nat /\ LogUsage(table)[d] \in Nat /\ LogUsage(written)[d] \in Nat
<1>1. Usage = LogUsage(written)
  BY Zenon DEF RetentionInv, UsageConserved
<1>2. Usage[d] = rollups[d] + LogUsage(table)[d]
  BY Zenon DEF Usage, Plus
<1>3. rollups[d] \in Nat /\ LogUsage(table)[d] \in Nat /\ LogUsage(written)[d] \in Nat
  BY RetentionTypes, UsageType
<1> QED
  BY <1>1, <1>2, <1>3

LEMMA UsageFrom ==
    ASSUME plan' = plan, written' \in SUBSET Items,
           \A d \in Days : rollups'[d] + LogUsage(table')[d] = LogUsage(written')[d]
    PROVE  UsageConserved'
<1>1. LogUsage(table)' = LogUsage(table') /\ LogUsage(written)' = LogUsage(written')
  BY Zenon DEF LogUsage, Counted, Row
<1>2. Usage' = [d \in Days |-> rollups'[d] + LogUsage(table)'[d]]
  BY Zenon DEF Usage, Plus
<1>3. LogUsage(written') = [d \in Days |-> LogUsage(written')[d]]
  BY UsageType, Zenon
<1>4. [d \in Days |-> rollups'[d] + LogUsage(table')[d]] = [d \in Days |-> LogUsage(written')[d]]
  BY Zenon
<1> QED
  BY <1>1, <1>2, <1>3, <1>4, Zenon DEF UsageConserved

LEMMA DeleteKept ==
    ASSUME RetentionInv, NEW j \in Jobs, DeleteBatch(j)
    PROVE  RetentionInv'
<1> DEFINE ids == job[j].ids
           ops == {"success", "details", "events", "reservations", "observations", "invitations"}
<1>1. Commits(j, ops) /\ Committed(j) /\ table' = table \ ids /\ rollups' = rollups
  BY Zenon DEF DeleteBatch
<1>2. written' = written /\ plan' = plan
  BY <1>1, Zenon DEF Committed
<1>3. job[j].pc = "commit" /\ ids \subseteq table /\ ids \subseteq Items /\ \A i \in ids : Row(i).kind # "log"
  <2>1. "logs" \notin ops
    OBVIOUS
  <2> HIDE DEF ops
  <2> QED
    BY <1>1, <2>1, BatchFacts
<1>4. \A d \in Days : rollups'[d] + LogUsage(table')[d] = LogUsage(written')[d]
  <2> SUFFICES ASSUME NEW d \in Days
               PROVE  rollups'[d] + LogUsage(table')[d] = LogUsage(written')[d]
    OBVIOUS
  <2>1. table \in SUBSET Items /\ ids \in SUBSET Items /\ {} \in SUBSET Items
    BY <1>3, RetentionTypes
  <2>2. /\ LogUsage({})[d] \in Nat /\ LogUsage(table \ ids)[d] \in Nat
        /\ LogUsage({})[d] + LogUsage(table \ ids)[d] = LogUsage(table)[d]
    BY <1>3, <2>1, UsageOfRest
  <2>3. LogUsage({})[d] = 0
    BY <2>1, NoUsageWithoutLogs
  <2>4. /\ rollups[d] + LogUsage(table)[d] = LogUsage(written)[d] /\ rollups[d] \in Nat
        /\ LogUsage(table)[d] \in Nat /\ LogUsage(written)[d] \in Nat
    BY UsagePoint
  <2>5. LogUsage(table \ ids)[d] = LogUsage(table)[d]
    BY <2>2, <2>3
  <2>6. rollups'[d] = rollups[d] /\ LogUsage(table')[d] = LogUsage(table)[d] /\ LogUsage(written')[d] = LogUsage(written)[d]
    BY <1>1, <1>2, <2>5, Zenon
  <2> QED
    BY <2>4, <2>6
<1>5. UsageConserved'
  <2>1. written' \in SUBSET Items
    BY <1>2, RetentionTypes
  <2> QED
    BY <1>2, <1>4, <2>1, UsageFrom
<1>6. \A i \in table' : Row(i).kind = "detail" => Row(i).log \in table'
  <2>1. \A i \in table : Row(i).kind = "detail" => Row(i).log \in table /\ Row(Row(i).log).kind = "log"
    BY LogsStay
  <2> QED
    BY <1>1, <1>3, <2>1, Zenon
<1>7. rollups' \in [Days -> Nat] /\ (\A d \in Days : rollups'[d] >= rollups[d]) /\ table' \subseteq table
  BY <1>1, RetentionTypes
<1> QED
  BY <1>1, <1>3, <1>5, <1>6, <1>7, CommitKept

LEMMA CompactKept ==
    ASSUME RetentionInv, NEW j \in Jobs, compactRequestLogs(j)
    PROVE  RetentionInv'
<1> DEFINE ids == job[j].ids
           gone == ids \cup Attached(ids)
<1>1. /\ Commits(j, {"logs"}) /\ Committed(j) /\ table' = table \ gone
      /\ rollups' = [d \in Days |-> rollups[d] + LogUsage(ids)[d]]
  BY Zenon DEF compactRequestLogs, Plus
<1>2. written' = written /\ plan' = plan
  BY <1>1, Zenon DEF Committed
<1>3. job[j].pc = "commit" /\ ids \subseteq table /\ ids \in SUBSET Items
  BY <1>1, BatchFacts
<1>4. /\ \A i \in Attached(ids) : i \in table /\ Row(i).kind \in {"detail", "event"} /\ Row(i).log \in ids
      /\ \A i \in table : Row(i).kind = "detail" /\ Row(i).log \in ids => i \in Attached(ids)
  BY DEF Attached
<1>5. gone \in SUBSET Items /\ table \in SUBSET Items
  BY <1>3, <1>4, RetentionTypes
<1>6. \A i \in gone \ ids : Row(i).kind # "log"
  BY <1>4
<1>7. \A d \in Days : LogUsage(ids)[d] \in Nat /\ rollups[d] \in Nat
  BY <1>3, UsageType, RetentionTypes
<1>8. rollups' \in [Days -> Nat] /\ \A d \in Days : rollups'[d] >= rollups[d]
  <2>1. \A d \in Days : rollups[d] + LogUsage(ids)[d] \in Nat /\ rollups[d] + LogUsage(ids)[d] >= rollups[d]
    BY <1>7
  <2> QED
    BY <1>1, <2>1, Zenon
<1>9. \A d \in Days : rollups'[d] + LogUsage(table')[d] = LogUsage(written')[d]
  <2> SUFFICES ASSUME NEW d \in Days
               PROVE  rollups'[d] + LogUsage(table')[d] = LogUsage(written')[d]
    OBVIOUS
  <2>1. ids \subseteq gone
    OBVIOUS
  <2> HIDE DEF gone, ids
  <2>2. /\ LogUsage(ids)[d] \in Nat /\ LogUsage(table \ gone)[d] \in Nat
        /\ LogUsage(ids)[d] + LogUsage(table \ gone)[d] = LogUsage(table)[d]
    BY <1>3, <1>5, <1>6, <2>1, UsageOfRest
  <2>3. /\ rollups[d] + LogUsage(table)[d] = LogUsage(written)[d] /\ rollups[d] \in Nat
        /\ LogUsage(table)[d] \in Nat /\ LogUsage(written)[d] \in Nat
    BY UsagePoint
  <2>4. /\ rollups'[d] = rollups[d] + LogUsage(ids)[d] /\ LogUsage(table')[d] = LogUsage(table \ gone)[d]
        /\ LogUsage(written')[d] = LogUsage(written)[d]
    BY <1>1, <1>2, Zenon
  <2> QED
    BY <2>2, <2>3, <2>4
<1>10. UsageConserved'
  <2>1. written' \in SUBSET Items
    BY <1>2, RetentionTypes
  <2> QED
    BY <1>2, <1>9, <2>1, UsageFrom
<1>11. \A i \in table' : Row(i).kind = "detail" => Row(i).log \in table'
  <2> SUFFICES ASSUME NEW i \in table', Row(i).kind = "detail"
               PROVE  Row(i).log \in table'
    OBVIOUS
  <2>1. i \in table /\ i \notin Attached(ids)
    BY <1>1
  <2>2. Row(i).log \in table /\ Row(Row(i).log).kind = "log" /\ Row(i).log \notin ids
    BY <1>4, <2>1, LogsStay
  <2>3. Row(i).log \notin Attached(ids)
    BY <1>4, <2>2
  <2> QED
    BY <1>1, <2>2, <2>3
<1>12. table' \subseteq table
  BY <1>1
<1> QED
  BY <1>1, <1>3, <1>8, <1>10, <1>11, <1>12, CommitKept

-----------------------------------------------------------------------------
(* The steps of others *)

LEMMA OtherTypes ==
    ASSUME RetentionInv, plan' = plan, job' = job, lock' = lock, rollups' = rollups,
           table' \subseteq written', written' \subseteq Items, report' \in [Reports -> ReportType],
           \A i \in table' : Row(i).kind = "detail" => Row(i).log \in table'
    PROVE  RetentionTypeOK'
<1>1. \A i \in table' : Row(i)'.kind = "detail" => Row(i)'.log \in table'
  BY Zenon DEF Row
<1> QED
  BY <1>1, Zenon DEF RetentionInv, RetentionTypeOK

LEMMA WriteKept ==
    ASSUME RetentionInv, NEW i \in Items, WriteLog(i)
    PROVE  RetentionInv'
<1> DEFINE new == {i} \cup {k \in DOMAIN plan.rows : Row(k).kind = "detail" /\ Row(k).log = i}
<1>1. /\ i \in DOMAIN plan.rows /\ i \notin written /\ Row(i).kind = "log"
      /\ table' = table \cup new /\ written' = written \cup new
      /\ at' = [k \in Items |-> IF k \in new THEN clock ELSE at[k]]
      /\ open' = open /\ rollups' = rollups /\ clock' = clock /\ lock' = lock /\ job' = job
      /\ report' = report /\ plan' = plan
  BY Zenon DEF WriteLog
<1>2. /\ \A k \in new : k \in DOMAIN plan.rows /\ (k # i => Row(k).kind = "detail" /\ Row(k).log = i)
      /\ i \in new
  BY <1>1, Zenon
<1> HIDE DEF new
<1>3. DOMAIN plan.rows \subseteq Items
  BY RetentionTypes, PlansAssumption, Zenon
<1>4. new \subseteq Items /\ new \cap written = {}
  <2>1. new \subseteq Items
    BY <1>2, <1>3
  <2>2. ASSUME NEW k \in new, k \in written
        PROVE  FALSE
    <3>1. CASE k = i
      BY <1>1, <2>2, <3>1
    <3>2. CASE k # i
      <4>1. Row(k).kind = "detail" /\ Row(k).log = i
        BY <1>2, <3>2
      <4>2. i \in written
        BY <2>2, <4>1, DetailFacts
      <4> QED
        BY <1>1, <4>2
    <3> QED
      BY <3>1, <3>2
  <2> QED
    BY <2>1, <2>2
<1>5. table' \subseteq written' /\ written' \subseteq Items /\ written \subseteq written' /\ table \subseteq table'
  BY <1>1, <1>4, RetentionTypes
<1>6. \A k \in table' : Row(k).kind = "detail" => Row(k).log \in table'
  <2> SUFFICES ASSUME NEW k \in table', Row(k).kind = "detail"
               PROVE  Row(k).log \in table'
    OBVIOUS
  <2>1. CASE k \in table
    BY <1>1, <2>1, LogsStay
  <2>2. CASE k \in new
    <3>1. k # i
      BY <1>1
    <3> QED
      BY <1>1, <1>2, <2>2, <3>1
  <2> QED
    BY <1>1, <2>1, <2>2
<1>7. RetentionTypeOK'
  BY <1>1, <1>5, <1>6, RetentionTypes, OtherTypes
<1>8. Steady
  <2>1. \A k \in written : k \in Items /\ k \notin new
    BY <1>4, RetentionTypes
  <2>2. \A k \in written : at'[k] = at[k]
    BY <1>1, <2>1, Zenon
  <2>3. \A k \in written : k \in table' => k \in table
    BY <1>1, <2>1
  <2> QED
    BY <1>1, <2>2, <2>3, Zenon DEF Steady
<1>9. JobsOK'
  BY <1>1, <1>5, <1>7, <1>8, NoJobStep
<1>10. RowsOK'
  <2>1. at' \in [Items -> Nat]
    BY <1>1, RetentionTypes
  <2>2. plan' \in Plans /\ clock' \in Nat /\ written' \subseteq DOMAIN plan'.rows
    <3>1. written \subseteq DOMAIN plan.rows /\ plan \in Plans /\ clock \in Nat
      BY RetentionTypes
    <3>2. written' \subseteq DOMAIN plan.rows
      BY <1>1, <1>2, <3>1
    <3> QED
      BY <1>1, <3>1, <3>2, Zenon
  <2>3. \A k \in written' : Row(k).kind = "detail" => Row(k).log \in written'
    <3> SUFFICES ASSUME NEW k \in written', Row(k).kind = "detail"
                 PROVE  Row(k).log \in written'
      OBVIOUS
    <3>1. CASE k \in written
      BY <1>1, <3>1, DetailFacts
    <3>2. CASE k \in new
      <4>1. k # i
        BY <1>1
      <4> QED
        BY <1>1, <1>2, <3>2, <4>1
    <3> QED
      BY <1>1, <3>1, <3>2
  <2>4. \A k \in written' : Row(k)'.kind = "detail" => Row(k)'.log \in written'
    BY <1>1, <2>3, Zenon DEF Row
  <2> QED
    BY <2>1, <2>2, <2>4, Zenon DEF RowsOK
<1>11. \A d \in Days : rollups'[d] + LogUsage(table')[d] = LogUsage(written')[d]
  <2> SUFFICES ASSUME NEW d \in Days
               PROVE  rollups'[d] + LogUsage(table')[d] = LogUsage(written')[d]
    OBVIOUS
  <2>1. table \in SUBSET Items /\ written \in SUBSET Items /\ new \in SUBSET Items /\ table \cap new = {} /\ written \cap new = {}
    BY <1>4, RetentionTypes
  <2>2. LogUsage(table \cup new)[d] = LogUsage(table)[d] + LogUsage(new)[d]
    BY <2>1, UsageOfUnion
  <2>3. LogUsage(written \cup new)[d] = LogUsage(written)[d] + LogUsage(new)[d]
    BY <2>1, UsageOfUnion
  <2>4. LogUsage(new)[d] \in Nat
    BY <2>1, UsageType
  <2>5. /\ rollups[d] + LogUsage(table)[d] = LogUsage(written)[d] /\ rollups[d] \in Nat
        /\ LogUsage(table)[d] \in Nat /\ LogUsage(written)[d] \in Nat
    BY UsagePoint
  <2>6. /\ rollups'[d] = rollups[d] /\ LogUsage(table')[d] = LogUsage(table)[d] + LogUsage(new)[d]
        /\ LogUsage(written')[d] = LogUsage(written)[d] + LogUsage(new)[d]
    BY <1>1, <2>2, <2>3, Zenon
  <2> QED
    BY <2>4, <2>5, <2>6
<1>12. UsageConserved'
  <2>1. written' \in SUBSET Items
    BY <1>5
  <2> QED
    BY <1>1, <1>11, <2>1, UsageFrom
<1>13. ReportsOK'
  <2>1. rollups' \in [Days -> Nat] /\ \A d \in Days : rollups'[d] >= rollups[d]
    BY <1>1, RetentionTypes
  <2> QED
    BY <1>1, <1>5, <2>1, ReportsKept
<1> QED
  BY <1>7, <1>9, <1>10, <1>12, <1>13, Zenon DEF RetentionInv

\* A step that moves no row.
LEMMA RowsStay ==
    ASSUME RetentionInv, UNCHANGED <<table, rollups, lock, job, written, plan>>,
           clock' \in Nat, at' \in [Items -> Nat], Steady, report' \in [Reports -> ReportType], ReportsOK'
    PROVE  RetentionInv'
<1>1. table' = table /\ rollups' = rollups /\ lock' = lock /\ job' = job /\ written' = written /\ plan' = plan
  OBVIOUS
<1>2. \A k \in table' : Row(k).kind = "detail" => Row(k).log \in table'
  BY <1>1, LogsStay
<1>3. table' \subseteq written' /\ written' \subseteq Items /\ written \subseteq written' /\ table \subseteq table'
  BY <1>1, RetentionTypes
<1>4. RetentionTypeOK'
  BY <1>1, <1>2, <1>3, OtherTypes
<1>5. JobsOK'
  BY <1>1, <1>3, <1>4, NoJobStep
<1>6. RowsOK'
  BY <1>1, Zenon DEF RetentionInv, RowsOK, Row
<1>7. UsageConserved'
  BY <1>1, UsageSame
<1> QED
  BY <1>4, <1>5, <1>6, <1>7, Zenon DEF RetentionInv

LEMMA CloseKept ==
    ASSUME RetentionInv, NEW i \in Items, CloseRow(i)
    PROVE  RetentionInv'
<1>1. /\ i \in open /\ Row(i).kind \in {"reservation", "invitation"} /\ open' = open \ {i}
      /\ at' = IF Row(i).kind = "reservation" THEN [at EXCEPT ![i] = clock] ELSE at
      /\ UNCHANGED <<table, rollups, clock, lock, job, report, written, plan>>
  BY Zenon DEF CloseRow
<1>2. at \in [Items -> Nat] /\ clock \in Nat /\ rollups \in [Days -> Nat] /\ written \subseteq Items /\ report \in [Reports -> ReportType]
  BY RetentionTypes
<1>3. at' \in [Items -> Nat] /\ \A k \in Items : k # i => at'[k] = at[k]
  BY <1>1, <1>2
<1>4. Steady
  <2>1. plan' = plan /\ table' = table
    BY <1>1
  <2>2. ASSUME NEW k \in written, k # i
        PROVE  at'[k] = at[k] /\ (k \in open') = (k \in open)
    BY <1>1, <1>2, <1>3, <2>2
  <2> QED
    BY <1>1, <2>1, <2>2, Zenon DEF Steady
<1>5. UNCHANGED <<table, rollups, lock, job, written, plan>> /\ clock' \in Nat /\ report' = report /\ rollups' = rollups
      /\ plan' = plan /\ written \subseteq written' /\ written' \subseteq Items
  BY <1>1, <1>2
<1>6. \A d \in Days : rollups'[d] >= rollups[d]
  BY <1>2, <1>5
<1>7. ReportsOK'
  BY <1>2, <1>5, <1>6, ReportsKept
<1> QED
  BY <1>2, <1>3, <1>4, <1>5, <1>7, RowsStay

LEMMA DayKept ==
    ASSUME RetentionInv, NextDay
    PROVE  RetentionInv'
<1>1. clock' = clock + 1 /\ at' = at /\ open' = open /\ UNCHANGED <<table, rollups, lock, job, report, written, plan>>
  BY Zenon DEF NextDay
<1>2. at \in [Items -> Nat] /\ clock \in Nat /\ rollups \in [Days -> Nat] /\ written \subseteq Items /\ report \in [Reports -> ReportType]
  BY RetentionTypes
<1>3. clock' \in Nat /\ at' \in [Items -> Nat] /\ report' = report /\ rollups' = rollups /\ table' = table
      /\ plan' = plan /\ written \subseteq written' /\ written' \subseteq Items
  BY <1>1, <1>2
<1>4. Steady
  BY <1>1, <1>3, Zenon DEF Steady
<1>5. \A d \in Days : rollups'[d] >= rollups[d]
  BY <1>2, <1>3
<1>6. ReportsOK'
  BY <1>2, <1>3, <1>5, ReportsKept
<1> QED
  BY <1>1, <1>2, <1>3, <1>4, <1>6, RowsStay

\* A step of one report.
LEMMA ReportStep ==
    ASSUME RetentionInv, OnlyReport, NEW q \in Reports, NEW r \in ReportType, report' = [report EXCEPT ![q] = r],
           ReportOK(r, rollups, LogUsage(written))
    PROVE  RetentionInv'
<1>1. /\ at' = at /\ open' = open /\ clock' = clock /\ rollups' = rollups /\ table' = table /\ written' = written
      /\ plan' = plan /\ UNCHANGED <<table, rollups, lock, job, written, plan>>
  BY Zenon DEF OnlyReport
<1>2. at \in [Items -> Nat] /\ clock \in Nat /\ report \in [Reports -> ReportType]
  BY RetentionTypes
<1>3. report' \in [Reports -> ReportType] /\ report'[q] = r /\ \A p \in Reports \ {q} : report'[p] = report[p]
  BY <1>2, Zenon
<1>4. LogUsage(written)' = LogUsage(written)
  BY <1>1, Zenon DEF LogUsage, Counted, Row
<1>5. \A p \in Reports : ReportOK(report[p], rollups, LogUsage(written))
  BY Zenon DEF RetentionInv, ReportsOK
<1>6. \A p \in Reports : ReportOK(report'[p], rollups, LogUsage(written))
  BY <1>3, <1>5, Zenon
<1>7. ReportsOK'
  BY <1>1, <1>4, <1>6, Zenon DEF ReportsOK
<1>8. Steady
  BY <1>1, Zenon DEF Steady
<1> QED
  BY <1>1, <1>2, <1>3, <1>7, <1>8, RowsStay

\* The usage a report reads.
LEMMA ReadFacts ==
    ASSUME RetentionInv
    PROVE  /\ Read(1) = LogUsage(table) /\ Read(2) = rollups
           /\ LogUsage(table) \in [Days -> Nat] /\ rollups \in [Days -> Nat] /\ Usage \in [Days -> Nat]
           /\ \A d \in Days : Usage[d] = LogUsage(written)[d] /\ Usage[d] = LogUsage(table)[d] + rollups[d]
<1>1. ReadOrder[1] = "logs" /\ ReadOrder[2] # "logs"
  BY DEF ReadOrder
<1>2. Read(1) = LogUsage(table) /\ Read(2) = rollups
  BY <1>1, Zenon DEF Read
<1>3. LogUsage(table) \in [Days -> Nat] /\ LogUsage(written) \in [Days -> Nat] /\ rollups \in [Days -> Nat]
  BY RetentionTypes, UsageType
<1>4. Usage = LogUsage(written)
  BY Zenon DEF RetentionInv, UsageConserved
<1>5. \A d \in Days : Usage[d] = LogUsage(table)[d] + rollups[d]
  <2> SUFFICES ASSUME NEW d \in Days
               PROVE  Usage[d] = LogUsage(table)[d] + rollups[d]
    OBVIOUS
  <2>1. /\ rollups[d] + LogUsage(table)[d] = LogUsage(written)[d] /\ Usage[d] = LogUsage(written)[d]
        /\ rollups[d] \in Nat /\ LogUsage(table)[d] \in Nat
    BY UsagePoint
  <2> QED
    BY <2>1
<1> QED
  BY <1>2, <1>3, <1>4, <1>5, Zenon

LEMMA UsageReportKept ==
    ASSUME RetentionInv, NEW q \in Reports, UsageReport(q)
    PROVE  RetentionInv'
<1> DEFINE r == [kind |-> "usage", pc |-> "reading", seen |-> Read(1), low |-> Usage]
<1>1. report' = [report EXCEPT ![q] = r] /\ OnlyReport
  BY Zenon DEF UsageReport
<1>2. /\ Read(1) = LogUsage(table) /\ LogUsage(table) \in [Days -> Nat] /\ rollups \in [Days -> Nat] /\ Usage \in [Days -> Nat]
      /\ \A d \in Days : Usage[d] = LogUsage(table)[d] + rollups[d]
  BY ReadFacts
<1>3. r \in ReportType /\ r.kind = "usage" /\ r.pc = "reading" /\ r.seen = LogUsage(table) /\ r.low = Usage
  BY <1>2 DEF ReportType
<1> HIDE DEF r
<1>4. \A d \in Days : LogUsage(table)[d] + rollups[d] >= Usage[d]
  BY <1>2
<1>5. ReportOK(r, rollups, LogUsage(written))
  BY <1>3, <1>4 DEF ReportOK
<1> QED
  BY <1>1, <1>3, <1>5, ReportStep

LEMMA SecondKept ==
    ASSUME RetentionInv, NEW q \in Reports, ReportSecond(q)
    PROVE  RetentionInv'
<1> DEFINE old == report[q]
           seen == Plus(old.seen, Read(2))
           r == [old EXCEPT !.pc = "done", !.seen = seen]
<1>1. old.pc = "reading" /\ report' = [report EXCEPT ![q].pc = "done", ![q].seen = seen] /\ OnlyReport
  BY Zenon DEF ReportSecond
<1>2. Read(2) = rollups /\ rollups \in [Days -> Nat]
  BY ReadFacts
<1>3. old \in ReportType /\ report \in [Reports -> ReportType] /\ ReportOK(old, rollups, LogUsage(written))
  BY RetentionTypes, Zenon DEF RetentionInv, ReportsOK
<1>4. old.seen \in [Days -> Nat] /\ old.low \in [Days -> Nat]
  BY <1>3, Zenon DEF ReportType
<1>5. seen = [d \in Days |-> old.seen[d] + rollups[d]]
  BY <1>2, Zenon DEF Plus
<1>6. seen \in [Days -> Nat]
  BY <1>2, <1>4, <1>5
<1>7. \A d \in Days : seen[d] >= old.low[d]
  <2>1. old.kind = "usage" /\ \A d \in Days : old.seen[d] + rollups[d] >= old.low[d]
    BY <1>1, <1>3, Zenon DEF ReportOK
  <2> QED
    BY <1>5, <2>1, Zenon
<1>8. old.kind = "usage"
  BY <1>1, <1>3, Zenon DEF ReportOK
<1> HIDE DEF seen
<1>9. "done" \in {"new", "reading", "done"}
  OBVIOUS
<1>10. r \in ReportType /\ r.kind = old.kind /\ r.pc = "done" /\ r.seen = seen /\ r.low = old.low
  BY <1>3, <1>6, <1>9, Zenon DEF ReportType
<1>11. report' = [report EXCEPT ![q] = r]
  BY <1>1, <1>3, Zenon
<1> HIDE DEF r
<1>12. ReportOK(r, rollups, LogUsage(written))
  BY <1>7, <1>8, <1>10 DEF ReportOK
<1> QED
  BY <1>1, <1>10, <1>11, <1>12, ReportStep

LEMMA HeatmapKept ==
    ASSUME RetentionInv, NEW q \in Reports, TokenHeatmap(q)
    PROVE  RetentionInv'
<1> DEFINE r == [kind |-> "heatmap", pc |-> "done", seen |-> Usage, low |-> Usage]
<1>1. report' = [report EXCEPT ![q] = r] /\ OnlyReport
  BY Zenon DEF TokenHeatmap
<1>2. Usage \in [Days -> Nat] /\ \A d \in Days : Usage[d] = LogUsage(written)[d]
  BY ReadFacts
<1>3. r \in ReportType /\ r.kind = "heatmap" /\ r.pc = "done" /\ r.seen = Usage /\ r.low = Usage
  BY <1>2 DEF ReportType
<1> HIDE DEF r
<1>4. \A d \in Days : Usage[d] <= Usage[d] /\ Usage[d] <= LogUsage(written)[d]
  BY <1>2
<1>5. ReportOK(r, rollups, LogUsage(written))
  BY <1>3, <1>4 DEF ReportOK
<1> QED
  BY <1>1, <1>3, <1>5, ReportStep

LEMMA RetentionStarts ==
    ASSUME RetentionInit
    PROVE  RetentionInv
<1>1. /\ plan \in Plans /\ table = {i \in DOMAIN plan.rows : ~plan.rows[i].later} /\ at = [i \in Items |-> 0]
      /\ rollups = NoUsage /\ clock = plan.clock /\ lock = NoLock
      /\ job = [j \in Jobs |-> NoJob] /\ report = [q \in Reports |-> NoReport] /\ written = table
  BY Zenon DEF RetentionInit
<1>2. /\ DOMAIN plan.rows \subseteq Items /\ plan.clock \in Nat
      /\ \A i \in DOMAIN plan.rows : plan.rows[i].kind = "detail" =>
            /\ plan.rows[i].log \in DOMAIN plan.rows
            /\ plan.rows[i].later \/ ~plan.rows[plan.rows[i].log].later
  BY <1>1, PlansAssumption, Zenon
<1>3. table \subseteq DOMAIN plan.rows /\ table \subseteq Items /\ written = table
  BY <1>1, <1>2
<1>4. \A i \in table : Row(i).kind = "detail" => Row(i).log \in table
  BY <1>1, <1>2, Zenon DEF Row
<1>5. NoJob \in Job /\ NoJob.pc = "idle" /\ NoJob.ids = {} /\ NoJob.due = {}
  BY OperationFacts DEF NoJob, Job
<1>6. NoUsage \in [Days -> Nat] /\ \A d \in Days : NoUsage[d] = 0
  BY DEF NoUsage
<1>7. NoReport \in ReportType /\ NoReport.pc = "new"
  BY <1>6 DEF NoReport, ReportType
<1>8. job \in [Jobs -> Job] /\ report \in [Reports -> ReportType] /\ (\A j \in Jobs : job[j] = NoJob)
      /\ (\A q \in Reports : report[q] = NoReport)
  BY <1>1, <1>5, <1>7, Zenon
<1>9. \A j \in Jobs : job[j].pc \in {"select", "commit"} <=> lock = j
  <2>1. NoLock \notin Jobs /\ NoJob.pc \notin {"select", "commit"}
    BY <1>5, RetentionFacts
  <2> QED
    BY <1>1, <1>8, <2>1, Zenon
<1>10. RetentionTypeOK
  BY <1>1, <1>3, <1>4, <1>6, <1>8, <1>9, Zenon DEF RetentionTypeOK
<1>11. RowsOK
  <2>1. at \in [Items -> Nat] /\ clock \in Nat
    BY <1>1, <1>2
  <2> QED
    BY <1>1, <1>3, <1>4, <2>1, Zenon DEF RowsOK
<1>12. UsageConserved
  <2>1. LogUsage(table) \in [Days -> Nat]
    BY <1>3, UsageType
  <2>2. Usage = [d \in Days |-> NoUsage[d] + LogUsage(table)[d]]
    BY <1>1, Zenon DEF Usage, Plus
  <2>3. \A d \in Days : NoUsage[d] + LogUsage(table)[d] = LogUsage(table)[d]
    BY <1>6, <2>1
  <2>4. Usage = LogUsage(table)
    BY <2>1, <2>2, <2>3, Zenon
  <2> QED
    BY <1>1, <2>4, Zenon DEF UsageConserved
<1>13. JobsOK
  <2>1. NoJob.pc # "commit" /\ NoJob.pc # "finished" /\ NoJob.pc \notin {"next", "select", "commit"}
    BY <1>5
  <2>2. BatchOK(NoJob) /\ DueOK(NoJob)
    BY <1>5, <2>1, Zenon DEF BatchOK, DueOK
  <2> QED
    BY <1>8, <2>2, Zenon DEF JobsOK
<1>14. ReportsOK
  <2>1. NoReport.pc # "reading" /\ NoReport.pc # "done"
    BY <1>7
  <2>2. ReportOK(NoReport, rollups, LogUsage(written))
    BY <2>1, Zenon DEF ReportOK
  <2> QED
    BY <1>8, <2>2, Zenon DEF ReportsOK
<1> QED
  BY <1>10, <1>11, <1>12, <1>13, <1>14, Zenon DEF RetentionInv

LEMMA RetentionStep ==
    ASSUME RetentionInv, [RetentionNext]_retentionVars
    PROVE  RetentionInv'
<1>1. ASSUME NEW j \in Jobs, \/ RunRetention(j) \/ retentionTx(j) \/ SelectBatch(j) \/ ScrubBatch(j)
                             \/ DeleteBatch(j) \/ compactRequestLogs(j) \/ RetentionFails(j) \/ Deadline(j)
      PROVE  RetentionInv'
  BY <1>1, RunKept, LockKept, SelectKept, ScrubKept, DeleteKept, CompactKept, StopKept, Zenon
<1>2. ASSUME NEW i \in Items, WriteLog(i) \/ CloseRow(i)
      PROVE  RetentionInv'
  BY <1>2, WriteKept, CloseKept, Zenon
<1>3. ASSUME NEW q \in Reports, UsageReport(q) \/ ReportSecond(q) \/ TokenHeatmap(q)
      PROVE  RetentionInv'
  BY <1>3, UsageReportKept, SecondKept, HeatmapKept, Zenon
<1>4. CASE UNCHANGED retentionVars
  <2>1. /\ at' = at /\ open' = open /\ clock' = clock /\ rollups' = rollups /\ table' = table /\ written' = written
        /\ plan' = plan /\ report' = report /\ UNCHANGED <<table, rollups, lock, job, written, plan>>
    BY <1>4, Zenon DEF retentionVars
  <2>2. LogUsage(written)' = LogUsage(written)
    BY <2>1, Zenon DEF LogUsage, Counted, Row
  <2>3. ReportsOK'
    BY <2>1, <2>2, Zenon DEF RetentionInv, ReportsOK
  <2>4. Steady
    BY <2>1, Zenon DEF Steady
  <2>5. clock' \in Nat /\ at' \in [Items -> Nat] /\ report' \in [Reports -> ReportType]
    BY <2>1, RetentionTypes
  <2> QED
    BY <2>1, <2>3, <2>4, <2>5, RowsStay
<1> QED
  BY <1>1, <1>2, <1>3, <1>4, DayKept, Zenon DEF RetentionNext

-----------------------------------------------------------------------------
(* The theorems *)

\* RunRetention, its operations, and the reports beside them: the inductive
\* invariant.
THEOREM RetentionInvariant == Retention => []RetentionInv
<1>1. RetentionInit => RetentionInv
  BY RetentionStarts
<1>2. RetentionInv /\ [RetentionNext]_retentionVars => RetentionInv'
  BY RetentionStep
<1> QED
  BY <1>1, <1>2, PTL DEF Retention

LEMMA InvKeepsUsage ==
    ASSUME RetentionInv
    PROVE  UsageKept
<1>1. RunLeavesNothingOld
  BY Zenon DEF RetentionInv, JobsOK, DueOK, RunLeavesNothingOld
<1> QED
  BY <1>1, Zenon DEF RetentionInv, UsageKept

LEMMA InvCoversUsage ==
    ASSUME RetentionInv
    PROVE  ReportsCoverUsage
<1>1. ReportCoversUsage
  BY Zenon DEF RetentionInv, ReportsOK, ReportOK, ReportCoversUsage
<1>2. ASSUME NEW q \in Reports, report[q].kind = "heatmap", report[q].pc = "done", NEW d \in Days
      PROVE  report[q].seen[d] \in report[q].low[d]..Usage[d]
  <2>1. report[q] \in ReportType /\ ReportOK(report[q], rollups, LogUsage(written))
    BY RetentionTypes, Zenon DEF RetentionInv, ReportsOK
  <2>2. report[q].low[d] <= report[q].seen[d] /\ report[q].seen[d] <= LogUsage(written)[d]
    BY <1>2, <2>1, Zenon DEF ReportOK
  <2>3. report[q].low \in [Days -> Nat] /\ report[q].seen \in [Days -> Nat]
    BY <2>1, Zenon DEF ReportType
  <2>4. Usage[d] = LogUsage(written)[d] /\ Usage[d] \in Nat
    BY ReadFacts
  <2>5. report[q].low[d] \in Nat /\ report[q].seen[d] \in Nat
    BY <2>3
  <2> QED
    BY <2>2, <2>4, <2>5
<1>3. HeatmapExact
  BY <1>2, Zenon DEF HeatmapExact
<1> QED
  BY <1>1, <1>3, Zenon DEF ReportsCoverUsage

\* compactRequestLogs and RunRetention: whatever batches, failures, jobs and
\* new logs interleave, no usage is lost or counted twice, and a run that ends
\* by itself leaves nothing that was due when it began.
THEOREM UsageCorrect == Retention => []UsageKept
BY RetentionInvariant, InvKeepsUsage, PTL

\* UsageReport, Dashboard and TokenHeatmap: no report misses a request,
\* however compaction moves rows while it is put together.
THEOREM ReportsCorrect == Retention => []ReportsCoverUsage
BY RetentionInvariant, InvCoversUsage, PTL
=============================================================================
