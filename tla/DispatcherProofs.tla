--------------------------- MODULE DispatcherProofs ---------------------------
(***************************************************************************)
(* Theorems about the dispatcher, for every set of packets, every number   *)
(* of CPUs and every capacity of ingressChan.                              *)
(***************************************************************************)
EXTENDS Dispatcher, TLAPS, FiniteSetTheorems, SequenceTheorems

(* The number of workers is a natural number, zero on a single CPU.        *)
LEMMA WorkersNumType == WorkersNum \in Nat
  BY DispatcherAssumption DEF WorkersNum

-----------------------------------------------------------------------------
(* Type correctness, the capacity of ingressChan included.                 *)

(* Every action preserves the type invariant.                              *)
LEMMA TypeStep == TypeOK /\ [Next]_vars => TypeOK'
<1> SUFFICES ASSUME TypeOK, [Next]_vars PROVE TypeOK'
  OBVIOUS
<1> USE DispatcherAssumption DEF TypeOK, queueVars, workerVars, lifeVars
<1>1. ASSUME NEW t \in PayloadTypes, Registry(t) PROVE TypeOK'
  BY <1>1 DEF Registry
<1>2. ASSUME NEW p \in Packets, PushMessage(p) PROVE TypeOK'
  <2>1. CASE Len(ingressChan) < IngressCap
    <3>1. /\ ingressChan' = Append(ingressChan, p)
          /\ accepted' = Append(accepted, p)
          /\ UNCHANGED <<dropped, workerVars, lifeVars>>
      BY <1>2, <2>1 DEF PushMessage
    <3>2. ingressChan' \in Seq(Packets) /\ accepted' \in Seq(Packets)
      BY <3>1
    <3>3. Len(ingressChan') <= IngressCap
      BY <2>1, <3>1
    <3> QED BY <3>1, <3>2, <3>3
  <2>2. CASE Len(ingressChan) >= IngressCap
    BY <1>2, <2>2 DEF PushMessage
  <2> QED BY <1>2, <2>1, <2>2 DEF PushMessage
<1>3. CASE Start
  BY <1>3 DEF Start, Spawn
<1>4. CASE Stop
  BY <1>4 DEF Stop
<1>5. ASSUME NEW w \in Workers, TakePacket(w) PROVE TypeOK'
  <2>1. Head(ingressChan) \in Packets /\ Tail(ingressChan) \in Seq(Packets)
        /\ Len(Tail(ingressChan)) <= IngressCap
    BY <1>5 DEF TakePacket
  <2> QED BY <1>5, <2>1 DEF TakePacket
<1>6. ASSUME NEW w \in Workers, SeeCtxDone(w) PROVE TypeOK'
  BY <1>6 DEF SeeCtxDone
<1>7. ASSUME NEW w \in Workers, ProcessPacket(w) PROVE TypeOK'
  BY <1>7 DEF ProcessPacket, Inspect, Return
<1>8. ASSUME NEW w \in Workers, Route(w) PROVE TypeOK'
  BY <1>8 DEF Route, Return
<1>9. ASSUME NEW w \in Workers, HandleReturns(w) PROVE TypeOK'
  BY <1>9 DEF HandleReturns, Return
<1>10. CASE UNCHANGED vars
  BY <1>10 DEF vars
<1> QED
  BY <1>1, <1>2, <1>3, <1>4, <1>5, <1>6, <1>7, <1>8, <1>9, <1>10
     DEF Next, CallerStep, WorkerStep

(* The initial state has the types.                                        *)
LEMMA InitType == Init => TypeOK
<1> SUFFICES ASSUME Init PROVE TypeOK
  OBVIOUS
<1> USE DEF Init
<1>1. ingressChan \in Seq(Packets) /\ accepted \in Seq(Packets)
  BY EmptySeq
<1>2. Len(ingressChan) <= IngressCap
  BY DispatcherAssumption
<1>3. /\ pc \in [Workers -> {"unborn", "select", "process", "route",
                             "handle", "exited"}]
      /\ packet \in [Workers -> Packets \cup {None}]
      /\ result \in [Packets -> {"none", "refused", "handled"}]
  OBVIOUS
<1> QED BY <1>1, <1>2, <1>3 DEF TypeOK

(* Every variable keeps its type and ingressChan never exceeds its         *)
(* capacity, whatever the peers push and the workers take.                 *)
THEOREM TypeCorrect == Spec => []TypeOK
BY InitType, TypeStep, PTL DEF Spec

-----------------------------------------------------------------------------
(* The inductive invariant: where every admitted packet is.                *)

(* A worker that has not taken a packet has none, and no worker is born    *)
(* before Start.                                                           *)
Idle ==
  /\ \A w \in Workers : pc[w] \in {"unborn", "select"} => packet[w] = None
  /\ ~started => \A w \in Workers : pc[w] = "unborn"

(* The channel is the part of the admission order not yet taken.           *)
Backlog ==
  /\ Len(ingressChan) <= Len(accepted)
  /\ \A i \in 1..Len(ingressChan) : ingressChan[i] = accepted[Taken + i]

(* No packet is admitted twice.                                            *)
Distinct ==
  \A i, j \in 1..Len(accepted) : accepted[i] = accepted[j] => i = j

(* The packets taken are with one worker each, for good: a worker takes    *)
(* one packet in its life.                                                 *)
TakenByOneWorker ==
  /\ \A i \in 1..Taken : \E w \in Workers : packet[w] = accepted[i]
  /\ \A w \in Workers : packet[w] # None =>
       \E i \in 1..Taken : packet[w] = accepted[i]
  /\ \A v, w \in Workers :
       packet[v] = packet[w] /\ packet[v] # None => v = w

Served == {w \in Workers : packet[w] # None}

(* One worker per packet taken.                                            *)
Count == Taken = Cardinality(Served)

IInv == TypeOK /\ Idle /\ Backlog /\ Distinct /\ TakenByOneWorker /\ Count

(* The workers are a finite set, as large as their number.                 *)
LEMMA WorkersFinite ==
  IsFiniteSet(Workers) /\ Cardinality(Workers) = WorkersNum
<1>1. WorkersNum \in Nat
  BY WorkersNumType
<1>2. Cardinality(1..WorkersNum) = IF 1 > WorkersNum THEN 0
                                   ELSE WorkersNum - 1 + 1
  BY <1>1, FS_Interval
<1>3. IsFiniteSet(1..WorkersNum)
  BY <1>1, FS_Interval
<1> QED BY <1>1, <1>2, <1>3 DEF Workers

(* Every step but an admission and a take leaves the queue and the         *)
(* workers' packets alone.                                                 *)
LEMMA StepKinds ==
  ASSUME TypeOK, [Next]_vars
  PROVE  \/ \E p \in Packets : PushMessage(p) /\ Len(ingressChan) < IngressCap
         \/ \E w \in Workers : TakePacket(w)
         \/ UNCHANGED <<ingressChan, accepted, packet>>
<1> USE DEF queueVars, workerVars, lifeVars
<1>1. ASSUME NEW p \in Packets, PushMessage(p),
             ~(Len(ingressChan) < IngressCap)
      PROVE  UNCHANGED <<ingressChan, accepted, packet>>
  BY <1>1 DEF PushMessage
<1>2. ASSUME NEW w \in Workers,
             SeeCtxDone(w) \/ ProcessPacket(w) \/ Route(w) \/ HandleReturns(w)
      PROVE  UNCHANGED <<ingressChan, accepted, packet>>
  BY <1>2 DEF SeeCtxDone, ProcessPacket, Inspect, Route, HandleReturns
<1>3. ASSUME Start \/ Stop \/ \E t \in PayloadTypes : Registry(t)
      PROVE  UNCHANGED <<ingressChan, accepted, packet>>
  BY <1>3 DEF Start, Spawn, Stop, Registry
<1>4. CASE UNCHANGED vars
  BY <1>4 DEF vars
<1> QED BY <1>1, <1>2, <1>3, <1>4 DEF Next, CallerStep, WorkerStep

(* Idle is preserved: a worker gets its packet as it leaves its select.    *)
LEMMA IdleStep == ASSUME TypeOK, Idle, [Next]_vars PROVE Idle'
<1> USE DEF TypeOK, Idle, queueVars, workerVars, lifeVars
<1>1. ASSUME NEW t \in PayloadTypes, Registry(t) PROVE Idle'
  BY <1>1 DEF Registry
<1>2. ASSUME NEW p \in Packets, PushMessage(p) PROVE Idle'
  BY <1>2 DEF PushMessage
<1>3. CASE Start
  BY <1>3 DEF Start, Spawn
<1>4. CASE Stop
  BY <1>4 DEF Stop
<1>5. ASSUME NEW w \in Workers, TakePacket(w) PROVE Idle'
  BY <1>5 DEF TakePacket
<1>6. ASSUME NEW w \in Workers, SeeCtxDone(w) PROVE Idle'
  BY <1>6 DEF SeeCtxDone
<1>7. ASSUME NEW w \in Workers, ProcessPacket(w) PROVE Idle'
  BY <1>7 DEF ProcessPacket, Inspect, Return
<1>8. ASSUME NEW w \in Workers, Route(w) PROVE Idle'
  BY <1>8 DEF Route, Return
<1>9. ASSUME NEW w \in Workers, HandleReturns(w) PROVE Idle'
  BY <1>9 DEF HandleReturns, Return
<1>10. CASE UNCHANGED vars
  BY <1>10 DEF vars
<1> QED
  BY <1>1, <1>2, <1>3, <1>4, <1>5, <1>6, <1>7, <1>8, <1>9, <1>10
     DEF Next, CallerStep, WorkerStep

(* An admission puts a new packet at the end of both sequences.            *)
LEMMA AdmitStep ==
  ASSUME IInv, NEW p \in Packets, PushMessage(p),
         Len(ingressChan) < IngressCap
  PROVE  Backlog' /\ Distinct' /\ TakenByOneWorker' /\ Count'
<1> USE DispatcherAssumption DEF IInv, TypeOK, workerVars, lifeVars
<1>1. /\ ingressChan' = Append(ingressChan, p)
      /\ accepted' = Append(accepted, p)
      /\ packet' = packet
      /\ p \notin Pushed
  BY DEF PushMessage
<1>2. /\ Len(ingressChan') = Len(ingressChan) + 1
      /\ Len(accepted') = Len(accepted) + 1
      /\ Len(ingressChan) \in Nat /\ Len(accepted) \in Nat
      /\ Taken \in Nat /\ Taken <= Len(accepted) /\ Taken' = Taken
  BY <1>1 DEF Backlog, Taken
<1>3. /\ \A i \in 1..Len(accepted) : accepted'[i] = accepted[i]
      /\ accepted'[Len(accepted) + 1] = p
  BY <1>1
<1>4. Backlog'
  <2>1. \A i \in 1..Len(ingressChan) : ingressChan'[i] = accepted'[Taken + i]
    BY <1>1, <1>2, <1>3 DEF Backlog, Taken
  <2>2. ingressChan'[Len(ingressChan) + 1] = p
    BY <1>1
  <2>3. Taken + Len(ingressChan) = Len(accepted)
    BY <1>2 DEF Taken
  <2>4. accepted'[Taken + (Len(ingressChan) + 1)] = p
    BY <1>2, <1>3, <2>3
  <2>5. ASSUME NEW i \in 1..Len(ingressChan')
        PROVE  ingressChan'[i] = accepted'[Taken' + i]
    <3>1. i \in 1..Len(ingressChan) \/ i = Len(ingressChan) + 1
      BY <1>2
    <3> QED BY <1>2, <2>1, <2>2, <2>4, <3>1
  <2>6. Len(ingressChan') <= Len(accepted')
    BY <1>2, <2>3
  <2> QED BY <2>5, <2>6 DEF Backlog
<1>5. \A i \in 1..Len(accepted) : accepted[i] # p
  BY <1>1 DEF Pushed, Admitted
<1>6. Distinct'
  BY <1>2, <1>3, <1>5 DEF Distinct
<1>7. TakenByOneWorker'
  BY <1>1, <1>2, <1>3 DEF TakenByOneWorker
<1>8. Count'
  BY <1>1, <1>2 DEF Count, Served
<1> QED BY <1>4, <1>6, <1>7, <1>8

(* A packet in the channel is with no worker.                              *)
LEMMA QueuedIsFree ==
  ASSUME IInv, NEW j \in 1..Len(ingressChan), NEW v \in Workers
  PROVE  packet[v] # ingressChan[j]
<1> SUFFICES ASSUME packet[v] = ingressChan[j] PROVE FALSE
  OBVIOUS
<1> USE DEF IInv, TypeOK
<1>1. /\ Len(ingressChan) \in Nat /\ Len(accepted) \in Nat
      /\ Taken \in Nat /\ Taken + j \in 1..Len(accepted)
      /\ ingressChan[j] = accepted[Taken + j]
  BY DEF Backlog, Taken
<1>2. packet[v] # None
  BY DispatcherAssumption
<1>3. PICK i \in 1..Taken : packet[v] = accepted[i]
  BY <1>2 DEF TakenByOneWorker
<1> QED BY <1>1, <1>3 DEF Distinct

(* A take moves the oldest packet of the channel to one worker.            *)
LEMMA TakeStep ==
  ASSUME IInv, NEW w \in Workers, TakePacket(w)
  PROVE  Backlog' /\ Distinct' /\ TakenByOneWorker' /\ Count'
<1> USE DispatcherAssumption DEF IInv, TypeOK, lifeVars
<1> DEFINE h == Head(ingressChan)
<1>1. /\ ingressChan # <<>>
      /\ ingressChan' = Tail(ingressChan)
      /\ accepted' = accepted
      /\ packet' = [packet EXCEPT ![w] = h]
      /\ packet[w] = None
  BY DEF TakePacket, Idle
<1>2. /\ Len(ingressChan) \in Nat \ {0} /\ Len(accepted) \in Nat
      /\ Len(ingressChan') = Len(ingressChan) - 1
      /\ Taken \in Nat /\ Taken' = Taken + 1 /\ Taken + 1 <= Len(accepted)
  BY <1>1 DEF Backlog, Taken
<1>3. h = ingressChan[1] /\ h \in Packets /\ h # None
  BY <1>1
<1>4. h = accepted[Taken + 1]
  BY <1>2, <1>3 DEF Backlog
<1>5. Backlog'
  <2>1. \A i \in 1..Len(ingressChan') : ingressChan'[i] = ingressChan[i + 1]
    BY <1>1, <1>2
  <2> QED BY <1>1, <1>2, <2>1 DEF Backlog
<1>6. Distinct'
  BY <1>1 DEF Distinct
<1>7. \A v \in Workers : packet[v] # h
  BY <1>2, <1>3, QueuedIsFree
<1>8. TakenByOneWorker'
  <2>1. \A v \in Workers : packet'[v] = IF v = w THEN h ELSE packet[v]
    BY <1>1
  <2>2. \A i \in 1..Taken' : \E v \in Workers : packet'[v] = accepted'[i]
    <3> SUFFICES ASSUME NEW i \in 1..Taken'
                 PROVE  \E v \in Workers : packet'[v] = accepted'[i]
      OBVIOUS
    <3>1. CASE i = Taken + 1
      BY <1>1, <1>4, <2>1, <3>1
    <3>2. CASE i \in 1..Taken
      <4>1. PICK v \in Workers : packet[v] = accepted[i]
        BY <3>2 DEF TakenByOneWorker
      <4>2. accepted[i] \in Packets
        BY <1>2, <3>2
      <4>3. v # w
        BY <1>1, <4>1, <4>2
      <4> QED BY <1>1, <2>1, <4>1, <4>3
    <3> QED BY <1>2, <3>1, <3>2
  <2>3. \A v \in Workers : packet'[v] # None =>
          \E i \in 1..Taken' : packet'[v] = accepted'[i]
    <3> SUFFICES ASSUME NEW v \in Workers, packet'[v] # None
                 PROVE  \E i \in 1..Taken' : packet'[v] = accepted'[i]
      OBVIOUS
    <3>1. CASE v = w
      BY <1>1, <1>2, <1>4, <2>1, <3>1
    <3>2. CASE v # w
      BY <1>1, <1>2, <2>1, <3>2 DEF TakenByOneWorker
    <3> QED BY <3>1, <3>2
  <2>4. \A u, v \in Workers :
          packet'[u] = packet'[v] /\ packet'[u] # None => u = v
    BY <1>7, <2>1 DEF TakenByOneWorker
  <2> QED BY <2>2, <2>3, <2>4 DEF TakenByOneWorker
<1>9. Count'
  <2>1. Served' = Served \cup {w} /\ w \notin Served
    BY <1>1, <1>3 DEF Served
  <2>2. IsFiniteSet(Served)
    BY WorkersFinite, FS_Subset DEF Served
  <2>3. Cardinality(Served') = Cardinality(Served) + 1
    BY <2>1, <2>2, FS_AddElement
  <2> QED BY <1>2, <2>3 DEF Count
<1> QED BY <1>5, <1>6, <1>8, <1>9

(* The inductive invariant holds throughout.                               *)
THEOREM Invariance == Spec => []IInv
<1>1. Init => IInv
  <2> SUFFICES ASSUME Init PROVE IInv
    OBVIOUS
  <2>1. TypeOK
    BY InitType
  <2>2. Len(accepted) = 0 /\ Len(ingressChan) = 0 /\ Taken = 0
    BY EmptySeq DEF Init, Taken
  <2>3. Idle /\ Backlog /\ Distinct /\ TakenByOneWorker
    BY <2>2 DEF Init, Idle, Backlog, Distinct, TakenByOneWorker
  <2>4. Served = {}
    BY DEF Init, Served
  <2>5. Count
    BY <2>2, <2>4, FS_EmptySet DEF Count
  <2> QED BY <2>1, <2>3, <2>5 DEF IInv
<1>2. IInv /\ [Next]_vars => IInv'
  <2> SUFFICES ASSUME IInv, [Next]_vars PROVE IInv'
    OBVIOUS
  <2>1. TypeOK'
    BY TypeStep DEF IInv
  <2>2. Idle'
    BY IdleStep DEF IInv
  <2>3. CASE UNCHANGED <<ingressChan, accepted, packet>>
    BY <2>1, <2>2, <2>3
       DEF IInv, Backlog, Distinct, TakenByOneWorker, Count, Taken, Served
  <2> QED BY <2>1, <2>2, <2>3, StepKinds, AdmitStep, TakeStep DEF IInv
<1> QED BY <1>1, <1>2, PTL DEF Spec

-----------------------------------------------------------------------------
(* What a worker knows of its packet.                                      *)

(* A worker on its way to the handler has a packet that passed             *)
(* processPacket.                                                          *)
Inspected ==
  \A w \in Workers : pc[w] = "route" =>
    Envelope[packet[w]].pubKey = "whole" /\ Envelope[packet[w]].verifies

(* No step of a worker changes what another worker has, and no step takes  *)
(* a handler away; a worker changes its packet only on leaving its select. *)
LEMMA InspectedStep ==
  ASSUME TypeOK, Idle, Inspected, OnlySoundPacketsHandled, [Next]_vars
  PROVE  Inspected' /\ OnlySoundPacketsHandled'
<1> USE DEF Inspected, OnlySoundPacketsHandled, Sound, queueVars, workerVars,
            lifeVars
<1>0. /\ pc \in [Workers -> {"unborn", "select", "process", "route", "handle",
                             "exited"}]
      /\ packet \in [Workers -> Packets \cup {None}]
      /\ result \in [Packets -> {"none", "refused", "handled"}]
  BY DEF TypeOK
<1>1. ASSUME NEW t \in PayloadTypes, Registry(t)
      PROVE  Inspected' /\ OnlySoundPacketsHandled'
  BY <1>1 DEF Registry
<1>2. ASSUME NEW p \in Packets, PushMessage(p)
      PROVE  Inspected' /\ OnlySoundPacketsHandled'
  BY <1>2 DEF PushMessage
<1>3. CASE Start
  BY <1>3 DEF Start, Spawn
<1>4. CASE Stop
  BY <1>4 DEF Stop
<1>5. ASSUME NEW w \in Workers, TakePacket(w)
      PROVE  Inspected' /\ OnlySoundPacketsHandled'
  BY <1>0, <1>5 DEF TakePacket
<1>6. ASSUME NEW w \in Workers, SeeCtxDone(w)
      PROVE  Inspected' /\ OnlySoundPacketsHandled'
  BY <1>0, <1>6 DEF SeeCtxDone
<1>7. ASSUME NEW w \in Workers, ProcessPacket(w)
      PROVE  Inspected' /\ OnlySoundPacketsHandled'
  BY <1>0, <1>7 DEF ProcessPacket, Inspect, Return
<1>8. ASSUME NEW w \in Workers, Route(w)
      PROVE  Inspected' /\ OnlySoundPacketsHandled'
  BY <1>0, <1>8 DEF Route, Return
<1>9. ASSUME NEW w \in Workers, HandleReturns(w)
      PROVE  Inspected' /\ OnlySoundPacketsHandled'
  BY <1>0, <1>9 DEF HandleReturns, Return
<1>10. CASE UNCHANGED vars
  BY <1>10 DEF vars
<1> QED
  BY <1>1, <1>2, <1>3, <1>4, <1>5, <1>6, <1>7, <1>8, <1>9, <1>10
     DEF Next, CallerStep, WorkerStep

(* A handler is called only with a packet whose key is whole, whose        *)
(* signature verified and whose payload somebody registered for, whichever *)
(* worker took it and whatever the others and Registry do meanwhile.       *)
THEOREM HandledAreSound == Spec => []OnlySoundPacketsHandled
<1>1. Init => Inspected /\ OnlySoundPacketsHandled
  BY DEF Init, Inspected, OnlySoundPacketsHandled
<1>2. IInv /\ Inspected /\ OnlySoundPacketsHandled /\ [Next]_vars
      => Inspected' /\ OnlySoundPacketsHandled'
  BY InspectedStep DEF IInv
<1> QED BY <1>1, <1>2, Invariance, PTL DEF Spec

-----------------------------------------------------------------------------
(* Who waits: a packet that is not served finds every worker spent.        *)

(* A worker without a packet is not in processPacket, route or a handler,  *)
(* and while the dispatcher runs it is at its select.                      *)
Waiting ==
  \A w \in Workers : packet[w] = None =>
    /\ pc[w] \in {"unborn", "select", "exited"}
    /\ started /\ ~ctxDone => pc[w] = "select"

(* Every step keeps that.                                                  *)
LEMMA WaitingStep == ASSUME TypeOK, Waiting, [Next]_vars PROVE Waiting'
<1> USE DEF Waiting, queueVars, workerVars, lifeVars
<1>0. /\ pc \in [Workers -> {"unborn", "select", "process", "route", "handle",
                             "exited"}]
      /\ packet \in [Workers -> Packets \cup {None}]
      /\ ingressChan \in Seq(Packets)
  BY DEF TypeOK
<1>1. ASSUME NEW t \in PayloadTypes, Registry(t) PROVE Waiting'
  BY <1>1 DEF Registry
<1>2. ASSUME NEW p \in Packets, PushMessage(p) PROVE Waiting'
  BY <1>2 DEF PushMessage
<1>3. CASE Start
  <2>1. \A w \in Workers : w >= 1
    BY WorkersNumType DEF Workers
  <2> QED BY <1>3, <2>1 DEF Start, Spawn
<1>4. CASE Stop
  BY <1>4 DEF Stop
<1>5. ASSUME NEW w \in Workers, TakePacket(w) PROVE Waiting'
  <2>1. Head(ingressChan) \in Packets /\ Head(ingressChan) # None
    BY <1>0, <1>5, DispatcherAssumption DEF TakePacket
  <2> QED BY <1>0, <1>5, <2>1 DEF TakePacket
<1>6. ASSUME NEW w \in Workers, SeeCtxDone(w) PROVE Waiting'
  BY <1>0, <1>6 DEF SeeCtxDone
<1>7. ASSUME NEW w \in Workers, ProcessPacket(w) PROVE Waiting'
  BY <1>0, <1>7 DEF ProcessPacket, Inspect, Return
<1>8. ASSUME NEW w \in Workers, Route(w) PROVE Waiting'
  BY <1>0, <1>8 DEF Route, Return
<1>9. ASSUME NEW w \in Workers, HandleReturns(w) PROVE Waiting'
  BY <1>0, <1>9 DEF HandleReturns, Return
<1>10. CASE UNCHANGED vars
  BY <1>10 DEF vars
<1> QED
  BY <1>1, <1>2, <1>3, <1>4, <1>5, <1>6, <1>7, <1>8, <1>9, <1>10
     DEF Next, CallerStep, WorkerStep

(* Each worker that has returned has used up one packet, so a packet waits *)
(* with nobody to take it only after the workersNum-th: whatever workers   *)
(* are busy with, the first packets are never behind each other.           *)
THEOREM FreeUntilSpent == Spec => []SomeoneFree
<1>1. Init => Waiting
  BY DEF Init, Waiting
<1>2. IInv /\ Waiting => SomeoneFree
  <2> SUFFICES ASSUME IInv, Waiting, started, ~ctxDone, Taken < WorkersNum
               PROVE  \E w \in Workers : packet[w] = None
    BY DEF SomeoneFree, Waiting
  <2>1. Cardinality(Served) # Cardinality(Workers)
    BY WorkersFinite, WorkersNumType DEF IInv, Count
  <2>2. Served # Workers
    BY <2>1
  <2> QED BY <2>2 DEF Served
<1>3. IInv /\ Waiting /\ [Next]_vars => Waiting'
  BY WaitingStep DEF IInv
<1> QED BY <1>1, <1>2, <1>3, Invariance, PTL DEF Spec

-----------------------------------------------------------------------------
(* Where every packet is.                                                  *)

Busy == {"process", "route", "handle"}

(* The packet of a busy worker has no result yet, that of a worker which   *)
(* has returned has one, and no packet has a result without a worker.      *)
Results ==
  /\ \A w \in Workers : packet[w] # None =>
       (result[packet[w]] = "none" <=> pc[w] \in Busy)
  /\ \A p \in Packets :
       result[p] # "none" => \E w \in Workers : packet[w] = p

(* A worker that returns disposes of its own packet and of no other's.     *)
LEMMA ReturnStep ==
  ASSUME IInv, Waiting, Results, NEW w \in Workers, pc[w] \in Busy,
         NEW r \in {"refused", "handled"}, Return(w, r), packet' = packet
  PROVE  Results'
<1> USE DEF IInv, TypeOK
<1>1. packet[w] \in Packets /\ packet[w] # None
  BY DispatcherAssumption DEF Waiting, Busy
<1>2. /\ \A v \in Workers : pc'[v] = IF v = w THEN "exited" ELSE pc[v]
      /\ \A p \in Packets :
           result'[p] = IF p = packet[w] THEN r ELSE result[p]
  BY <1>1 DEF Return
<1>3. ASSUME NEW v \in Workers, packet[v] # None
      PROVE  result'[packet[v]] = "none" <=> pc'[v] \in Busy
  <2>1. packet[v] \in Packets
    BY <1>3
  <2>2. CASE v = w
    BY <1>1, <1>2, <2>2 DEF Busy
  <2>3. CASE v # w
    <3>1. packet[v] # packet[w]
      BY <1>1, <2>3 DEF TakenByOneWorker
    <3> QED BY <1>2, <1>3, <2>1, <2>3, <3>1 DEF Results
  <2> QED BY <2>2, <2>3
<1>4. ASSUME NEW p \in Packets, result'[p] # "none"
      PROVE  \E v \in Workers : packet[v] = p
  BY <1>1, <1>2, <1>4 DEF Results
<1> QED BY <1>3, <1>4 DEF Results

(* Every step keeps Results: a take gives a worker a packet nobody has     *)
(* had, and a return settles one packet.                                   *)
LEMMA ResultsStep ==
  ASSUME IInv, Waiting, Results, [Next]_vars
  PROVE  Results'
<1> USE DEF queueVars, workerVars, lifeVars
<1>0. /\ pc \in [Workers -> {"unborn", "select", "process", "route", "handle",
                             "exited"}]
      /\ packet \in [Workers -> Packets \cup {None}]
      /\ result \in [Packets -> {"none", "refused", "handled"}]
      /\ ingressChan \in Seq(Packets)
  BY DEF IInv, TypeOK
<1>1. CASE UNCHANGED workerVars
  BY <1>1 DEF Results
<1>2. CASE Start
  <2>1. \A w \in Workers : packet[w] = None
    BY <1>2 DEF IInv, Idle, Start, Spawn
  <2> QED BY <1>2, <2>1 DEF Results, Start, Spawn
<1>3. ASSUME NEW w \in Workers, TakePacket(w) PROVE Results'
  <2> DEFINE h == Head(ingressChan)
  <2>1. 1 \in 1..Len(ingressChan) /\ h = ingressChan[1] /\ h \in Packets
    BY <1>0, <1>3 DEF TakePacket
  <2>2. \A v \in Workers : packet[v] # h
    BY <2>1, QueuedIsFree
  <2>3. result[h] = "none"
    BY <2>1, <2>2 DEF Results
  <2>4. packet[w] = None
    BY <1>3 DEF IInv, Idle, TakePacket
  <2>5. /\ \A v \in Workers : packet'[v] = IF v = w THEN h ELSE packet[v]
        /\ \A v \in Workers : pc'[v] = IF v = w THEN "process" ELSE pc[v]
        /\ result' = result
    BY <1>0, <1>3 DEF TakePacket
  <2> HIDE DEF h
  <2>6. \A p \in Packets : result[p] # "none" =>
          \E v \in Workers : packet'[v] = p
    BY <2>4, <2>5, DispatcherAssumption DEF Results
  <2>7. \A v \in Workers : packet'[v] # None =>
          (result[packet'[v]] = "none" <=> pc'[v] \in Busy)
    BY <2>3, <2>5 DEF Results, Busy
  <2> QED BY <2>5, <2>6, <2>7 DEF Results
<1>4. ASSUME NEW w \in Workers, SeeCtxDone(w) PROVE Results'
  <2>1. packet[w] = None
    BY <1>4 DEF IInv, Idle, SeeCtxDone
  <2> QED BY <1>0, <1>4, <2>1 DEF Results, SeeCtxDone
<1>5. ASSUME NEW w \in Workers,
             ProcessPacket(w) \/ Route(w) \/ HandleReturns(w)
      PROVE  Results'
  <2>1. pc[w] \in Busy /\ packet' = packet
    BY <1>5 DEF ProcessPacket, Inspect, Route, HandleReturns, Busy
  <2>2. \/ UNCHANGED <<pc, result>>
        \/ result' = result /\ \E b \in Busy : pc' = [pc EXCEPT ![w] = b]
        \/ Return(w, "refused") \/ Return(w, "handled")
    BY <1>5 DEF ProcessPacket, Inspect, Route, HandleReturns, Busy
  <2>3. CASE UNCHANGED <<pc, result>>
    BY <2>1, <2>3 DEF Results
  <2>4. ASSUME NEW b \in Busy, pc' = [pc EXCEPT ![w] = b], result' = result
        PROVE  Results'
    BY <1>0, <2>1, <2>4 DEF Results
  <2>5. CASE Return(w, "refused") \/ Return(w, "handled")
    BY <2>1, <2>5, ReturnStep
  <2> QED BY <2>2, <2>3, <2>4, <2>5
<1>6. ASSUME NEW p \in Packets, PushMessage(p) PROVE UNCHANGED workerVars
  BY <1>6 DEF PushMessage
<1>7. ASSUME NEW t \in PayloadTypes, Registry(t) PROVE UNCHANGED workerVars
  BY <1>7 DEF Registry
<1>8. ASSUME Stop \/ UNCHANGED vars PROVE UNCHANGED workerVars
  BY <1>8 DEF Stop, vars
<1> QED
  BY <1>1, <1>2, <1>3, <1>4, <1>5, <1>6, <1>7, <1>8
     DEF Next, CallerStep, WorkerStep

(* Every packet PushMessage has admitted is queued, with one worker, or    *)
(* disposed of, in exactly one of these ways, and no packet that was       *)
(* turned away is anywhere: for every capacity and number of workers.      *)
THEOREM PacketsAccounted == Spec => []Accounted
<1>1. Init => Waiting /\ Results
  BY DEF Init, Waiting, Results
<1>2. IInv /\ Waiting /\ Results => Accounted
  <2> SUFFICES ASSUME IInv, Waiting, Results, NEW p \in Packets
               PROVE  LET queued == \E i \in 1..Len(ingressChan) :
                                       ingressChan[i] = p
                          held   == Holders(p) # {}
                          done   == result[p] # "none"
                      IN  /\ p \in Admitted <=> queued \/ held \/ done
                          /\ ~(queued /\ held) /\ ~(queued /\ done)
                          /\ ~(held /\ done)
                          /\ \A v, w \in Holders(p) : v = w
    BY DEF Accounted
  <2> DEFINE queued == \E i \in 1..Len(ingressChan) : ingressChan[i] = p
             taken  == \E w \in Workers : packet[w] = p
             held   == Holders(p) # {}
             done   == result[p] # "none"
  <2>0. /\ p # None
        /\ Len(ingressChan) \in Nat /\ Len(accepted) \in Nat
        /\ Taken \in Nat /\ Taken + Len(ingressChan) = Len(accepted)
    BY DispatcherAssumption DEF IInv, TypeOK, Backlog, Taken
  <2>1. p \in Admitted => queued \/ taken
    <3> SUFFICES ASSUME NEW i \in 1..Len(accepted), accepted[i] = p
                 PROVE  queued \/ taken
      BY DEF Admitted
    <3>1. CASE i <= Taken
      BY <2>0, <3>1 DEF IInv, TakenByOneWorker
    <3>2. CASE i > Taken
      <4>1. i - Taken \in 1..Len(ingressChan) /\ Taken + (i - Taken) = i
        BY <2>0, <3>2
      <4> QED BY <4>1 DEF IInv, Backlog
    <3> QED BY <2>0, <3>1, <3>2
  <2>2. queued => p \in Admitted
    <3> SUFFICES ASSUME NEW i \in 1..Len(ingressChan), ingressChan[i] = p
                 PROVE  p \in Admitted
      OBVIOUS
    <3>1. Taken + i \in 1..Len(accepted) /\ accepted[Taken + i] = p
      BY <2>0 DEF IInv, Backlog
    <3> QED BY <3>1 DEF Admitted
  <2>3. taken => p \in Admitted
    <3> SUFFICES ASSUME NEW w \in Workers, packet[w] = p
                 PROVE  p \in Admitted
      OBVIOUS
    <3>1. PICK i \in 1..Taken : accepted[i] = p
      BY <2>0 DEF IInv, TakenByOneWorker
    <3>2. i \in 1..Len(accepted)
      BY <2>0
    <3> QED BY <3>1, <3>2 DEF Admitted
  <2>4. ~(queued /\ taken)
    BY QueuedIsFree
  <2>5. (taken <=> held \/ done) /\ ~(held /\ done)
    BY <2>0 DEF Results, Holders, Busy, IInv, TakenByOneWorker
  <2>6. \A v, w \in Holders(p) : v = w
    BY <2>0 DEF Holders, IInv, TakenByOneWorker
  <2> QED BY <2>1, <2>2, <2>3, <2>4, <2>5, <2>6
<1>3. IInv /\ Waiting /\ Results /\ [Next]_vars => Waiting' /\ Results'
  BY WaitingStep, ResultsStep DEF IInv
<1> QED BY <1>1, <1>2, <1>3, Invariance, PTL DEF Spec
=============================================================================
