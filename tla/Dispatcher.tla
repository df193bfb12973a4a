------------------------------ MODULE Dispatcher ------------------------------
(***************************************************************************)
(* internal/dispatcher/dispatcher.go: the ingress queue between the peers  *)
(* and the services, and the worker goroutines that empty it.              *)
(*                                                                         *)
(* PushMessage is a non-blocking send on a buffered channel.  Start spawns *)
(* workersNum goroutines; each runs workerLoop, which despite its name is  *)
(* one select: it takes a single packet (or sees the context done) and     *)
(* returns.  A packet is verified, decoded, and handed to the handler      *)
(* registered for the type of its payload.                                 *)
(***************************************************************************)
EXTENDS Naturals, Sequences, FiniteSets

CONSTANTS
  Packets,       \* the IngressPackets the peers read off the network
  PayloadTypes,  \* the dynamic types of MessageData.Payload
  Envelope,      \* Envelope[p]: what processPacket finds in packet p
  NumCPU,        \* runtime.NumCPU()
  IngressCap,    \* capacity of ingressChan (2000 in the code)
  None           \* "no packet"

(* An envelope's key may be shorter than 32 bytes, its signature may not   *)
(* verify, its Data may not unmarshal, and the OriginId in it may be       *)
(* shorter than the key the messenger's handler takes it for.              *)
Envelopes == [pubKey   : {"short", "whole"},
              verifies : BOOLEAN,
              payload  : PayloadTypes \cup {"undecodable"},
              origin   : {"short", "whole"}]

ASSUME DispatcherAssumption ==
  /\ NumCPU \in Nat \ {0}
  /\ IngressCap \in Nat \ {0}
  /\ Envelope \in [Packets -> Envelopes]
  /\ "undecodable" \notin PayloadTypes
  /\ None \notin Packets

(* NewDispatcher: one worker per CPU but one.  The guard of the code tests *)
(* for a negative number, so a single CPU yields no worker at all.         *)
WorkersNum == IF NumCPU - 1 < 0 THEN 1 ELSE NumCPU - 1

Workers == 1..WorkersNum

VARIABLES
  ingressChan,  \* the packets queued, oldest first
  accepted,     \* history: the packets the channel has admitted, in order
  dropped,      \* history: the packets PushMessage has turned away
  pc,           \* where each worker is
  packet,       \* the packet each worker has taken, if any
  result,       \* what was done with each packet
  handlers,     \* the payload types that have a handler
  started,      \* Start has spawned the workers
  ctxDone,      \* d.ctx is cancelled
  panicked      \* a worker panicked: the process is gone

queueVars  == <<ingressChan, accepted, dropped>>
workerVars == <<pc, packet, result>>
lifeVars   == <<handlers, started, ctxDone, panicked>>
vars       == <<queueVars, workerVars, lifeVars>>

Init ==
  /\ ingressChan = <<>>
  /\ accepted = <<>>
  /\ dropped = {}
  /\ pc = [w \in Workers |-> "unborn"]
  /\ packet = [w \in Workers |-> None]
  /\ result = [p \in Packets |-> "none"]
  /\ handlers = {}
  /\ started = FALSE
  /\ ctxDone = FALSE
  /\ panicked = FALSE

Admitted == {accepted[i] : i \in 1..Len(accepted)}
Pushed == Admitted \cup dropped

-----------------------------------------------------------------------------
(* The callers' operations.                                                *)

(* Registry takes the write lock and sets the handler of a payload type.   *)
Registry(t) ==
  /\ handlers' = handlers \cup {t}
  /\ UNCHANGED <<queueVars, workerVars, started, ctxDone, panicked>>

(* Fault: when the channel is full the oldest packet makes room.           *)
PushOverOldest(p) ==
  /\ p \notin Pushed
  /\ ingressChan' = Append(IF Len(ingressChan) < IngressCap
                             THEN ingressChan ELSE Tail(ingressChan), p)
  /\ accepted' = Append(accepted, p)
  /\ UNCHANGED <<dropped, workerVars, lifeVars>>

(* PushMessage: queue the packet, or drop it when the channel is full.     *)
PushMessage(p) ==
  /\ p \notin Pushed
  /\ \/ /\ Len(ingressChan) < IngressCap
        /\ ingressChan' = Append(ingressChan, p)
        /\ accepted' = Append(accepted, p)
        /\ UNCHANGED dropped
     \/ /\ Len(ingressChan) >= IngressCap
        /\ dropped' = dropped \cup {p}
        /\ UNCHANGED <<ingressChan, accepted>>
  /\ UNCHANGED <<workerVars, lifeVars>>

(* The loop of Start, given the first value of its counter.                *)
Spawn(first) ==
  /\ ~started
  /\ started' = TRUE
  /\ pc' = [w \in Workers |-> IF w >= first THEN "select" ELSE "unborn"]
  /\ UNCHANGED <<queueVars, packet, result, handlers, ctxDone, panicked>>

(* Fault: the loop counts from one too many.                               *)
StartOneShort == Spawn(2)

(* Start: spawn the workers.  Node.Start calls it once, in a goroutine.    *)
Start == Spawn(1)

(* Stop, or the end of the context NewDispatcher was given.                *)
Stop ==
  /\ ctxDone' = TRUE
  /\ UNCHANGED <<queueVars, workerVars, handlers, started, panicked>>

-----------------------------------------------------------------------------
(* workerLoop: one select, one packet.                                     *)

(* The select when both cases are ready picks either.                      *)
TakePacket(w) ==
  /\ pc[w] = "select"
  /\ ingressChan # <<>>
  /\ packet' = [packet EXCEPT ![w] = Head(ingressChan)]
  /\ ingressChan' = Tail(ingressChan)
  /\ pc' = [pc EXCEPT ![w] = "process"]
  /\ UNCHANGED <<accepted, dropped, result, lifeVars>>

(* Fault: the select has no case for the end of the context.               *)
IgnoreCtxDone(w) == FALSE

SeeCtxDone(w) ==
  /\ pc[w] = "select"
  /\ ctxDone
  /\ pc' = [pc EXCEPT ![w] = "exited"]
  /\ UNCHANGED <<queueVars, packet, result, lifeVars>>

(* The worker is done with its packet: processPacket returns into          *)
(* workerLoop, which returns.                                              *)
Return(w, r) ==
  /\ pc' = [pc EXCEPT ![w] = "exited"]
  /\ result' = [result EXCEPT ![packet[w]] = r]

(* processPacket, given what counts as verified: the conversion of a short *)
(* key to a 32-byte array panics before its length is tested; a bad        *)
(* signature and bad data are logged and refused.                          *)
Inspect(w, verified) ==
  LET env == Envelope[packet[w]] IN
  /\ pc[w] = "process"
  /\ \/ /\ env.pubKey = "short"
        /\ panicked' = TRUE
        /\ UNCHANGED <<pc, result>>
     \/ /\ env.pubKey = "whole"
        /\ ~verified \/ env.payload = "undecodable"
        /\ Return(w, "refused")
        /\ UNCHANGED panicked
     \/ /\ env.pubKey = "whole"
        /\ verified /\ env.payload # "undecodable"
        /\ pc' = [pc EXCEPT ![w] = "route"]
        /\ UNCHANGED <<result, panicked>>
  /\ UNCHANGED <<queueVars, packet, handlers, started, ctxDone>>

(* Fault: the signature is not looked at.                                  *)
ProcessUnverified(w) == Inspect(w, TRUE)

ProcessPacket(w) == Inspect(w, Envelope[packet[w]].verifies)

(* route: look the handler up under the read lock; call it outside of it.  *)
Route(w) ==
  /\ pc[w] = "route"
  /\ \/ /\ Envelope[packet[w]].payload \in handlers
        /\ pc' = [pc EXCEPT ![w] = "handle"]
        /\ UNCHANGED result
     \/ /\ Envelope[packet[w]].payload \notin handlers
        /\ Return(w, "refused")
  /\ UNCHANGED <<queueVars, packet, lifeVars>>

(* Fault: the handler never comes back.                                    *)
HandleHangs(w) == FALSE

(* The handler returns, or panics as it makes an array of a short OriginId *)
(* (messenger's Handle).                                                   *)
HandleReturns(w) ==
  /\ pc[w] = "handle"
  /\ \/ /\ Envelope[packet[w]].origin = "short"
        /\ panicked' = TRUE
        /\ UNCHANGED <<pc, result>>
     \/ /\ Envelope[packet[w]].origin = "whole"
        /\ Return(w, "handled")
        /\ UNCHANGED panicked
  /\ UNCHANGED <<queueVars, packet, handlers, started, ctxDone>>

WorkerStep(w) ==
  /\ ~panicked
  /\ \/ TakePacket(w)
     \/ SeeCtxDone(w)
     \/ ProcessPacket(w)
     \/ Route(w)
     \/ HandleReturns(w)

(* A panic in any goroutine ends the process.                              *)
CallerStep ==
  /\ ~panicked
  /\ \/ \E t \in PayloadTypes : Registry(t)
     \/ \E p \in Packets : PushMessage(p)
     \/ Start
     \/ Stop

Next == CallerStep \/ \E w \in Workers : WorkerStep(w)

(* The Go scheduler runs every runnable goroutine: the one that calls      *)
(* Start and each worker.  Nothing obliges a peer to push, the node to     *)
(* register or anyone to stop.                                             *)
Fairness ==
  /\ WF_vars(~panicked /\ Start)
  /\ \A w \in Workers : WF_vars(WorkerStep(w))

Spec == Init /\ [][Next]_vars

FairSpec == Spec /\ Fairness

-----------------------------------------------------------------------------
(* Properties.                                                             *)

(* Every variable has its type, and ingressChan respects its capacity.     *)
TypeOK ==
  /\ ingressChan \in Seq(Packets) /\ Len(ingressChan) <= IngressCap
  /\ accepted \in Seq(Packets)
  /\ dropped \in SUBSET Packets
  /\ pc \in [Workers -> {"unborn", "select", "process", "route", "handle",
                         "exited"}]
  /\ packet \in [Workers -> Packets \cup {None}]
  /\ result \in [Packets -> {"none", "refused", "handled"}]
  /\ handlers \in SUBSET PayloadTypes
  /\ started \in BOOLEAN
  /\ ctxDone \in BOOLEAN
  /\ panicked \in BOOLEAN

(* The workers that are busy with packet p.                                *)
Holders(p) ==
  {w \in Workers : pc[w] \in {"process", "route", "handle"} /\ packet[w] = p}

(* Every packet PushMessage has admitted is in the channel, or with one    *)
(* worker, or refused or handled, and in one of these places only: with    *)
(* the channel full and workers busy none is lost, doubled or begun twice, *)
(* and one that was turned away turns up nowhere.                          *)
Accounted ==
  \A p \in Packets :
    LET queued == \E i \in 1..Len(ingressChan) : ingressChan[i] = p
        held   == Holders(p) # {}
        done   == result[p] # "none"
    IN  /\ p \in Admitted <=> queued \/ held \/ done
        /\ ~(queued /\ held) /\ ~(queued /\ done) /\ ~(held /\ done)
        /\ \A v, w \in Holders(p) : v = w

(* The number of packets the workers have taken off the channel.           *)
Taken == Len(accepted) - Len(ingressChan)

(* While the dispatcher runs and has not taken workersNum packets, some    *)
(* worker is at its select, ready for the next: the first packets never    *)
(* wait for one another, whatever the workers are busy with.               *)
SomeoneFree ==
  started /\ ~ctxDone /\ Taken < WorkersNum
    => \E w \in Workers : pc[w] = "select"

(* What a packet must be for a handler to be called with it.               *)
Sound(p) ==
  /\ Envelope[p].pubKey = "whole"
  /\ Envelope[p].verifies
  /\ Envelope[p].payload \in handlers

(* A packet reaches a handler only if it has a whole key, its signature    *)
(* verified, it decoded, and a handler was registered for its payload.     *)
OnlySoundPacketsHandled ==
  /\ \A w \in Workers : pc[w] = "handle" => Sound(packet[w])
  /\ \A p \in Packets : result[p] = "handled" => Sound(p)

Disposed(p) == result[p] \in {"refused", "handled"}

Gone == ctxDone \/ panicked

(* Each of the first workersNum packets admitted is eventually refused or  *)
(* handled, unless the dispatcher is stopped or the process dies.          *)
EarlyPacketsServed ==
  \A p \in Packets :
    (\E i \in 1..WorkersNum : i <= Len(accepted) /\ accepted[i] = p)
      ~> (Disposed(p) \/ Gone)

(* Once the context is done every worker returns, busy or not.             *)
StopReleasesWorkers ==
  ctxDone ~> (panicked \/ \A w \in Workers : pc[w] = "exited")

(* "The channel on which ALL peers send incoming packets": every packet    *)
(* the channel admits is eventually refused or handled.  workerLoop breaks *)
(* this with the first packet after the workersNum-th.                     *)
EveryPacketServed ==
  \A p \in Packets :
    (\E i \in 1..Len(accepted) : accepted[i] = p) ~> (Disposed(p) \/ Gone)
=============================================================================
