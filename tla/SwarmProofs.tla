------------------------------ MODULE SwarmProofs -----------------------------
(***************************************************************************)
(* Theorems about the swarm, for every set of nodes and connections and    *)
(* every capacity of connChan.                                             *)
(***************************************************************************)
EXTENDS Swarm, TLAPS, SequenceTheorems

-----------------------------------------------------------------------------
(* Type correctness, the capacity of connChan included.                    *)

(* The initial state has the types.                                        *)
LEMMA InitType == Init => TypeOK
<1> SUFFICES ASSUME Init PROVE TypeOK
  OBVIOUS
<1> USE DEF Init
<1>1. connChan \in Seq(Conns) /\ Len(connChan) <= ConnChanCap
  BY EmptySeq, SwarmAssumption
<1>2. ban \in [PeerIDs -> [at : {"idle", "lookup", "close", "over"},
                           found : Conns \cup {None}, known : SUBSET Conns]]
  BY DEF NoBan
<1>3. late \in [Conns -> 0..2]
  OBVIOUS
<1> QED BY <1>1, <1>2, <1>3 DEF TypeOK

(* Every step preserves the type invariant.                                *)
LEMMA TypeStep == ASSUME TypeOK, [Next]_vars PROVE TypeOK'
<1> USE SwarmAssumption
        DEF TypeOK, connVars, peerVars, loopVars, streamVars, storeVars,
            banVars
<1>1. CASE TakeEvent
  <2>1. Head(connChan) \in Conns /\ Tail(connChan) \in Seq(Conns)
        /\ Len(Tail(connChan)) <= ConnChanCap
    BY <1>1 DEF TakeEvent
  <2> QED BY <1>1, <2>1 DEF TakeEvent
<1>2. ASSUME NEW c \in Conns, Authenticated(c) PROVE TypeOK'
  BY <1>2 DEF Authenticated
<1>3. ASSUME NEW c \in Conns, NewConn(c) PROVE TypeOK'
  <2>1. /\ connChan' = Append(connChan, c) /\ Len(connChan) < ConnChanCap
        /\ phase' = [phase EXCEPT ![c] = "queued"]
        /\ UNCHANGED <<connUp, peerVars, loopVars, storeVars, banVars>>
    BY <1>3 DEF NewConn
  <2>2. connChan' \in Seq(Conns) /\ Len(connChan') = Len(connChan) + 1
    BY <2>1
  <2>3. Len(connChan') <= ConnChanCap
    BY <2>1, <2>2
  <2> QED BY <2>1, <2>2, <2>3
<1>4. ASSUME NEW c \in Conns, BuildPeer(c) PROVE TypeOK'
  BY <1>4 DEF BuildPeer, Build, Close
<1>5. ASSUME NEW c \in Conns, AcceptUni(c) PROVE TypeOK'
  BY <1>5 DEF AcceptUni
<1>6. ASSUME NEW id \in PeerIDs, RemovePeer(id) PROVE TypeOK'
  BY <1>6 DEF RemovePeer, Close
<1>7. ASSUME NEW id \in PeerIDs, BanSet(id) PROVE TypeOK'
  BY <1>7 DEF BanSet
<1>8. ASSUME NEW id \in PeerIDs, BanLookup(id) PROVE TypeOK'
  BY <1>8 DEF BanLookup
<1>9. ASSUME NEW id \in PeerIDs, BanClose(id) PROVE TypeOK'
  <2>1. ban' \in [PeerIDs -> [at : {"idle", "lookup", "close", "over"},
                              found : Conns \cup {None},
                              known : SUBSET Conns]]
    <3>1. [at |-> "over", found |-> None, known |-> ban[id].known]
            \in [at : {"idle", "lookup", "close", "over"},
                 found : Conns \cup {None}, known : SUBSET Conns]
      OBVIOUS
    <3>2. ban' = [ban EXCEPT ![id] = [at |-> "over", found |-> None,
                                      known |-> ban[id].known]]
      BY <1>9 DEF BanClose
    <3> QED BY <3>1, <3>2
  <2>2. ctx' \in [Conns -> {"none", "open", "cancelled"}]
    BY <1>9 DEF BanClose, Close
  <2> QED BY <1>9, <2>1, <2>2 DEF BanClose
<1>10. ASSUME NEW id \in PeerIDs, UnBanPeer(id) PROVE TypeOK'
  BY <1>10 DEF UnBanPeer
<1>11. CASE UNCHANGED vars
  BY <1>11 DEF vars
<1>12. ASSUME NEW c \in Conns, StartLoops(c) PROVE TypeOK'
  BY <1>12 DEF StartLoops
<1>13. ASSUME NEW c \in Conns, InsertPeer(c) PROVE TypeOK'
  BY <1>13 DEF InsertPeer
<1>14. ASSUME NEW c \in Conns, SavePeer(c) PROVE TypeOK'
  <2>1. store' \in [PeerIDs -> {None} \cup [codec : {"protobuf"}, addr : Conns]]
    <3>1. CASE store' = store
      BY <3>1
    <3>2. CASE store' = [store EXCEPT ![Owner[c]] =
                           [codec |-> "protobuf", addr |-> c]]
      BY <3>2
    <3> QED BY <1>14, <3>1, <3>2 DEF SavePeer
  <2> QED BY <1>14, <2>1 DEF SavePeer
<1>15. ASSUME NEW c \in Conns, CheckCtx(c) \/ AcceptErr(c) PROVE TypeOK'
  <2>1. CASE CheckCtx(c)
    BY <2>1 DEF CheckCtx
  <2>2. CASE AcceptErr(c)
    BY <2>2 DEF AcceptErr
  <2> QED BY <1>15, <2>1, <2>2
<1>16. ASSUME NEW c \in Conns, ConnLost(c) PROVE TypeOK'
  BY <1>16 DEF ConnLost
<1>17. ASSUME NEW c \in Conns, OpenStream(c) \/ StreamStep(c) PROVE TypeOK'
  <2>1. CASE OpenStream(c)
    BY <2>1 DEF OpenStream
  <2>2. CASE AcceptStream(c)
    BY <2>2 DEF AcceptStream
  <2>3. CASE AcceptStreamErr(c)
    BY <2>3 DEF AcceptStreamErr
  <2> QED BY <1>17, <2>1, <2>2, <2>3 DEF StreamStep
<1> QED
  BY <1>1, <1>2, <1>3, <1>4, <1>5, <1>6, <1>7, <1>8, <1>9, <1>10, <1>11,
     <1>12, <1>13, <1>14, <1>15, <1>16, <1>17
     DEF Next, RegistrationStep, LoopStep, BanStep

(* Every variable keeps its type and connChan never exceeds its capacity.  *)
THEOREM TypeCorrect == Spec => []TypeOK
BY InitType, TypeStep, PTL DEF Spec

-----------------------------------------------------------------------------
(* The inductive invariant.                                                *)

(* An event is queued once.                                                *)
Queue ==
  /\ \A i \in 1..Len(connChan) : phase[connChan[i]] = "queued"
  /\ \A i, j \in 1..Len(connChan) : connChan[i] = connChan[j] => i = j

(* registrationLoop deals with one event at a time.                        *)
OneAtATime == \A c, d \in Conns : Registering(c) /\ Registering(d) => c = d

(* AddPeer makes the Peer, open, and nobody can close it before it is in   *)
(* activePeers.                                                            *)
Born ==
  \A c \in Conns :
    /\ ctx[c] = "none" <=> phase[c] \in {"unknown", "sending", "queued", "taken"}
    /\ phase[c] = "built" => ctx[c] = "open"

(* What activePeers and a BanPeer hold is a Peer of that node, inserted.   *)
Filed ==
  \A id \in PeerIDs, c \in Conns :
    activePeers[id] = c \/ ban[id].found = c =>
      Owner[c] = id /\ phase[c] \in {"inserted", "registered"}

(* Between the two locks of AddPeer the old Peer is closed.                *)
OldClosed ==
  \A c, d \in Conns :
    phase[c] = "built" /\ activePeers[Owner[c]] = d => ctx[d] = "cancelled"

(* A loop about to accept has accepted no stream after the cancel.         *)
Punctual ==
  \A c \in Conns : /\ late[c] <= 1
                   /\ ctx[c] # "cancelled" => late[c] = 0
                   /\ loop[c] = "accept" => late[c] = 0

(* BanPeer has closed the Peers it knew of, or is still going to.          *)
Cutting ==
  \A id \in PeerIDs, c \in Conns : c \in ban[id].known =>
    /\ Owner[c] = id
    /\ ctx[c] # "cancelled" =>
         \/ ban[id].at = "lookup" /\ activePeers[id] = c
         \/ ban[id].at = "close" /\ ban[id].found = c

IInv == /\ TypeOK /\ Queue /\ OneAtATime /\ Born /\ Filed /\ OldClosed
        /\ NoOrphan /\ Punctual /\ Cutting

(* The initial state satisfies it.                                         *)
LEMMA InitInv == Init => IInv
<1> SUFFICES ASSUME Init PROVE IInv
  OBVIOUS
<1>1. TypeOK
  BY InitType
<1>2. Queue
  BY EmptySeq DEF Init, Queue
<1>3. OneAtATime /\ Born /\ OldClosed /\ NoOrphan /\ Punctual
  BY DEF Init, OneAtATime, Registering, Born, OldClosed, NoOrphan, Punctual
<1>4. Filed /\ Cutting
  BY SwarmAssumption DEF Init, Filed, Cutting, NoBan
<1> QED BY <1>1, <1>2, <1>3, <1>4 DEF IInv

(* A step that only moves a connection among the first phases, the         *)
(* channel included, as Authenticated and ConnLost do.                     *)
LEMMA ArrivalStep ==
  ASSUME IInv, NEW c \in Conns, Authenticated(c) \/ ConnLost(c), TypeOK'
  PROVE  IInv'
<1> USE DEF IInv, peerVars, loopVars, storeVars, banVars
<1>1. /\ UNCHANGED <<connChan, activePeers, ctx, loop, late, ban>>
      /\ \/ phase' = phase
         \/ phase[c] = "unknown" /\ phase' = [phase EXCEPT ![c] = "sending"]
  BY DEF Authenticated, ConnLost
<1>2. Queue'
  <2>1. \A i \in 1..Len(connChan) : connChan[i] \in Conns
    BY DEF TypeOK
  <2> QED BY <1>1, <2>1 DEF Queue, TypeOK
<1>3. OneAtATime' /\ Born' /\ OldClosed' /\ NoOrphan'
  BY <1>1 DEF OneAtATime, Registering, Born, OldClosed, NoOrphan, TypeOK
<1>4. Filed' /\ Punctual' /\ Cutting'
  BY <1>1 DEF Filed, Punctual, Cutting, TypeOK
<1> QED BY <1>2, <1>3, <1>4

(* NewConn appends a connection that was not in the channel.               *)
LEMMA NewConnStep ==
  ASSUME IInv, NEW c \in Conns, NewConn(c), TypeOK'
  PROVE  IInv'
<1> USE DEF IInv, peerVars, loopVars, storeVars, banVars
<1>1. /\ UNCHANGED <<activePeers, ctx, loop, late, ban>>
      /\ phase[c] = "sending"
      /\ phase' = [phase EXCEPT ![c] = "queued"]
      /\ connChan' = Append(connChan, c)
  BY DEF NewConn
<1>2. Queue'
  <2>1. /\ Len(connChan) \in Nat /\ Len(connChan') = Len(connChan) + 1
        /\ \A i \in 1..Len(connChan) : connChan'[i] = connChan[i]
        /\ connChan'[Len(connChan) + 1] = c
        /\ \A i \in 1..Len(connChan) : connChan[i] \in Conns
    BY <1>1 DEF TypeOK
  <2>2. \A i \in 1..Len(connChan) : connChan[i] # c
    BY <1>1 DEF Queue
  <2>3. \A d \in Conns : phase'[d] = IF d = c THEN "queued" ELSE phase[d]
    BY <1>1 DEF TypeOK
  <2>4. \A i \in 1..Len(connChan') : i \in 1..Len(connChan)
                                     \/ i = Len(connChan) + 1
    BY <2>1
  <2>5. \A i \in 1..Len(connChan') : phase'[connChan'[i]] = "queued"
    BY <2>1, <2>2, <2>3, <2>4 DEF Queue
  <2>6. \A i, j \in 1..Len(connChan') : connChan'[i] = connChan'[j] => i = j
    BY <2>1, <2>2, <2>4 DEF Queue
  <2> QED BY <2>5, <2>6 DEF Queue
<1>3. OneAtATime' /\ Born' /\ OldClosed' /\ NoOrphan'
  BY <1>1 DEF OneAtATime, Registering, Born, OldClosed, NoOrphan, TypeOK
<1>4. Filed' /\ Punctual' /\ Cutting'
  BY <1>1 DEF Filed, Punctual, Cutting, TypeOK
<1> QED BY <1>2, <1>3, <1>4

(* TakeEvent starts the registration of the oldest, and of no other.       *)
LEMMA TakeStep ==
  ASSUME IInv, TakeEvent, TypeOK'
  PROVE  IInv'
<1> USE DEF IInv, peerVars, loopVars, storeVars, banVars
<1> DEFINE h == Head(connChan)
<1>1. /\ UNCHANGED <<activePeers, ctx, loop, late, ban>>
      /\ connChan # <<>>
      /\ \A c \in Conns : ~Registering(c)
      /\ phase' = [phase EXCEPT ![h] = "taken"]
      /\ connChan' = Tail(connChan)
  BY DEF TakeEvent
<1>2. /\ Len(connChan) \in Nat \ {0} /\ Len(connChan') = Len(connChan) - 1
      /\ h = connChan[1] /\ h \in Conns
      /\ \A i \in 1..Len(connChan') : connChan'[i] = connChan[i + 1]
  BY <1>1 DEF TypeOK
<1>3. phase[h] = "queued"
  BY <1>2 DEF Queue
<1> HIDE DEF h
<1>4. Queue'
  <2>1. \A i \in 1..Len(connChan') : i + 1 \in 1..Len(connChan) /\ i + 1 # 1
    BY <1>2
  <2>2. \A d \in Conns : d # h => phase'[d] = phase[d]
    BY <1>1, <1>2 DEF TypeOK
  <2>3. \A i \in 1..Len(connChan') : connChan'[i] \in Conns
    BY DEF TypeOK
  <2>4. \A i \in 1..Len(connChan') : connChan'[i] # h
    BY <1>2, <2>1 DEF Queue
  <2>5. \A i \in 1..Len(connChan') : phase'[connChan'[i]] = "queued"
    BY <1>2, <2>1, <2>2, <2>3, <2>4 DEF Queue
  <2>6. \A i, j \in 1..Len(connChan') : connChan'[i] = connChan'[j] => i = j
    BY <1>2, <2>1 DEF Queue
  <2> QED BY <2>5, <2>6 DEF Queue
<1>5. OneAtATime' /\ Born' /\ OldClosed' /\ NoOrphan'
  BY <1>1, <1>2, <1>3
     DEF OneAtATime, Registering, Born, OldClosed, NoOrphan, TypeOK
<1>6. Filed' /\ Punctual' /\ Cutting'
  BY <1>1, <1>2, <1>3 DEF Filed, Punctual, Cutting, TypeOK
<1> QED BY <1>4, <1>5, <1>6

(* BuildPeer closes the old Peer as it makes the new one.                  *)
LEMMA BuildStep ==
  ASSUME IInv, NEW c \in Conns, BuildPeer(c), TypeOK'
  PROVE  IInv'
<1> USE SwarmAssumption DEF IInv, loopVars, banVars
<1>1. /\ UNCHANGED <<connChan, activePeers, loop, late, ban>>
      /\ phase[c] = "taken"
      /\ phase' = [phase EXCEPT ![c] = "built"]
  BY DEF BuildPeer, Build
<1>2. \A d \in Conns : ctx'[d] = IF d = c THEN "open"
                                 ELSE IF activePeers[Owner[c]] = d
                                 THEN "cancelled" ELSE ctx[d]
  BY DEF BuildPeer, Build, Close, TypeOK
<1>3. \A d \in Conns : phase'[d] = IF d = c THEN "built" ELSE phase[d]
  BY <1>1 DEF TypeOK
<1>4. ctx[c] = "none" /\ \A id \in PeerIDs : activePeers[id] # c
  BY <1>1 DEF Born, Filed
<1>5. Queue'
  <2>1. \A i \in 1..Len(connChan) : connChan[i] \in Conns
    BY DEF TypeOK
  <2> QED BY <1>1, <1>3, <2>1 DEF Queue
<1>6. OneAtATime'
  BY <1>1, <1>3 DEF OneAtATime, Registering
<1>7. Born'
  BY <1>1, <1>2, <1>3, <1>4 DEF Born, Filed
<1>8. Filed' /\ NoOrphan' /\ Punctual'
  BY <1>1, <1>2, <1>3, <1>4 DEF Filed, NoOrphan, Punctual, Born
<1>9. OldClosed'
  BY <1>1, <1>2, <1>3, <1>4 DEF OldClosed, OneAtATime, Registering
<1>10. Cutting'
  BY <1>1, <1>2, <1>4 DEF Cutting, Filed
<1> QED BY <1>5, <1>6, <1>7, <1>8, <1>9, <1>10

(* InsertPeer replaces a closed Peer, or none.                             *)
LEMMA InsertStep ==
  ASSUME IInv, NEW c \in Conns, InsertPeer(c), TypeOK'
  PROVE  IInv'
<1> USE SwarmAssumption DEF IInv, loopVars, banVars
<1>1. /\ UNCHANGED <<connChan, ctx, loop, late, ban>>
      /\ phase[c] = "built"
      /\ phase' = [phase EXCEPT ![c] = "inserted"]
      /\ activePeers' = [activePeers EXCEPT ![Owner[c]] = c]
  BY DEF InsertPeer
<1>2. \A d \in Conns : phase'[d] = IF d = c THEN "inserted" ELSE phase[d]
  BY <1>1 DEF TypeOK
<1>3. \A id \in PeerIDs :
        activePeers'[id] = IF id = Owner[c] THEN c ELSE activePeers[id]
  BY <1>1 DEF TypeOK
<1>4. Queue'
  <2>1. \A i \in 1..Len(connChan) : connChan[i] \in Conns
    BY DEF TypeOK
  <2> QED BY <1>1, <1>2, <2>1 DEF Queue
<1>5. OneAtATime' /\ Born'
  BY <1>1, <1>2 DEF OneAtATime, Registering, Born
<1>6. Filed' /\ Punctual'
  BY <1>1, <1>2, <1>3 DEF Filed, Punctual
<1>7. NoOrphan'
  BY <1>1, <1>2, <1>3 DEF NoOrphan, OldClosed
<1>8. OldClosed'
  BY <1>1, <1>2, <1>3 DEF OldClosed, OneAtATime, Registering
<1>9. Cutting'
  BY <1>1, <1>3 DEF Cutting, OldClosed
<1> QED BY <1>4, <1>5, <1>6, <1>7, <1>8, <1>9

(* StartLoops, the loops and SavePeer leave the Peers alone; AcceptUniLoop *)
(* accepts a late stream only from where it had accepted none.             *)
LEMMA LoopsStep ==
  ASSUME IInv, NEW c \in Conns,
         \/ StartLoops(c) \/ LoopStep(c) \/ SavePeer(c)
         \/ OpenStream(c) \/ StreamStep(c),
         TypeOK'
  PROVE  IInv'
<1> USE DEF IInv, connVars, peerVars, loopVars, storeVars, banVars
<1>1. /\ UNCHANGED <<connChan, activePeers, ctx, ban>>
      /\ \/ phase' = phase
         \/ phase[c] = "inserted"
            /\ phase' = [phase EXCEPT ![c] = "registered"]
  BY DEF StartLoops, LoopStep, CheckCtx, AcceptUni, AcceptErr, SavePeer,
         OpenStream, StreamStep, AcceptStream, AcceptStreamErr
<1>2. Queue'
  <2>1. \A i \in 1..Len(connChan) : connChan[i] \in Conns
    BY DEF TypeOK
  <2>2. CASE phase' = phase
    BY <1>1, <2>2 DEF Queue
  <2>3. CASE /\ phase[c] = "inserted"
             /\ phase' = [phase EXCEPT ![c] = "registered"]
    <3>1. \A d \in Conns \ {c} : phase'[d] = phase[d]
      BY <2>3 DEF TypeOK
    <3>2. phase'[c] = "registered"
      BY <2>3 DEF TypeOK
    <3> QED BY <1>1, <2>1, <2>3, <3>1, <3>2 DEF Queue
  <2> QED BY <1>1, <2>2, <2>3
<1>3. OneAtATime' /\ Born' /\ OldClosed' /\ NoOrphan'
  BY <1>1 DEF OneAtATime, Registering, Born, OldClosed, NoOrphan, TypeOK
<1>4. Filed' /\ Cutting'
  BY <1>1 DEF Filed, Cutting, TypeOK
<1>5. Punctual'
  <2>1. CASE StartLoops(c) \/ SavePeer(c)
    BY <2>1 DEF StartLoops, SavePeer, Punctual, TypeOK
  <2>2. CASE CheckCtx(c) \/ AcceptErr(c)
    BY <2>2 DEF CheckCtx, AcceptErr, Punctual, TypeOK
  <2>3. CASE AcceptUni(c)
    BY <2>3 DEF AcceptUni, Punctual, TypeOK
  <2>4. CASE OpenStream(c) \/ StreamStep(c)
    BY <2>4 DEF OpenStream, StreamStep, AcceptStream, AcceptStreamErr,
                Punctual, TypeOK
  <2> QED BY <2>1, <2>2, <2>3, <2>4 DEF LoopStep
<1> QED BY <1>2, <1>3, <1>4, <1>5

(* RemovePeer closes what it removes.                                      *)
LEMMA RemoveStep ==
  ASSUME IInv, NEW id \in PeerIDs, RemovePeer(id), TypeOK'
  PROVE  IInv'
<1> USE SwarmAssumption DEF IInv, connVars, loopVars, banVars
<1>1. UNCHANGED <<phase, connChan, loop, late, ban>> /\ activePeers[id] # None
  BY DEF RemovePeer
<1>2. \A d \in Conns : ctx'[d] = IF d = activePeers[id] THEN "cancelled"
                                                        ELSE ctx[d]
  BY DEF RemovePeer, Close
<1>3. \A e \in PeerIDs : activePeers'[e] = IF e = id THEN None
                                                     ELSE activePeers[e]
  BY DEF RemovePeer, TypeOK
<1>4. Queue' /\ OneAtATime'
  BY <1>1 DEF Queue, OneAtATime, Registering
<1>5. Born' /\ Filed'
  BY <1>1, <1>2, <1>3 DEF Born, Filed
<1>6. OldClosed' /\ NoOrphan' /\ Punctual'
  BY <1>1, <1>2, <1>3 DEF OldClosed, NoOrphan, Punctual
<1>7. Cutting'
  BY <1>1, <1>2, <1>3 DEF Cutting
<1> QED BY <1>4, <1>5, <1>6, <1>7

(* BanPeer: the Peer it knew stays active until closed, and it finds the   *)
(* active one.                                                             *)
LEMMA BanPeerStep ==
  ASSUME IInv, NEW id \in PeerIDs,
         BanSet(id) \/ BanStep(id) \/ UnBanPeer(id), TypeOK'
  PROVE  IInv'
<1> USE SwarmAssumption
        DEF IInv, connVars, peerVars, loopVars, storeVars, BanStep
<1>1. /\ UNCHANGED <<phase, connChan, activePeers, loop, late>>
  BY DEF BanSet, BanLookup, BanClose, UnBanPeer
<1>2. Queue' /\ OneAtATime'
  BY <1>1 DEF Queue, OneAtATime, Registering
<1>3. CASE BanSet(id)
  <2>1. /\ ctx' = ctx
        /\ ban' = [ban EXCEPT ![id] =
             [at |-> "lookup", found |-> None,
              known |-> {c \in Conns : activePeers[id] = c
                                       /\ ctx[c] = "open"}]]
    BY <1>3 DEF BanSet
  <2>2. /\ ban'[id].found = None /\ ban'[id].at = "lookup"
        /\ \A c \in ban'[id].known : c \in Conns /\ activePeers[id] = c
        /\ \A e \in PeerIDs : e # id => ban'[e] = ban[e]
    BY <2>1 DEF TypeOK
  <2>3. Born' /\ OldClosed' /\ NoOrphan' /\ Punctual'
    BY <1>1, <2>1 DEF Born, OldClosed, NoOrphan, Punctual
  <2>4. Filed'
    BY <1>1, <2>2 DEF Filed
  <2>5. Cutting'
    BY <1>1, <2>1, <2>2 DEF Cutting, Filed
  <2> QED BY <1>2, <2>3, <2>4, <2>5
<1>4. CASE BanLookup(id)
  <2>1. ctx' = ctx /\ ban[id].at = "lookup"
    BY <1>4 DEF BanLookup
  <2>2. /\ ban'[id].found = activePeers[id] /\ ban'[id].known = ban[id].known
        /\ activePeers[id] # None => ban'[id].at = "close"
        /\ \A e \in PeerIDs : e # id => ban'[e] = ban[e]
    BY <1>4 DEF BanLookup, TypeOK
  <2>3. Born' /\ OldClosed' /\ NoOrphan' /\ Punctual'
    BY <1>1, <2>1 DEF Born, OldClosed, NoOrphan, Punctual
  <2>4. Filed'
    BY <1>1, <2>2 DEF Filed
  <2>5. Cutting'
    BY <1>1, <2>1, <2>2 DEF Cutting
  <2> QED BY <1>2, <2>3, <2>4, <2>5
<1>5. CASE BanClose(id)
  <2>1. ban[id].at = "close"
    BY <1>5 DEF BanClose
  <2>2. \A d \in Conns : ctx'[d] = IF d = ban[id].found THEN "cancelled"
                                                        ELSE ctx[d]
    BY <1>5 DEF BanClose, Close
  <2>3. /\ ban'[id].found = None /\ ban'[id].known = ban[id].known
        /\ ban'[id].at = "over"
        /\ \A e \in PeerIDs : e # id => ban'[e] = ban[e]
    BY <1>5 DEF BanClose, TypeOK
  <2>4. Born'
    BY <1>1, <2>2 DEF Born, Filed
  <2>5. OldClosed' /\ NoOrphan' /\ Punctual'
    BY <1>1, <2>2 DEF OldClosed, NoOrphan, Punctual
  <2>6. Filed'
    BY <1>1, <2>3 DEF Filed
  <2>7. Cutting'
    BY <1>1, <2>1, <2>2, <2>3 DEF Cutting
  <2> QED BY <1>2, <2>4, <2>5, <2>6, <2>7
<1>6. CASE UnBanPeer(id)
  <2>1. ctx' = ctx /\ ban' = ban
    BY <1>6 DEF UnBanPeer
  <2> QED BY <1>1, <1>2, <2>1
          DEF Born, OldClosed, NoOrphan, Punctual, Filed, Cutting
<1> QED BY <1>3, <1>4, <1>5, <1>6

(* The inductive invariant holds throughout.                               *)
THEOREM Invariance == Spec => []IInv
<1>1. ASSUME IInv, [Next]_vars PROVE IInv'
  <2>1. TypeOK'
    BY <1>1, TypeStep DEF IInv
  <2>2. CASE UNCHANGED vars
    BY <1>1, <2>1, <2>2
       DEF vars, connVars, peerVars, loopVars, storeVars, banVars, IInv,
           Queue, OneAtATime, Registering, Born, Filed, OldClosed, NoOrphan,
           Punctual, Cutting
  <2> QED
    BY <1>1, <2>1, <2>2, ArrivalStep, NewConnStep, TakeStep, BuildStep,
       InsertStep, LoopsStep, RemoveStep, BanPeerStep
       DEF Next, RegistrationStep
<1> QED BY InitInv, <1>1, PTL DEF Spec

-----------------------------------------------------------------------------
(* What follows from it.                                                   *)

(* No open Peer is out of the reach of RemovePeer and BanPeer.             *)
THEOREM OrphanFree == Spec => []NoOrphan
<1>1. IInv => NoOrphan
  BY DEF IInv
<1> QED BY <1>1, Invariance, PTL

(* A node never has two open Peers, whatever it dials and however AddPeer, *)
(* RemovePeer and BanPeer interleave.                                      *)
THEOREM SingleLivePeer == Spec => []OneLivePeer
<1>1. IInv => OneLivePeer
  <2> SUFFICES ASSUME IInv, NEW c \in Conns, NEW d \in Conns,
                      ctx[c] = "open", ctx[d] = "open", Owner[c] = Owner[d]
               PROVE  c = d
    BY DEF OneLivePeer
  <2>1. /\ activePeers[Owner[c]] = c \/ phase[c] = "built"
        /\ activePeers[Owner[c]] = d \/ phase[d] = "built"
    BY DEF IInv, NoOrphan
  <2>2. ~(phase[c] = "built" /\ activePeers[Owner[c]] = d)
        /\ ~(phase[d] = "built" /\ activePeers[Owner[c]] = c)
    BY DEF IInv, OldClosed
  <2>3. phase[c] = "built" /\ phase[d] = "built" => c = d
    BY DEF IInv, OneAtATime, Registering
  <2> QED BY <2>1, <2>2, <2>3
<1> QED BY <1>1, Invariance, PTL

(* A loop accepts at most one stream after its Peer was closed.            *)
THEOREM LateAcceptBounded == Spec => []LateAcceptBound
<1>1. IInv => LateAcceptBound
  BY DEF IInv, Punctual, LateAcceptBound
<1> QED BY <1>1, Invariance, PTL

(* A ban has closed every Peer that was active when it was written.        *)
THEOREM BanIsEffective == Spec => []BanCutsKnownPeers
<1>1. IInv => BanCutsKnownPeers
  BY DEF IInv, TypeOK, Cutting, BanCutsKnownPeers
<1> QED BY <1>1, Invariance, PTL

(* A Peer leaves activePeers only closed.                                  *)
THEOREM NoLiveDeparture == Spec => LeavesOnlyClosed
<1> DEFINE Leave == \A id \in PeerIDs, c \in Conns :
      activePeers[id] = c /\ activePeers'[id] # c => ctx'[c] = "cancelled"
<1>1. ASSUME IInv, [Next]_vars PROVE Leave \/ UNCHANGED vars
  <2> USE <1>1, SwarmAssumption
          DEF connVars, peerVars, loopVars, storeVars, banVars
  <2> SUFFICES ASSUME NEW id \in PeerIDs, NEW c \in Conns, Next,
                      activePeers[id] = c, activePeers'[id] # c
               PROVE  ctx'[c] = "cancelled"
    OBVIOUS
  <2>1. CASE \E d \in Conns : InsertPeer(d)
    BY <2>1 DEF InsertPeer, IInv, TypeOK, OldClosed
  <2>2. CASE \E e \in PeerIDs : RemovePeer(e)
    BY <2>2 DEF RemovePeer, Close, IInv, TypeOK
  <2>3. CASE ~(\E d \in Conns : InsertPeer(d))
             /\ ~(\E e \in PeerIDs : RemovePeer(e))
    <3>1. activePeers' = activePeers
      BY <2>3 DEF Next, RegistrationStep, TakeEvent, BuildPeer, Build,
                  StartLoops, Authenticated, NewConn, ConnLost, SavePeer,
                  LoopStep, CheckCtx, AcceptUni, AcceptErr, OpenStream,
                  StreamStep, AcceptStream, AcceptStreamErr, BanSet, BanStep,
                  BanLookup, BanClose, UnBanPeer
    <3> QED BY <3>1
  <2> QED BY <2>1, <2>2, <2>3
<1> QED BY <1>1, Invariance, PTL DEF Spec, LeavesOnlyClosed
=============================================================================
