----------------------------- MODULE GossipProofs -----------------------------
(***************************************************************************)
(* Theorems about the flood, for every network, every set of messages and  *)
(* every hop limit, whether or not the relay is wired.                     *)
(***************************************************************************)
EXTENDS Gossip, TLAPS, FiniteSetTheorems

(* A hop limit that is not 0 loses one when one is taken off.              *)
LEMMA DecrementInRange ==
  ASSUME NEW hop \in 1..(HopModulus - 1) PROVE Decrement(hop) = hop - 1
<1>1. HopModulus \in Nat /\ hop \in Nat /\ hop >= 1 /\ hop < HopModulus
  BY GossipAssumption
<1> DEFINE r == hop - 1
<1>2. r \in Nat /\ r < HopModulus /\ hop + HopModulus - 1 = r + HopModulus
  BY <1>1
<1> HIDE DEF r
<1>3. (r + HopModulus) % HopModulus = r
  BY <1>1, <1>2, SMTT(30)
<1> QED BY <1>2, <1>3 DEF Decrement, r

(* A hop limit of 0 wraps to the largest there is.                         *)
LEMMA DecrementWraps == Decrement(0) = HopModulus - 1
<1>1. HopModulus \in Nat /\ HopModulus > 1
  BY GossipAssumption
<1>2. (HopModulus - 1) % HopModulus = HopModulus - 1
  BY <1>1, SMTT(30)
<1>3. 0 + HopModulus - 1 = HopModulus - 1
  BY <1>1
<1> QED BY <1>2, <1>3 DEF Decrement

-----------------------------------------------------------------------------
(* The inductive invariant.                                                *)

(* A node marks a message before it sends it on, once: a Broadcast past    *)
(* its lock is the only one for its node and message.                      *)
Marks ==
  /\ \A n \in Nodes, i \in MsgIds :
       forwards[n][i] <= 1 /\ (forwards[n][i] = 1 => i \in seen[n])
  /\ \A c \in calls : c.at = "fanout" =>
       c.msg.id \in seen[c.node] /\ forwards[c.node][c.msg.id] = 0
  /\ \A c, e \in calls :
       /\ c.at = "fanout" /\ e.at = "fanout"
       /\ c.node = e.node /\ c.msg.id = e.msg.id
       => c = e

(* The trail of a message: it is new, with the hop limit it was born with, *)
(* or it has lost a hop at each node that sent it on, and the first of     *)
(* these hops may have been a wrap.  Those nodes have marked it.           *)
Trail(msg) ==
  /\ IsFiniteSet(msg.visited)
  /\ \/ msg.hop = msg.born /\ msg.visited = {}
     \/ msg.hop > 0 /\ Cardinality(msg.visited) = Hops(msg) - msg.hop
  /\ \A v \in msg.visited : msg.id \in seen[v]

(* A copy on the wire is an outsider's own, or one node further on.        *)
Trails ==
  /\ \A c \in calls : Trail(c.msg)
  /\ \A c \in calls : c.at = "fanout" => c.node \notin c.msg.visited
  /\ \A d \in wire : Trail(d.msg)
  /\ \A d \in wire : \/ d.from = Outside /\ d.msg.visited = {}
                     \/ d.from \in d.msg.visited /\ d.msg.hop > 0
                        /\ Cardinality(d.msg.visited)
                             = Hops(d.msg) - d.msg.hop

IInv == TypeOK /\ Marks /\ Trails

(* The initial state satisfies it: nothing has happened.                   *)
LEMMA InitInv == Init => IInv
BY GossipAssumption DEF Init, IInv, TypeOK, Marks, Trails

(* Send starts a trail at a message no node has marked.                    *)
LEMMA SendStep ==
  ASSUME IInv, NEW n \in Nodes, NEW t \in Nodes, NEW i \in MsgIds,
         Send(n, t, i)
  PROVE  IInv'
<1> USE GossipAssumption
<1> DEFINE m == [id |-> i, origin |-> PubKey(n), sealed |-> SharedKey(n, t),
                 hop |-> HopLimit, born |-> HopLimit, visited |-> {}]
           c == [node |-> n, from |-> n, at |-> "lock", msg |-> m]
<1>1. /\ calls' = calls \cup {c}
      /\ UNCHANGED <<relays, seen, wire, forwards, shown, lost, workers,
                     others>>
      /\ sent' = [sent EXCEPT ![i] = {<<n, t>>}]
  BY DEF Send
<1>2. m \in Messages
  BY DEF Messages, SharedKey, Everyone
<1>3. c.at = "lock" /\ c.msg = m /\ c \in Calls
  BY <1>2 DEF Calls, Everyone
<1>4. m.hop = m.born /\ m.visited = {}
  OBVIOUS
<1>5. Trail(m)'
  BY <1>4, FS_EmptySet DEF Trail
<1> HIDE DEF m, c
<1>6. TypeOK'
  BY <1>1, <1>3 DEF IInv, TypeOK, Everyone
<1>7. Marks'
  BY <1>1, <1>3 DEF IInv, Marks
<1>8. Trails'
  BY <1>1, <1>3, <1>5 DEF IInv, Trails, Trail
<1> QED BY <1>6, <1>7, <1>8 DEF IInv

(* Enter starts one too, on the wire, with any hop limit.                  *)
LEMMA EnterStep ==
  ASSUME IInv, NEW n \in Nodes, NEW i \in MsgIds,
         NEW hop \in 0..(HopModulus - 1), Enter(n, i, hop)
  PROVE  IInv'
<1> USE GossipAssumption
<1> DEFINE m == [id |-> i, origin |-> PubKey(Outside),
                 sealed |-> SharedKey(Outside, n),
                 hop |-> hop, born |-> hop, visited |-> {}]
           d == [from |-> Outside, to |-> n, msg |-> m]
<1>1. /\ wire' = wire \cup {d}
      /\ UNCHANGED <<relays, seen, calls, forwards, shown, lost, workers,
                     others>>
      /\ sent' = [sent EXCEPT ![i] = {<<Outside, n>>}]
  BY DEF Enter
<1>2. m \in Messages
  BY DEF Messages, SharedKey, Everyone
<1>3. d.from = Outside /\ d.msg = m /\ d \in Sends
  BY <1>2 DEF Sends, Everyone
<1>4. m.hop = m.born /\ m.visited = {}
  OBVIOUS
<1>5. Trail(m)'
  BY <1>4, FS_EmptySet DEF Trail
<1> HIDE DEF m, d
<1>6. TypeOK'
  BY <1>1, <1>3 DEF IInv, TypeOK, Everyone
<1>7. Marks'
  BY <1>1 DEF IInv, Marks
<1>8. Trails'
  BY <1>1, <1>3, <1>4, <1>5 DEF IInv, Trails, Trail
<1> QED BY <1>6, <1>7, <1>8 DEF IInv

(* CheckAndMark lets one call past the lock, at a node not on its trail.   *)
LEMMA MarkStep ==
  ASSUME IInv, NEW c \in calls, CheckAndMark(c)
  PROVE  IInv'
<1> DEFINE e == [c EXCEPT !.at = "fanout"]
<1>1. c \in Calls /\ c.node \in Nodes /\ c.msg \in Messages
      /\ c.msg.id \in MsgIds
  BY DEF IInv, TypeOK, Calls, Messages
<1>2. e \in Calls /\ e.at = "fanout" /\ e.node = c.node /\ e.msg = c.msg
  BY <1>1 DEF Calls
<1>3. /\ UNCHANGED <<relays, wire, sent, forwards, shown, lost, workers,
                     others>>
      /\ c.at = "lock"
  BY DEF CheckAndMark
<1> HIDE DEF e
<1>4. CASE c.msg.id \in seen[c.node]
  <2>1. calls' = calls \ {c} /\ seen' = seen
    BY <1>4 DEF CheckAndMark
  <2> QED BY <1>3, <2>1 DEF IInv, TypeOK, Marks, Trails, Trail
<1>5. CASE c.msg.id \notin seen[c.node]
  <2>1. /\ seen' = [seen EXCEPT ![c.node] = @ \cup {c.msg.id}]
        /\ calls' = (calls \ {c}) \cup {e}
    BY <1>5 DEF CheckAndMark, e
  <2>2. TypeOK'
    BY <1>1, <1>2, <1>3, <2>1 DEF IInv, TypeOK
  <2>3. \A n \in Nodes : seen[n] \subseteq seen'[n]
    BY <1>1, <2>1 DEF IInv, TypeOK
  <2>4. c.msg.id \in seen'[c.node]
    BY <1>1, <2>1 DEF IInv, TypeOK
  <2>5. forwards[c.node][c.msg.id] = 0
    <3>1. forwards[c.node][c.msg.id] \in Nat
      BY <1>1 DEF IInv, TypeOK
    <3>2. /\ forwards[c.node][c.msg.id] <= 1
          /\ forwards[c.node][c.msg.id] # 1
      BY <1>1, <1>5 DEF IInv, Marks
    <3> QED BY <3>1, <3>2
  <2>6. Marks'
    <3>1. \A f \in calls : f.at = "fanout" =>
            ~(f.node = c.node /\ f.msg.id = c.msg.id)
      BY <1>5 DEF IInv, Marks
    <3>2. \A n \in Nodes, i \in MsgIds :
            forwards'[n][i] <= 1 /\ (forwards'[n][i] = 1 => i \in seen'[n])
      BY <1>3, <2>3 DEF IInv, Marks
    <3>3. \A f \in calls' : f.at = "fanout" =>
            f.msg.id \in seen'[f.node] /\ forwards'[f.node][f.msg.id] = 0
      BY <1>2, <1>3, <2>1, <2>3, <2>4, <2>5 DEF IInv, TypeOK, Calls, Marks
    <3>4. \A f, g \in calls' :
            /\ f.at = "fanout" /\ g.at = "fanout"
            /\ f.node = g.node /\ f.msg.id = g.msg.id
            => f = g
      BY <1>2, <2>1, <3>1 DEF IInv, Marks
    <3> QED BY <3>2, <3>3, <3>4 DEF Marks
  <2>7. \A msg \in Messages : Trail(msg) => Trail(msg)'
    BY <2>3 DEF Trail, Messages
  <2>8. \A f \in calls : f.msg \in Messages
    BY DEF IInv, TypeOK, Calls
  <2>9. \A d \in wire : d.msg \in Messages
    BY DEF IInv, TypeOK, Sends
  <2>10. c.node \notin c.msg.visited
    BY <1>5 DEF IInv, Trails, Trail
  <2>11. Trails'
    BY <1>2, <1>3, <2>1, <2>7, <2>8, <2>9, <2>10 DEF IInv, Trails
  <2> QED BY <2>2, <2>6, <2>11 DEF IInv
<1> QED BY <1>4, <1>5

(* FanOut lengthens the trail by its node, once.                           *)
LEMMA FanOutStep ==
  ASSUME IInv, NEW c \in calls, FanOut(c)
  PROVE  IInv'
<1> USE GossipAssumption
<1> DEFINE hop == Decrement(c.msg.hop)
           out == [c.msg EXCEPT !.hop = hop, !.visited = @ \cup {c.node}]
<1>1. c \in Calls /\ c.node \in Nodes /\ c.msg \in Messages
      /\ c.msg.id \in MsgIds
  BY DEF IInv, TypeOK, Calls, Messages
<1>2. /\ c.at = "fanout"
      /\ calls' = calls \ {c}
      /\ UNCHANGED <<relays, seen, sent, shown, lost, workers, others>>
  BY DEF FanOut
<1>3. Trail(c.msg) /\ c.node \notin c.msg.visited
      /\ c.msg.id \in seen[c.node] /\ forwards[c.node][c.msg.id] = 0
  BY <1>2 DEF IInv, Trails, Marks
<1>4. /\ hop \in 0..(HopModulus - 1)
      /\ Cardinality(c.msg.visited) \in Nat
      /\ Cardinality(c.msg.visited) = Hops(c.msg) - hop - 1
  <2>1. /\ c.msg.hop \in 0..(HopModulus - 1)
        /\ c.msg.born \in 0..(HopModulus - 1)
    BY <1>1 DEF Messages
  <2>2. Cardinality(c.msg.visited) \in Nat
    BY <1>3, FS_CardinalityType DEF Trail
  <2>3. CASE c.msg.hop = 0
    <3>1. c.msg.born = 0 /\ Cardinality(c.msg.visited) = 0
      BY <1>3, <2>3, FS_EmptySet DEF Trail
    <3> QED BY <2>2, <2>3, <3>1, DecrementWraps DEF Hops
  <2>4. CASE c.msg.hop # 0
    <3>1. hop = c.msg.hop - 1
      BY <2>1, <2>4, DecrementInRange
    <3>2. Cardinality(c.msg.visited) = Hops(c.msg) - c.msg.hop
      BY <1>3, <2>1, <2>4, FS_EmptySet DEF Trail, Hops
    <3>3. Hops(c.msg) \in Nat
      BY <2>1 DEF Hops
    <3> QED BY <2>1, <2>2, <2>4, <3>1, <3>2, <3>3
  <2> QED BY <2>3, <2>4
<1>5. /\ out.id = c.msg.id /\ out.hop = hop
      /\ out.visited = c.msg.visited \cup {c.node}
      /\ Hops(out) = Hops(c.msg)
      /\ out \in Messages
  <2> HIDE DEF hop
  <2> QED BY <1>1, <1>4 DEF Messages, Hops
<1>6. CASE hop = 0
  <2>1. UNCHANGED <<wire, forwards>>
    BY <1>6 DEF FanOut
  <2> QED BY <1>2, <2>1 DEF IInv, TypeOK, Marks, Trails, Trail
<1>7. CASE hop # 0
  <2>1. /\ wire' = wire \cup Copies(c.node, out)
        /\ forwards' = [forwards EXCEPT ![c.node][c.msg.id] = @ + 1]
    BY <1>7 DEF FanOut
  <2>2. \A d \in Copies(c.node, out) :
          d \in Sends /\ d.msg = out /\ d.from = c.node
    BY <1>1, <1>5, <1>7 DEF Copies, Sends, Everyone
  <2>0. Hops(c.msg) \in Nat
    BY <1>1 DEF Hops, Messages
  <2>3. Trail(out)'
    <3>1. IsFiniteSet(out.visited)
          /\ Cardinality(out.visited) = Cardinality(c.msg.visited) + 1
      <4>1. IsFiniteSet(c.msg.visited)
        BY <1>3 DEF Trail
      <4>2. /\ IsFiniteSet(c.msg.visited \cup {c.node})
            /\ Cardinality(c.msg.visited \cup {c.node})
                 = Cardinality(c.msg.visited) + 1
        BY <1>3, <4>1, FS_AddElement
      <4> HIDE DEF out
      <4> QED BY <1>5, <4>2
    <3>2. \A v \in out.visited : out.id \in seen'[v]
      BY <1>2, <1>3, <1>5 DEF Trail
    <3>3. out.hop > 0 /\ Cardinality(out.visited) = Hops(out) - out.hop
      BY <1>4, <1>5, <1>7, <2>0, <3>1
    <3> QED BY <3>1, <3>2, <3>3 DEF Trail
  <2>4. /\ c.node \in out.visited /\ out.hop > 0
        /\ Cardinality(out.visited) = Hops(out) - out.hop
    <3>1. c.node \in out.visited
      BY <1>5
    <3>2. out.visited # {}
      BY <3>1
    <3>3. out.hop > 0
      BY <1>4, <1>5, <1>7
    <3>4. \/ out.hop = out.born /\ out.visited = {}
          \/ out.hop > 0 /\ Cardinality(out.visited) = Hops(out) - out.hop
      BY <2>3 DEF Trail
    <3> QED BY <3>1, <3>2, <3>3, <3>4
  <2> HIDE DEF out, hop
  <2>5. \A n \in Nodes, i \in MsgIds :
          forwards'[n][i] = IF n = c.node /\ i = c.msg.id
                            THEN forwards[n][i] + 1 ELSE forwards[n][i]
    BY <1>1, <2>1 DEF IInv, TypeOK
  <2>6. TypeOK'
    <3>1. forwards' \in [Nodes -> [MsgIds -> Nat]]
      BY <1>1, <2>1 DEF IInv, TypeOK
    <3>2. wire' \in SUBSET Sends
      BY <2>1, <2>2 DEF IInv, TypeOK
    <3> QED BY <1>2, <3>1, <3>2 DEF IInv, TypeOK
  <2>7. Marks'
    <3>1. \A n \in Nodes, i \in MsgIds :
            forwards'[n][i] <= 1 /\ (forwards'[n][i] = 1 => i \in seen'[n])
      BY <1>2, <1>3, <2>5 DEF IInv, Marks
    <3>2. \A f \in calls' : f.at = "fanout" =>
            f.msg.id \in seen'[f.node] /\ forwards'[f.node][f.msg.id] = 0
      <4> SUFFICES ASSUME NEW f \in calls', f.at = "fanout"
                   PROVE  f.msg.id \in seen'[f.node]
                          /\ forwards'[f.node][f.msg.id] = 0
        OBVIOUS
      <4>1. f \in calls /\ f # c
        BY <1>2
      <4>2. f.node \in Nodes /\ f.msg.id \in MsgIds
        BY <4>1 DEF IInv, TypeOK, Calls, Messages
      <4>3. ~(f.node = c.node /\ f.msg.id = c.msg.id)
        BY <1>2, <4>1 DEF IInv, Marks
      <4> QED BY <1>2, <2>5, <4>1, <4>2, <4>3 DEF IInv, Marks
    <3>3. \A f, g \in calls' :
            /\ f.at = "fanout" /\ g.at = "fanout"
            /\ f.node = g.node /\ f.msg.id = g.msg.id
            => f = g
      BY <1>2 DEF IInv, Marks
    <3> QED BY <3>1, <3>2, <3>3 DEF Marks
  <2>8. Trails'
    <3>1. \A msg : Trail(msg) => Trail(msg)'
      BY <1>2 DEF Trail
    <3>2. \A d \in wire' :
            /\ Trail(d.msg)'
            /\ \/ d.from = Outside /\ d.msg.visited = {}
               \/ d.from \in d.msg.visited /\ d.msg.hop > 0
                  /\ Cardinality(d.msg.visited) = Hops(d.msg) - d.msg.hop
      BY <2>1, <2>2, <2>3, <2>4, <3>1 DEF IInv, Trails
    <3>3. \A f \in calls' : /\ Trail(f.msg)'
                            /\ f.at = "fanout" => f.node \notin f.msg.visited
      BY <1>2, <3>1 DEF IInv, Trails
    <3> QED BY <3>2, <3>3 DEF Trails
  <2> QED BY <2>6, <2>7, <2>8 DEF IInv
<1> QED BY <1>6, <1>7

(* Taking a worker leaves a number of workers within bounds.               *)
LEMMA WorkerStep ==
  ASSUME TypeOK, NEW n \in Nodes, TakeWorker(n)
  PROVE  workers' \in [Nodes -> 0..WorkersNum]
<1>1. workers \in [Nodes -> 0..WorkersNum] /\ WorkersNum \in Nat
  BY GossipAssumption DEF TypeOK
<1>2. workers[n] - 1 \in 0..WorkersNum
  BY <1>1 DEF TakeWorker
<1> QED BY <1>1, <1>2 DEF TakeWorker

(* Deliver hands the trail of a copy to a new call; Lose ends it.  Both    *)
(* leave the workers a number within bounds.                               *)
LEMMA DeliverStep ==
  ASSUME IInv, NEW d \in wire, Deliver(d) \/ Lose(d)
  PROVE  IInv'
<1> DEFINE c == [node |-> d.to, from |-> d.from, at |-> "lock", msg |-> d.msg]
<1>1. d \in Sends /\ d.to \in Nodes /\ d.msg \in Messages
      /\ d.msg.id \in MsgIds
  BY DEF IInv, TypeOK, Sends, Messages
<1>2. c \in Calls /\ c.at = "lock" /\ c.msg = d.msg
  BY <1>1 DEF Calls, Sends
<1>3. /\ calls' \subseteq calls \cup {c}
      /\ wire' = wire \ {d}
      /\ UNCHANGED <<relays, seen, sent, forwards, others>>
  BY DEF Deliver, Lose
<1>4. shown' \in [Nodes -> [MsgIds -> Nat]] /\ lost' \in SUBSET MsgIds
  <2>1. shown' = shown
        \/ shown' = [shown EXCEPT ![d.to][d.msg.id] = @ + 1]
    BY DEF Deliver, Lose
  <2>2. lost' = lost \/ lost' = lost \cup {d.msg.id}
    BY DEF Deliver, Lose
  <2>3. shown' \in [Nodes -> [MsgIds -> Nat]]
    <3>1. CASE shown' = shown
      BY <3>1 DEF IInv, TypeOK
    <3>2. CASE shown' = [shown EXCEPT ![d.to][d.msg.id] = @ + 1]
      <4>1. shown \in [Nodes -> [MsgIds -> Nat]]
        BY DEF IInv, TypeOK
      <4> QED BY <1>1, <3>2, <4>1
    <3> QED BY <2>1, <3>1, <3>2
  <2>4. lost' \in SUBSET MsgIds
    BY <1>1, <2>2 DEF IInv, TypeOK
  <2> QED BY <2>3, <2>4
<1> HIDE DEF c
<1>a. workers' \in [Nodes -> 0..WorkersNum]
  BY <1>1, WorkerStep DEF IInv, Deliver, Lose, TypeOK
<1>5. TypeOK'
  BY <1>2, <1>3, <1>4, <1>a DEF IInv, TypeOK
<1>6. Marks'
  BY <1>2, <1>3 DEF IInv, Marks
<1>7. \A msg : Trail(msg) => Trail(msg)'
  BY <1>3 DEF Trail
<1>8. Trails'
  BY <1>2, <1>3, <1>7 DEF IInv, Trails
<1> QED BY <1>5, <1>6, <1>8 DEF IInv

(* The inductive invariant holds throughout.                               *)
THEOREM Invariance == Spec => []IInv
<1>1. IInv /\ [Next]_vars => IInv'
  <2> SUFFICES ASSUME IInv, [Next]_vars PROVE IInv'
    OBVIOUS
  <2>1. CASE UNCHANGED vars
    BY <2>1 DEF vars, IInv, TypeOK, Marks, Trails, Trail
  <2>2. ASSUME NEW n \in Nodes, OtherPacket(n) PROVE IInv'
    <3>1. workers' \in [Nodes -> 0..WorkersNum] /\ others' \in 0..MaxOther
      BY <2>2, WorkerStep, GossipAssumption DEF OtherPacket, IInv, TypeOK
    <3> QED BY <2>2, <3>1
            DEF OtherPacket, IInv, TypeOK, Marks, Trails, Trail
  <2> QED BY <2>1, <2>2, SendStep, EnterStep, MarkStep, FanOutStep, DeliverStep
          DEF Next
<1> QED BY InitInv, <1>1, PTL DEF Spec

-----------------------------------------------------------------------------
(* What follows from it.                                                   *)

(* Every variable keeps its type; a hop limit stays within its width.      *)
THEOREM TypeCorrect == Spec => []TypeOK
<1>1. IInv => TypeOK
  BY DEF IInv
<1> QED BY <1>1, Invariance, PTL

(* No node sends a message on twice, whatever copies race at it.           *)
THEOREM ForwardsOnce == Spec => []ForwardOnce
<1>1. IInv => ForwardOnce
  BY DEF IInv, Marks, ForwardOnce
<1> QED BY <1>1, Invariance, PTL

(* A copy has lost one hop at each of the distinct nodes it has visited,   *)
(* for every hop limit it may have come with: 0 counts as the full width.  *)
THEOREM NoCircles == Spec => []HopsAreDistinctNodes
<1>1. IInv => HopsAreDistinctNodes
  BY DEF IInv, Trails, Trail, HopsAreDistinctNodes
<1> QED BY <1>1, Invariance, PTL

(* In a finite network no larger than the hops of a message, it is given   *)
(* up only once every node has marked it, wherever it came from.           *)
THEOREM HopsAreEnough ==
  ASSUME IsFiniteSet(Nodes) PROVE Spec => []HopsSuffice
<1>1. IInv => HopsSuffice
  <2> SUFFICES ASSUME IInv, NEW c \in calls, c.at = "fanout",
                      Decrement(c.msg.hop) = 0,
                      Hops(c.msg) >= Cardinality(Nodes), NEW n \in Nodes
               PROVE  c.msg.id \in seen[n]
    BY DEF HopsSuffice
  <2> USE GossipAssumption
  <2> DEFINE all == c.msg.visited \cup {c.node}
  <2>1. /\ all \in SUBSET Nodes
        /\ c.msg.hop \in 0..(HopModulus - 1)
        /\ c.msg.born \in 0..(HopModulus - 1)
    BY DEF IInv, TypeOK, Calls, Messages
  <2>2. /\ Trail(c.msg) /\ c.node \notin c.msg.visited
        /\ c.msg.id \in seen[c.node]
    BY DEF IInv, Trails, Marks
  <2>3. c.msg.hop = 1
    <3>1. c.msg.hop # 0
      BY DecrementWraps
    <3> QED BY <2>1, <3>1, DecrementInRange
  <2>4. Cardinality(all) = Hops(c.msg)
    <3>1. /\ IsFiniteSet(c.msg.visited)
          /\ Cardinality(c.msg.visited) = Hops(c.msg) - 1
      BY <2>1, <2>2, <2>3, FS_EmptySet DEF Trail, Hops
    <3>2. Cardinality(all) = Cardinality(c.msg.visited) + 1
      BY <2>2, <3>1, FS_AddElement
    <3>3. Hops(c.msg) \in Nat
      BY <2>1 DEF Hops
    <3> QED BY <3>1, <3>2, <3>3
  <2>5. Cardinality(all) <= Cardinality(Nodes)
    BY <2>1, FS_Subset
  <2>6. Cardinality(all) = Cardinality(Nodes)
    <3>1. Cardinality(Nodes) \in Nat /\ Hops(c.msg) \in Nat
      BY <2>1, FS_CardinalityType DEF Hops
    <3> QED BY <2>4, <2>5, <3>1
  <2>7. all = Nodes
    BY <2>1, <2>6, FS_Subset
  <2> QED BY <2>2, <2>7 DEF Trail
<1> QED BY <1>1, Invariance, PTL
=============================================================================
