-------------------------------- MODULE Gossip --------------------------------
(***************************************************************************)
(* internal/p2p/gossip/manager.go and internal/services/messenger: a chat  *)
(* message flooded over the swarms of several nodes.                       *)
(*                                                                         *)
(* Messenger.Send encrypts for the target and calls Broadcast, which marks *)
(* the message in seenCache, takes one hop off it and starts one goroutine *)
(* per active peer to send it.  HandleIncoming is the relay's entry: it    *)
(* reads seenCache, and calls Broadcast, which checks it again under the   *)
(* write lock.  Nothing calls HandleIncoming at this commit: relays says   *)
(* whether a received message is handed to it, and both are explored.      *)
(*                                                                         *)
(* A node handles a packet with one worker of its dispatcher, and a worker *)
(* serves one packet in its life (module Dispatcher).  Outside stands for  *)
(* a node of another make, which fills HopLimit in as it likes.            *)
(***************************************************************************)
EXTENDS Naturals, FiniteSets

CONSTANTS
  Nodes,       \* the nodes of the network
  Outside,     \* a node of another make, next to all of them
  Peers,       \* Peers[n]: the nodes in activePeers of n's swarm
  MsgIds,      \* the uuids PackChatMessage draws, each once
  HopLimit,    \* the hop limit of a new message (20 in the code)
  WorkersNum,  \* the workers of a node's dispatcher
  MaxOther,    \* bound: the packets besides those of the flood
  HopModulus   \* HopLimit is an unsigned integer of this many values (2^32)

ASSUME GossipAssumption ==
  /\ Peers \in [Nodes -> SUBSET Nodes]
  /\ Outside \notin Nodes
  /\ WorkersNum \in Nat
  /\ MaxOther \in Nat
  /\ HopModulus \in Nat
  /\ HopLimit \in 1..(HopModulus - 1)

Everyone == Nodes \cup {Outside}

(* A peer's ID is the SHA-256 of its key: 32 bytes too, never the same.    *)
PubKey(n) == [kind |-> "public key", of |-> n]
PeerPubKeyToID(n) == [kind |-> "peer id", of |-> n]

(* MessageData.  sealed is the pair of nodes whose shared key seals the    *)
(* payload.  born and visited are histories: the hop limit the message     *)
(* started with and the nodes that have sent it on.                        *)
Messages == [id      : MsgIds,
             origin  : {PubKey(n) : n \in Everyone},
             sealed  : SUBSET Everyone,
             hop     : 0..(HopModulus - 1),
             born    : 0..(HopModulus - 1),
             visited : SUBSET Nodes]

VARIABLES
  relays,    \* received messages are handed to HandleIncoming
  seen,      \* seen[n]: the ids in seenCache of n
  calls,     \* the calls of Broadcast under way
  wire,      \* the sends under way: goroutines of SendDataForPeer
  sent,      \* history: the origin and the target of each message sent
  forwards,  \* history: how often n has sent the message on, per id
  shown,     \* history: how often n has decrypted the message, per id
  lost,      \* history: the messages of which a copy was not handled
  workers,   \* workers[n]: the workers n's dispatcher has left
  others     \* history: how many packets besides the flood's were taken

vars == <<relays, seen, calls, wire, sent, forwards, shown, lost, workers,
          others>>

Init ==
  /\ relays \in BOOLEAN
  /\ seen = [n \in Nodes |-> {}]
  /\ calls = {}
  /\ wire = {}
  /\ sent = [i \in MsgIds |-> {}]
  /\ forwards = [n \in Nodes |-> [i \in MsgIds |-> 0]]
  /\ shown = [n \in Nodes |-> [i \in MsgIds |-> 0]]
  /\ lost = {}
  /\ workers = [n \in Nodes |-> WorkersNum]
  /\ others = 0

-----------------------------------------------------------------------------
(* computeSharedKey: the key two nodes derive from each other's keys.      *)
SharedKey(n, m) == {n, m}

(* Send and PackChatMessage: a fresh id, this node as the origin, the      *)
(* payload sealed for t; then Broadcast.                                   *)
Send(n, t, i) ==
  /\ sent[i] = {}
  /\ sent' = [sent EXCEPT ![i] = {<<n, t>>}]
  /\ calls' = calls \cup
       {[node |-> n, from |-> n, at |-> "lock",
         msg  |-> [id |-> i, origin |-> PubKey(n), sealed |-> SharedKey(n, t),
                   hop |-> HopLimit, born |-> HopLimit, visited |-> {}]]}
  /\ UNCHANGED <<relays, seen, wire, forwards, shown, lost, workers, others>>

(* The outside node sends n a message of its own, sealed for n, with any   *)
(* hop limit at all: 0 is on the wire what an unset field is.              *)
Enter(n, i, hop) ==
  /\ sent[i] = {}
  /\ sent' = [sent EXCEPT ![i] = {<<Outside, n>>}]
  /\ wire' = wire \cup
       {[from |-> Outside, to |-> n,
         msg  |-> [id |-> i, origin |-> PubKey(Outside),
                   sealed |-> SharedKey(Outside, n),
                   hop |-> hop, born |-> hop, visited |-> {}]]}
  /\ UNCHANGED <<relays, seen, calls, forwards, shown, lost, workers, others>>

(* Fault: the check under the lock is left to HandleIncoming's.            *)
MarkUnchecked(c) ==
  /\ c \in calls /\ c.at = "lock"
  /\ seen' = [seen EXCEPT ![c.node] = @ \cup {c.msg.id}]
  /\ calls' = (calls \ {c}) \cup {[c EXCEPT !.at = "fanout"]}
  /\ UNCHANGED <<relays, wire, sent, forwards, shown, lost, workers, others>>

(* Broadcast under g.mu: return if the message was seen, else mark it.     *)
CheckAndMark(c) ==
  /\ c \in calls /\ c.at = "lock"
  /\ \/ /\ c.msg.id \in seen[c.node]
        /\ calls' = calls \ {c}
        /\ UNCHANGED seen
     \/ /\ c.msg.id \notin seen[c.node]
        /\ seen' = [seen EXCEPT ![c.node] = @ \cup {c.msg.id}]
        /\ calls' = (calls \ {c}) \cup {[c EXCEPT !.at = "fanout"]}
  /\ UNCHANGED <<relays, wire, sent, forwards, shown, lost, workers, others>>

(* Fault: the hop is taken off twice.                                      *)
DecrementTwice(hop) == (hop + HopModulus - 2) % HopModulus

(* HopLimit-- on an unsigned integer.                                      *)
Decrement(hop) == (hop + HopModulus - 1) % HopModulus

(* The sends Broadcast starts from node n.  The peer to skip is found by   *)
(* comparing its ID with OriginId, which is a key.                         *)
Copies(n, msg) ==
  {[from |-> n, to |-> p, msg |-> msg] :
     p \in {q \in Peers[n] : PeerPubKeyToID(q) # msg.origin}}

(* Broadcast after g.mu: one hop off, and the sends unless none is left.   *)
FanOut(c) ==
  LET hop == Decrement(c.msg.hop)
      out == [c.msg EXCEPT !.hop = hop, !.visited = @ \cup {c.node}]
  IN  /\ c \in calls /\ c.at = "fanout"
      /\ calls' = calls \ {c}
      /\ \/ /\ hop = 0
            /\ UNCHANGED <<wire, forwards>>
         \/ /\ hop # 0
            /\ wire' = wire \cup Copies(c.node, out)
            /\ forwards' = [forwards EXCEPT ![c.node][c.msg.id] = @ + 1]
      /\ UNCHANGED <<relays, seen, sent, shown, lost, workers, others>>

(* HandleIncoming under the read lock: is the message new to the node?     *)
HandleIncoming(d) == d.msg.id \notin seen[d.to]

(* Fault: the sender of the copy is taken for its origin.                  *)
KeyOfSender(d) == SharedKey(d.to, d.from)

(* Handle derives the key from OriginId.                                   *)
KeyOfOrigin(d) == SharedKey(d.to, d.msg.origin.of)

(* A worker of n's dispatcher takes one packet and is gone.                *)
TakeWorker(n) ==
  /\ workers[n] > 0
  /\ workers' = [workers EXCEPT ![n] = @ - 1]

(* A send completes: the other node reads the frame and a worker of its    *)
(* dispatcher hands the message to Handle, which shows it if it decrypts,  *)
(* and, where the relay is wired, to HandleIncoming.                       *)
Deliver(d) ==
  /\ d \in wire
  /\ TakeWorker(d.to)
  /\ wire' = wire \ {d}
  /\ shown' = IF KeyOfOrigin(d) = d.msg.sealed
              THEN [shown EXCEPT ![d.to][d.msg.id] = @ + 1]
              ELSE shown
  /\ calls' = IF relays /\ HandleIncoming(d)
              THEN calls \cup {[node |-> d.to, from |-> d.from, at |-> "lock",
                                msg |-> d.msg]}
              ELSE calls
  /\ UNCHANGED <<relays, seen, sent, forwards, lost, others>>

(* A send fails: the peer has left activePeers, no stream opens within two *)
(* seconds, the write takes more than one, or the receiving dispatcher     *)
(* drops the packet, or queues it and has no worker left to take it.       *)
(* Nobody looks at the error.                                              *)
Lose(d) ==
  /\ d \in wire
  /\ wire' = wire \ {d}
  /\ lost' = lost \cup {d.msg.id}
  /\ UNCHANGED <<relays, seen, calls, sent, forwards, shown, workers, others>>

(* A packet of another kind, or of no use, takes a worker of n.            *)
OtherPacket(n) ==
  /\ others < MaxOther
  /\ others' = others + 1
  /\ TakeWorker(n)
  /\ UNCHANGED <<relays, seen, calls, wire, sent, forwards, shown, lost>>

Next ==
  \/ \E n, t \in Nodes, i \in MsgIds : Send(n, t, i)
  \/ \E n \in Nodes, i \in MsgIds, hop \in 0..(HopModulus - 1) :
       Enter(n, i, hop)
  \/ \E n \in Nodes : OtherPacket(n)
  \/ \E c \in calls : CheckAndMark(c) \/ FanOut(c)
  \/ \E d \in wire : Deliver(d) \/ Lose(d)

(* Goroutines run on: a Broadcast returns and a send completes or fails.   *)
Fairness ==
  /\ WF_vars(\E c \in calls : CheckAndMark(c) \/ FanOut(c))
  /\ WF_vars(\E d \in wire : Deliver(d) \/ Lose(d))

Spec == Init /\ [][Next]_vars

FairSpec == Spec /\ Fairness

-----------------------------------------------------------------------------
(* Properties.                                                             *)

Calls == [node : Nodes, from : Everyone, at : {"lock", "fanout"},
          msg : Messages]
Sends == [from : Everyone, to : Nodes, msg : Messages]

(* Every variable has its type.                                            *)
TypeOK ==
  /\ relays \in BOOLEAN
  /\ seen \in [Nodes -> SUBSET MsgIds]
  /\ calls \in SUBSET Calls
  /\ wire \in SUBSET Sends
  /\ sent \in [MsgIds -> SUBSET (Everyone \X Nodes)]
  /\ forwards \in [Nodes -> [MsgIds -> Nat]]
  /\ shown \in [Nodes -> [MsgIds -> Nat]]
  /\ lost \in SUBSET MsgIds
  /\ workers \in [Nodes -> 0..WorkersNum]
  /\ others \in 0..MaxOther

(* No node sends a message on twice, however many copies reach it at once: *)
(* the check of HandleIncoming may be stale when Broadcast acts on it, and *)
(* the one under the write lock is not.                                    *)
ForwardOnce == \A n \in Nodes, i \in MsgIds : forwards[n][i] <= 1

(* How many nodes a message can pass: what it was born with, and all the   *)
(* width of the integer if that was 0, as the first decrement wraps.       *)
Hops(msg) == IF msg.born = 0 THEN HopModulus ELSE msg.born

(* A copy has lost exactly one hop at each of the distinct nodes that sent *)
(* it on, all of which have marked it: floods do not run in circles, and   *)
(* the unsigned limit wraps at most once, at the first node a message with *)
(* limit 0 comes to.                                                       *)
HopsAreDistinctNodes ==
  \A d \in wire :
    \/ d.from = Outside /\ d.msg.visited = {}
    \/ /\ d.from \in d.msg.visited
       /\ d.msg.hop > 0
       /\ Cardinality(d.msg.visited) = Hops(d.msg) - d.msg.hop
       /\ \A v \in d.msg.visited : d.msg.id \in seen[v]

(* Where a message can pass as many nodes as there are, Broadcast gives it *)
(* up for want of hops only when every node has marked it: also one that   *)
(* came from outside with limit 0.                                         *)
HopsSuffice ==
  \A c \in calls :
    c.at = "fanout" /\ Decrement(c.msg.hop) = 0
                    /\ Hops(c.msg) >= Cardinality(Nodes)
      => \A n \in Nodes : c.msg.id \in seen[n]

(* A message of a node is eventually shown at its target, if no send of it *)
(* fails, no dispatcher it comes to is out of workers, and the target is a *)
(* peer of the origin or the relay is wired.  The hop limit must allow for *)
(* the longest way round, not the shortest: a node that sees a spent copy  *)
(* first ignores a later one with hops left.                               *)
Delivered ==
  \A i \in MsgIds, t \in Nodes :
    (\E n \in Nodes : <<n, t>> \in sent[i] /\ (relays \/ t \in Peers[n]))
      ~> (shown[t][i] > 0 \/ i \in lost)
=============================================================================
