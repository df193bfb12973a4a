------------------------------- MODULE PairLink --------------------------------
(***************************************************************************)
(* The swarms of two nodes at the two ends of their connections (internal/ *)
(* p2p/swarm.go, peer.go and the sending half of internal/network/quic.go).*)
(* Each end registers the connections in the order its own handshakes end, *)
(* keeps the last and closes the one before, and closing a Peer stops only *)
(* its own reading: the connection stays up and the other end may go on    *)
(* writing to it.  Registration in its single steps is in Swarm, the       *)
(* handshake in Handshake; here each is one step of one end.  The messages *)
(* are requests for peers, so that what a node does with one, in internal/ *)
(* services/discovery/service.go, is part of reading it.                   *)
(***************************************************************************)
EXTENDS Naturals, Sequences

CONSTANTS
  Conns,   \* the connections between the two nodes
  Dialer,  \* Dialer[c]: the node that dialed c
  Msgs,    \* the requests for peers, each sent at most once
  ConnChanCap,  \* capacity of each connChan (10 in the code)
  None

Nodes == {"a", "b"}
Other(n) == CHOOSE m \in Nodes : m # n

ASSUME LinkAssumption ==
  /\ Dialer \in [Conns -> Nodes]
  /\ ConnChanCap \in Nat \ {0}
  /\ None \notin Conns

VARIABLES
  conn,      \* "none", "dialed" (the dialer is through), "up" (both), "down"
  sending,   \* sending[n]: the connections newConn of n is yet to queue
  connChan,  \* connChan[n]: what registrationLoop of n has yet to take
  active,    \* active[n]: the connection of the Peer n has for the other
  ctx,       \* ctx[n][c]: the context of n's Peer on c
  loop,      \* loop[n][c]: AcceptUniLoop of n on c
  wire,      \* unidirectional streams written and not yet accepted
  sent,      \* history: the requests sent with no error
  got,       \* the messages whose frame reached n's OnData
  order,     \* history: the connections n has registered, in order
  cut        \* history: the connections whose Peer n removed or banned

links == <<conn, sending, connChan>>
peers == <<active, ctx, order, cut>>
vars  == <<links, peers, loop, wire, sent, got>>

Init ==
  /\ conn = [c \in Conns |-> "none"]
  /\ sending = [n \in Nodes |-> {}]
  /\ connChan = [n \in Nodes |-> <<>>]
  /\ active = [n \in Nodes |-> None]
  /\ ctx = [n \in Nodes |-> [c \in Conns |-> "none"]]
  /\ loop = [n \in Nodes |-> [c \in Conns |-> "none"]]
  /\ wire = {}
  /\ sent = {}
  /\ got = [n \in Nodes |-> {}]
  /\ order = [n \in Nodes |-> <<>>]
  /\ cut = [n \in Nodes |-> {}]

-----------------------------------------------------------------------------
(* DialEarly succeeds at the dialer, who does not wait for the acceptor.   *)
DialEarly(c) ==
  /\ conn[c] = "none"
  /\ conn' = [conn EXCEPT ![c] = "dialed"]
  /\ sending' = [sending EXCEPT ![Dialer[c]] = @ \cup {c}]
  /\ UNCHANGED <<connChan, peers, loop, wire, sent, got>>

(* AcceptConn has read the Ready byte.                                     *)
AcceptConn(c) ==
  /\ conn[c] = "dialed"
  /\ conn' = [conn EXCEPT ![c] = "up"]
  /\ sending' = [sending EXCEPT ![Other(Dialer[c])] = @ \cup {c}]
  /\ UNCHANGED <<connChan, peers, loop, wire, sent, got>>

(* newConn sends on connChan, when there is room.                          *)
NewConn(n, c) ==
  /\ c \in sending[n]
  /\ Len(connChan[n]) < ConnChanCap
  /\ sending' = [sending EXCEPT ![n] = @ \ {c}]
  /\ connChan' = [connChan EXCEPT ![n] = Append(@, c)]
  /\ UNCHANGED <<conn, peers, loop, wire, sent, got>>

(* The connection ends; the Peers on it stay, and their loops see it.      *)
ConnLost(c) ==
  /\ conn[c] \in {"dialed", "up"}
  /\ conn' = [conn EXCEPT ![c] = "down"]
  /\ UNCHANGED <<sending, connChan, peers, loop, wire, sent, got>>

Closed(n) ==
  [c \in Conns |-> IF c = active[n] THEN "cancelled" ELSE ctx[n][c]]

(* NewPeer makes a context of its own.                                     *)
NewPeer == "open"

(* registrationLoop takes a connection, given the context of the new Peer  *)
(* and whether its loops are started: AddPeer closes the old Peer.         *)
Registers(n, new, reads) ==
  LET c == Head(connChan[n])
  IN  /\ connChan[n] # <<>>
      /\ connChan' = [connChan EXCEPT ![n] = Tail(@)]
      /\ ctx' = [ctx EXCEPT ![n] = [Closed(n) EXCEPT ![c] = new]]
      /\ active' = [active EXCEPT ![n] = c]
      /\ loop' = [loop EXCEPT ![n][c] = IF reads THEN "accept" ELSE "none"]
      /\ order' = [order EXCEPT ![n] = Append(@, c)]
      /\ UNCHANGED <<conn, sending, cut, wire, sent, got>>

(* Faults: the new Peer shares the context of the old; only the dialer     *)
(* starts the loops.                                                       *)
AddPeerOldContext(n) ==
  Registers(n, IF active[n] = None THEN NewPeer ELSE "cancelled", TRUE)
AddPeerDialerReads(n) == Registers(n, NewPeer, Dialer[Head(connChan[n])] = n)

AddPeer(n) == Registers(n, NewPeer, TRUE)

(* A Peer is closed on request.                                            *)
Cut(n) ==
  /\ active[n] # None
  /\ ctx' = [ctx EXCEPT ![n] = Closed(n)]
  /\ cut' = [cut EXCEPT ![n] = @ \cup {active[n]}]
  /\ UNCHANGED <<links, order, loop, wire, sent, got>>

(* RemovePeer closes the Peer and forgets it.                              *)
RemovePeer(n) == Cut(n) /\ active' = [active EXCEPT ![n] = None]

(* BanPeer closes the Peer and keeps it in activePeers.  One it looked up  *)
(* and that is replaced before it closes it is closed by then.             *)
BanPeer(n) == Cut(n) /\ UNCHANGED active

-----------------------------------------------------------------------------
(* GetPeer has a Peer, and its connection opens a stream.                  *)
CanSend(n) == active[n] # None /\ conn[active[n]] \in {"dialed", "up"}

(* signMessageData: the data, signed, and the key of the signer.           *)
signMessageData(n, kind, m) == [kind |-> kind, msg |-> m, pubKey |-> n]

(* Peer.Send: one new stream on the connection of the Peer.                *)
PeerSend(n, env) == [conn |-> active[n], to |-> Other(n), env |-> env]

(* SendDataForPeer returns nil once the frame is written; whether anyone   *)
(* reads it the sender is not told.                                        *)
SendDataForPeer(n, m) ==
  /\ m \notin sent /\ CanSend(n)
  /\ wire' = wire \cup {PeerSend(n, signMessageData(n, "PeerReq", m))}
  /\ sent' = sent \cup {m}
  /\ UNCHANGED <<links, peers, loop, got>>

(* peerGetter.Handle is empty.                                             *)
peerGetter(n, env) == {}

(* peerGiver.Handle answers a PeerReq with GetMyRandomPeers.  It takes the *)
(* key in OriginId for an ID, finds no Peer under it, and so has Broadcast *)
(* send the answer to every Peer, here the other node.                     *)
peerGiver(n, env) ==
  IF env.kind = "PeerReq" /\ CanSend(n)
  THEN {PeerSend(n, signMessageData(n, "PeerRes", env.msg))} ELSE {}

(* DiscoveryService.Handle: the streams it writes.                         *)
Handle(n, env) ==
  IF env.kind = "PeerRes" THEN peerGiver(n, env) ELSE peerGetter(n, env)

(* handleGossipStream reads the frame of a stream to OnData and on to its  *)
(* handler.                                                                *)
handleGossipStream(n, d) ==
  /\ wire' = (wire \ {d}) \cup Handle(n, d.env)
  /\ got' = [got EXCEPT ![n] = @ \cup {d.env.msg}]

(* AcceptUniStream returns a stream; then the loop looks at its context.   *)
AcceptUni(n, d) ==
  /\ d \in wire /\ d.to = n /\ conn[d.conn] = "up"
  /\ loop[n][d.conn] = "accept"
  /\ handleGossipStream(n, d)
  /\ loop' = [loop EXCEPT ![n][d.conn] =
                IF ctx[n][d.conn] = "open" THEN "accept" ELSE "done"]
  /\ UNCHANGED <<links, peers, sent>>

(* It fails, and the loop returns.                                         *)
AcceptErr(n, c) ==
  /\ loop[n][c] = "accept"
  /\ ctx[n][c] = "cancelled" \/ conn[c] = "down"
  /\ loop' = [loop EXCEPT ![n][c] = "done"]
  /\ UNCHANGED <<links, peers, wire, sent, got>>

Next ==
  \/ \E c \in Conns : DialEarly(c) \/ AcceptConn(c) \/ ConnLost(c)
  \/ \E n \in Nodes :
       \/ AddPeer(n) \/ RemovePeer(n) \/ BanPeer(n)
       \/ \E c \in Conns : NewConn(n, c)
       \/ \E m \in Msgs : SendDataForPeer(n, m)
       \/ \E d \in wire : AcceptUni(n, d)
       \/ \E c \in Conns : AcceptErr(n, c)

(* A Ready byte on its way arrives, or the connection fails; newConn and   *)
(* both loops of each node run on.  Nobody has to dial, send or remove.    *)
Fairness ==
  /\ \A c \in Conns : WF_vars(AcceptConn(c))
  /\ \A n \in Nodes : /\ WF_vars(AddPeer(n))
                      /\ \A c \in Conns : /\ WF_vars(NewConn(n, c))
                                          /\ WF_vars(AcceptErr(n, c))
                      /\ WF_vars(\E d \in wire : AcceptUni(n, d))

Spec == Init /\ [][Next]_vars

FairSpec == Spec /\ Fairness

-----------------------------------------------------------------------------
(* Properties.                                                             *)

(* Every variable has its type.                                            *)
TypeOK ==
  /\ conn \in [Conns -> {"none", "dialed", "up", "down"}]
  /\ sending \in [Nodes -> SUBSET Conns]
  /\ connChan \in [Nodes -> Seq(Conns)]
  /\ \A n \in Nodes : Len(connChan[n]) <= ConnChanCap
  /\ active \in [Nodes -> Conns \cup {None}]
  /\ ctx \in [Nodes -> [Conns -> {"none", "open", "cancelled"}]]
  /\ loop \in [Nodes -> [Conns -> {"none", "accept", "done"}]]
  /\ wire \subseteq [conn : Conns, to : Nodes,
       env : [kind : {"PeerReq", "PeerRes"}, msg : Msgs, pubKey : Nodes]]
  /\ sent \subseteq Msgs
  /\ got \in [Nodes -> SUBSET Msgs]
  /\ order \in [Nodes -> Seq(Conns)]
  /\ cut \in [Nodes -> SUBSET Conns]

(* No handshake is half done and nothing is on its way to activePeers.     *)
(* Connections may have failed, and Peers may have been removed or banned. *)
Settled ==
  /\ \A c \in Conns : conn[c] # "dialed"
  /\ \A n \in Nodes : sending[n] = {} /\ connChan[n] = <<>>

(* n writes to a live connection that the other node does not read.        *)
Unheard(n) ==
  /\ active[n] # None /\ conn[active[n]] = "up"
  /\ ctx[Other(n)][active[n]] # "open"

Registered(n, c) == \E i \in 1 .. Len(order[n]) : order[n][i] = c

(* n registered c and, later, d.                                           *)
Before(n, c, d) ==
  \E i, j \in 1 .. Len(order[n]) : i < j /\ order[n][i] = c /\ order[n][j] = d

(* Two nodes may keep a connection each, on which neither is heard, for as *)
(* long as nobody dials again.  When the link has settled and a node is    *)
(* not heard on a live connection c, the other has removed or banned its   *)
(* Peer on c, or has replaced it with that of a connection d which         *)
(* - the first node has registered too, and before c (they crossed), or    *)
(* - the other node dialed, and which failed before the first accepted it. *)
DeafHasCause ==
  Settled =>
    \A n \in Nodes : Unheard(n) =>
      LET c == active[n]
          m == Other(n)
      IN  \/ c \in cut[m]
          \/ \E d \in Conns :
               /\ Before(m, c, d)
               /\ \/ Before(n, d, c)
                  \/ /\ conn[d] = "down" /\ Dialer[d] = m
                     /\ ~Registered(n, d)

(* A message sent without an error is read, even one sent before the other *)
(* end has registered the connection, unless the connection is lost or the *)
(* other end has replaced, removed or banned its Peer on it.               *)
SentIsRead ==
  \A n \in Nodes, c \in Conns, m \in Msgs :
    [conn |-> c, to |-> n, env |-> signMessageData(Other(n), "PeerReq", m)]
        \in wire
      ~> (m \in got[n] \/ conn[c] = "down" \/ ctx[n][c] = "cancelled")
=============================================================================
