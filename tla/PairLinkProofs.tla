---------------------------- MODULE PairLinkProofs -----------------------------
(***************************************************************************)
(* Theorems about the link of two nodes, for any number of connections,    *)
(* dialed by either, and any number of messages.                           *)
(***************************************************************************)
EXTENDS PairLink, TLAPS, SequenceTheorems

(* The two nodes are each other's other node.                              *)
LEMMA Others == Other("a") = "b" /\ Other("b") = "a"
<1>1. \A n \in Nodes : Other(n) \in Nodes /\ Other(n) # n
  <2> SUFFICES ASSUME NEW n \in Nodes PROVE Other(n) \in Nodes /\ Other(n) # n
    OBVIOUS
  <2>1. \E m \in Nodes : m # n
    BY DEF Nodes
  <2> QED BY <2>1 DEF Other
<1> QED BY <1>1 DEF Nodes

(* An element of a sequence is its head or in its tail.                    *)
LEMMA HeadOrTail ==
  ASSUME NEW S, NEW s \in Seq(S), s # <<>>
  PROVE  /\ Head(s) \in S /\ Tail(s) \in Seq(S)
         /\ Head(s) = s[1] /\ Len(Tail(s)) = Len(s) - 1 /\ Len(s) \in Nat \ {0}
         /\ \A i \in 1 .. Len(Tail(s)) : Tail(s)[i] = s[i + 1]
BY HeadTailProperties

-----------------------------------------------------------------------------
(* Types.                                                                  *)

(* Every step keeps the types.                                             *)
LEMMA TypeStep == ASSUME TypeOK, [Next]_vars PROVE TypeOK'
<1> USE LinkAssumption, Others DEF TypeOK, links, peers, Nodes
<1>1. ASSUME NEW c \in Conns, DialEarly(c) PROVE TypeOK'
  BY <1>1 DEF DialEarly
<1>2. ASSUME NEW c \in Conns, AcceptConn(c) PROVE TypeOK'
  <2>0. Other(Dialer[c]) \in Nodes
    OBVIOUS
  <2> QED BY <1>2, <2>0 DEF AcceptConn
<1>3. ASSUME NEW c \in Conns, ConnLost(c) PROVE TypeOK'
  BY <1>3 DEF ConnLost
<1>4. ASSUME NEW n \in Nodes, AddPeer(n) PROVE TypeOK'
  <2>1. /\ Head(connChan[n]) \in Conns /\ Tail(connChan[n]) \in Seq(Conns)
        /\ Len(Tail(connChan[n])) <= ConnChanCap
    BY <1>4, HeadOrTail DEF AddPeer, Registers
  <2>2. /\ connChan' \in [Nodes -> Seq(Conns)]
        /\ \A m \in Nodes : Len(connChan'[m]) <= ConnChanCap
    BY <1>4, <2>1 DEF AddPeer, Registers
  <2>3. order' \in [Nodes -> Seq(Conns)]
    BY <1>4, <2>1 DEF AddPeer, Registers
  <2>4. ctx' \in [Nodes -> [Conns -> {"none", "open", "cancelled"}]]
    BY <1>4, <2>1 DEF AddPeer, Registers, Closed, NewPeer
  <2>5. loop' \in [Nodes -> [Conns -> {"none", "accept", "done"}]]
    BY <1>4, <2>1 DEF AddPeer, Registers
  <2> QED BY <1>4, <2>1, <2>2, <2>3, <2>4, <2>5 DEF AddPeer, Registers
<1>5. ASSUME NEW n \in Nodes, RemovePeer(n) \/ BanPeer(n) PROVE TypeOK'
  <2>1. Cut(n) /\ active' \in [Nodes -> Conns \cup {None}]
    BY <1>5 DEF RemovePeer, BanPeer
  <2> QED BY <2>1 DEF Cut, Closed
<1>6. ASSUME NEW n \in Nodes, NEW m \in Msgs, SendDataForPeer(n, m)
      PROVE  TypeOK'
  BY <1>6 DEF SendDataForPeer, CanSend, PeerSend, signMessageData
<1>7. ASSUME NEW n \in Nodes, NEW d \in wire, AcceptUni(n, d) PROVE TypeOK'
  <2>1. Handle(n, d.env) \subseteq [conn : Conns, to : Nodes,
          env : [kind : {"PeerReq", "PeerRes"}, msg : Msgs, pubKey : Nodes]]
    BY DEF Handle, peerGiver, peerGetter, CanSend, PeerSend, signMessageData
  <2> QED BY <1>7, <2>1 DEF AcceptUni, handleGossipStream
<1>8. ASSUME NEW n \in Nodes, NEW c \in Conns, AcceptErr(n, c) PROVE TypeOK'
  BY <1>8 DEF AcceptErr
<1>9. ASSUME NEW n \in Nodes, NEW c \in Conns, NewConn(n, c) PROVE TypeOK'
  <2>1. /\ connChan' = [connChan EXCEPT ![n] = Append(@, c)]
        /\ Len(connChan[n]) < ConnChanCap
    BY <1>9 DEF NewConn
  <2>2. connChan' \in [Nodes -> Seq(Conns)]
    BY <2>1
  <2>3. \A m \in Nodes : Len(connChan'[m]) <= ConnChanCap
    BY <2>1
  <2> QED BY <1>9, <2>2, <2>3 DEF NewConn
<1>10. CASE UNCHANGED vars
  BY <1>10 DEF vars
<1> QED BY <1>1, <1>2, <1>3, <1>4, <1>5, <1>6, <1>7, <1>8, <1>9, <1>10 DEF Next

-----------------------------------------------------------------------------
(* The inductive invariant.                                                *)

(* n has c before it or behind it.                                         *)
Reached(n, c) ==
  \/ c \in sending[n]
  \/ \E i \in 1 .. Len(connChan[n]) : connChan[n][i] = c
  \/ Registered(n, c)

(* The active Peer of a node was registered last.  A Peer that was         *)
(* registered is open, was removed or banned, or was followed by another;  *)
(* an open one is active.                                                  *)
Current ==
  \A n \in Nodes :
    /\ \A c \in Conns : ctx[n][c] = "open" => active[n] = c
    /\ active[n] # None =>
         order[n] # <<>> /\ order[n][Len(order[n])] = active[n]
    /\ \A i \in 1 .. Len(order[n]) :
         \/ ctx[n][order[n][i]] = "open"
         \/ order[n][i] \in cut[n]
         \/ i < Len(order[n])

(* Only a connection that was dialed reaches a node, its dialer first; one *)
(* that is up reaches both.                                                *)
Arrivals ==
  \A c \in Conns :
    /\ \A n \in Nodes : Reached(n, c) => conn[c] # "none"
                                      /\ Reached(Dialer[c], c)
    /\ conn[c] = "dialed" => Reached(Dialer[c], c)
    /\ conn[c] = "up" => \A n \in Nodes : Reached(n, c)

IInv == TypeOK /\ Current /\ Arrivals

(* The end of a handshake reaches n, and changes nothing else.             *)
LEMMA Joins ==
  ASSUME TypeOK, NEW n \in Nodes, NEW c \in Conns,
         UNCHANGED <<connChan, order>>,
         sending' = [sending EXCEPT ![n] = @ \cup {c}]
  PROVE  \A m \in Nodes, d \in Conns :
           Reached(m, d)' <=> Reached(m, d) \/ (m = n /\ d = c)
BY DEF Reached, Registered, TypeOK

(* newConn moves a connection closer.                                      *)
LEMMA Queues ==
  ASSUME TypeOK, NEW n \in Nodes, NEW c \in Conns, NewConn(n, c)
  PROVE  \A m \in Nodes, d \in Conns : Reached(m, d)' <=> Reached(m, d)
<1> SUFFICES ASSUME NEW m \in Nodes, NEW d \in Conns
             PROVE  Reached(m, d)' <=> Reached(m, d)
  OBVIOUS
<1>0. /\ c \in sending[n] /\ UNCHANGED order
      /\ sending' = [sending EXCEPT ![n] = @ \ {c}]
      /\ connChan' = [connChan EXCEPT ![n] = Append(@, c)]
  BY DEF NewConn, peers
<1>1. connChan[n] \in Seq(Conns) /\ Len(connChan[n]) \in Nat
  BY DEF TypeOK
<1>2. CASE m = n
  <2>1. connChan'[m] = Append(connChan[n], c) /\ sending'[m] = sending[n] \ {c}
    BY <1>0, <1>2 DEF TypeOK
  <2>2. /\ Len(connChan'[m]) = Len(connChan[n]) + 1
        /\ connChan'[m][Len(connChan[n]) + 1] = c
        /\ \A i \in 1 .. Len(connChan[n]) : connChan'[m][i] = connChan[n][i]
    BY <1>1, <2>1
  <2>3. Reached(m, d)' => Reached(m, d)
    BY <1>0, <1>1, <1>2, <2>1, <2>2 DEF Reached, Registered
  <2>4. Reached(m, d) => Reached(m, d)'
    BY <1>0, <1>1, <1>2, <2>1, <2>2 DEF Reached, Registered
  <2> QED BY <2>3, <2>4
<1>3. CASE m # n
  <2>1. connChan'[m] = connChan[m] /\ sending'[m] = sending[m]
    BY <1>0, <1>3 DEF TypeOK
  <2> QED BY <1>0, <2>1 DEF Reached, Registered
<1> QED BY <1>2, <1>3

(* Registering moves a connection from before n to behind it.              *)
LEMMA Moves ==
  ASSUME TypeOK, NEW n \in Nodes, AddPeer(n)
  PROVE  \A m \in Nodes, d \in Conns : Reached(m, d)' <=> Reached(m, d)
<1> SUFFICES ASSUME NEW m \in Nodes, NEW d \in Conns
             PROVE  Reached(m, d)' <=> Reached(m, d)
  OBVIOUS
<1> DEFINE q == connChan[n]
           o == order[n]
<1>1. q \in Seq(Conns) /\ q # <<>> /\ o \in Seq(Conns) /\ Len(o) \in Nat
  BY DEF TypeOK, AddPeer, Registers
<1>0. UNCHANGED sending
  BY DEF AddPeer, Registers
<1>2. /\ Head(q) = q[1] /\ Len(Tail(q)) = Len(q) - 1 /\ Len(q) \in Nat \ {0}
      /\ \A i \in 1 .. Len(Tail(q)) : Tail(q)[i] = q[i + 1]
  BY <1>1, HeadOrTail
<1>3. CASE m = n
  <2>1. connChan'[m] = Tail(q) /\ order'[m] = Append(o, Head(q))
    BY <1>3 DEF TypeOK, AddPeer, Registers
  <2>2. /\ Len(order'[m]) = Len(o) + 1 /\ order'[m][Len(o) + 1] = q[1]
        /\ \A i \in 1 .. Len(o) : order'[m][i] = o[i]
    BY <1>1, <1>2, <2>1
  <2>3. ASSUME NEW i \in 1 .. Len(q), q[i] = d PROVE Reached(m, d)'
    <3>1. CASE i = 1
      BY <1>1, <2>2, <2>3, <3>1 DEF Reached, Registered
    <3>2. CASE i # 1
      <4>1. i - 1 \in 1 .. Len(Tail(q)) /\ Tail(q)[i - 1] = d
        BY <1>2, <2>3, <3>2
      <4> QED BY <2>1, <4>1 DEF Reached, Registered
    <3> QED BY <3>1, <3>2
  <2>4. ASSUME NEW i \in 1 .. Len(o), o[i] = d PROVE Reached(m, d)'
    BY <1>1, <2>2, <2>4 DEF Reached, Registered
  <2>5. ASSUME NEW i \in 1 .. Len(Tail(q)), Tail(q)[i] = d PROVE Reached(m, d)
    <3>1. i + 1 \in 1 .. Len(q) /\ q[i + 1] = d
      BY <1>2, <2>5
    <3> QED BY <1>3, <3>1 DEF Reached, Registered
  <2>6. ASSUME NEW i \in 1 .. Len(order'[m]), order'[m][i] = d
        PROVE  Reached(m, d)
    <3>1. CASE i = Len(o) + 1
      BY <1>2, <1>3, <2>2, <2>6, <3>1 DEF Reached, Registered
    <3>2. CASE i # Len(o) + 1
      BY <1>1, <1>3, <2>2, <2>6, <3>2 DEF Reached, Registered
    <3> QED BY <3>1, <3>2
  <2>7. Reached(m, d) => Reached(m, d)'
    BY <1>0, <1>3, <2>3, <2>4 DEF Reached, Registered
  <2>8. Reached(m, d)' => Reached(m, d)
    BY <1>0, <2>1, <2>5, <2>6 DEF Reached, Registered
  <2> QED BY <2>7, <2>8
<1>4. CASE m # n
  <2>1. connChan'[m] = connChan[m] /\ order'[m] = order[m]
    BY <1>4 DEF TypeOK, AddPeer, Registers
  <2> QED BY <1>0, <2>1 DEF Reached, Registered
<1> QED BY <1>3, <1>4

(* A step that leaves the queues and the orders alone changes no arrival.  *)
LEMMA Stays ==
  ASSUME UNCHANGED <<sending, connChan, order>>
  PROVE  \A m \in Nodes, d \in Conns : Reached(m, d)' <=> Reached(m, d)
BY DEF Reached, Registered

(* Every step keeps the invariant.                                         *)
LEMMA Step == ASSUME IInv, [Next]_vars PROVE IInv'
<1>0. TypeOK'
  BY TypeStep DEF IInv
<1> USE LinkAssumption, <1>0 DEF IInv, links, peers
<1>1. ASSUME NEW c \in Conns, DialEarly(c) PROVE IInv'
  <2>1. \A m \in Nodes, d \in Conns :
          Reached(m, d)' <=> Reached(m, d) \/ (m = Dialer[c] /\ d = c)
    BY <1>1, Joins DEF DialEarly
  <2>2. conn[c] = "none" /\ conn' = [conn EXCEPT ![c] = "dialed"]
    BY <1>1 DEF DialEarly
  <2>3. Arrivals'
    BY <2>1, <2>2 DEF Arrivals, TypeOK
  <2> QED BY <1>1, <2>3 DEF DialEarly, Current
<1>2. ASSUME NEW c \in Conns, AcceptConn(c) PROVE IInv'
  <2>1. Other(Dialer[c]) \in Nodes
    BY Others DEF Nodes
  <2>2. \A m \in Nodes, d \in Conns :
          Reached(m, d)' <=> Reached(m, d) \/ (m = Other(Dialer[c]) /\ d = c)
    BY <1>2, <2>1, Joins DEF AcceptConn
  <2>3. conn[c] = "dialed" /\ conn' = [conn EXCEPT ![c] = "up"]
    BY <1>2 DEF AcceptConn
  <2>4. \A m \in Nodes : m = Dialer[c] \/ m = Other(Dialer[c])
    BY Others DEF Nodes
  <2>5. Arrivals'
    BY <2>2, <2>3, <2>4 DEF Arrivals, TypeOK
  <2> QED BY <1>2, <2>5 DEF AcceptConn, Current
<1>3. ASSUME NEW c \in Conns, ConnLost(c) PROVE IInv'
  <2>1. Arrivals'
    BY <1>3, Stays DEF ConnLost, Arrivals, TypeOK
  <2> QED BY <1>3, <2>1 DEF ConnLost, Current
<1>4. ASSUME NEW n \in Nodes, AddPeer(n) PROVE IInv'
  <2>1. Arrivals'
    BY <1>4, Moves DEF AddPeer, Registers, Arrivals
  <2> DEFINE c == Head(connChan[n])
  <2>2. c \in Conns
    BY <1>4, HeadOrTail DEF AddPeer, Registers, TypeOK
  <2>3. /\ active' = [active EXCEPT ![n] = c]
        /\ ctx' = [ctx EXCEPT ![n] = [Closed(n) EXCEPT ![c] = "open"]]
        /\ order' = [order EXCEPT ![n] = Append(@, c)]
        /\ cut' = cut
    BY <1>4 DEF AddPeer, Registers, NewPeer
  <2>4. /\ order[n] \in Seq(Conns) /\ Len(order[n]) \in Nat
        /\ Len(order'[n]) = Len(order[n]) + 1
        /\ order'[n] # <<>> /\ order'[n][Len(order'[n])] = c
    <3>1. order[n] \in Seq(Conns)
      BY DEF TypeOK
    <3>2. order'[n] = Append(order[n], c)
      BY <2>3 DEF TypeOK
    <3> QED BY <2>2, <3>1, <3>2, AppendProperties
  <2>5. ASSUME NEW m \in Nodes, m # n
        PROVE  ctx'[m] = ctx[m] /\ active'[m] = active[m] /\ order'[m] = order[m]
    BY <2>3, <2>5 DEF TypeOK
  <2>6. active'[n] = c /\ \A d \in Conns : ctx'[n][d] = "open" <=> d = c
    <3>1. ctx'[n] = [Closed(n) EXCEPT ![c] = "open"]
      BY <2>3 DEF TypeOK
    <3>2. ctx'[n][c] = "open"
      BY <2>2, <3>1 DEF Closed
    <3>3. ASSUME NEW d \in Conns, d # c PROVE ctx'[n][d] # "open"
      <4>1. ctx'[n][d] = IF d = active[n] THEN "cancelled" ELSE ctx[n][d]
        BY <3>1, <3>3 DEF Closed
      <4> QED BY <4>1 DEF Current
    <3> QED BY <2>3, <3>2, <3>3 DEF TypeOK
  <2>7. \A i \in 1 .. Len(order'[n]) :
          ctx'[n][order'[n][i]] = "open" \/ i < Len(order'[n])
    BY <2>2, <2>4, <2>6
  <2>8. Current'
    BY <2>3, <2>4, <2>5, <2>6, <2>7 DEF Current
  <2> QED BY <2>1, <2>8
<1>5. ASSUME NEW n \in Nodes, RemovePeer(n) \/ BanPeer(n) PROVE IInv'
  <2>1. /\ Cut(n)
        /\ active' = active \/ active' = [active EXCEPT ![n] = None]
    BY <1>5 DEF RemovePeer, BanPeer
  <2>2. Arrivals'
    BY <2>1, Stays DEF Cut, Arrivals
  <2>3. /\ UNCHANGED order
        /\ \A m \in Nodes : m # n => /\ ctx'[m] = ctx[m] /\ cut'[m] = cut[m]
                                     /\ active'[m] = active[m]
        /\ cut'[n] = cut[n] \cup {active[n]}
        /\ active'[n] \in {active[n], None}
    BY <2>1 DEF Cut, TypeOK
  <2>4. \A c \in Conns :
          ctx'[n][c] = IF c = active[n] THEN "cancelled" ELSE ctx[n][c]
    BY <2>1 DEF Cut, Closed, TypeOK
  <2>5. \A i \in 1 .. Len(order[n]) : order[n][i] \in Conns
    BY DEF TypeOK
  <2>6. \A c \in Conns : ctx'[n][c] # "open"
    BY <2>4 DEF Current
  <2>7. \A i \in 1 .. Len(order[n]) :
          order[n][i] \in cut'[n] \/ i < Len(order[n])
    BY <2>3, <2>5 DEF Current
  <2>8. Current'
    BY <2>3, <2>6, <2>7 DEF Current
  <2> QED BY <2>2, <2>8
<1>6. ASSUME NEW n \in Nodes, NEW m \in Msgs, SendDataForPeer(n, m)
      PROVE  IInv'
  BY <1>6, Stays DEF SendDataForPeer, Arrivals, Current
<1>7. ASSUME NEW n \in Nodes, NEW d \in wire, AcceptUni(n, d) PROVE IInv'
  BY <1>7, Stays DEF AcceptUni, Arrivals, Current
<1>8. ASSUME NEW n \in Nodes, NEW c \in Conns, AcceptErr(n, c) PROVE IInv'
  BY <1>8, Stays DEF AcceptErr, Arrivals, Current
<1>9. ASSUME NEW n \in Nodes, NEW c \in Conns, NewConn(n, c) PROVE IInv'
  <2>1. Arrivals'
    BY <1>9, Queues DEF NewConn, Arrivals
  <2> QED BY <1>9, <2>1 DEF NewConn, Current
<1>10. CASE UNCHANGED vars
  BY <1>10, Stays DEF vars, Arrivals, Current
<1> QED BY <1>1, <1>2, <1>3, <1>4, <1>5, <1>6, <1>7, <1>8, <1>9, <1>10 DEF Next

(* The invariant holds throughout.                                         *)
LEMMA Invariant == Spec => []IInv
<1>1. Init => IInv
  <2> SUFFICES ASSUME Init PROVE IInv
    OBVIOUS
  <2>1. \A n \in Nodes : /\ connChan[n] = <<>> /\ order[n] = <<>>
                         /\ sending[n] = {}
    BY DEF Init
  <2>2. \A n \in Nodes, c \in Conns : ~Reached(n, c)
    BY <2>1 DEF Reached, Registered
  <2>3. TypeOK
    BY EmptySeq, LinkAssumption DEF Init, TypeOK
  <2>4. Arrivals
    BY <2>2 DEF Init, Arrivals
  <2>5. Current
    BY <2>1, LinkAssumption DEF Init, Current
  <2> QED BY <2>3, <2>4, <2>5 DEF IInv
<1> QED BY <1>1, Step, PTL DEF Spec

(* In the sequence of a node's registrations, whatever is there and is not *)
(* the last comes before the last.                                         *)
LEMMA LastIsLast ==
  ASSUME TypeOK, NEW n \in Nodes, NEW c \in Conns, NEW d \in Conns, c # d,
         order[n] # <<>>, order[n][Len(order[n])] = d,
         NEW i \in 1 .. Len(order[n]), order[n][i] = c
  PROVE  Before(n, c, d)
<1>1. order[n] \in Seq(Conns) /\ Len(order[n]) \in Nat
  BY DEF TypeOK
<1>2. i < Len(order[n]) /\ Len(order[n]) \in 1 .. Len(order[n])
  BY <1>1
<1> QED BY <1>2 DEF Before

(* A node that is not heard when the link has settled is not heard for one *)
(* of the reasons DeafHasCause lists.                                      *)
LEMMA Cause == IInv => DeafHasCause
<1> SUFFICES ASSUME IInv, Settled, NEW n \in Nodes, Unheard(n),
                    active[n] \notin cut[Other(n)]
             PROVE  \E d \in Conns :
                      /\ Before(Other(n), active[n], d)
                      /\ \/ Before(n, d, active[n])
                         \/ /\ conn[d] = "down" /\ Dialer[d] = Other(n)
                            /\ ~Registered(n, d)
  BY DEF DeafHasCause
<1> DEFINE c == active[n]
           m == Other(n)
<1> USE DEF IInv
<1>1. /\ m \in Nodes /\ m # n /\ c \in Conns /\ c # None
      /\ \A k \in Nodes : k = n \/ k = m
  BY Others DEF Unheard, TypeOK, Nodes
<1>2. \A k \in Nodes, d \in Conns : Reached(k, d) <=> Registered(k, d)
  BY DEF Settled, Reached
<1>3. Registered(m, c)
  BY <1>1, <1>2 DEF Unheard, Arrivals
<1> HIDE DEF c, m
<1>4. PICK i \in 1 .. Len(order[m]) : order[m][i] = c
  BY <1>3 DEF Registered
<1>5. order[m] \in Seq(Conns) /\ Len(order[m]) \in Nat
  BY <1>1 DEF TypeOK
<1>6. i < Len(order[m])
  BY <1>1, <1>4 DEF Current, Unheard, c, m
<1> DEFINE d == order[m][Len(order[m])]
<1>7. /\ Len(order[m]) \in 1 .. Len(order[m])
      /\ d \in Conns /\ Before(m, c, d) /\ Registered(m, d)
  BY <1>4, <1>5, <1>6 DEF Before, Registered
<1> HIDE DEF d
<1>8. CASE Registered(n, d)
  <2>1. order[n] # <<>> /\ order[n][Len(order[n])] = c
    BY <1>1 DEF Current, c
  <2>2. PICK j \in 1 .. Len(order[n]) : order[n][j] = d
    BY <1>8 DEF Registered
  <2>3. CASE d # c
    <3>1. Before(n, d, c)
      BY <1>1, <1>7, <2>1, <2>2, <2>3, LastIsLast
    <3> QED BY <1>7, <3>1 DEF c, m
  <2>4. CASE d = c
    <3>1. \/ ctx[m][d] = "open" \/ d \in cut[m]
      BY <1>1, <1>5, <1>7 DEF Current, d
    <3> QED BY <2>4, <3>1 DEF Unheard, c, m
  <2> QED BY <2>3, <2>4
<1>9. CASE ~Registered(n, d)
  <2>1. ~Reached(n, d) /\ Reached(m, d)
    BY <1>1, <1>2, <1>7, <1>9
  <2>2. /\ conn[d] # "none" /\ conn[d] # "up" /\ Dialer[d] # n
        /\ Dialer[d] \in Nodes
    BY <1>1, <1>7, <2>1, LinkAssumption DEF Arrivals
  <2>3. conn[d] = "down" /\ Dialer[d] = m
    BY <1>1, <1>7, <2>2 DEF TypeOK, Settled
  <2> QED BY <1>7, <1>9, <2>3 DEF c, m
<1> QED BY <1>8, <1>9

(* Types are kept, for any number of connections and messages; connChan    *)
(* never exceeds its capacity.                                             *)
THEOREM TypeCorrect == Spec => []TypeOK
BY Invariant, PTL DEF IInv

(* A node is not heard on a live connection, when the link has settled,    *)
(* only if the other removed or banned its Peer, or replaced it with that  *)
(* of a connection which crossed the first or failed half way.             *)
THEOREM DeafExplained == Spec => []DeafHasCause
BY Invariant, Cause, PTL
=============================================================================
