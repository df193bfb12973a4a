--------------------------------- MODULE Swarm --------------------------------
(***************************************************************************)
(* internal/p2p/swarm.go with peer.go: how an authenticated connection     *)
(* becomes an active peer, replaces an older one of the same node, is      *)
(* removed or banned, and how the loops that read it end.                  *)
(*                                                                         *)
(* newConn sends on the bounded connChan; registrationLoop, one goroutine, *)
(* calls AddPeer, which takes s.mu twice: to close the old Peer and, after *)
(* it has built the new one, to put it in activePeers.  RemovePeer and     *)
(* BanPeer are called by others in between.  A Peer is named here by the   *)
(* connection it was made for.                                             *)
(***************************************************************************)
EXTENDS Naturals, Sequences, FiniteSets

CONSTANTS
  PeerIDs,      \* the other nodes
  Conns,        \* the connections that pass the handshake
  Owner,        \* Owner[c]: the node at the other end of c
  BanIDs,       \* the nodes that somebody bans
  Restless,     \* bound: the connections that may fail, and on which the
                \* other end opens bidirectional streams
  ConnChanCap,  \* capacity of connChan (10 in the code)
  None          \* no connection

ASSUME SwarmAssumption ==
  /\ Owner \in [Conns -> PeerIDs]
  /\ BanIDs \subseteq PeerIDs
  /\ Restless \subseteq Conns
  /\ ConnChanCap \in Nat \ {0}
  /\ None \notin Conns

VARIABLES
  phase,        \* how far each connection is on its way to activePeers
  connChan,     \* the events registrationLoop has yet to take
  activePeers,  \* activePeers[id]: the Peer registered for a node
  ctx,          \* the context of each Peer
  connUp,       \* the QUIC connection is alive
  loop,         \* AcceptUniLoop of each Peer
  late,         \* history: streams that loop accepted after the cancel
  streamLoop,   \* AcceptStreamLoop of each Peer
  waiting,      \* a bidirectional stream waits to be accepted
  saves,        \* goroutines of SavePeer under way
  store,        \* what storage has under saved:peers:<id>
  bans,         \* the keys bans:peer:<id> in storage
  ban           \* BanPeer, one caller per node

connVars  == <<phase, connChan, connUp>>
peerVars  == <<activePeers, ctx>>
streamVars == <<streamLoop, waiting>>
loopVars  == <<loop, late, streamVars>>
storeVars == <<saves, store>>
banVars   == <<bans, ban>>
vars      == <<connVars, peerVars, loopVars, storeVars, banVars>>

(* A call of BanPeer: where it is, the Peer it looked up, and, a history,  *)
(* the open Peers of the node when the ban was written.                    *)
NoBan == [at |-> "idle", found |-> None, known |-> {}]

Init ==
  /\ phase = [c \in Conns |-> "unknown"]
  /\ connChan = <<>>
  /\ connUp = [c \in Conns |-> TRUE]
  /\ activePeers = [id \in PeerIDs |-> None]
  /\ ctx = [c \in Conns |-> "none"]
  /\ loop = [c \in Conns |-> "none"]
  /\ late = [c \in Conns |-> 0]
  /\ streamLoop = [c \in Conns |-> "none"]
  /\ waiting = [c \in Conns |-> FALSE]
  /\ saves = {}
  /\ store = [id \in PeerIDs |-> None]
  /\ bans = {}
  /\ ban = [id \in PeerIDs |-> NoBan]

-----------------------------------------------------------------------------
(* Connections.                                                            *)

(* The handshake of DialEarly or AcceptConn has succeeded: newConn.        *)
Authenticated(c) ==
  /\ phase[c] = "unknown"
  /\ phase' = [phase EXCEPT ![c] = "sending"]
  /\ UNCHANGED <<connChan, connUp, peerVars, loopVars, storeVars, banVars>>

(* The send of newConn, which waits for room in connChan.                  *)
NewConn(c) ==
  /\ phase[c] = "sending"
  /\ Len(connChan) < ConnChanCap
  /\ phase' = [phase EXCEPT ![c] = "queued"]
  /\ connChan' = Append(connChan, c)
  /\ UNCHANGED <<connUp, peerVars, loopVars, storeVars, banVars>>

(* The connection goes: the other side leaves or stays silent too long.    *)
(* The Peer stays in activePeers and its context open; streams that wait   *)
(* are gone.                                                               *)
ConnLost(c) ==
  /\ c \in Restless
  /\ phase[c] # "unknown" /\ connUp[c]
  /\ connUp' = [connUp EXCEPT ![c] = FALSE]
  /\ waiting' = [waiting EXCEPT ![c] = FALSE]
  /\ UNCHANGED <<phase, connChan, peerVars, loop, late, streamLoop, storeVars,
                 banVars>>

-----------------------------------------------------------------------------
(* registrationLoop.                                                       *)

Registering(c) == phase[c] \in {"taken", "built", "inserted"}

(* Fault: each event gets a goroutine of its own.                          *)
TakeEventConcurrently ==
  /\ connChan # <<>>
  /\ phase' = [phase EXCEPT ![Head(connChan)] = "taken"]
  /\ connChan' = Tail(connChan)
  /\ UNCHANGED <<connUp, peerVars, loopVars, storeVars, banVars>>

(* range ch: the next event, once the last has been dealt with.            *)
TakeEvent ==
  /\ connChan # <<>>
  /\ \A c \in Conns : ~Registering(c)
  /\ phase' = [phase EXCEPT ![Head(connChan)] = "taken"]
  /\ connChan' = Tail(connChan)
  /\ UNCHANGED <<connUp, peerVars, loopVars, storeVars, banVars>>

(* Close cancels the context of a Peer, and nothing else.                  *)
Close(peers) == [c \in Conns |-> IF c \in peers THEN "cancelled" ELSE ctx[c]]

(* AddPeer up to its second lock, given the Peers it closes: NewPeer, the  *)
(* wrapper and its callbacks, and a goroutine to save the node's address.  *)
Build(c, old) ==
  /\ phase[c] = "taken"
  /\ phase' = [phase EXCEPT ![c] = "built"]
  /\ ctx' = [Close(old) EXCEPT ![c] = "open"]
  /\ saves' = saves \cup {c}
  /\ UNCHANGED <<connChan, connUp, activePeers, loopVars, store, banVars>>

(* Fault: the old Peer is left alone.                                      *)
BuildKeepingOld(c) == Build(c, {})

BuildPeer(c) == Build(c, {activePeers[Owner[c]]} \ {None})

(* AddPeer under its second lock.                                          *)
InsertPeer(c) ==
  /\ phase[c] = "built"
  /\ phase' = [phase EXCEPT ![c] = "inserted"]
  /\ activePeers' = [activePeers EXCEPT ![Owner[c]] = c]
  /\ UNCHANGED <<connChan, connUp, ctx, loopVars, storeVars, banVars>>

(* Fault: registrationLoop runs the loops instead of starting them.        *)
StartLoopsInline(c) ==
  /\ phase[c] = "inserted"
  /\ \/ loop[c] = "none" /\ loop' = [loop EXCEPT ![c] = "check"]
                         /\ UNCHANGED phase
     \/ loop[c] = "done" /\ phase' = [phase EXCEPT ![c] = "registered"]
                         /\ UNCHANGED loop
  /\ UNCHANGED <<connChan, connUp, peerVars, late, streamVars, storeVars,
                 banVars>>

(* go StartLoops, and back to the channel.  The loop for datagrams, which  *)
(* prints them, is not followed.                                           *)
StartLoops(c) ==
  /\ phase[c] = "inserted"
  /\ phase' = [phase EXCEPT ![c] = "registered"]
  /\ loop' = [loop EXCEPT ![c] = "check"]
  /\ streamLoop' = [streamLoop EXCEPT ![c] = "accept"]
  /\ UNCHANGED <<connChan, connUp, peerVars, late, waiting, storeVars,
                 banVars>>

(* SavePeer, in its goroutine: the entry, as protobuf, under the node's    *)
(* key.  Two of them for one node may run in either order.  It returns if  *)
(* the entry does not encode and ignores an error of Set.                  *)
SavePeer(c) ==
  /\ c \in saves
  /\ saves' = saves \ {c}
  /\ \/ store' = [store EXCEPT ![Owner[c]] = [codec |-> "protobuf", addr |-> c]]
     \/ UNCHANGED store
  /\ UNCHANGED <<connVars, peerVars, loopVars, banVars>>

-----------------------------------------------------------------------------
(* AcceptUniLoop.                                                          *)

(* Fault: the loop does not look at its context between streams.           *)
PassCtx(c) ==
  /\ loop[c] = "check"
  /\ loop' = [loop EXCEPT ![c] = "accept"]
  /\ UNCHANGED <<connVars, peerVars, late, streamVars, storeVars, banVars>>

(* The select on p.ctx.Done with a default.                                *)
CheckCtx(c) ==
  /\ loop[c] = "check"
  /\ loop' = [loop EXCEPT ![c] = IF ctx[c] = "open" THEN "accept" ELSE "done"]
  /\ UNCHANGED <<connVars, peerVars, late, streamVars, storeVars, banVars>>

(* AcceptUniStream returns a stream, even if the context has just ended;   *)
(* its reader goes to a goroutine.  late counts to 2, which is too many.   *)
AcceptUni(c) ==
  /\ loop[c] = "accept" /\ connUp[c]
  /\ loop' = [loop EXCEPT ![c] = "check"]
  /\ late' = [late EXCEPT ![c] = IF ctx[c] = "cancelled" /\ @ < 2 THEN @ + 1
                                                                 ELSE @]
  /\ UNCHANGED <<connVars, peerVars, streamVars, storeVars, banVars>>

(* Fault: AcceptUniStream is not given the Peer's context.                 *)
AcceptErrLostOnly(c) ==
  /\ loop[c] = "accept" /\ ~connUp[c]
  /\ loop' = [loop EXCEPT ![c] = "done"]
  /\ UNCHANGED <<connVars, peerVars, late, streamVars, storeVars, banVars>>

(* AcceptUniStream fails, for the context or for the connection.           *)
AcceptErr(c) ==
  /\ loop[c] = "accept"
  /\ ctx[c] = "cancelled" \/ ~connUp[c]
  /\ loop' = [loop EXCEPT ![c] = "done"]
  /\ UNCHANGED <<connVars, peerVars, late, streamVars, storeVars, banVars>>

-----------------------------------------------------------------------------
(* AcceptStreamLoop, which does not look at the context of its own accord. *)

(* The other end opens a bidirectional stream.  One that comes when the    *)
(* loop has returned is never accepted.                                    *)
OpenStream(c) ==
  /\ c \in Restless
  /\ connUp[c] /\ streamLoop[c] = "accept" /\ ~waiting[c]
  /\ waiting' = [waiting EXCEPT ![c] = TRUE]
  /\ UNCHANGED <<connVars, peerVars, loop, late, streamLoop, storeVars,
                 banVars>>

(* AcceptStream returns a stream that waits, though the context be over:   *)
(* module Streams follows it from here.                                    *)
AcceptStream(c) ==
  /\ streamLoop[c] = "accept" /\ connUp[c] /\ waiting[c]
  /\ waiting' = [waiting EXCEPT ![c] = FALSE]
  /\ UNCHANGED <<connVars, peerVars, loop, late, streamLoop, storeVars,
                 banVars>>

(* AcceptStream fails for the connection, or for the context when no       *)
(* stream waits.                                                           *)
AcceptStreamErr(c) ==
  /\ streamLoop[c] = "accept"
  /\ ~connUp[c] \/ (ctx[c] = "cancelled" /\ ~waiting[c])
  /\ streamLoop' = [streamLoop EXCEPT ![c] = "done"]
  /\ UNCHANGED <<connVars, peerVars, loop, late, waiting, storeVars, banVars>>

-----------------------------------------------------------------------------
(* The callers' operations.                                                *)

(* Fault: the Peer is forgotten and not closed.                            *)
ForgetPeer(id) ==
  /\ activePeers[id] # None
  /\ activePeers' = [activePeers EXCEPT ![id] = None]
  /\ UNCHANGED <<connVars, ctx, loopVars, storeVars, banVars>>

(* RemovePeer, under s.mu.                                                 *)
RemovePeer(id) ==
  /\ activePeers[id] # None
  /\ ctx' = Close({activePeers[id]})
  /\ activePeers' = [activePeers EXCEPT ![id] = None]
  /\ UNCHANGED <<connVars, loopVars, storeVars, banVars>>

(* BanPeer first writes the ban, and goes on if that fails.                *)
BanSet(id) ==
  /\ id \in BanIDs
  /\ ban[id].at \in {"idle", "over"}
  /\ bans' \in {bans, bans \cup {id}}
  /\ ban' = [ban EXCEPT ![id] =
       [at |-> "lookup", found |-> None,
        known |-> {c \in Conns : activePeers[id] = c /\ ctx[c] = "open"}]]
  /\ UNCHANGED <<connVars, peerVars, loopVars, storeVars>>

(* It reads activePeers under the read lock, and is done if there is none. *)
BanLookup(id) ==
  /\ ban[id].at = "lookup"
  /\ ban' = [ban EXCEPT
       ![id].found = activePeers[id],
       ![id].at = IF activePeers[id] = None THEN "over" ELSE "close"]
  /\ UNCHANGED <<connVars, peerVars, loopVars, storeVars, bans>>

(* And closes what it found, which may have been replaced by now.  The     *)
(* Peer stays in activePeers.                                              *)
BanClose(id) ==
  /\ ban[id].at = "close"
  /\ ctx' = Close({ban[id].found})
  /\ ban' = [ban EXCEPT ![id] =
       [at |-> "over", found |-> None, known |-> @.known]]
  /\ UNCHANGED <<connVars, activePeers, loopVars, storeVars, bans>>

(* UnBanPeer deletes the key.                                              *)
UnBanPeer(id) ==
  /\ id \in bans
  /\ bans' = bans \ {id}
  /\ UNCHANGED <<connVars, peerVars, loopVars, storeVars, ban>>

(* FindValues decodes every value under the prefix as JSON and fails with  *)
(* the first that is not.                                                  *)
FindValuesFails ==
  \E id \in PeerIDs : store[id] # None /\ store[id].codec # "json"

(* The nodes GetHistoryConnected(0) returns: none if FindValues fails.     *)
GetHistoryConnected ==
  IF FindValuesFails THEN {} ELSE {id \in PeerIDs : store[id] # None}

-----------------------------------------------------------------------------
RegistrationStep ==
  TakeEvent \/ \E c \in Conns : BuildPeer(c) \/ InsertPeer(c) \/ StartLoops(c)

LoopStep(c) == CheckCtx(c) \/ AcceptUni(c) \/ AcceptErr(c)

StreamStep(c) == AcceptStream(c) \/ AcceptStreamErr(c)

BanStep(id) == BanLookup(id) \/ BanClose(id)

Next ==
  \/ RegistrationStep
  \/ \E c \in Conns :
       \/ Authenticated(c) \/ NewConn(c) \/ ConnLost(c) \/ SavePeer(c)
       \/ LoopStep(c) \/ OpenStream(c) \/ StreamStep(c)
  \/ \E id \in PeerIDs :
       RemovePeer(id) \/ BanSet(id) \/ BanStep(id) \/ UnBanPeer(id)

(* Goroutines run on: those blocked in newConn, registrationLoop, the      *)
(* loops, SavePeer and a BanPeer under way.  Nobody has to open a stream.  *)
Fairness ==
  /\ WF_vars(RegistrationStep)
  /\ \A c \in Conns : /\ WF_vars(NewConn(c))
                      /\ WF_vars(SavePeer(c))
                      /\ WF_vars(CheckCtx(c) \/ AcceptErr(c))
                      /\ WF_vars(StreamStep(c))
  /\ \A id \in PeerIDs : WF_vars(BanStep(id))

Spec == Init /\ [][Next]_vars

FairSpec == Spec /\ Fairness

-----------------------------------------------------------------------------
(* Properties.                                                             *)

(* Every variable has its type, and connChan respects its capacity.        *)
TypeOK ==
  /\ phase \in [Conns -> {"unknown", "sending", "queued", "taken", "built",
                          "inserted", "registered"}]
  /\ connChan \in Seq(Conns) /\ Len(connChan) <= ConnChanCap
  /\ connUp \in [Conns -> BOOLEAN]
  /\ activePeers \in [PeerIDs -> Conns \cup {None}]
  /\ ctx \in [Conns -> {"none", "open", "cancelled"}]
  /\ loop \in [Conns -> {"none", "check", "accept", "done"}]
  /\ late \in [Conns -> 0..2]
  /\ streamLoop \in [Conns -> {"none", "accept", "done"}]
  /\ waiting \in [Conns -> BOOLEAN]
  /\ saves \in SUBSET Conns
  /\ store \in [PeerIDs -> {None} \cup [codec : {"protobuf"}, addr : Conns]]
  /\ bans \in SUBSET PeerIDs
  /\ ban \in [PeerIDs -> [at : {"idle", "lookup", "close", "over"},
                          found : Conns \cup {None}, known : SUBSET Conns]]

(* A Peer whose context is open is in activePeers or is about to be put    *)
(* there: none is left reading that RemovePeer and BanPeer cannot find.    *)
NoOrphan ==
  \A c \in Conns :
    ctx[c] = "open" => activePeers[Owner[c]] = c \/ phase[c] = "built"

(* Two open Peers of one node never coexist, not even while AddPeer is     *)
(* between its two locks: no message of the node is read twice over.       *)
OneLivePeer ==
  \A c, d \in Conns :
    ctx[c] = "open" /\ ctx[d] = "open" /\ Owner[c] = Owner[d] => c = d

(* AcceptUniLoop accepts at most one stream after its Peer was closed.     *)
(* AcceptStreamLoop, without a check of its own, has no such bound.        *)
LateAcceptBound == \A c \in Conns : late[c] <= 1

(* When BanPeer returns, the Peers that were active as the ban was written *)
(* are closed, even if they were replaced meanwhile.  A newcomer is not.   *)
BanCutsKnownPeers ==
  \A id \in PeerIDs : ban[id].at = "over" =>
    \A c \in ban[id].known : ctx[c] = "cancelled"

(* A Peer leaves activePeers, replaced or removed, only as it is closed or *)
(* after: one that is still read is not dropped from under its reader.     *)
LeavesOnlyClosed ==
  [][\A id \in PeerIDs, c \in Conns :
       activePeers[id] = c /\ activePeers'[id] # c => ctx'[c] = "cancelled"
    ]_vars

(* Every connection that passes the handshake is registered in the end,    *)
(* though connChan may be full, and the attempt to save its node is over,  *)
(* which storage may have refused.                                         *)
AllRegistered ==
  \A c \in Conns :
    phase[c] = "sending" ~> (phase[c] = "registered" /\ c \notin saves)

(* The loops of a closed Peer return: AcceptUniLoop in any case, and       *)
(* AcceptStreamLoop unless the other end opens one stream after another    *)
(* for ever.                                                               *)
ClosedLoopsEnd ==
  \A c \in Conns :
    /\ (ctx[c] = "cancelled" /\ loop[c] # "none") ~> (loop[c] = "done")
    /\ \/ []<>waiting[c]
       \/ (ctx[c] = "cancelled" /\ streamLoop[c] # "none")
            ~> (streamLoop[c] = "done")

(* "GetHistoryConnected Set to 0 to get all peers": every node that was    *)
(* saved is in the history.  FindValues expects JSON and breaks this with  *)
(* the first node saved.                                                   *)
HistoryComplete ==
  \A id \in PeerIDs : store[id] # None => id \in GetHistoryConnected
=============================================================================
