------------------------------- MODULE Handshake ------------------------------
(***************************************************************************)
(* internal/network/quic.go (DialEarly, AcceptConn, authenticatePeer) with *)
(* handshake.go and quic_frame.go: the two ends of one new connection      *)
(* authenticate each other on its first stream and hand it to their        *)
(* swarms.                                                                 *)
(*                                                                         *)
(* Both ends send an Init with a nonce, read the other's Init and answer   *)
(* it with a signature over nonce and key, and check the answer to their   *)
(* own.  The dialer then writes a Ready byte, outside any frame, and the   *)
(* acceptor reads it.  An end that fails to authenticate the other closes  *)
(* the connection; one that fails at Ready just returns.  No read has a    *)
(* deadline.                                                               *)
(*                                                                         *)
(* Init, Next, Spec and the type invariant carry the module's name:        *)
(* NetworkProofs extends this module together with two others.             *)
(***************************************************************************)
EXTENDS Naturals, SequencesExt

CONSTANT MaxForeign  \* how many frames an end of another make may send

ASSUME HandshakeAssumption == MaxForeign \in Nat

Ends == {"dialer", "acceptor"}
Other(e) == CHOOSE o \in Ends : o # e
Keys == Ends \cup {"third"}  \* those of the ends and that of another node

(* What crosses the stream.  An end's name stands for its key and for its  *)
(* nonce.  An answer carries a key and a signature: over a nonce, if it is *)
(* that key's, or over nothing that matters.  No part of an answer names   *)
(* the connection or the end it is meant for.                              *)
(* The Ready byte is not a frame; an empty frame has length zero.          *)
InitFrame(e) == [kind |-> "init", nonce |-> e]
Answers(keys, nonces) == [kind : {"response"}, key : keys, over : nonces]
Answer(k, nonce) == [kind |-> "response", key |-> k, over |-> nonce]
Ready == [kind |-> "ready"]
Frames == {InitFrame(e) : e \in Ends}
          \cup Answers(Keys \cup {"short"}, Ends \cup {"nothing"})
          \cup {Ready, [kind |-> "empty"], [kind |-> "other"]}

VARIABLES
  conforming,  \* the ends that run this code
  pc,          \* where each end is
  inbound,     \* inbound[e]: what the stream holds for e to read
  fin,         \* fin[e]: the other end has closed its side of the stream
  closed,      \* closed[e]: the connection is closed, as far as e knows
  peerKey,     \* the key each end has authenticated
  answered,    \* history: the answers made to these ends' nonces
  foreign,     \* frames sent by an end of another make
  lost         \* history: the network has failed

handshakeVars ==
  <<conforming, pc, inbound, fin, closed, peerKey, answered, foreign, lost>>

HandshakeInit ==
  /\ conforming \in SUBSET Ends /\ conforming # {}
  /\ pc = [e \in Ends |-> "open"]
  /\ inbound = [e \in Ends |-> <<>>]
  /\ fin = [e \in Ends |-> FALSE]
  /\ closed = [e \in Ends |-> FALSE]
  /\ peerKey = [e \in Ends |-> "none"]
  /\ answered = {}
  /\ foreign = 0
  /\ lost = FALSE

Goto(e, where) == pc' = [pc EXCEPT ![e] = where]

-----------------------------------------------------------------------------
(* The stream.                                                             *)

Written(e, f) == [inbound EXCEPT ![Other(e)] = Append(@, f)]
Consumed(e)   == [inbound EXCEPT ![e] = Tail(@)]

(* The deferred stream.Close: what was written is read first.  It tells    *)
(* the other end nothing if the connection is closed.                      *)
DeferredClose(e) == fin' = [fin EXCEPT ![Other(e)] = @ \/ ~closed[e]]

(* Reads and writes fail on a closed connection; a read also at the end of *)
(* the stream, and that of a frame which has a Ready byte for the first of *)
(* its length: it waits for far more than will come.                       *)
ReadFails(e) ==
  \/ closed[e]
  \/ inbound[e] = <<>> /\ fin[e]
  \/ inbound[e] # <<>> /\ Head(inbound[e]) = Ready /\ fin[e]

CanRead(e) ==
  /\ ~closed[e]
  /\ inbound[e] # <<>> /\ Head(inbound[e]) # Ready

(* authenticatePeer returns an error: CloseWithError.                      *)
AuthFails(e) ==
  /\ Goto(e, "failed")
  /\ closed' = [closed EXCEPT ![e] = TRUE]
  /\ UNCHANGED <<fin, peerKey, inbound, answered>>

(* readFrame indexes an empty frame, or a short key is made an array.      *)
Panics(e) ==
  /\ Goto(e, "panicked")
  /\ UNCHANGED <<closed, fin, peerKey, inbound, answered>>

-----------------------------------------------------------------------------
(* The steps of a conforming end.                                          *)

(* sendHandshake, given when it is called and where the code goes next.    *)
SendInit(e, called, next) ==
  /\ pc[e] = "open"
  /\ called \/ closed[e] \/ fin[e] \/ inbound[e] # <<>>
  /\ \/ /\ closed[e]
        /\ AuthFails(e)
     \/ /\ ~closed[e]
        /\ inbound' = Written(e, InitFrame(e))
        /\ Goto(e, next)
        /\ UNCHANGED <<fin, closed, peerKey, answered>>

(* Faults: both ends wait to be spoken to; an Init is sent over and over.  *)
SendWhenSpokenTo(e) == SendInit(e, FALSE, "accept")
SendOverAndOver(e)  == SendInit(e, e = "dialer", "open")

(* The acceptor has no stream before the dialer's first bytes are there.   *)
SendHandshake(e) == SendInit(e, e = "dialer", "accept")

(* acceptHandshake, given what is written in answer to each nonce.         *)
AnswerWith(e, answer) ==
  /\ pc[e] = "accept"
  /\ \/ ReadFails(e) /\ AuthFails(e)
     \/ /\ CanRead(e) /\ Head(inbound[e]).kind = "empty"
        /\ Panics(e)
     \/ /\ CanRead(e) /\ Head(inbound[e]).kind \notin {"init", "empty"}
        /\ AuthFails(e)
     \/ /\ CanRead(e) /\ Head(inbound[e]).kind = "init"
        /\ inbound' = [Consumed(e) EXCEPT
             ![Other(e)] = @ \o answer[Head(inbound[e]).nonce]]
        /\ answered' = answered
             \cup (ToSet(answer[Head(inbound[e]).nonce]) \ {Ready})
        /\ Goto(e, "check")
        /\ UNCHANGED <<fin, closed, peerKey>>

(* Faults: the answer signs the end's own nonce; the dialer says Ready as  *)
(* soon as it has answered.                                                *)
AnswerOwnNonce(e) == AnswerWith(e, [n \in Ends |-> <<Answer(e, e)>>])
AnswerAndReady(e) ==
  AnswerWith(e, [n \in Ends |-> IF e = "dialer" THEN <<Answer(e, n), Ready>>
                                                ELSE <<Answer(e, n)>>])

AcceptHandshake(e) == AnswerWith(e, [n \in Ends |-> <<Answer(e, n)>>])

(* checkHandshakeResponse, given the answers that verify.                  *)
CheckAgainst(e, sound) ==
  /\ pc[e] = "check"
  /\ \/ ReadFails(e) /\ AuthFails(e)
     \/ LET f == Head(inbound[e]) IN
        /\ CanRead(e)
        /\ \/ f.kind = "empty" /\ Panics(e)
           \/ f.kind = "response" /\ f.key = "short" /\ Panics(e)
           \/ f.kind \notin {"response", "empty"} /\ AuthFails(e)
           \/ /\ f.kind = "response" /\ f.key # "short" /\ f \notin sound
              /\ AuthFails(e)
           \/ /\ f.kind = "response" /\ f.key # "short" /\ f \in sound
              /\ inbound' = Consumed(e)
              /\ peerKey' = [peerKey EXCEPT ![e] = f.key]
              /\ Goto(e, "ready")
              /\ UNCHANGED <<fin, closed, answered>>

(* Fault: the signature is taken at its word.                              *)
CheckNothing(e) == CheckAgainst(e, Frames)

(* The signature must be the key's, over this end's nonce and the key.  It *)
(* may be anyone's key, this end's own included.                           *)
CheckHandshakeResponse(e) ==
  CheckAgainst(e, Answers(Keys, {e}))

(* A Ready exchange that fails: return, and leave the connection as it is. *)
ReadyFails(e) ==
  /\ Goto(e, "failed")
  /\ DeferredClose(e)
  /\ UNCHANGED <<inbound, closed, peerKey, answered>>

(* sendReadyFrame.                                                         *)
SendReadyFrame ==
  /\ pc["dialer"] = "ready"
  /\ \/ closed["dialer"] /\ ReadyFails("dialer")
     \/ /\ ~closed["dialer"]
        /\ inbound' = Written("dialer", Ready)
        /\ Goto("dialer", "register")
        /\ UNCHANGED <<fin, closed, peerKey, answered>>

(* acceptReadyFrame reads one byte; that of a frame is part of a length.   *)
AcceptReadyFrame ==
  /\ pc["acceptor"] = "ready"
  /\ \/ /\ \/ closed["acceptor"]
           \/ inbound["acceptor"] = <<>> /\ fin["acceptor"]
           \/ CanRead("acceptor")
        /\ ReadyFails("acceptor")
     \/ /\ ~closed["acceptor"]
        /\ inbound["acceptor"] # <<>> /\ Head(inbound["acceptor"]) = Ready
        /\ inbound' = Consumed("acceptor")
        /\ Goto("acceptor", "register")
        /\ UNCHANGED <<fin, closed, peerKey, answered>>

(* newConn hands the connection to the swarm, closed or not; the stream is *)
(* closed as the function returns.                                         *)
NewConn(e) ==
  /\ pc[e] = "register"
  /\ Goto(e, "registered")
  /\ DeferredClose(e)
  /\ UNCHANGED <<inbound, closed, peerKey, answered>>

Step(e) ==
  /\ e \in conforming
  /\ "panicked" # pc[e]
  /\ \/ SendHandshake(e)
     \/ AcceptHandshake(e)
     \/ CheckHandshakeResponse(e)
     \/ e = "dialer" /\ SendReadyFrame
     \/ e = "acceptor" /\ AcceptReadyFrame
     \/ NewConn(e)
  /\ UNCHANGED <<conforming, foreign, lost>>

-----------------------------------------------------------------------------
(* The rest of the world.                                                  *)

(* The nonces e has seen: all but the other end's before its Init is here. *)
Knows(e, n) == n = Other(e) => InitFrame(n) \in ToSet(inbound[e])

(* An end of another make writes what it likes, but it cannot sign for     *)
(* another: the signature on an answer of its is its own or that of an     *)
(* answer the key's owner has made, to it or to someone else.              *)
Foreign(e) ==
  /\ e \notin conforming /\ ~closed[e] /\ ~fin[Other(e)]
  /\ foreign < MaxForeign
  /\ foreign' = foreign + 1
  /\ \E f \in Frames :
       /\ f.kind = "init" => Knows(e, f.nonce)
       /\ f.kind = "response" =>
            \/ f.over = "nothing"
            \/ f.key = e /\ Knows(e, f.over)
            \/ f \in answered
       /\ inbound' = Written(e, f)
       /\ answered' = answered \cup ({f} \cap Answers({e}, Ends))
  /\ UNCHANGED <<conforming, pc, fin, closed, peerKey, lost>>

(* It has the other end's nonce answered by a third node, which takes it   *)
(* for the nonce of a handshake of its own.                                *)
ThirdAnswers(e) ==
  /\ e \notin conforming
  /\ Knows(e, Other(e))
  /\ answered' = answered \cup {Answer("third", Other(e))}
  /\ UNCHANGED <<conforming, pc, inbound, fin, closed, peerKey, foreign, lost>>

(* It closes the stream.                                                   *)
ForeignFin(e) ==
  /\ e \notin conforming /\ ~fin[Other(e)]
  /\ DeferredClose(e)
  /\ UNCHANGED <<conforming, pc, inbound, closed, peerKey, answered, foreign,
                 lost>>

Closes(e) ==
  /\ ~closed[e]
  /\ closed' = [closed EXCEPT ![e] = TRUE]
  /\ UNCHANGED <<conforming, pc, inbound, fin, peerKey, answered, foreign>>

(* The network fails; what an end had not read is lost.                    *)
ConnLost(e) == ~closed[Other(e)] /\ Closes(e) /\ lost' = TRUE

(* An end learns that the other has gone, from its CONNECTION_CLOSE or for *)
(* its silence.                                                            *)
LearnClosed(e) == closed[Other(e)] /\ Closes(e) /\ UNCHANGED lost

HandshakeNext ==
  \E e \in Ends :
    \/ Step(e)
    \/ Foreign(e) \/ ForeignFin(e) \/ ThirdAnswers(e)
    \/ ConnLost(e) \/ LearnClosed(e)

(* The goroutines run on, QUIC delivers what an open stream was given, and *)
(* MaxIdleTimeout tells an end that the other has gone.                    *)
HandshakeFairness ==
  \A e \in Ends :
    WF_handshakeVars(Step(e)) /\ WF_handshakeVars(LearnClosed(e))

HandshakeSpec == HandshakeInit /\ [][HandshakeNext]_handshakeVars

HandshakeFairSpec == HandshakeSpec /\ HandshakeFairness

-----------------------------------------------------------------------------
(* Properties.                                                             *)

(* Every variable has its type; an end of this make writes no more than an *)
(* Init, an answer and a Ready.                                            *)
HandshakeTypeOK ==
  /\ conforming \in SUBSET Ends
  /\ pc \in [Ends -> {"open", "accept", "check", "ready", "register",
                      "registered", "failed", "panicked"}]
  /\ inbound \in [Ends -> Seq(Frames)]
  /\ \A e \in Ends : Len(inbound[e]) <= (IF Other(e) \in conforming THEN 3
                                            ELSE MaxForeign)
  /\ fin \in [Ends -> BOOLEAN]
  /\ closed \in [Ends -> BOOLEAN]
  /\ peerKey \in [Ends -> Keys \cup {"none"}]
  /\ answered \in SUBSET Answers(Keys, Ends)
  /\ foreign \in 0..MaxForeign
  /\ lost \in BOOLEAN

(* An end that registers the connection has a key whose owner has answered *)
(* the nonce of this very handshake, whatever the other end sends; and if  *)
(* the other end runs this code, it is that end's key.                     *)
AuthenticPeer ==
  \A e \in conforming :
    pc[e] \in {"register", "registered"} =>
      /\ Answer(peerKey[e], e) \in answered
      /\ Other(e) \in conforming => peerKey[e] = Other(e)

(* When the acceptor registers, the dialer has authenticated it: Ready is  *)
(* never said before.                                                      *)
ReadyAgreement ==
  /\ conforming = Ends
  /\ pc["acceptor"] \in {"register", "registered"}
  => peerKey["dialer"] = "acceptor"

(* Two conforming ends never misread each other: neither fails, and so no  *)
(* half of the connection is registered alone, unless the network fails.   *)
NoSpuriousFailure ==
  conforming = Ends =>
    \A e \in Ends : pc[e] \in {"failed", "panicked"} => lost

(* Two conforming ends both register the connection, or the network fails  *)
(* and both return: they never wait for each other.                        *)
BothRegister ==
  conforming = Ends ~>
    \/ \A e \in Ends : pc[e] = "registered"
    \/ lost /\ \A e \in Ends : pc[e] \in {"registered", "failed"}
=============================================================================
