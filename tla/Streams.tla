-------------------------------- MODULE Streams --------------------------------
(***************************************************************************)
(* internal/network/stream.go with the stream map of PeerWrapper in        *)
(* quic.go: the bidirectional streams of one peer.                         *)
(*                                                                         *)
(* NewStream starts a reader and a writer goroutine, each with a channel   *)
(* to the stream's user, and only then does wrapAndRegister put the stream *)
(* in the map.  Close runs once, for whoever comes first: the user or      *)
(* either goroutine as it returns.  It cancels the stream's context and    *)
(* takes the stream out of the map.  Peer.Close cancels the context all    *)
(* streams of the peer derive theirs from, and touches no stream.          *)
(*                                                                         *)
(* Init, Next, Spec and the type invariant carry the module's name:        *)
(* NetworkProofs extends this module together with two others.             *)
(***************************************************************************)
EXTENDS Naturals, Sequences

CONSTANTS
  Streams,    \* the streams accepted or opened
  ChanCap,    \* capacity of Incoming and of Outgoing (100 in the code)
  MaxFrames,  \* bound: frames the other node sends on a stream
  MaxSends    \* bound: calls of Send on a stream

ASSUME StreamsAssumption ==
  /\ ChanCap \in Nat \ {0}
  /\ MaxFrames \in Nat
  /\ MaxSends \in Nat

(* Frames are numbered in the order they are sent, from 1, on each stream  *)
(* and in each direction.                                                  *)
VARIABLES
  wrap,      \* wrapAndRegister: "none", "started" or "listed"
  streams,   \* PeerWrapper.streams
  once,      \* the sync.Once of Close: "open", "closing" or "closed"
  peerDone,  \* the peer's context is cancelled
  reader,    \* where readLoop is
  writer,    \* where writeLoop is
  user,      \* whether the stream's user has called Close
  arrived,   \* frames the network has brought
  got,       \* frames readFrame has returned
  incoming,  \* the channel Incoming
  consumed,  \* history: what the user has received
  sender,    \* whether the user is inside Send
  sends,     \* calls of Send so far
  outgoing,  \* the channel Outgoing
  inHand,    \* the frame writeLoop is writing
  written,   \* history: frames written to the QUIC stream
  recvSide,  \* what the other node does with the stream it writes
  sendSide,  \* what the other node does with the stream it reads
  early,     \* history: Close was over before the stream was listed
  panicked   \* a goroutine has panicked, which ends the process

mapVars  == <<wrap, streams, early>>
inVars   == <<arrived, got, incoming, consumed>>
outVars  == <<sender, sends, outgoing, inHand, written>>
netVars  == <<recvSide, sendSide>>
streamsVars == <<mapVars, once, peerDone, reader, writer, user, inVars,
                 outVars, netVars, panicked>>

StreamsInit ==
  /\ wrap = [s \in Streams |-> "none"]
  /\ streams = {}
  /\ once = [s \in Streams |-> "open"]
  /\ peerDone = FALSE
  /\ reader = [s \in Streams |-> "none"]
  /\ writer = [s \in Streams |-> "none"]
  /\ user = [s \in Streams |-> "using"]
  /\ arrived = [s \in Streams |-> 0]
  /\ got = [s \in Streams |-> 0]
  /\ incoming = [s \in Streams |-> <<>>]
  /\ consumed = [s \in Streams |-> <<>>]
  /\ sender = [s \in Streams |-> "idle"]
  /\ sends = [s \in Streams |-> 0]
  /\ outgoing = [s \in Streams |-> <<>>]
  /\ inHand = [s \in Streams |-> 0]
  /\ written = [s \in Streams |-> <<>>]
  /\ recvSide = [s \in Streams |-> "open"]
  /\ sendSide = [s \in Streams |-> "flowing"]
  /\ early = [s \in Streams |-> FALSE]
  /\ panicked = FALSE

(* s.ctx.Done: the stream's context, or the one it derives from.           *)
CtxDone(s) == once[s] # "open" \/ peerDone

-----------------------------------------------------------------------------
(* wrapAndRegister, for AcceptStream and OpenBidirectionalStream alike.    *)

(* NewStream: the goroutines are off.                                      *)
NewStream(s) ==
  /\ wrap[s] = "none"
  /\ wrap' = [wrap EXCEPT ![s] = "started"]
  /\ reader' = [reader EXCEPT ![s] = "read"]
  /\ writer' = [writer EXCEPT ![s] = "select"]
  /\ UNCHANGED <<streams, early, once, peerDone, user, inVars, outVars, netVars>>

(* The stream goes into the map under streamsMu.                           *)
ListStream(s) ==
  /\ wrap[s] = "started"
  /\ wrap' = [wrap EXCEPT ![s] = "listed"]
  /\ streams' = streams \cup {s}
  /\ early' = [early EXCEPT ![s] = once[s] = "closed"]
  /\ UNCHANGED <<once, peerDone, reader, writer, user, inVars, outVars, netVars>>

-----------------------------------------------------------------------------
(* Close: the callers are in "close" until the one call that runs is over. *)

Closing(s) == "close" \in {reader[s], writer[s], user[s]}

(* The cancel, CancelRead and the close of the write side.                 *)
EnterClose(s) ==
  /\ Closing(s) /\ once[s] = "open"
  /\ once' = [once EXCEPT ![s] = "closing"]
  /\ UNCHANGED <<mapVars, peerDone, reader, writer, user, inVars, outVars,
                 netVars>>

(* Fault: onClose is not called.                                           *)
LeaveUncleaned(s) ==
  /\ once[s] = "closing"
  /\ once' = [once EXCEPT ![s] = "closed"]
  /\ UNCHANGED <<mapVars, peerDone, reader, writer, user, inVars, outVars,
                 netVars>>

(* onClose is removeStream, under streamsMu; the stream may not be there.  *)
LeaveClose(s) ==
  /\ once[s] = "closing"
  /\ once' = [once EXCEPT ![s] = "closed"]
  /\ streams' = streams \ {s}
  /\ UNCHANGED <<wrap, early, peerDone, reader, writer, user, inVars, outVars,
                 netVars>>

(* Every call of Close returns when that one has.                          *)
CloseReturns(s) ==
  /\ Closing(s) /\ once[s] = "closed"
  /\ reader' = [reader EXCEPT ![s] = IF @ = "close" THEN "done" ELSE @]
  /\ writer' = [writer EXCEPT ![s] = IF @ = "close" THEN "done" ELSE @]
  /\ user'   = [user   EXCEPT ![s] = IF @ = "close" THEN "done" ELSE @]
  /\ UNCHANGED <<mapVars, once, peerDone, inVars, outVars, netVars>>

-----------------------------------------------------------------------------
(* readLoop.                                                               *)

ReaderGoes(s, where) ==
  /\ reader' = [reader EXCEPT ![s] = where]
  /\ UNCHANGED <<mapVars, once, peerDone, writer, user, outVars, netVars>>

ReadFrame(s) ==
  /\ reader[s] = "read"
  /\ once[s] = "open" /\ recvSide[s] # "reset" /\ got[s] < arrived[s]
  /\ got' = [got EXCEPT ![s] = @ + 1]
  /\ ReaderGoes(s, "offer")
  /\ UNCHANGED <<arrived, incoming, consumed>>

(* The next frame has length zero and readFrame indexes it: nobody         *)
(* recovers.                                                               *)
ReadEmptyFrame(s) ==
  /\ reader[s] = "read"
  /\ once[s] = "open" /\ recvSide[s] = "open" /\ got[s] = arrived[s]
  /\ ~panicked /\ panicked' = TRUE
  /\ UNCHANGED <<mapVars, once, peerDone, reader, writer, user, inVars,
                 outVars, netVars>>

(* Fault: Close has not cancelled the reading.                             *)
ReadErrRemoteOnly(s) ==
  /\ reader[s] = "read"
  /\ recvSide[s] = "reset" \/ (recvSide[s] = "fin" /\ got[s] = arrived[s])
  /\ ReaderGoes(s, "close")
  /\ UNCHANGED inVars

(* readFrame fails at the end of the stream, on a reset, after CancelRead. *)
ReadErr(s) ==
  /\ reader[s] = "read"
  /\ \/ once[s] # "open"
     \/ recvSide[s] = "reset"
     \/ recvSide[s] = "fin" /\ got[s] = arrived[s]
  /\ ReaderGoes(s, "close")
  /\ UNCHANGED inVars

(* The select with the channel or the context; either, if both are ready.  *)
Offer(s) ==
  /\ reader[s] = "offer"
  /\ \/ /\ Len(incoming[s]) < ChanCap
        /\ incoming' = [incoming EXCEPT ![s] = Append(@, got[s])]
        /\ ReaderGoes(s, "read")
     \/ /\ CtxDone(s)
        /\ ReaderGoes(s, "close")
        /\ UNCHANGED incoming
  /\ UNCHANGED <<arrived, got, consumed>>

ReaderStep(s) == ReadFrame(s) \/ ReadErr(s) \/ Offer(s)

-----------------------------------------------------------------------------
(* writeLoop.                                                              *)

WriterGoes(s, where) ==
  /\ writer' = [writer EXCEPT ![s] = where]
  /\ UNCHANGED <<mapVars, once, peerDone, reader, user, inVars, netVars>>

(* The select with Outgoing or the context; either, if both are ready.     *)
TakeOutgoing(s) ==
  /\ writer[s] = "select"
  /\ \/ /\ outgoing[s] # <<>>
        /\ inHand' = [inHand EXCEPT ![s] = Head(outgoing[s])]
        /\ outgoing' = [outgoing EXCEPT ![s] = Tail(@)]
        /\ WriterGoes(s, "write")
     \/ /\ CtxDone(s)
        /\ WriterGoes(s, "close")
        /\ UNCHANGED <<inHand, outgoing>>
  /\ UNCHANGED <<sender, sends, written>>

WriteFrame(s) ==
  /\ writer[s] = "write"
  /\ once[s] = "open" /\ sendSide[s] = "flowing"
  /\ written' = [written EXCEPT ![s] = Append(@, inHand[s])]
  /\ inHand' = [inHand EXCEPT ![s] = 0]
  /\ WriterGoes(s, "select")
  /\ UNCHANGED <<sender, sends, outgoing>>

(* writeFrame fails, given when; the frame is lost and the loop goes on.   *)
LoseWrite(s, failing) ==
  /\ writer[s] = "write"
  /\ failing
  /\ inHand' = [inHand EXCEPT ![s] = 0]
  /\ WriterGoes(s, "select")
  /\ UNCHANGED <<sender, sends, outgoing, written>>

(* Fault: a deadline on each write, as SendGossipMessage has.              *)
WriteErrAnyTime(s) == LoseWrite(s, TRUE)

(* The error is not looked at.  A write that waits for the other node to   *)
(* read is not woken by the close of its own side.                         *)
WriteErr(s) ==
  LoseWrite(s, \/ once[s] # "open" /\ sendSide[s] = "flowing"
               \/ sendSide[s] = "stopped")

WriterStep(s) == TakeOutgoing(s) \/ WriteFrame(s) \/ WriteErr(s)

-----------------------------------------------------------------------------
(* The user of the stream.                                                 *)

(* Send: the channel send has no other case, and waits for room.           *)
Send(s) ==
  /\ wrap[s] = "listed" /\ sender[s] = "idle" /\ sends[s] < MaxSends
  /\ sender' = [sender EXCEPT ![s] = "blocked"]
  /\ sends' = [sends EXCEPT ![s] = @ + 1]
  /\ UNCHANGED <<mapVars, once, peerDone, reader, writer, user, inVars,
                 outgoing, inHand, written, netVars>>

(* Fault: the channel takes whatever comes.                                *)
SendUnbounded(s) ==
  /\ sender[s] = "blocked"
  /\ outgoing' = [outgoing EXCEPT ![s] = Append(@, sends[s])]
  /\ sender' = [sender EXCEPT ![s] = "idle"]
  /\ UNCHANGED <<mapVars, once, peerDone, reader, writer, user, inVars,
                 sends, inHand, written, netVars>>

SendReturns(s) ==
  /\ sender[s] = "blocked" /\ Len(outgoing[s]) < ChanCap
  /\ outgoing' = [outgoing EXCEPT ![s] = Append(@, sends[s])]
  /\ sender' = [sender EXCEPT ![s] = "idle"]
  /\ UNCHANGED <<mapVars, once, peerDone, reader, writer, user, inVars,
                 sends, inHand, written, netVars>>

(* A receive from ReadCh.                                                  *)
Consume(s) ==
  /\ wrap[s] = "listed" /\ incoming[s] # <<>>
  /\ consumed' = [consumed EXCEPT ![s] = Append(@, Head(incoming[s]))]
  /\ incoming' = [incoming EXCEPT ![s] = Tail(@)]
  /\ UNCHANGED <<mapVars, once, peerDone, reader, writer, user, arrived, got,
                 outVars, netVars>>

UserClose(s) ==
  /\ wrap[s] = "listed" /\ user[s] = "using"
  /\ user' = [user EXCEPT ![s] = "close"]
  /\ UNCHANGED <<mapVars, once, peerDone, reader, writer, inVars, outVars,
                 netVars>>

(* Peer.Close: the context all streams derive theirs from.                 *)
PeerClose ==
  /\ ~peerDone
  /\ peerDone' = TRUE
  /\ UNCHANGED <<mapVars, once, reader, writer, user, inVars, outVars, netVars>>

-----------------------------------------------------------------------------
(* The other node and the network.                                         *)

FrameArrives(s) ==
  /\ wrap[s] # "none" /\ recvSide[s] = "open" /\ arrived[s] < MaxFrames
  /\ arrived' = [arrived EXCEPT ![s] = @ + 1]
  /\ UNCHANGED <<mapVars, once, peerDone, reader, writer, user, got, incoming,
                 consumed, outVars, netVars>>

(* It ends or resets what it writes; it stops reading and reads again, or  *)
(* refuses the rest.                                                       *)
(* The end of the connection is a reset and a refusal of every stream.     *)
RemoteActs(s) ==
  /\ wrap[s] # "none"
  /\ \/ /\ recvSide[s] = "open"
        /\ \E r \in {"fin", "reset"} : recvSide' = [recvSide EXCEPT ![s] = r]
        /\ UNCHANGED sendSide
     \/ /\ sendSide[s] # "stopped"
        /\ \E r \in {"flowing", "stalled", "stopped"} \ {sendSide[s]} :
             sendSide' = [sendSide EXCEPT ![s] = r]
        /\ UNCHANGED recvSide
  /\ UNCHANGED <<mapVars, once, peerDone, reader, writer, user, inVars, outVars>>

CloseStep(s) == EnterClose(s) \/ LeaveClose(s) \/ CloseReturns(s)

(* A step of a process that has not panicked.                              *)
Alive(A) == ~panicked /\ A /\ UNCHANGED panicked

StreamsNext ==
  \/ Alive(PeerClose)
  \/ \E s \in Streams :
       \/ Alive(NewStream(s)) \/ Alive(ListStream(s)) \/ Alive(CloseStep(s))
       \/ Alive(ReaderStep(s)) \/ Alive(WriterStep(s))
       \/ Alive(Send(s)) \/ Alive(SendReturns(s))
       \/ Alive(Consume(s)) \/ Alive(UserClose(s))
       \/ Alive(FrameArrives(s)) \/ Alive(RemoteActs(s))
       \/ ReadEmptyFrame(s)

(* Goroutines run on.  No user has to read, send or close, and the other   *)
(* node has to do nothing.                                                 *)
StreamsFairness ==
  \A s \in Streams :
    /\ WF_streamsVars(Alive(ListStream(s)))
    /\ WF_streamsVars(Alive(CloseStep(s)))
    /\ WF_streamsVars(Alive(ReaderStep(s)))
    /\ WF_streamsVars(Alive(WriterStep(s)))
    /\ WF_streamsVars(Alive(SendReturns(s)))

StreamsSpec == StreamsInit /\ [][StreamsNext]_streamsVars

StreamsFairSpec == StreamsSpec /\ StreamsFairness

-----------------------------------------------------------------------------
(* Properties.                                                             *)

(* The types of the variables of the streams.                              *)
StreamTypes ==
  /\ wrap \in [Streams -> {"none", "started", "listed"}]
  /\ streams \in SUBSET Streams
  /\ once \in [Streams -> {"open", "closing", "closed"}]
  /\ peerDone \in BOOLEAN
  /\ reader \in [Streams -> {"none", "read", "offer", "close", "done"}]
  /\ writer \in [Streams -> {"none", "select", "write", "close", "done"}]
  /\ user \in [Streams -> {"using", "close", "done"}]
  /\ arrived \in [Streams -> 0..MaxFrames]
  /\ got \in [Streams -> 0..MaxFrames]
  /\ incoming \in [Streams -> Seq(1..MaxFrames)]
  /\ consumed \in [Streams -> Seq(1..MaxFrames)]
  /\ sender \in [Streams -> {"idle", "blocked"}]
  /\ sends \in [Streams -> 0..MaxSends]
  /\ outgoing \in [Streams -> Seq(1..MaxSends)]
  /\ inHand \in [Streams -> 0..MaxSends]
  /\ written \in [Streams -> Seq(1..MaxSends)]
  /\ \A s \in Streams : Len(incoming[s]) <= ChanCap /\ Len(outgoing[s]) <= ChanCap
  /\ recvSide \in [Streams -> {"open", "fin", "reset"}]
  /\ sendSide \in [Streams -> {"flowing", "stalled", "stopped"}]
  /\ early \in [Streams -> BOOLEAN]

(* Every variable has its type, and the channels respect their capacity.   *)
StreamsTypeOK == StreamTypes /\ panicked \in BOOLEAN

(* What the user receives, with what waits in Incoming, is what arrived,   *)
(* in order and without a gap, short at most of the frame the reader has   *)
(* in hand or dropped as it returned; and what is written is what was      *)
(* sent, in order and without a gap, even though writeLoop ignores every   *)
(* error and goes on to the next frame.                                    *)
OrderKept ==
  \A s \in Streams :
    LET in == consumed[s] \o incoming[s] IN
    /\ \A i \in 1..Len(in) : in[i] = i
    /\ Len(in) = got[s] - 1 \/ (Len(in) = got[s] /\ reader[s] # "offer")
    /\ reader[s] = "read" => Len(in) = got[s]
    /\ \A i \in 1..Len(written[s]) : written[s][i] = i

(* A listed stream is in the map until its Close is over, and is left      *)
(* there after that only if it was over before wrapAndRegister came to     *)
(* list it: then nothing ever takes it out.                                *)
MapMatches ==
  \A s \in Streams :
    wrap[s] = "listed" => (s \in streams <=> once[s] # "closed" \/ early[s])

(* Once a stream or its peer is closed both goroutines return, unless the  *)
(* other node has stopped reading, which may hold writeLoop in its write   *)
(* with nobody left to wake it, or the process has panicked.               *)
LoopsEnd ==
  \A s \in Streams :
    (CtxDone(s) /\ wrap[s] = "listed")
      ~> \/ reader[s] = "done" /\ writer[s] = "done"
         \/ sendSide[s] = "stalled"
         \/ panicked
=============================================================================
