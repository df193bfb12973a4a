------------------------------- MODULE Sessions -------------------------------
(***************************************************************************)
(* internal/p2p/sessions.go with the stream handler AddPeer installs in    *)
(* swarm.go: how a stream another node opens finds its transfer session.   *)
(*                                                                         *)
(* The handler, a goroutine per stream, waits up to five seconds for the   *)
(* first frame.  A request for a chunk names a session, and AddStream      *)
(* lists the stream there and sends it to the session's bounded channel,   *)
(* waiting for room without a limit of time.  Then the handler closes the  *)
(* stream.  Some of its early returns close the stream and some do not.    *)
(* Of a stream this module knows whether it is open; Streams has the rest. *)
(*                                                                         *)
(* Init, Next, Spec and the type invariant carry the module's name:        *)
(* NetworkProofs extends this module together with two others.             *)
(***************************************************************************)
EXTENDS Naturals, Sequences, SequencesExt

CONSTANTS
  AcceptedStreams,  \* the streams other nodes open
  SessionIDs,       \* the IDs a request may name
  Transfers,        \* the transfer sessions
  NoTransfer,       \* for "no session", a nil pointer
  Asked,            \* Asked[s]: the session ID a request on s names
  NewStreamsCap     \* capacity of NewStreams (10 in the code)

ASSUME SessionsAssumption ==
  /\ Asked \in [AcceptedStreams -> SessionIDs]
  /\ NoTransfer \notin Transfers
  /\ NewStreamsCap \in Nat \ {0}

VARIABLES
  handler,     \* where the handler of each stream is
  open,        \* the streams that are open
  sessions,    \* the manager's map
  found,       \* found[s]: the session the handler has looked up
  ended,       \* the sessions whose context is cancelled
  listed,      \* listed[t]: TransferSession.Streams
  newStreams,  \* newStreams[t]: the channel NewStreams
  received     \* history: the streams the session's owner has received

transferVars == <<sessions, found, ended, listed, newStreams, received>>
sessionsVars == <<handler, open, transferVars>>

SessionsInit ==
  /\ handler = [s \in AcceptedStreams |-> "none"]
  /\ open = {}
  /\ sessions = [i \in SessionIDs |-> NoTransfer]
  /\ found = [s \in AcceptedStreams |-> NoTransfer]
  /\ ended = {}
  /\ listed = [t \in Transfers |-> <<>>]
  /\ newStreams = [t \in Transfers |-> <<>>]
  /\ received = [t \in Transfers |-> {}]

HandlerGoes(s, where) == handler' = [handler EXCEPT ![s] = where]

-----------------------------------------------------------------------------
(* The handler.                                                            *)

(* AcceptStreamLoop has a stream and calls onNewStream.                    *)
OnNewStream(s) ==
  /\ handler[s] = "none"
  /\ HandlerGoes(s, "wait")
  /\ open' = open \cup {s}
  /\ UNCHANGED transferVars

(* The first frame is there in time: it is no TypeStreamInitRequest or     *)
(* does not unmarshal; it holds no ChunkReq or a session ID that does not  *)
(* parse; or it is a request.                                              *)
FirstFrame(s) ==
  /\ handler[s] = "wait"
  /\ \E to \in {"close", "left", "find"} : HandlerGoes(s, to)
  /\ UNCHANGED <<open, transferVars>>

(* It is not; a stream that has ended is not noticed before, because       *)
(* nothing closes the channel the handler waits on.                        *)
Timeout(s) ==
  /\ handler[s] = "wait"
  /\ HandlerGoes(s, "close")
  /\ UNCHANGED <<open, transferVars>>

(* AddStream looks the session up under sm.mu and keeps the pointer.       *)
FindSession(s) ==
  /\ handler[s] = "find"
  /\ found' = [found EXCEPT ![s] = sessions[Asked[s]]]
  /\ HandlerGoes(s, IF sessions[Asked[s]] = NoTransfer THEN "left" ELSE "list")
  /\ UNCHANGED <<open, sessions, ended, listed, newStreams, received>>

(* Fault: addStream overwrites the list another call has just read.        *)
OverwriteList(s) ==
  /\ handler[s] = "list"
  /\ listed' = [listed EXCEPT ![found[s]] = <<s>>]
  /\ HandlerGoes(s, "offer")
  /\ UNCHANGED <<open, sessions, found, ended, newStreams, received>>

(* addStream appends to the session's list under its Mu.                   *)
AddToList(s) ==
  /\ handler[s] = "list"
  /\ listed' = [listed EXCEPT ![found[s]] = Append(@, s)]
  /\ HandlerGoes(s, "offer")
  /\ UNCHANGED <<open, sessions, found, ended, newStreams, received>>

(* The select of AddStream, given the capacity and when it may give up.    *)
Select(s, capacity, mayLeave) ==
  /\ handler[s] = "offer"
  /\ \/ /\ Len(newStreams[found[s]]) < capacity
        /\ newStreams' = [newStreams EXCEPT ![found[s]] = Append(@, s)]
        /\ HandlerGoes(s, "close")
     \/ /\ mayLeave
        /\ HandlerGoes(s, "left")
        /\ UNCHANGED newStreams
  /\ UNCHANGED <<open, sessions, found, ended, listed, received>>

(* Faults: the channel takes whatever comes; the end of the session is not *)
(* waited for.                                                             *)
OfferUnbounded(s) ==
  Select(s, Len(newStreams[found[s]]) + 1, found[s] \in ended)
OfferUntilRoom(s) == Select(s, NewStreamsCap, FALSE)

(* Room in NewStreams or the end of the session; either, if both.          *)
OfferStream(s) == Select(s, NewStreamsCap, found[s] \in ended)

(* stream.Close, on the error paths that call it and after AddStream too.  *)
CloseStream(s) ==
  /\ handler[s] = "close"
  /\ open' = open \ {s}
  /\ HandlerGoes(s, "done")
  /\ UNCHANGED transferVars

HandlerStep(s) ==
  \/ FirstFrame(s) \/ Timeout(s) \/ FindSession(s) \/ AddToList(s)
  \/ OfferStream(s) \/ CloseStream(s)

-----------------------------------------------------------------------------
(* The rest of the program.                                                *)

(* CreateNewSession, which draws a new ID, or Register, which replaces the *)
(* session that has the ID.                                                *)
Register(i, t) ==
  /\ sessions' = [sessions EXCEPT ![i] = t]
  /\ UNCHANGED <<handler, open, found, ended, listed, newStreams, received>>

(* TransferSession.Close, or the end of the parent context.  The session   *)
(* stays in the map.                                                       *)
CloseSession(t) ==
  /\ t \notin ended
  /\ ended' = ended \cup {t}
  /\ UNCHANGED <<handler, open, sessions, found, listed, newStreams, received>>

(* The session's owner receives a stream.                                  *)
ReceiveStream(t) ==
  /\ newStreams[t] # <<>>
  /\ received' = [received EXCEPT ![t] = @ \cup {Head(newStreams[t])}]
  /\ newStreams' = [newStreams EXCEPT ![t] = Tail(@)]
  /\ UNCHANGED <<handler, open, sessions, found, ended, listed>>

(* The stream ends for another reason: its loops close it.                 *)
StreamEnds(s) ==
  /\ s \in open
  /\ open' = open \ {s}
  /\ UNCHANGED <<handler, transferVars>>

SessionsNext ==
  \/ \E s \in AcceptedStreams :
       OnNewStream(s) \/ HandlerStep(s) \/ StreamEnds(s)
  \/ \E t \in Transfers :
       \/ \E i \in SessionIDs : Register(i, t)
       \/ CloseSession(t) \/ ReceiveStream(t)

(* The handlers run on and their timeout comes.  Nobody has to receive     *)
(* from NewStreams: at this commit nobody does.                            *)
SessionsFairness == \A s \in AcceptedStreams : WF_sessionsVars(HandlerStep(s))

SessionsSpec == SessionsInit /\ [][SessionsNext]_sessionsVars

SessionsFairSpec == SessionsSpec /\ SessionsFairness

-----------------------------------------------------------------------------
(* Properties.                                                             *)

(* Every variable has its type, and NewStreams respects its capacity.      *)
SessionsTypeOK ==
  /\ handler \in [AcceptedStreams -> {"none", "wait", "find", "list",
                                      "offer", "close", "left", "done"}]
  /\ open \in SUBSET AcceptedStreams
  /\ sessions \in [SessionIDs -> Transfers \cup {NoTransfer}]
  /\ found \in [AcceptedStreams -> Transfers \cup {NoTransfer}]
  /\ ended \in SUBSET Transfers
  /\ listed \in [Transfers -> Seq(AcceptedStreams)]
  /\ newStreams \in [Transfers -> Seq(AcceptedStreams)]
  /\ \A t \in Transfers : Len(newStreams[t]) <= NewStreamsCap
  /\ received \in [Transfers -> SUBSET AcceptedStreams]

(* The streams the owner of session t has been or will be given.           *)
Given(t) == ToSet(newStreams[t]) \cup received[t]

(* A session's list and its channel agree: a stream is listed before it is *)
(* given, and one that is listed is given too, unless its handler is still *)
(* waiting for room or the session has ended, also when another session    *)
(* has taken its ID in between.                                            *)
ListMatchesChannel ==
  \A t \in Transfers :
    /\ Given(t) \subseteq ToSet(listed[t])
    /\ \A s \in ToSet(listed[t]) :
         s \in Given(t) \/ handler[s] = "offer" \/ t \in ended

(* Every handler returns, unless the session it has found is open, its     *)
(* channel full and nobody receives: the five seconds cover the wait for   *)
(* the first frame only.                                                   *)
HandlersReturn ==
  \A s \in AcceptedStreams :
    handler[s] = "wait" ~>
      \/ handler[s] \in {"left", "done"}
      \/ /\ handler[s] = "offer" /\ found[s] \notin ended
         /\ Len(newStreams[found[s]]) = NewStreamsCap
=============================================================================
