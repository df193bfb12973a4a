----------------------------- MODULE NetworkProofs -----------------------------
(***************************************************************************)
(* Theorems about the connections of a node: the handshake that opens one, *)
(* the streams on it, and the sessions the streams of other nodes find.    *)
(* They hold for any number of streams and of sessions, for channels of    *)
(* any capacity and however many frames are sent.                          *)
(***************************************************************************)
EXTENDS Handshake, Streams, Sessions, TLAPS, SequenceTheorems

-----------------------------------------------------------------------------
(* Queues.                                                                 *)

(* An element of a sequence is its head or in its tail.                    *)
LEMMA HeadOrTail ==
  ASSUME NEW S, NEW q \in Seq(S), q # <<>>
  PROVE  /\ Head(q) \in S /\ Tail(q) \in Seq(S)
         /\ Head(q) = q[1] /\ Len(Tail(q)) = Len(q) - 1 /\ Len(q) \in Nat \ {0}
         /\ \A i \in 1 .. Len(Tail(q)) : Tail(q)[i] = q[i + 1]
BY HeadTailProperties

(* What a queue holds after a put.                                         *)
LEMMA ToSetAppend ==
  ASSUME NEW S, NEW q \in Seq(S), NEW x \in S
  PROVE  ToSet(Append(q, x)) = ToSet(q) \cup {x}
<1>1. /\ Append(q, x) \in Seq(S) /\ Len(Append(q, x)) = Len(q) + 1
      /\ \A i \in 1 .. Len(q) : Append(q, x)[i] = q[i]
      /\ Append(q, x)[Len(q) + 1] = x
      /\ Len(q) \in Nat
  BY AppendProperties
<1>2. DOMAIN Append(q, x) = 1 .. (Len(q) + 1) /\ DOMAIN q = 1 .. Len(q)
  BY <1>1
<1>3. ASSUME NEW y \in ToSet(Append(q, x)) PROVE y \in ToSet(q) \cup {x}
  <2>1. PICK i \in 1 .. (Len(q) + 1) : y = Append(q, x)[i]
    BY <1>2, <1>3 DEF ToSet
  <2>2. i \in 1 .. Len(q) \/ i = Len(q) + 1
    BY <1>1
  <2> QED BY <1>1, <1>2, <2>1, <2>2 DEF ToSet
<1>4. ASSUME NEW y \in ToSet(q) \cup {x} PROVE y \in ToSet(Append(q, x))
  <2>1. CASE y \in ToSet(q)
    <3>1. PICK i \in 1 .. Len(q) : y = q[i]
      BY <1>2, <2>1 DEF ToSet
    <3>2. i \in DOMAIN Append(q, x) /\ y = Append(q, x)[i]
      BY <1>1, <1>2, <3>1
    <3> QED BY <3>2 DEF ToSet
  <2>2. CASE y = x
    <3>1. Len(q) + 1 \in DOMAIN Append(q, x) /\ y = Append(q, x)[Len(q) + 1]
      BY <1>1, <1>2, <2>2
    <3> QED BY <3>1 DEF ToSet
  <2> QED BY <1>4, <2>1, <2>2
<1> QED BY <1>3, <1>4

(* What it holds after a get.                                              *)
LEMMA ToSetTail ==
  ASSUME NEW S, NEW q \in Seq(S), q # <<>>
  PROVE  ToSet(q) = ToSet(Tail(q)) \cup {Head(q)}
<1>1. /\ Tail(q) \in Seq(S) /\ Head(q) = q[1] /\ Len(Tail(q)) = Len(q) - 1
      /\ Len(q) \in Nat \ {0}
      /\ \A i \in 1 .. Len(Tail(q)) : Tail(q)[i] = q[i + 1]
  BY HeadOrTail
<1>2. DOMAIN Tail(q) = 1 .. (Len(q) - 1) /\ DOMAIN q = 1 .. Len(q)
  BY <1>1
<1>3. ASSUME NEW y \in ToSet(q) PROVE y \in ToSet(Tail(q)) \cup {Head(q)}
  <2>1. PICK i \in 1 .. Len(q) : y = q[i]
    BY <1>2, <1>3 DEF ToSet
  <2>2. CASE i = 1
    BY <1>1, <2>1, <2>2
  <2>3. CASE i # 1
    <3>1. i - 1 \in 1 .. (Len(q) - 1)
      BY <1>1, <2>3
    <3>2. i - 1 \in DOMAIN Tail(q) /\ y = Tail(q)[i - 1]
      BY <1>1, <1>2, <2>1, <3>1
    <3> QED BY <3>2 DEF ToSet
  <2> QED BY <2>2, <2>3
<1>4. ASSUME NEW y \in ToSet(Tail(q)) \cup {Head(q)} PROVE y \in ToSet(q)
  <2>1. CASE y \in ToSet(Tail(q))
    <3>1. PICK i \in 1 .. (Len(q) - 1) : y = Tail(q)[i]
      BY <1>2, <2>1 DEF ToSet
    <3>2. i + 1 \in DOMAIN q /\ y = q[i + 1]
      BY <1>1, <1>2, <3>1
    <3> QED BY <3>2 DEF ToSet
  <2>2. CASE y = Head(q)
    <3>1. 1 \in DOMAIN q /\ y = q[1]
      BY <1>1, <1>2, <2>2
    <3> QED BY <3>1 DEF ToSet
  <2> QED BY <1>4, <2>1, <2>2
<1> QED BY <1>3, <1>4

(* A queue of members of S holds members of S; a new one holds nothing.    *)
LEMMA ToSetType ==
  /\ \A S : \A q \in Seq(S) : ToSet(q) \subseteq S
  /\ ToSet(<<>>) = {}
BY DEF ToSet

-----------------------------------------------------------------------------
(* The handshake: the inductive invariant.                                 *)

(* What a conforming end writes, in order.                                 *)
Script(e, i) == CASE i = 1 -> InitFrame(e)
                  [] i = 2 -> Answer(e, Other(e))
                  [] i = 3 -> Ready

(* How much of it an end has written, and how many frames it has read, by  *)
(* the place it has come to.                                               *)
SentBy(e, where) == CASE where = "open"              -> 0
                      [] where = "accept"            -> 1
                      [] where \in {"check", "ready"} -> 2
                      [] OTHER -> IF e = "dialer" THEN 3 ELSE 2
ReadBy(e, where) == CASE where \in {"open", "accept"} -> 0
                      [] where = "check"              -> 1
                      [] where = "ready"              -> 2
                      [] OTHER -> IF e = "acceptor" THEN 3 ELSE 2

(* q is what o's script has between the r-th frame and the n-th.           *)
Part(q, o, r, n) ==
  /\ Len(q) = n - r
  /\ \A i \in 1 .. Len(q) : q[i] = Script(o, r + i)

(* The types alone, without the length of the queues.                      *)
Typed ==
  /\ conforming \in SUBSET Ends
  /\ pc \in [Ends -> {"open", "accept", "check", "ready", "register",
                      "registered", "failed", "panicked"}]
  /\ inbound \in [Ends -> Seq(Frames)]
  /\ fin \in [Ends -> BOOLEAN]
  /\ closed \in [Ends -> BOOLEAN]
  /\ peerKey \in [Ends -> Keys \cup {"none"}]
  /\ answered \in SUBSET Answers(Keys, Ends)
  /\ foreign \in 0..MaxForeign
  /\ lost \in BOOLEAN

(* The owner of the key has made the answer on the stream; one an end of   *)
(* this make wrote has that end's key.                                     *)
Signed ==
  \A e \in Ends : \A f \in ToSet(inbound[e]) :
    f.kind = "response" =>
      /\ f \in Answers(Keys, Ends) => f \in answered
      /\ Other(e) \in conforming => f.key = Other(e)

(* An end that has checked the answer has the key of one that answered     *)
(* its nonce, and the other end's if that is of this make.                 *)
Owned(e) ==
  /\ Answer(peerKey[e], e) \in answered
  /\ Other(e) \in conforming => peerKey[e] = Other(e)
Checked ==
  \A e \in conforming :
    pc[e] \in {"ready", "register", "registered"} => Owned(e)

(* Neither a Ready on its way nor one received is there before the dialer  *)
(* has the acceptor's key.                                                 *)
ReadySaid ==
  conforming = Ends =>
   (Ready \in ToSet(inbound["acceptor"])
      \/ pc["acceptor"] \in {"register", "registered"}
    => peerKey["dialer"] = "acceptor")

(* How many frames an end of this make has written at most, failed or not; *)
(* one of another make writes no more than are counted.                    *)
SentAtMost(where) == CASE where = "open"               -> 0
                       [] where = "accept"             -> 1
                       [] where \in {"check", "ready"} -> 2
                       [] OTHER                        -> 3
Bounded ==
  \A e \in Ends :
    Len(inbound[e]) <= IF Other(e) \in conforming THEN SentAtMost(pc[Other(e)])
                                                  ELSE foreign

(* While the network holds, two ends of this make follow the script: each  *)
(* has before it what the other has written and it has not yet read, and   *)
(* neither closes anything before it has registered.                       *)
OnScript(e) ==
  /\ ~closed[e]
  /\ pc[e] \notin {"failed", "panicked"}
  /\ fin[e] => pc[Other(e)] = "registered"
  /\ Part(inbound[e], Other(e), ReadBy(e, pc[e]), SentBy(Other(e), pc[Other(e)]))

FollowScript == conforming = Ends /\ ~lost => \A e \in Ends : OnScript(e)

HandshakeInv ==
  Typed /\ Signed /\ Checked /\ ReadySaid /\ Bounded /\ FollowScript

(* The lengths follow from the bounds.                                     *)
LEMMA TypeFromBounds == Typed /\ Bounded => HandshakeTypeOK
<1> SUFFICES ASSUME Typed, Bounded
             PROVE  \A e \in Ends : Len(inbound[e]) <=
                      (IF Other(e) \in conforming THEN 3 ELSE MaxForeign)
  BY DEF Typed, HandshakeTypeOK
<1> TAKE e \in Ends
<1>1. Len(inbound[e]) \in Nat
  BY DEF Typed
<1>2. SentAtMost(pc[Other(e)]) \in 0..3 /\ foreign \in 0..MaxForeign
      /\ MaxForeign \in Nat
  BY HandshakeAssumption DEF SentAtMost, Typed
<1> QED BY <1>1, <1>2 DEF Bounded

(* The two ends are each other's other end.                                *)
LEMMA TwoEnds ==
  /\ Other("dialer") = "acceptor" /\ Other("acceptor") = "dialer"
  /\ \A e \in Ends : /\ Other(e) \in Ends /\ Other(e) # e
                     /\ Other(Other(e)) = e
                     /\ Ends = {e, Other(e)}
<1>1. \A e \in Ends : Other(e) \in Ends /\ Other(e) # e
  <2> SUFFICES ASSUME NEW e \in Ends PROVE Other(e) \in Ends /\ Other(e) # e
    OBVIOUS
  <2>1. \E o \in Ends : o # e
    BY DEF Ends
  <2> QED BY <2>1 DEF Other
<1>2. Other("dialer") = "acceptor" /\ Other("acceptor") = "dialer"
  BY <1>1 DEF Ends
<1> QED BY <1>1, <1>2 DEF Ends

(* What the frames of each kind carry.                                     *)
LEMMA FrameKinds ==
  /\ \A e \in Ends : InitFrame(e) \in Frames /\ InitFrame(e).kind = "init"
                     /\ InitFrame(e).nonce = e
  /\ \A e, n \in Ends :
       /\ Answer(e, n) \in Frames /\ Answer(e, n) \in Answers(Keys, Ends)
       /\ Answer(e, n).kind = "response" /\ Answer(e, n).key = e
  /\ Ready \in Frames /\ Ready.kind = "ready"
  /\ \A f \in Frames : f.kind = "init" => f.nonce \in Ends
<1>1. \A e \in Ends : InitFrame(e) \in Frames /\ InitFrame(e).kind = "init"
                      /\ InitFrame(e).nonce = e
  BY DEF Frames, InitFrame
<1>2. ASSUME NEW e \in Ends, NEW n \in Ends
      PROVE  /\ Answer(e, n) \in Frames /\ Answer(e, n) \in Answers(Keys, Ends)
             /\ Answer(e, n).kind = "response" /\ Answer(e, n).key = e
  <2>1. /\ Answer(e, n) \in Answers(Keys \cup {"short"}, Ends \cup {"nothing"})
        /\ Answer(e, n) \in Answers(Keys, Ends)
    BY DEF Answer, Answers, Keys
  <2> QED BY <2>1 DEF Frames, Answer
<1>3. Ready \in Frames /\ Ready.kind = "ready"
  BY DEF Frames, Ready
<1>4. ASSUME NEW f \in Frames, f.kind = "init" PROVE f.nonce \in Ends
  <2>1. \/ \E e \in Ends : f = InitFrame(e)
        \/ f \in Answers(Keys \cup {"short"}, Ends \cup {"nothing"})
        \/ f \in {Ready, [kind |-> "empty"], [kind |-> "other"]}
    BY DEF Frames
  <2>2. CASE \E e \in Ends : f = InitFrame(e)
    BY <2>2 DEF InitFrame
  <2>3. CASE f \in Answers(Keys \cup {"short"}, Ends \cup {"nothing"})
    BY <1>4, <2>3 DEF Answers
  <2>4. CASE f \in {Ready, [kind |-> "empty"], [kind |-> "other"]}
    BY <1>4, <2>4 DEF Ready
  <2> QED BY <2>1, <2>2, <2>3, <2>4
<1> QED BY <1>1, <1>2, <1>3, <1>4

(* The answers e takes for sound: signed with the key they carry, over e's *)
(* own nonce.                                                              *)
Sound(e) == Answers(Keys, {e})

(* They carry a whole key, and the other end's answer is one of them.      *)
LEMMA SoundAnswers ==
  ASSUME NEW e \in Ends
  PROVE  /\ \A f \in Sound(e) : /\ f.kind = "response" /\ f.key # "short"
                                /\ f.key \in Keys /\ f = Answer(f.key, e)
                                /\ f \in Answers(Keys, Ends)
         /\ Answer(Other(e), e) \in Sound(e)
<1>1. ASSUME NEW f \in Sound(e)
      PROVE  /\ f.kind = "response" /\ f.key # "short"
             /\ f.key \in Keys /\ f = Answer(f.key, e)
             /\ f \in Answers(Keys, Ends)
  BY DEF Sound, Answers, Answer, Keys, Ends
<1>2. Answer(Other(e), e) \in Answers(Keys, {e})
  BY TwoEnds DEF Answer, Answers, Keys
<1> QED BY <1>1, <1>2 DEF Sound

(* A frame more of the script is written.                                  *)
LEMMA PartPut ==
  ASSUME NEW q \in Seq(Frames), NEW o, NEW r \in Nat, NEW n \in Nat,
         Part(q, o, r, n), NEW f \in Frames, f = Script(o, n + 1)
  PROVE  Part(Append(q, f), o, r, n + 1)
<1> DEFINE l == Len(q)
<1>1. /\ Len(Append(q, f)) = l + 1 /\ Append(q, f)[l + 1] = f
      /\ \A i \in 1 .. l : Append(q, f)[i] = q[i]
      /\ l \in Nat /\ l = n - r
  BY AppendProperties DEF Part
<1>2. \A i \in 1 .. l : q[i] = Script(o, r + i)
  BY DEF Part
<1> HIDE DEF l
<1>3. l + 1 = (n + 1) - r /\ r + (l + 1) = n + 1
  BY <1>1
<1>4. ASSUME NEW i \in 1 .. l + 1 PROVE Append(q, f)[i] = Script(o, r + i)
  <2>1. CASE i \in 1 .. l
    BY <1>1, <1>2, <2>1
  <2>2. CASE i = l + 1
    BY <1>1, <1>3, <2>2
  <2> QED BY <1>1, <2>1, <2>2
<1> QED BY <1>1, <1>3, <1>4 DEF Part

(* A frame less: what is read is the script's next frame.                  *)
LEMMA PartGet ==
  ASSUME NEW q \in Seq(Frames), NEW o, NEW r \in Nat, NEW n \in Nat,
         Part(q, o, r, n), q # <<>>
  PROVE  Head(q) = Script(o, r + 1) /\ Part(Tail(q), o, r + 1, n)
<1> DEFINE l == Len(q)
           m == Len(Tail(q))
<1>1. /\ Head(q) = q[1] /\ m = l - 1 /\ l \in Nat \ {0} /\ l = n - r
      /\ \A i \in 1 .. m : Tail(q)[i] = q[i + 1]
  BY HeadOrTail DEF Part
<1>2. \A i \in 1 .. l : q[i] = Script(o, r + i)
  BY DEF Part
<1> HIDE DEF l, m
<1>3. Head(q) = Script(o, r + 1)
  BY <1>1, <1>2
<1>4. m = n - (r + 1)
  BY <1>1
<1>5. ASSUME NEW i \in 1 .. m PROVE Tail(q)[i] = Script(o, (r + 1) + i)
  <2>1. i + 1 \in 1 .. l /\ r + (i + 1) = (r + 1) + i
    BY <1>1
  <2> QED BY <1>1, <1>2, <2>1
<1> QED BY <1>3, <1>4, <1>5 DEF Part, m

-----------------------------------------------------------------------------
(* The handshake: what a step of a conforming end may be.                  *)

(* e has a reason to give up: the connection or the stream is closed, or   *)
(* what it reads is not what it waits for.                                 *)
Reason(e) ==
  \/ closed[e]
  \/ pc[e] # "open" /\ ~(e = "dialer" /\ pc[e] = "ready")
     /\ inbound[e] = <<>> /\ fin[e]
  \/ /\ inbound[e] # <<>>
     /\ \/ pc[e] = "accept" /\ Head(inbound[e]).kind # "init"
        \/ pc[e] = "check" /\ Head(inbound[e]) \notin Sound(e)
        \/ pc[e] = "ready" /\ e = "acceptor" /\ Head(inbound[e]) # Ready

GivesUp(e) ==
  /\ Reason(e)
  /\ pc[e] \in {"open", "accept", "check", "ready"}
  /\ \E where \in {"failed", "panicked"} : Goto(e, where)
  /\ closed' = closed \/ closed' = [closed EXCEPT ![e] = TRUE]
  /\ fin' = fin \/ DeferredClose(e)
  /\ UNCHANGED <<inbound, peerKey, answered>>

(* It writes a frame.                                                      *)
Says(e, f, from, to) ==
  /\ pc[e] = from /\ Goto(e, to)
  /\ inbound' = Written(e, f)
  /\ UNCHANGED <<fin, closed, peerKey, answered>>

(* It answers the Init it reads.                                           *)
Replies(e) ==
  /\ pc[e] = "accept" /\ Goto(e, "check")
  /\ inbound[e] # <<>> /\ Head(inbound[e]).kind = "init"
  /\ inbound' = [Consumed(e) EXCEPT
       ![Other(e)] = Append(@, Answer(e, Head(inbound[e]).nonce))]
  /\ answered' = answered \cup {Answer(e, Head(inbound[e]).nonce)}
  /\ UNCHANGED <<fin, closed, peerKey>>

(* It accepts the answer it reads.                                         *)
Accepts(e) ==
  /\ pc[e] = "check" /\ Goto(e, "ready")
  /\ inbound[e] # <<>> /\ Head(inbound[e]) \in Sound(e)
  /\ inbound' = Consumed(e)
  /\ peerKey' = [peerKey EXCEPT ![e] = Head(inbound[e]).key]
  /\ UNCHANGED <<fin, closed, answered>>

(* The acceptor reads Ready.                                               *)
HearsReady ==
  /\ pc["acceptor"] = "ready" /\ Goto("acceptor", "register")
  /\ inbound["acceptor"] # <<>> /\ Head(inbound["acceptor"]) = Ready
  /\ inbound' = Consumed("acceptor")
  /\ UNCHANGED <<fin, closed, peerKey, answered>>

(* A step of the code is one of these, or the one that registers the       *)
(* connection; to give up, an end needs a reason.                          *)
LEMMA StepKinds ==
  ASSUME Typed, NEW e \in Ends, Step(e)
  PROVE  \/ Says(e, InitFrame(e), "open", "accept")
         \/ Replies(e) \/ Accepts(e)
         \/ e = "dialer" /\ Says(e, Ready, "ready", "register")
         \/ e = "acceptor" /\ HearsReady
         \/ NewConn(e)
         \/ GivesUp(e)
<1>t. inbound \in [Ends -> Seq(Frames)] /\ Other(e) \in Ends /\ Other(e) # e
  BY TwoEnds DEF Typed
<1>a. ASSUME AuthFails(e) \/ Panics(e), Reason(e),
             pc[e] \in {"open", "accept", "check", "ready"}
      PROVE  GivesUp(e)
  BY <1>a DEF AuthFails, Panics, GivesUp
<1>r. ASSUME pc[e] \in {"accept", "check"}, ReadFails(e) PROVE Reason(e)
  <2>1. Ready.kind # "init" /\ Ready \notin Sound(e)
    BY FrameKinds, SoundAnswers
  <2> QED BY <1>r, <2>1 DEF ReadFails, Reason
<1>1. CASE SendHandshake(e)
  <2>1. CASE closed[e] /\ AuthFails(e)
    <3>1. pc[e] = "open" /\ Reason(e)
      BY <1>1, <2>1 DEF SendHandshake, SendInit, Reason
    <3> QED BY <1>a, <2>1, <3>1
  <2>2. CASE inbound' = Written(e, InitFrame(e)) /\ Goto(e, "accept")
             /\ UNCHANGED <<fin, closed, peerKey, answered>>
    BY <1>1, <2>2 DEF SendHandshake, SendInit, Says
  <2> QED BY <1>1, <2>1, <2>2 DEF SendHandshake, SendInit
<1>2. CASE AcceptHandshake(e)
  <2> DEFINE f == Head(inbound[e])
  <2>0. pc[e] = "accept"
    BY <1>2 DEF AcceptHandshake, AnswerWith
  <2>1. CASE ReadFails(e) /\ AuthFails(e)
    BY <1>a, <1>r, <2>0, <2>1
  <2>2. CASE CanRead(e) /\ f.kind # "init" /\ (AuthFails(e) \/ Panics(e))
    <3>1. Reason(e)
      BY <2>0, <2>2 DEF CanRead, Reason
    <3> QED BY <1>a, <2>0, <2>2, <3>1
  <2>3. CASE /\ CanRead(e) /\ f.kind = "init"
             /\ inbound' = [Consumed(e) EXCEPT
                  ![Other(e)] = @ \o [n \in Ends |-> <<Answer(e, n)>>][f.nonce]]
             /\ answered' = answered
                  \cup (ToSet([n \in Ends |-> <<Answer(e, n)>>][f.nonce]) \ {Ready})
             /\ Goto(e, "check")
             /\ UNCHANGED <<fin, closed, peerKey>>
    <3>1. inbound[e] # <<>> /\ f \in Frames /\ f.nonce \in Ends
      <4>1. inbound[e] # <<>> /\ inbound[e] \in Seq(Frames)
        BY <1>t, <2>3 DEF CanRead
      <4>2. f \in Frames
        BY <4>1, HeadOrTail
      <4> QED BY <2>3, <4>1, <4>2, FrameKinds
    <3>2. [n \in Ends |-> <<Answer(e, n)>>][f.nonce] = <<Answer(e, f.nonce)>>
      BY <3>1
    <3>3. Answer(e, f.nonce) \in Frames /\ inbound[Other(e)] \in Seq(Frames)
      BY <1>t, <3>1, FrameKinds
    <3>4. inbound[Other(e)] \o <<Answer(e, f.nonce)>>
            = Append(inbound[Other(e)], Answer(e, f.nonce))
      BY <3>3
    <3>5. Consumed(e)[Other(e)] = inbound[Other(e)]
      BY <1>t DEF Consumed
    <3>6. inbound' = [Consumed(e) EXCEPT
            ![Other(e)] = Append(inbound[Other(e)], Answer(e, f.nonce))]
      BY <2>3, <3>2, <3>4, <3>5
    <3>7. answered' = answered \cup {Answer(e, f.nonce)}
      <4>1. ToSet(<<Answer(e, f.nonce)>>) = {Answer(e, f.nonce)}
        BY DEF ToSet
      <4>2. Answer(e, f.nonce) # Ready
        BY <3>1, FrameKinds
      <4> QED BY <2>3, <3>2, <4>1, <4>2
    <3> QED BY <2>0, <2>3, <3>1, <3>5, <3>6, <3>7 DEF Replies
  <2> QED BY <1>2, <2>1, <2>2, <2>3 DEF AcceptHandshake, AnswerWith
<1>3. CASE CheckHandshakeResponse(e)
  <2> DEFINE f == Head(inbound[e])
  <2>0. pc[e] = "check"
    BY <1>3 DEF CheckHandshakeResponse, CheckAgainst
  <2>1. CASE ReadFails(e) /\ AuthFails(e)
    BY <1>a, <1>r, <2>0, <2>1
  <2>2. CASE CanRead(e) /\ f \notin Sound(e) /\ (AuthFails(e) \/ Panics(e))
    <3>1. Reason(e)
      BY <2>0, <2>2 DEF CanRead, Reason
    <3> QED BY <1>a, <2>0, <2>2, <3>1
  <2>3. CASE /\ CanRead(e) /\ f \in Sound(e)
             /\ inbound' = Consumed(e)
             /\ peerKey' = [peerKey EXCEPT ![e] = f.key]
             /\ Goto(e, "ready")
             /\ UNCHANGED <<fin, closed, answered>>
    BY <2>0, <2>3 DEF Accepts, CanRead
  <2>4. f.kind # "response" \/ f.key = "short" => f \notin Sound(e)
    BY SoundAnswers
  <2> QED BY <1>3, <2>1, <2>2, <2>3, <2>4, SoundAnswers
          DEF CheckHandshakeResponse, CheckAgainst, Sound
<1>4. CASE e = "dialer" /\ SendReadyFrame
  <2>1. CASE closed[e] /\ ReadyFails(e)
    BY <1>4, <2>1 DEF SendReadyFrame, ReadyFails, GivesUp, Reason
  <2>2. CASE ~closed[e]
    BY <1>4, <2>2 DEF SendReadyFrame, Says
  <2> QED BY <1>4, <2>1, <2>2 DEF SendReadyFrame
<1>5. CASE e = "acceptor" /\ AcceptReadyFrame
  <2>0. pc[e] = "ready"
    BY <1>5 DEF AcceptReadyFrame
  <2>1. CASE /\ \/ closed[e] \/ (inbound[e] = <<>> /\ fin[e]) \/ CanRead(e)
             /\ ReadyFails(e)
    <3>1. Reason(e)
      BY <1>5, <2>0, <2>1 DEF CanRead, Reason
    <3> QED BY <2>0, <2>1, <3>1 DEF ReadyFails, GivesUp
  <2>2. CASE HearsReady
    BY <1>5, <2>2
  <2> QED BY <1>5, <2>1, <2>2 DEF AcceptReadyFrame, HearsReady
<1> QED BY <1>1, <1>2, <1>3, <1>4, <1>5 DEF Step

-----------------------------------------------------------------------------
(* The handshake: every kind of step keeps the invariant.                  *)

(* An end writes a frame of its script.                                    *)
LEMMA SaysStep ==
  ASSUME HandshakeInv, UNCHANGED <<conforming, foreign, lost>>,
         NEW e \in conforming, NEW f \in Frames, NEW from, NEW to,
         Says(e, f, from, to),
         \/ from = "open" /\ to = "accept" /\ f = InitFrame(e)
         \/ from = "ready" /\ to = "register" /\ f = Ready /\ e = "dialer"
  PROVE  HandshakeInv'
<1>e. /\ e \in Ends /\ Other(e) \in Ends /\ Other(e) # e /\ Other(Other(e)) = e
      /\ Ends = {e, Other(e)} /\ e \in conforming
  BY TwoEnds DEF HandshakeInv, Typed
<1>t. Typed
  BY DEF HandshakeInv
<1>1. /\ pc[e] = from /\ pc'[e] = to /\ pc'[Other(e)] = pc[Other(e)]
      /\ inbound'[Other(e)] = Append(inbound[Other(e)], f)
      /\ inbound'[e] = inbound[e]
      /\ UNCHANGED <<fin, closed, peerKey, answered>>
  BY <1>e, <1>t DEF Says, Goto, Written, Typed
<1>2. inbound[Other(e)] \in Seq(Frames) /\ inbound[e] \in Seq(Frames)
  BY <1>e, <1>t DEF Typed
<1>3. f.kind # "response" /\ (f = Ready => e = "dialer" /\ from = "ready")
  BY <1>e, FrameKinds
<1>4. ToSet(inbound'[Other(e)]) = ToSet(inbound[Other(e)]) \cup {f}
  BY <1>1, <1>2, ToSetAppend
<1>5. Typed'
  <2>1. inbound' \in [Ends -> Seq(Frames)]
    BY <1>e, <1>t DEF Says, Written, Typed
  <2>2. pc' \in [Ends -> {"open", "accept", "check", "ready", "register",
                          "registered", "failed", "panicked"}]
    BY <1>t DEF Says, Goto, Typed
  <2> QED BY <1>t, <1>1, <2>1, <2>2 DEF Typed
<1>6. Signed'
  BY <1>e, <1>1, <1>3, <1>4 DEF Signed, HandshakeInv
<1>7. Checked'
  <2> SUFFICES ASSUME NEW t \in conforming,
                      pc'[t] \in {"ready", "register", "registered"}
               PROVE  Owned(t)
    BY <1>1 DEF Checked, Owned
  <2>1. pc[t] \in {"ready", "register", "registered"}
    <3>1. t = e \/ t = Other(e)
      BY <1>e, <1>t DEF Typed
    <3> QED BY <1>1, <3>1
  <2> QED BY <2>1 DEF Checked, HandshakeInv
<1>8. ReadySaid'
  <2>1. CASE e = "dialer"
    <3>1. Other(e) = "acceptor" /\ Other("acceptor") = "dialer"
      BY <2>1, TwoEnds
    <3>2. f = Ready /\ conforming = Ends => peerKey["dialer"] = "acceptor"
      BY <1>e, <1>1, <1>3, <2>1, <3>1 DEF Checked, Owned, HandshakeInv
    <3> QED BY <1>1, <1>4, <2>1, <3>1, <3>2 DEF ReadySaid, HandshakeInv
  <2>2. CASE e = "acceptor"
    <3>1. to = "accept"
      BY <2>2
    <3> QED BY <1>1, <2>2, <3>1 DEF ReadySaid, HandshakeInv
  <2> QED BY <1>e, <2>1, <2>2 DEF Ends
<1>9. Bounded'
  <2>1. SentAtMost(to) = SentAtMost(from) + 1 /\ SentAtMost(from) \in Nat
    BY DEF SentAtMost
  <2>2. Len(inbound'[Other(e)]) = Len(inbound[Other(e)]) + 1
        /\ Len(inbound[Other(e)]) \in Nat
    BY <1>1, <1>2, AppendProperties
  <2>3. Len(inbound[Other(e)]) <= SentAtMost(from)
    BY <1>e, <1>1 DEF Bounded, HandshakeInv
  <2>4. Len(inbound'[Other(e)]) <= SentAtMost(to)
    BY <2>1, <2>2, <2>3
  <2> QED BY <1>e, <1>1, <2>4 DEF Bounded, HandshakeInv
<1>10. FollowScript'
  <2> SUFFICES ASSUME conforming = Ends, ~lost
               PROVE  OnScript(e)' /\ OnScript(Other(e))'
    BY <1>e DEF FollowScript
  <2>1. OnScript(e) /\ OnScript(Other(e))
    BY <1>e DEF HandshakeInv, FollowScript
  <2>2. /\ ReadBy(e, to) = ReadBy(e, from)
        /\ SentBy(e, to) = SentBy(e, from) + 1
        /\ f = Script(e, SentBy(e, from) + 1)
        /\ SentBy(e, from) \in Nat
        /\ to \notin {"failed", "panicked"} /\ from # "registered"
    BY <1>e DEF ReadBy, SentBy, Script, Ends
  <2>3. ReadBy(Other(e), pc[Other(e)]) \in Nat
    BY DEF ReadBy
  <2>4. OnScript(e)'
    BY <1>e, <1>1, <2>1, <2>2 DEF OnScript
  <2>5. Part(inbound[Other(e)], e, ReadBy(Other(e), pc[Other(e)]), SentBy(e, from))
    BY <1>e, <1>1, <2>1 DEF OnScript
  <2>6. Part(inbound'[Other(e)], e, ReadBy(Other(e), pc[Other(e)]), SentBy(e, to))
    BY <1>1, <1>2, <2>2, <2>3, <2>5, PartPut
  <2>7. OnScript(Other(e))'
    BY <1>e, <1>1, <2>1, <2>2, <2>6 DEF OnScript
  <2> QED BY <2>4, <2>7
<1> QED BY <1>5, <1>6, <1>7, <1>8, <1>9, <1>10
        DEF HandshakeInv

(* It reads an Init and answers it.                                        *)
LEMMA RepliesStep ==
  ASSUME HandshakeInv, UNCHANGED <<conforming, foreign, lost>>,
         NEW e \in conforming, Replies(e)
  PROVE  HandshakeInv'
<1> DEFINE nonce == Head(inbound[e]).nonce
           f == Answer(e, nonce)
<1>e. /\ e \in Ends /\ Other(e) \in Ends /\ Other(e) # e /\ Other(Other(e)) = e
      /\ Ends = {e, Other(e)}
  BY TwoEnds DEF HandshakeInv, Typed
<1>t. Typed
  BY DEF HandshakeInv
<1>2. /\ inbound[Other(e)] \in Seq(Frames) /\ inbound[e] \in Seq(Frames)
      /\ inbound[e] # <<>> /\ Head(inbound[e]).kind = "init"
  BY <1>e, <1>t DEF Typed, Replies
<1>3. Head(inbound[e]) \in Frames /\ Tail(inbound[e]) \in Seq(Frames)
      /\ Len(Tail(inbound[e])) = Len(inbound[e]) - 1 /\ Len(inbound[e]) \in Nat
  BY <1>2, HeadOrTail
<1>n. nonce \in Ends
  BY <1>2, <1>3, FrameKinds
<1>f. f \in Frames /\ f.kind = "response" /\ f.key = e /\ f # Ready
      /\ f \in Answers(Keys, Ends)
  BY <1>e, <1>n, FrameKinds
<1>1. /\ pc[e] = "accept" /\ pc'[e] = "check" /\ pc'[Other(e)] = pc[Other(e)]
      /\ inbound'[Other(e)] = Append(inbound[Other(e)], f)
      /\ inbound'[e] = Tail(inbound[e])
      /\ answered' = answered \cup {f}
      /\ UNCHANGED <<fin, closed, peerKey>>
  BY <1>e, <1>t DEF Replies, Goto, Consumed, Typed
<1> HIDE DEF f, nonce
<1>4. /\ ToSet(inbound'[Other(e)]) = ToSet(inbound[Other(e)]) \cup {f}
      /\ ToSet(inbound[e]) = ToSet(inbound'[e]) \cup {Head(inbound[e])}
  BY <1>1, <1>2, <1>f, ToSetAppend, ToSetTail
<1>5. Typed'
  <2>1. Append(inbound[Other(e)], f) \in Seq(Frames)
    BY <1>2, <1>f
  <2>2. inbound' = [[inbound EXCEPT ![e] = Tail(inbound[e])]
                      EXCEPT ![Other(e)] = Append(inbound[Other(e)], f)]
    BY <1>e, <1>t DEF Replies, Consumed, Typed, f, nonce
  <2>3. inbound' \in [Ends -> Seq(Frames)]
    BY <1>t, <1>3, <2>1, <2>2 DEF Typed
  <2>4. pc' \in [Ends -> {"open", "accept", "check", "ready", "register",
                          "registered", "failed", "panicked"}]
    BY <1>t DEF Replies, Goto, Typed
  <2> QED BY <1>t, <1>f, <1>1, <2>3, <2>4 DEF Typed
<1>6. Signed'
  BY <1>e, <1>f, <1>1, <1>4 DEF Signed, HandshakeInv
<1>7. Checked'
  <2> SUFFICES ASSUME NEW t \in conforming,
                      pc'[t] \in {"ready", "register", "registered"}
               PROVE  Owned(t)
    BY <1>1 DEF Checked, Owned
  <2>1. pc[t] \in {"ready", "register", "registered"}
    <3>1. t = e \/ t = Other(e)
      BY <1>e, <1>t DEF Typed
    <3> QED BY <1>1, <3>1
  <2> QED BY <2>1 DEF Checked, HandshakeInv
<1>8. ReadySaid'
  <2>1. CASE e = "dialer"
    <3>1. Other(e) = "acceptor"
      BY <2>1, TwoEnds
    <3> QED BY <1>1, <1>f, <1>4, <2>1, <3>1 DEF ReadySaid, HandshakeInv
  <2>2. CASE e = "acceptor"
    BY <1>1, <1>4, <2>2 DEF ReadySaid, HandshakeInv
  <2> QED BY <1>e, <2>1, <2>2 DEF Ends
<1>9. Bounded'
  <2>1. SentAtMost("check") = 2 /\ SentAtMost("accept") = 1
    BY DEF SentAtMost
  <2>2. Len(inbound'[Other(e)]) = Len(inbound[Other(e)]) + 1
        /\ Len(inbound[Other(e)]) \in Nat
    BY <1>1, <1>2, <1>f, AppendProperties
  <2>3. Len(inbound[Other(e)]) <= 1
    BY <1>e, <1>1, <2>1 DEF Bounded, HandshakeInv
  <2>4. Len(inbound'[Other(e)]) <= SentAtMost("check")
    BY <2>1, <2>2, <2>3
  <2> DEFINE b == IF Other(e) \in conforming THEN SentAtMost(pc[Other(e)])
                                              ELSE foreign
             l == Len(inbound[e])
  <2>5. l <= b /\ b \in Int /\ l \in Nat
    BY <1>e, <1>t, <1>3 DEF Bounded, HandshakeInv, SentAtMost, Typed
  <2>6. l - 1 <= b
    <3> HIDE DEF l, b
    <3> QED BY <2>5
  <2>7. Len(inbound'[e]) <= b
    BY <1>1, <1>3, <2>6
  <2> QED BY <1>e, <1>1, <2>4, <2>7 DEF Bounded
<1>10. FollowScript'
  <2> SUFFICES ASSUME conforming = Ends, ~lost
               PROVE  OnScript(e)' /\ OnScript(Other(e))'
    BY <1>e DEF FollowScript
  <2>1. OnScript(e) /\ OnScript(Other(e))
    BY <1>e DEF HandshakeInv, FollowScript
  <2>2. /\ ReadBy(e, "check") = ReadBy(e, "accept") + 1
        /\ SentBy(e, "check") = SentBy(e, "accept") + 1
        /\ ReadBy(e, "accept") = 0 /\ SentBy(e, "accept") = 1
    BY DEF ReadBy, SentBy
  <2>3. /\ ReadBy(Other(e), pc[Other(e)]) \in Nat
        /\ SentBy(Other(e), pc[Other(e)]) \in Nat
    BY DEF ReadBy, SentBy
  <2>4. Part(inbound[e], Other(e), 0, SentBy(Other(e), pc[Other(e)]))
    BY <1>1, <2>1, <2>2 DEF OnScript
  <2>5. /\ Head(inbound[e]) = Script(Other(e), 1)
        /\ Part(Tail(inbound[e]), Other(e), 1, SentBy(Other(e), pc[Other(e)]))
    <3> DEFINE r == ReadBy(e, "accept")
               n == SentBy(Other(e), pc[Other(e)])
    <3>1. r \in Nat /\ n \in Nat /\ Part(inbound[e], Other(e), r, n)
      BY <2>2, <2>3, <2>4
    <3>2. r + 1 = 1
      BY <2>2
    <3> HIDE DEF r, n
    <3>3. Head(inbound[e]) = Script(Other(e), r + 1)
          /\ Part(Tail(inbound[e]), Other(e), r + 1, n)
      BY <1>2, <3>1, PartGet
    <3> QED BY <3>2, <3>3 DEF n
  <2>6. nonce = Other(e)
    BY <1>e, <2>5, FrameKinds DEF Script, nonce
  <2>7. f = Script(e, 2)
    BY <2>6 DEF Script, f
  <2>8. Part(inbound[Other(e)], e, ReadBy(Other(e), pc[Other(e)]), 1)
    BY <1>e, <1>1, <2>1, <2>2 DEF OnScript
  <2>9. Part(inbound'[Other(e)], e, ReadBy(Other(e), pc[Other(e)]), 2)
    BY <1>1, <1>2, <1>f, <2>3, <2>7, <2>8, PartPut
  <2>10. OnScript(e)'
    BY <1>e, <1>1, <2>1, <2>2, <2>5 DEF OnScript
  <2>11. OnScript(Other(e))'
    BY <1>e, <1>1, <2>1, <2>2, <2>9 DEF OnScript
  <2> QED BY <2>10, <2>11
<1> QED BY <1>5, <1>6, <1>7, <1>8, <1>9, <1>10
        DEF HandshakeInv

(* It accepts the answer it reads: the owner of the key has answered its   *)
(* nonce, and is the other end if that is of this make.                    *)
LEMMA AcceptsStep ==
  ASSUME HandshakeInv, UNCHANGED <<conforming, foreign, lost>>,
         NEW e \in conforming, Accepts(e)
  PROVE  HandshakeInv'
<1> DEFINE f == Head(inbound[e])
<1>e. /\ e \in Ends /\ Other(e) \in Ends /\ Other(e) # e /\ Other(Other(e)) = e
      /\ Ends = {e, Other(e)}
  BY TwoEnds DEF HandshakeInv, Typed
<1>t. Typed
  BY DEF HandshakeInv
<1>2. /\ inbound[e] \in Seq(Frames) /\ inbound[e] # <<>> /\ f \in Sound(e)
  BY <1>e, <1>t DEF Typed, Accepts
<1>3. Tail(inbound[e]) \in Seq(Frames)
      /\ Len(Tail(inbound[e])) = Len(inbound[e]) - 1 /\ Len(inbound[e]) \in Nat
  BY <1>2, HeadOrTail
<1>1. /\ pc[e] = "check" /\ pc'[e] = "ready" /\ pc'[Other(e)] = pc[Other(e)]
      /\ inbound'[Other(e)] = inbound[Other(e)]
      /\ inbound'[e] = Tail(inbound[e])
      /\ peerKey'[e] = f.key /\ peerKey'[Other(e)] = peerKey[Other(e)]
      /\ UNCHANGED <<fin, closed, answered>>
  BY <1>e, <1>t DEF Accepts, Goto, Consumed, Typed
<1>4. ToSet(inbound[e]) = ToSet(inbound'[e]) \cup {f}
  BY <1>1, <1>2, ToSetTail
<1>k. /\ f.key \in Keys /\ Answer(f.key, e) \in answered
      /\ Other(e) \in conforming => f.key = Other(e)
  <2>1. f.kind = "response" /\ f.key \in Keys /\ f = Answer(f.key, e)
        /\ f \in Answers(Keys, Ends)
    BY <1>e, <1>2, SoundAnswers
  <2> QED BY <1>e, <1>4, <2>1 DEF Signed, HandshakeInv
<1> HIDE DEF f
<1>5. Typed'
  <2>1. inbound' \in [Ends -> Seq(Frames)]
    BY <1>t, <1>3 DEF Accepts, Consumed, Typed
  <2>2. pc' \in [Ends -> {"open", "accept", "check", "ready", "register",
                          "registered", "failed", "panicked"}]
    BY <1>t DEF Accepts, Goto, Typed
  <2>3. peerKey' \in [Ends -> Keys \cup {"none"}]
    BY <1>t, <1>e, <1>k DEF Accepts, Typed, f
  <2> QED BY <1>t, <1>1, <2>1, <2>2, <2>3 DEF Typed
<1>6. Signed'
  BY <1>e, <1>1, <1>4 DEF Signed, HandshakeInv
<1>7. Checked'
  <2> SUFFICES ASSUME NEW t \in conforming,
                      pc'[t] \in {"ready", "register", "registered"}
               PROVE  Owned(t)'
    BY DEF Checked
  <2>1. CASE t = e
    BY <1>1, <1>k, <2>1 DEF Owned
  <2>2. CASE t = Other(e)
    BY <1>1, <2>2 DEF Checked, Owned, HandshakeInv
  <2> QED BY <1>e, <1>t, <2>1, <2>2 DEF Typed
<1>8. ReadySaid'
  <2>1. CASE e = "dialer"
    <3>1. Other(e) = "acceptor"
      BY <2>1, TwoEnds
    <3> QED BY <1>e, <1>1, <1>k, <2>1, <3>1 DEF ReadySaid
  <2>2. CASE e = "acceptor"
    <3>1. Other(e) = "dialer"
      BY <2>2, TwoEnds
    <3> QED BY <1>1, <1>4, <2>2, <3>1 DEF ReadySaid, HandshakeInv
  <2> QED BY <1>e, <2>1, <2>2 DEF Ends
<1>9. Bounded'
  <2>1. SentAtMost("check") = SentAtMost("ready")
    BY DEF SentAtMost
  <2> DEFINE b == IF Other(e) \in conforming THEN SentAtMost(pc[Other(e)])
                                              ELSE foreign
             l == Len(inbound[e])
  <2>5. l <= b /\ b \in Int /\ l \in Nat
    BY <1>e, <1>t, <1>3 DEF Bounded, HandshakeInv, SentAtMost, Typed
  <2>6. l - 1 <= b
    <3> HIDE DEF l, b
    <3> QED BY <2>5
  <2>7. Len(inbound'[e]) <= b
    BY <1>1, <1>3, <2>6
  <2>8. Len(inbound[Other(e)]) <= SentAtMost("ready")
    BY <1>e, <1>1, <2>1 DEF Bounded, HandshakeInv
  <2> QED BY <1>e, <1>1, <2>7, <2>8 DEF Bounded
<1>10. FollowScript'
  <2> SUFFICES ASSUME conforming = Ends, ~lost
               PROVE  OnScript(e)' /\ OnScript(Other(e))'
    BY <1>e DEF FollowScript
  <2>1. OnScript(e) /\ OnScript(Other(e))
    BY <1>e DEF HandshakeInv, FollowScript
  <2> DEFINE r == ReadBy(e, "check")
             n == SentBy(Other(e), pc[Other(e)])
  <2>2. /\ ReadBy(e, "ready") = r + 1 /\ r \in Nat /\ n \in Nat
        /\ SentBy(e, "ready") = SentBy(e, "check")
    BY DEF ReadBy, SentBy
  <2>3. Part(inbound[e], Other(e), r, n)
    BY <1>1, <2>1 DEF OnScript
  <2> HIDE DEF r, n
  <2>4. Part(Tail(inbound[e]), Other(e), r + 1, n)
    BY <1>2, <2>2, <2>3, PartGet
  <2>5. OnScript(e)'
    BY <1>e, <1>1, <2>1, <2>2, <2>4 DEF OnScript, n
  <2>6. OnScript(Other(e))'
    BY <1>e, <1>1, <2>1, <2>2 DEF OnScript
  <2> QED BY <2>5, <2>6
<1> QED BY <1>5, <1>6, <1>7, <1>8, <1>9, <1>10 DEF HandshakeInv

(* The acceptor reads Ready: the dialer has said it after it had the       *)
(* acceptor's key.                                                         *)
LEMMA HearsReadyStep ==
  ASSUME HandshakeInv, UNCHANGED <<conforming, foreign, lost>>,
         "acceptor" \in conforming, HearsReady
  PROVE  HandshakeInv'
<1> DEFINE a == "acceptor"
           d == "dialer"
<1>e. /\ a \in Ends /\ d \in Ends /\ Ends = {a, d} /\ a # d
      /\ Other(a) = d /\ Other(d) = a
  BY TwoEnds DEF Ends
<1>t. Typed
  BY DEF HandshakeInv
<1>2. /\ inbound[a] \in Seq(Frames) /\ inbound[a] # <<>>
      /\ Head(inbound[a]) = Ready
  BY <1>e, <1>t DEF Typed, HearsReady
<1>3. Tail(inbound[a]) \in Seq(Frames)
      /\ Len(Tail(inbound[a])) = Len(inbound[a]) - 1 /\ Len(inbound[a]) \in Nat
  BY <1>2, HeadOrTail
<1>1. /\ pc[a] = "ready" /\ pc'[a] = "register" /\ pc'[d] = pc[d]
      /\ inbound'[d] = inbound[d] /\ inbound'[a] = Tail(inbound[a])
      /\ UNCHANGED <<fin, closed, peerKey, answered>>
  BY <1>e, <1>t DEF HearsReady, Goto, Consumed, Typed
<1>4. ToSet(inbound[a]) = ToSet(inbound'[a]) \cup {Ready}
  BY <1>1, <1>2, ToSetTail
<1>5. Typed'
  <2>1. inbound' \in [Ends -> Seq(Frames)]
    BY <1>t, <1>3 DEF HearsReady, Consumed, Typed
  <2>2. pc' \in [Ends -> {"open", "accept", "check", "ready", "register",
                          "registered", "failed", "panicked"}]
    BY <1>t DEF HearsReady, Goto, Typed
  <2> QED BY <1>t, <1>1, <2>1, <2>2 DEF Typed
<1>6. Signed'
  BY <1>e, <1>1, <1>4 DEF Signed, HandshakeInv
<1>7. Checked'
  <2> SUFFICES ASSUME NEW t \in conforming,
                      pc'[t] \in {"ready", "register", "registered"}
               PROVE  Owned(t)
    BY <1>1 DEF Checked, Owned
  <2>1. t = a \/ t = d
    BY <1>e, <1>t DEF Typed
  <2>2. pc[t] \in {"ready", "register", "registered"}
    BY <1>1, <2>1
  <2> QED BY <2>2 DEF Checked, HandshakeInv
<1>8. ReadySaid'
  BY <1>1, <1>4 DEF ReadySaid, HandshakeInv
<1>9. Bounded'
  <2> DEFINE b == IF d \in conforming THEN SentAtMost(pc[d]) ELSE foreign
             l == Len(inbound[a])
             m == Len(inbound[d])
  <2>5. l <= b /\ b \in Int /\ l \in Nat
    BY <1>e, <1>t, <1>3 DEF Bounded, HandshakeInv, SentAtMost, Typed
  <2>6. l - 1 <= b
    <3> HIDE DEF l, b
    <3> QED BY <2>5
  <2>7. Len(inbound'[a]) <= b
    BY <1>1, <1>3, <2>6
  <2>8. SentAtMost("ready") = 2 /\ SentAtMost("register") = 3
    BY DEF SentAtMost
  <2>9. m <= 2 /\ m \in Nat
    BY <1>e, <1>t, <1>1, <2>8 DEF Bounded, HandshakeInv, Typed
  <2>10. m <= SentAtMost("register")
    <3> HIDE DEF m
    <3> QED BY <2>8, <2>9
  <2> QED BY <1>e, <1>1, <2>7, <2>10 DEF Bounded
<1>10. FollowScript'
  <2> SUFFICES ASSUME conforming = Ends, ~lost
               PROVE  OnScript(a)' /\ OnScript(d)'
    BY <1>e DEF FollowScript
  <2>1. OnScript(a) /\ OnScript(d)
    BY <1>e DEF HandshakeInv, FollowScript
  <2> DEFINE r == ReadBy(a, "ready")
             n == SentBy(d, pc[d])
  <2>2. /\ ReadBy(a, "register") = r + 1 /\ r \in Nat /\ n \in Nat
        /\ SentBy(a, "register") = SentBy(a, "ready")
    BY DEF ReadBy, SentBy
  <2>3. Part(inbound[a], d, r, n)
    BY <1>e, <1>1, <2>1 DEF OnScript
  <2> HIDE DEF r, n
  <2>4. Part(Tail(inbound[a]), d, r + 1, n)
    BY <1>2, <2>2, <2>3, PartGet
  <2>5. OnScript(a)'
    BY <1>e, <1>1, <2>1, <2>2, <2>4 DEF OnScript, n
  <2>6. OnScript(d)'
    BY <1>e, <1>1, <2>1, <2>2 DEF OnScript
  <2> QED BY <2>5, <2>6
<1> QED BY <1>5, <1>6, <1>7, <1>8, <1>9, <1>10 DEF HandshakeInv

(* It registers the connection and closes the stream behind it.            *)
LEMMA NewConnStep ==
  ASSUME HandshakeInv, UNCHANGED <<conforming, foreign, lost>>,
         NEW e \in conforming, NewConn(e)
  PROVE  HandshakeInv'
<1>e. /\ e \in Ends /\ Other(e) \in Ends /\ Other(e) # e /\ Other(Other(e)) = e
      /\ Ends = {e, Other(e)}
  BY TwoEnds DEF HandshakeInv, Typed
<1>t. Typed
  BY DEF HandshakeInv
<1>1. /\ pc[e] = "register" /\ pc'[e] = "registered"
      /\ pc'[Other(e)] = pc[Other(e)] /\ fin'[e] = fin[e]
      /\ UNCHANGED <<inbound, closed, peerKey, answered>>
  BY <1>e, <1>t DEF NewConn, Goto, DeferredClose, Typed
<1>2. Typed'
  <2>1. pc' \in [Ends -> {"open", "accept", "check", "ready", "register",
                          "registered", "failed", "panicked"}]
    BY <1>t DEF NewConn, Goto, Typed
  <2>2. fin' \in [Ends -> BOOLEAN]
    BY <1>t DEF NewConn, DeferredClose, Typed
  <2> QED BY <1>t, <1>1, <2>1, <2>2 DEF Typed
<1>3. Signed'
  BY <1>1 DEF Signed, HandshakeInv
<1>4. Checked'
  <2> SUFFICES ASSUME NEW t \in conforming,
                      pc'[t] \in {"ready", "register", "registered"}
               PROVE  Owned(t)
    BY <1>1 DEF Checked, Owned
  <2>1. t = e \/ t = Other(e)
    BY <1>e, <1>t DEF Typed
  <2>2. pc[t] \in {"ready", "register", "registered"}
    BY <1>1, <2>1
  <2> QED BY <2>2 DEF Checked, HandshakeInv
<1>5. ReadySaid'
  <2>1. "acceptor" = e \/ "acceptor" = Other(e)
    BY <1>e DEF Ends
  <2> QED BY <1>1, <2>1 DEF ReadySaid, HandshakeInv
<1>6. Bounded'
  <2>1. SentAtMost("registered") = SentAtMost("register")
    BY DEF SentAtMost
  <2> QED BY <1>e, <1>1, <2>1 DEF Bounded, HandshakeInv
<1>7. FollowScript'
  <2> SUFFICES ASSUME conforming = Ends, ~lost
               PROVE  OnScript(e)' /\ OnScript(Other(e))'
    BY <1>e DEF FollowScript
  <2>1. OnScript(e) /\ OnScript(Other(e))
    BY <1>e DEF HandshakeInv, FollowScript
  <2>2. /\ ReadBy(e, "registered") = ReadBy(e, "register")
        /\ SentBy(e, "registered") = SentBy(e, "register")
    BY DEF ReadBy, SentBy
  <2>3. OnScript(e)'
    BY <1>e, <1>1, <2>1, <2>2 DEF OnScript
  <2>4. OnScript(Other(e))'
    BY <1>e, <1>1, <2>1, <2>2 DEF OnScript
  <2> QED BY <2>3, <2>4
<1> QED BY <1>2, <1>3, <1>4, <1>5, <1>6, <1>7 DEF HandshakeInv

(* Two ends on the script have no reason to give up.                       *)
LEMMA NoReason ==
  ASSUME Typed, NEW e \in Ends, OnScript(e), OnScript(Other(e)), Reason(e),
         pc[e] \in {"open", "accept", "check", "ready"}
  PROVE  FALSE
<1> DEFINE r == ReadBy(e, pc[e])
           n == SentBy(Other(e), pc[Other(e)])
           q == inbound[e]
<1>1. q \in Seq(Frames) /\ r \in Nat /\ n \in Nat
  BY DEF Typed, ReadBy, SentBy
<1>2. Part(q, Other(e), r, n) /\ ~closed[e]
  BY DEF OnScript
<1>3. CASE /\ pc[e] # "open" /\ ~(e = "dialer" /\ pc[e] = "ready")
           /\ q = <<>> /\ fin[e]
  <2>1. pc[Other(e)] = "registered"
    BY <1>3 DEF OnScript
  <2>2. n > r
    BY <1>3, <2>1, TwoEnds DEF SentBy, ReadBy, Ends
  <2>3. Len(q) = 0 /\ Len(q) = n - r
    BY <1>2, <1>3 DEF Part
  <2> HIDE DEF n, r, q
  <2> QED BY <1>1, <2>2, <2>3
<1>4. CASE q # <<>>
  <2>1. Head(q) = Script(Other(e), r + 1)
    <3> HIDE DEF r, n, q
    <3> QED BY <1>1, <1>2, <1>4, PartGet
  <2>2. CASE pc[e] = "accept"
    <3>1. r + 1 = 1
      BY <2>2 DEF ReadBy
    <3>2. Head(q) = InitFrame(Other(e))
      BY <2>1, <3>1 DEF Script
    <3>3. Head(q).kind = "init"
      BY <3>2, TwoEnds, FrameKinds
    <3> QED BY <1>2, <1>4, <2>2, <3>3 DEF Reason
  <2>3. CASE pc[e] = "check"
    <3>1. r + 1 = 2
      BY <2>3 DEF ReadBy
    <3>2. Head(q) = Answer(Other(e), Other(Other(e)))
      BY <2>1, <3>1 DEF Script
    <3>3. Head(q) \in Sound(e)
      BY <3>2, TwoEnds, SoundAnswers
    <3> QED BY <1>2, <1>4, <2>3, <3>3 DEF Reason
  <2>4. CASE pc[e] = "ready"
    <3>1. r + 1 = 3
      BY <2>4 DEF ReadBy
    <3>2. Head(q) = Ready
      BY <2>1, <3>1 DEF Script
    <3> QED BY <1>2, <1>4, <2>4, <3>2 DEF Reason
  <2>5. CASE pc[e] = "open"
    BY <1>2, <1>4, <2>5 DEF Reason
  <2> QED BY <2>2, <2>3, <2>4, <2>5
<1> QED BY <1>2, <1>3, <1>4 DEF Reason

(* An end gives up, which two ends of this make do only when the network   *)
(* has failed.                                                             *)
LEMMA GivesUpStep ==
  ASSUME HandshakeInv, UNCHANGED <<conforming, foreign, lost>>,
         NEW e \in conforming, GivesUp(e)
  PROVE  HandshakeInv'
<1>e. /\ e \in Ends /\ Other(e) \in Ends /\ Other(e) # e /\ Other(Other(e)) = e
      /\ Ends = {e, Other(e)}
  BY TwoEnds DEF HandshakeInv, Typed
<1>t. Typed
  BY DEF HandshakeInv
<1>1. /\ pc'[e] \in {"failed", "panicked"} /\ pc'[Other(e)] = pc[Other(e)]
      /\ UNCHANGED <<inbound, peerKey, answered>>
  BY <1>e, <1>t DEF GivesUp, Goto, Typed
<1>2. Typed'
  <2>1. pc' \in [Ends -> {"open", "accept", "check", "ready", "register",
                          "registered", "failed", "panicked"}]
    BY <1>t DEF GivesUp, Goto, Typed
  <2>2. fin' \in [Ends -> BOOLEAN]
    BY <1>t DEF GivesUp, DeferredClose, Typed
  <2>3. closed' \in [Ends -> BOOLEAN]
    BY <1>t DEF GivesUp, Typed
  <2> QED BY <1>t, <1>1, <2>1, <2>2, <2>3 DEF Typed
<1>3. Signed'
  BY <1>1 DEF Signed, HandshakeInv
<1>4. Checked'
  <2> SUFFICES ASSUME NEW t \in conforming,
                      pc'[t] \in {"ready", "register", "registered"}
               PROVE  Owned(t)
    BY <1>1 DEF Checked, Owned
  <2>1. t = e \/ t = Other(e)
    BY <1>e, <1>t DEF Typed
  <2>2. pc[t] \in {"ready", "register", "registered"}
    BY <1>1, <2>1
  <2> QED BY <2>2 DEF Checked, HandshakeInv
<1>5. ReadySaid'
  <2>1. "acceptor" = e \/ "acceptor" = Other(e)
    BY <1>e DEF Ends
  <2> QED BY <1>1, <2>1 DEF ReadySaid, HandshakeInv
<1>6. Bounded'
  <2> DEFINE m == Len(inbound[Other(e)])
  <2>1. SentAtMost(pc'[e]) = 3 /\ SentAtMost(pc[e]) \in 0..3
    BY <1>1 DEF SentAtMost
  <2>2. m <= SentAtMost(pc[e]) /\ m \in Nat
    BY <1>e, <1>t DEF Bounded, HandshakeInv, Typed
  <2>3. m <= SentAtMost(pc'[e])
    <3> HIDE DEF m
    <3> QED BY <2>1, <2>2
  <2> QED BY <1>e, <1>1, <2>3 DEF Bounded, HandshakeInv
<1>7. FollowScript'
  <2> SUFFICES ASSUME conforming = Ends, ~lost PROVE FALSE
    BY DEF FollowScript
  <2>1. OnScript(e) /\ OnScript(Other(e))
    BY <1>e DEF HandshakeInv, FollowScript
  <2>2. Reason(e) /\ pc[e] \in {"open", "accept", "check", "ready"}
    BY DEF GivesUp
  <2> QED BY <1>e, <1>t, <2>1, <2>2, NoReason
<1> QED BY <1>2, <1>3, <1>4, <1>5, <1>6, <1>7 DEF HandshakeInv

(* An end of another make writes a frame: a signature of another's on it   *)
(* has been made.                                                          *)
LEMMA ForeignStep ==
  ASSUME HandshakeInv, NEW e \in Ends, Foreign(e)
  PROVE  HandshakeInv'
<1>e. /\ Other(e) \in Ends /\ Other(e) # e /\ Other(Other(e)) = e
      /\ Ends = {e, Other(e)} /\ e \notin conforming
  BY TwoEnds DEF Foreign
<1>t. Typed
  BY DEF HandshakeInv
<1>p. PICK f \in Frames :
        /\ f.kind = "response" =>
             f.over = "nothing" \/ f.key = e \/ f \in answered
        /\ inbound' = Written(e, f)
        /\ answered' = answered \cup ({f} \cap Answers({e}, Ends))
  BY DEF Foreign
<1>s. f.kind = "response" /\ f \in Answers(Keys, Ends) => f \in answered'
  <2>1. f \in Answers(Keys, Ends) => f.over # "nothing"
    BY DEF Answers, Ends
  <2>2. f \in Answers(Keys, Ends) /\ f.key = e => f \in Answers({e}, Ends)
    BY DEF Answers
  <2> QED BY <1>p, <2>1, <2>2
<1>a. answered \subseteq answered' /\ answered' \in SUBSET Answers(Keys, Ends)
  <2>1. Answers({e}, Ends) \subseteq Answers(Keys, Ends)
    BY DEF Answers, Keys
  <2> QED BY <1>t, <1>p, <2>1 DEF Typed
<1>1. /\ inbound'[Other(e)] = Append(inbound[Other(e)], f)
      /\ inbound'[e] = inbound[e]
      /\ foreign < MaxForeign /\ foreign' = foreign + 1
      /\ UNCHANGED <<conforming, pc, fin, closed, peerKey, lost>>
  BY <1>e, <1>t, <1>p DEF Foreign, Written, Typed
<1>2. inbound[Other(e)] \in Seq(Frames) /\ foreign \in Nat /\ MaxForeign \in Nat
  BY <1>e, <1>t, HandshakeAssumption DEF Typed
<1>3. ToSet(inbound'[Other(e)]) = ToSet(inbound[Other(e)]) \cup {f}
  BY <1>1, <1>2, ToSetAppend
<1>4. Typed'
  <2>1. inbound' \in [Ends -> Seq(Frames)]
    BY <1>e, <1>t, <1>p DEF Written, Typed
  <2>2. foreign' \in 0..MaxForeign
    BY <1>1, <1>2
  <2> QED BY <1>t, <1>a, <1>1, <2>1, <2>2 DEF Typed
<1>5. Signed'
  BY <1>e, <1>a, <1>s, <1>1, <1>3 DEF Signed, HandshakeInv
<1>6. Checked'
  BY <1>a, <1>1 DEF Checked, Owned, HandshakeInv
<1>7. ReadySaid'
  BY <1>e, <1>1 DEF ReadySaid
<1>8. Bounded'
  <2> DEFINE l == Len(inbound[e])
             m == Len(inbound[Other(e)])
  <2>1. m \in Nat /\ m <= foreign /\ l \in Nat
        /\ (Other(e) \notin conforming => l <= foreign)
        /\ (Other(e) \in conforming => l <= SentAtMost(pc[Other(e)]))
    BY <1>e, <1>t DEF Bounded, HandshakeInv, Typed
  <2>2. Len(inbound'[Other(e)]) = m + 1
    BY <1>1, <1>2, AppendProperties
  <2>3. /\ m + 1 <= foreign + 1
        /\ Other(e) \notin conforming => l <= foreign + 1
    <3> HIDE DEF l, m
    <3> QED BY <1>2, <2>1
  <2> QED BY <1>e, <1>1, <2>1, <2>2, <2>3 DEF Bounded
<1>9. FollowScript'
  BY <1>e, <1>1 DEF FollowScript
<1> QED BY <1>4, <1>5, <1>6, <1>7, <1>8, <1>9 DEF HandshakeInv

(* A step that only closes a stream or a connection, or has an answer      *)
(* made.                                                                   *)
LEMMA ClosingStep ==
  ASSUME HandshakeInv, UNCHANGED <<conforming, pc, inbound, peerKey, foreign>>,
         answered \subseteq answered', answered' \in SUBSET Answers(Keys, Ends),
         fin' \in [Ends -> BOOLEAN], closed' \in [Ends -> BOOLEAN],
         lost' \in BOOLEAN, FollowScript'
  PROVE  HandshakeInv'
<1>1. Typed'
  BY DEF Typed, HandshakeInv
<1>2. Signed' /\ Checked' /\ ReadySaid'
  BY DEF Signed, Checked, Owned, ReadySaid, HandshakeInv
<1>3. Bounded'
  BY DEF Bounded, HandshakeInv
<1> QED BY <1>1, <1>2, <1>3 DEF HandshakeInv

(* HandshakeInv holds at first: nothing is written, no key is known.       *)
LEMMA HandshakeInitInv == HandshakeInit => HandshakeInv
<1> SUFFICES ASSUME HandshakeInit PROVE HandshakeInv
  OBVIOUS
<1>1. ASSUME NEW e \in Ends
      PROVE  /\ inbound[e] = <<>> /\ ToSet(inbound[e]) = {} /\ Len(inbound[e]) = 0
             /\ pc[e] = "open" /\ pc[Other(e)] = "open" /\ ~closed[e] /\ ~fin[e]
  BY <1>1, TwoEnds, ToSetType DEF HandshakeInit
<1>2. Typed
  <2>1. inbound \in [Ends -> Seq(Frames)] /\ foreign \in 0..MaxForeign
    BY HandshakeAssumption DEF HandshakeInit
  <2>2. /\ fin \in [Ends -> BOOLEAN] /\ closed \in [Ends -> BOOLEAN]
        /\ lost \in BOOLEAN /\ conforming \in SUBSET Ends
        /\ peerKey \in [Ends -> Keys \cup {"none"}]
        /\ answered \in SUBSET Answers(Keys, Ends)
    BY DEF HandshakeInit
  <2>3. pc \in [Ends -> {"open", "accept", "check", "ready", "register",
                         "registered", "failed", "panicked"}]
    BY DEF HandshakeInit
  <2> QED BY <2>1, <2>2, <2>3 DEF Typed
<1>3. Signed /\ Checked
  BY <1>1, <1>2 DEF Signed, Checked, Typed
<1>4. ReadySaid
  BY <1>1 DEF ReadySaid, Ends
<1>5. Bounded
  BY <1>1 DEF Bounded, SentAtMost, HandshakeInit
<1>6. FollowScript
  <2>1. ASSUME NEW e \in Ends PROVE Part(inbound[e], Other(e), 0, 0)
    BY <1>1 DEF Part
  <2>2. ASSUME NEW e \in Ends
        PROVE  ReadBy(e, "open") = 0 /\ SentBy(Other(e), "open") = 0
    BY DEF ReadBy, SentBy
  <2> QED BY <1>1, <2>1, <2>2 DEF FollowScript, OnScript
<1> QED BY <1>2, <1>3, <1>4, <1>5, <1>6 DEF HandshakeInv

(* Every step keeps it.                                                    *)
LEMMA HandshakeInvStep ==
  HandshakeInv /\ [HandshakeNext]_handshakeVars => HandshakeInv'
<1> SUFFICES ASSUME HandshakeInv, [HandshakeNext]_handshakeVars
             PROVE  HandshakeInv'
  OBVIOUS
<1>t. Typed
  BY DEF HandshakeInv
<1>1. ASSUME NEW e \in Ends, Step(e) PROVE HandshakeInv'
  <2>1. e \in conforming /\ UNCHANGED <<conforming, foreign, lost>>
    BY <1>1 DEF Step
  <2>2. CASE Says(e, InitFrame(e), "open", "accept")
    <3>1. InitFrame(e) \in Frames
      BY FrameKinds
    <3> QED BY <2>1, <2>2, <3>1, SaysStep
  <2>3. CASE Replies(e)
    BY <2>1, <2>3, RepliesStep
  <2>4. CASE Accepts(e)
    BY <2>1, <2>4, AcceptsStep
  <2>5. CASE e = "dialer" /\ Says(e, Ready, "ready", "register")
    <3>1. Ready \in Frames
      BY FrameKinds
    <3> QED BY <2>1, <2>5, <3>1, SaysStep
  <2>6. CASE e = "acceptor" /\ HearsReady
    BY <2>1, <2>6, HearsReadyStep
  <2>7. CASE NewConn(e)
    BY <2>1, <2>7, NewConnStep
  <2>8. CASE GivesUp(e)
    BY <2>1, <2>8, GivesUpStep
  <2> QED BY <1>t, <1>1, <2>2, <2>3, <2>4, <2>5, <2>6, <2>7, <2>8, StepKinds
<1>2. ASSUME NEW e \in Ends, Foreign(e) PROVE HandshakeInv'
  BY <1>2, ForeignStep
<1>3. ASSUME NEW e \in Ends, ForeignFin(e) PROVE HandshakeInv'
  <2>1. fin' \in [Ends -> BOOLEAN]
    BY <1>t, <1>3 DEF ForeignFin, DeferredClose, Typed
  <2>2. FollowScript'
    BY <1>3 DEF ForeignFin, FollowScript
  <2> QED BY <1>t, <1>3, <2>1, <2>2, ClosingStep DEF ForeignFin, Typed
<1>4. ASSUME NEW e \in Ends, ConnLost(e) PROVE HandshakeInv'
  <2>1. closed' \in [Ends -> BOOLEAN] /\ lost' \in BOOLEAN
    BY <1>t, <1>4 DEF ConnLost, Closes, Typed
  <2>2. FollowScript'
    BY <1>4 DEF ConnLost, FollowScript
  <2> QED BY <1>t, <1>4, <2>1, <2>2, ClosingStep DEF ConnLost, Closes, Typed
<1>5. ASSUME NEW e \in Ends, LearnClosed(e) PROVE HandshakeInv'
  <2>1. closed' \in [Ends -> BOOLEAN]
    BY <1>t, <1>5 DEF LearnClosed, Closes, Typed
  <2>2. FollowScript'
    <3> SUFFICES ASSUME conforming = Ends, ~lost PROVE FALSE
      BY <1>5 DEF FollowScript, LearnClosed, Closes
    <3>1. OnScript(Other(e))
      BY TwoEnds DEF FollowScript, HandshakeInv
    <3> QED BY <1>5, <3>1 DEF OnScript, LearnClosed
  <2> QED BY <1>t, <1>5, <2>1, <2>2, ClosingStep DEF LearnClosed, Closes, Typed
<1>6. ASSUME NEW e \in Ends, ThirdAnswers(e) PROVE HandshakeInv'
  <2>1. Answer("third", Other(e)) \in Answers(Keys, Ends)
    BY TwoEnds DEF Answer, Answers, Keys
  <2>2. answered \subseteq answered' /\ answered' \in SUBSET Answers(Keys, Ends)
    BY <1>t, <1>6, <2>1 DEF ThirdAnswers, Typed
  <2>3. FollowScript'
    BY <1>6 DEF ThirdAnswers, FollowScript
  <2> QED BY <1>t, <1>6, <2>2, <2>3, ClosingStep DEF ThirdAnswers, Typed
<1>7. CASE UNCHANGED handshakeVars
  <2>1. UNCHANGED <<conforming, pc, inbound, fin, closed, peerKey, answered,
                    foreign, lost>>
    BY <1>7 DEF handshakeVars
  <2>2. FollowScript'
    BY <2>1 DEF FollowScript, OnScript, Part, HandshakeInv
  <2> QED BY <1>t, <2>1, <2>2, ClosingStep DEF Typed
<1> QED BY <1>1, <1>2, <1>3, <1>4, <1>5, <1>6, <1>7 DEF HandshakeNext

(* HandshakeInv is an invariant of the handshake.                          *)
THEOREM HandshakeInvariance == HandshakeSpec => []HandshakeInv
BY HandshakeInitInv, HandshakeInvStep, PTL DEF HandshakeSpec

(* The handshake is type correct: an end of this make writes three things  *)
(* at most, so that neither has more than that to read from the other.     *)
THEOREM HandshakeTypeCorrect == HandshakeSpec => []HandshakeTypeOK
<1>1. HandshakeInv => HandshakeTypeOK
  BY TypeFromBounds DEF HandshakeInv
<1> QED BY <1>1, HandshakeInvariance, PTL

(* Whatever the other end sends or passes on, and whatever the network     *)
(* does, an end that registers a connection holds a key whose owner has    *)
(* answered the nonce of this handshake; between two ends of this make it  *)
(* is the other end's key: checkHandshakeResponse lets no other through.   *)
THEOREM PeerIsAuthentic == HandshakeSpec => []AuthenticPeer
<1>1. HandshakeInv => AuthenticPeer
  BY DEF HandshakeInv, Checked, Owned, AuthenticPeer
<1> QED BY <1>1, HandshakeInvariance, PTL

(* The acceptor registers a connection only after the dialer has           *)
(* authenticated it: Ready is written after checkHandshakeResponse.        *)
THEOREM ReadyMeansAuthenticated == HandshakeSpec => []ReadyAgreement
<1>1. HandshakeInv => ReadyAgreement
  BY DEF HandshakeInv, ReadySaid, ReadyAgreement, Ends
<1> QED BY <1>1, HandshakeInvariance, PTL

(* Two ends of this make never misread each other: neither fails unless    *)
(* the network does.                                                       *)
THEOREM ConformingEndsSucceed == HandshakeSpec => []NoSpuriousFailure
<1>1. HandshakeInv => NoSpuriousFailure
  BY DEF HandshakeInv, FollowScript, OnScript, NoSpuriousFailure
<1> QED BY <1>1, HandshakeInvariance, PTL

-----------------------------------------------------------------------------
(* The handshake: nobody waits for ever, as far as a state can tell.       *)

(* The call e is in has what it needs to return: it writes, or there is    *)
(* something to read.  The acceptor's first is AcceptStream.               *)
GoesOn(e) ==
  \/ pc[e] \in {"open", "ready"} /\ e = "dialer"
  \/ pc[e] \in {"open", "accept", "check", "ready"} /\ inbound[e] # <<>>
  \/ pc[e] = "register"

(* Two ends of this make are never both in a read that finds nothing.      *)
NoMutualWait ==
  conforming = Ends /\ ~lost =>
    (\A e \in Ends : pc[e] = "registered") \/ (\E e \in Ends : GoesOn(e))

(* However the two ends interleave, while the network holds one of them    *)
(* can go on until both have registered the connection: sendHandshake      *)
(* comes before acceptHandshake at both ends, and each answer before the   *)
(* read that waits for the other's.                                        *)
THEOREM NeverBothWaiting == HandshakeSpec => []NoMutualWait
<1>1. HandshakeInv => NoMutualWait
  <2> SUFFICES ASSUME HandshakeInv, conforming = Ends, ~lost,
                      \A e \in Ends : ~GoesOn(e)
               PROVE  \A e \in Ends : pc[e] = "registered"
    BY DEF NoMutualWait
  <2> DEFINE a == "acceptor"
             d == "dialer"
  <2>e. a \in Ends /\ d \in Ends /\ Ends = {a, d} /\ Other(a) = d /\ Other(d) = a
    BY TwoEnds DEF Ends
  <2>1. OnScript(a) /\ OnScript(d)
    BY <2>e DEF HandshakeInv, FollowScript
  <2>2. /\ Len(inbound[a]) = SentBy(d, pc[d]) - ReadBy(a, pc[a])
        /\ Len(inbound[d]) = SentBy(a, pc[a]) - ReadBy(d, pc[d])
    BY <2>1, <2>e DEF OnScript, Part
  <2>3. inbound[a] = <<>> => SentBy(d, pc[d]) - ReadBy(a, pc[a]) = 0
    BY <2>2
  <2>4. inbound[d] = <<>> => SentBy(a, pc[a]) - ReadBy(d, pc[d]) = 0
    BY <2>2
  <2>5. /\ pc[d] \in {"accept", "check", "registered"}
        /\ pc[a] \in {"open", "accept", "check", "ready", "registered"}
    BY <2>e, <2>1 DEF GoesOn, OnScript, HandshakeInv, Typed
  <2>6. /\ pc[d] # "registered" => inbound[d] = <<>>
        /\ pc[a] # "registered" => inbound[a] = <<>>
    BY <2>e, <2>5 DEF GoesOn
  <2>7. pc[d] = "registered"
    <3>1. ASSUME pc[d] = "accept" PROVE FALSE
      <4>1. SentBy(a, pc[a]) = 0 /\ SentBy(d, pc[d]) = 1
        BY <2>4, <2>6, <3>1 DEF SentBy, ReadBy
      <4>2. pc[a] = "open"
        BY <2>5, <4>1 DEF SentBy
      <4> QED BY <2>3, <2>6, <4>1, <4>2 DEF ReadBy
    <3>2. ASSUME pc[d] = "check" PROVE FALSE
      <4>1. SentBy(a, pc[a]) = 1 /\ SentBy(d, pc[d]) = 2
        BY <2>4, <2>6, <3>2 DEF SentBy, ReadBy
      <4>2. pc[a] = "accept"
        BY <2>5, <4>1 DEF SentBy
      <4> QED BY <2>3, <2>6, <4>1, <4>2 DEF ReadBy
    <3> QED BY <2>5, <3>1, <3>2
  <2>8. pc[a] = "registered"
    BY <2>3, <2>5, <2>6, <2>7 DEF SentBy, ReadBy
  <2> QED BY <2>e, <2>7, <2>8
<1> QED BY <1>1, HandshakeInvariance, PTL

(* The places an end passes, in order.                                     *)
Place(where) == CASE where = "open"       -> 0
                  [] where = "accept"     -> 1
                  [] where = "check"      -> 2
                  [] where = "ready"      -> 3
                  [] where = "register"   -> 4
                  [] where = "registered" -> 5
                  [] OTHER                -> 6

(* An end that moves moves forward.                                        *)
Onward ==
  \A e \in Ends : pc'[e] = pc[e] \/ Place(pc'[e]) > Place(pc[e])

(* No end takes a step of the handshake twice, whatever it is sent: it     *)
(* returns after six at most, and a stream of frames cannot hold it.       *)
THEOREM AlwaysOnward == HandshakeSpec => [][Onward]_handshakeVars
<1>1. HandshakeInv /\ [HandshakeNext]_handshakeVars => [Onward]_handshakeVars
  <2> SUFFICES ASSUME HandshakeInv, HandshakeNext PROVE Onward
    OBVIOUS
  <2>t. Typed /\ pc = [e \in Ends |-> pc[e]]
    BY DEF HandshakeInv, Typed
  <2>1. ASSUME NEW e \in Ends, NEW to, Goto(e, to), Place(to) > Place(pc[e])
        PROVE  Onward
    BY <2>t, <2>1 DEF Goto, Onward
  <2>2. CASE UNCHANGED pc
    BY <2>2 DEF Onward
  <2>3. ASSUME NEW e \in Ends, Step(e) PROVE Onward
    <3>1. \/ \E f : Says(e, f, "open", "accept") \/ Says(e, f, "ready", "register")
          \/ Replies(e) \/ Accepts(e)
          \/ e = "acceptor" /\ HearsReady
          \/ NewConn(e)
          \/ GivesUp(e)
      BY <2>t, <2>3, StepKinds
    <3>2. \E to : Goto(e, to) /\ Place(to) > Place(pc[e])
      <4>1. CASE GivesUp(e)
        <5>1. PICK to \in {"failed", "panicked"} : Goto(e, to)
          BY <4>1 DEF GivesUp
        <5>2. Place(to) = 6 /\ Place(pc[e]) \in 0..5
          BY <4>1 DEF Place, GivesUp
        <5> QED BY <5>1, <5>2
      <4>2. CASE \E f : Says(e, f, "open", "accept") \/ Says(e, f, "ready", "register")
        BY <4>2 DEF Says, Place
      <4>3. CASE Replies(e)
        BY <4>3 DEF Replies, Place
      <4>4. CASE Accepts(e)
        BY <4>4 DEF Accepts, Place
      <4>5. CASE e = "acceptor" /\ HearsReady
        BY <4>5 DEF HearsReady, Place
      <4>6. CASE NewConn(e)
        BY <4>6 DEF NewConn, Place
      <4> QED BY <3>1, <4>1, <4>2, <4>3, <4>4, <4>5, <4>6
    <3> QED BY <2>1, <3>2
  <2>4. (\E e \in Ends : Step(e)) \/ UNCHANGED pc
    BY DEF HandshakeNext, Foreign, ForeignFin, ThirdAnswers, ConnLost, LearnClosed,
           Closes
  <2> QED BY <2>2, <2>3, <2>4
<1> QED BY <1>1, HandshakeInvariance, PTL DEF HandshakeSpec

-----------------------------------------------------------------------------
(* Streams: numbered frames.                                               *)

(* q holds the frames after the k-th, in order and without a gap.          *)
Run(q, k) == \A i \in 1 .. Len(q) : q[i] = k + i

(* The next frame may be put at the end of a run.                          *)
LEMMA RunPut ==
  ASSUME NEW S \in SUBSET Nat, NEW q \in Seq(S), NEW k \in Nat, Run(q, k),
         NEW x \in S, x = k + Len(q) + 1
  PROVE  /\ Append(q, x) \in Seq(S) /\ Len(Append(q, x)) = Len(q) + 1
         /\ Run(Append(q, x), k)
<1>1. /\ Append(q, x) \in Seq(S) /\ Len(Append(q, x)) = Len(q) + 1
      /\ \A i \in 1 .. Len(q) : Append(q, x)[i] = q[i]
      /\ Append(q, x)[Len(q) + 1] = x
      /\ Len(q) \in Nat
  BY AppendProperties
<1>2. ASSUME NEW i \in 1 .. Len(Append(q, x))
      PROVE  Append(q, x)[i] = k + i
  <2>1. CASE i \in 1 .. Len(q)
    BY <1>1, <2>1 DEF Run
  <2>2. CASE i = Len(q) + 1
    BY <1>1, <2>2
  <2> QED BY <1>1, <2>1, <2>2
<1> QED BY <1>1, <1>2 DEF Run

(* A run starts with the next frame, and the rest is a run after that one. *)
LEMMA RunGet ==
  ASSUME NEW S \in SUBSET Nat, NEW q \in Seq(S), NEW k \in Nat, Run(q, k),
         q # <<>>
  PROVE  /\ Head(q) = k + 1 /\ Head(q) \in S
         /\ Tail(q) \in Seq(S) /\ Len(Tail(q)) = Len(q) - 1 /\ Len(q) >= 1
         /\ Run(Tail(q), k + 1)
<1>1. /\ Head(q) \in S /\ Tail(q) \in Seq(S)
      /\ Head(q) = q[1] /\ Len(Tail(q)) = Len(q) - 1 /\ Len(q) \in Nat \ {0}
      /\ \A i \in 1 .. Len(Tail(q)) : Tail(q)[i] = q[i + 1]
  BY HeadOrTail
<1>2. Head(q) = k + 1
  BY <1>1 DEF Run
<1>3. ASSUME NEW i \in 1 .. Len(Tail(q)) PROVE Tail(q)[i] = (k + 1) + i
  BY <1>1 DEF Run
<1> QED BY <1>1, <1>2, <1>3 DEF Run

(* A run, and one that goes on where it ends, are one run.                 *)
LEMMA RunConcat ==
  ASSUME NEW S \in SUBSET Nat, NEW p \in Seq(S), NEW q \in Seq(S),
         Run(p, 0), Run(q, Len(p))
  PROVE  Len(p \o q) = Len(p) + Len(q) /\ Run(p \o q, 0)
<1>1. /\ p \o q \in Seq(S) /\ Len(p \o q) = Len(p) + Len(q)
      /\ Len(p) \in Nat /\ Len(q) \in Nat
      /\ \A i \in 1 .. Len(p) + Len(q) :
           (p \o q)[i] = IF i <= Len(p) THEN p[i] ELSE q[i - Len(p)]
  BY ConcatProperties
<1>2. ASSUME NEW i \in 1 .. Len(p \o q) PROVE (p \o q)[i] = 0 + i
  <2>1. CASE i <= Len(p)
    BY <1>1, <2>1 DEF Run
  <2>2. CASE i > Len(p)
    <3>1. i - Len(p) \in 1 .. Len(q)
      BY <1>1, <2>2
    <3>2. q[i - Len(p)] = Len(p) + (i - Len(p))
      BY <3>1 DEF Run
    <3> QED BY <1>1, <2>2, <3>1, <3>2
  <2> QED BY <1>1, <2>1, <2>2
<1> QED BY <1>1, <1>2 DEF Run

-----------------------------------------------------------------------------
(* Streams: the inductive invariant.                                       *)

(* No goroutine runs before NewStream.                                     *)
Unborn ==
  \A s \in Streams :
    wrap[s] = "none" => reader[s] = "none" /\ writer[s] = "none"

(* What the user has received, c, and what waits for it, q, are one run,   *)
(* of all g frames read but the one the reader has in hand or has dropped. *)
InOK(c, q, g, where) ==
  /\ Run(c, 0) /\ Run(q, Len(c))
  /\ Len(c) + Len(q) = g \/ Len(c) + Len(q) + 1 = g
  /\ where \in {"none", "read"} => Len(c) + Len(q) = g
  /\ where = "offer" => Len(c) + Len(q) + 1 = g

InOrder(s) == InOK(consumed[s], incoming[s], got[s], reader[s])

(* Outgoing, q, is the run after the frames writeLoop has taken, of which  *)
(* it has the last, h, in its write.  All of them are in w, written, while *)
(* no write can have failed.                                               *)
OutOK(q, w, h, taken, where, flowing) ==
  /\ taken \in Nat
  /\ Run(q, taken) /\ Run(w, 0)
  /\ where = "write" => h = taken /\ taken >= 1
  /\ flowing => Len(w) = IF where = "write" THEN taken - 1 ELSE taken

(* How many frames writeLoop has taken: those put in Outgoing, which the   *)
(* call of Send under way has not, but for those still there.              *)
TakenOut(s) ==
  (IF sender[s] = "blocked" THEN sends[s] - 1 ELSE sends[s]) - Len(outgoing[s])

(* A write fails only after Close has begun or the other node has refused  *)
(* the rest, and then no later one succeeds.                               *)
Flowing(s) == once[s] = "open" /\ sendSide[s] # "stopped"

OutOrder(s) ==
  OutOK(outgoing[s], written[s], inHand[s], TakenOut(s), writer[s], Flowing(s))

(* Only a stream whose Close was over was listed too late.                 *)
EarlyClosed == \A s \in Streams : early[s] => once[s] = "closed"

Orders == \A s \in Streams : InOrder(s) /\ OutOrder(s)

StreamsInv ==
  StreamTypes /\ Unborn /\ Orders /\ EarlyClosed /\ MapMatches

(* What the invariant says of the values of one stream, for arithmetic.    *)
LEMMA StreamValues ==
  ASSUME StreamTypes, NEW s \in Streams
  PROVE  /\ arrived[s] \in 0 .. MaxFrames /\ got[s] \in 0 .. MaxFrames
         /\ incoming[s] \in Seq(1 .. MaxFrames) /\ Len(incoming[s]) \in Nat
         /\ consumed[s] \in Seq(1 .. MaxFrames) /\ Len(consumed[s]) \in Nat
         /\ sends[s] \in 0 .. MaxSends
         /\ outgoing[s] \in Seq(1 .. MaxSends) /\ Len(outgoing[s]) \in Nat
         /\ written[s] \in Seq(1 .. MaxSends) /\ Len(written[s]) \in Nat
         /\ inHand[s] \in 0 .. MaxSends
         /\ Len(incoming[s]) <= ChanCap /\ Len(outgoing[s]) <= ChanCap
         /\ (1 .. MaxFrames) \in SUBSET Nat /\ (1 .. MaxSends) \in SUBSET Nat
<1>1. /\ arrived[s] \in 0 .. MaxFrames /\ got[s] \in 0 .. MaxFrames
      /\ incoming[s] \in Seq(1 .. MaxFrames)
      /\ consumed[s] \in Seq(1 .. MaxFrames)
      /\ sends[s] \in 0 .. MaxSends
      /\ outgoing[s] \in Seq(1 .. MaxSends)
      /\ written[s] \in Seq(1 .. MaxSends)
      /\ inHand[s] \in 0 .. MaxSends
      /\ Len(incoming[s]) <= ChanCap /\ Len(outgoing[s]) <= ChanCap
  BY DEF StreamTypes
<1>2. (1 .. MaxFrames) \in SUBSET Nat /\ (1 .. MaxSends) \in SUBSET Nat
  BY StreamsAssumption
<1> QED BY <1>1, <1>2, LenProperties

(* Every step keeps the types and the capacity of the channels.            *)
LEMMA StreamsTypeStep ==
  ASSUME StreamTypes, Orders, [StreamsNext]_streamsVars
  PROVE  StreamTypes'
<1> USE StreamsAssumption DEF mapVars, inVars, outVars, netVars
<1>1. ASSUME NEW s \in Streams, NewStream(s) PROVE StreamTypes'
  BY <1>1 DEF NewStream, StreamTypes
<1>2. ASSUME NEW s \in Streams, ListStream(s) PROVE StreamTypes'
  BY <1>2 DEF ListStream, StreamTypes
<1>3. ASSUME NEW s \in Streams, EnterClose(s) PROVE StreamTypes'
  BY <1>3 DEF EnterClose, StreamTypes
<1>4. ASSUME NEW s \in Streams, LeaveClose(s) PROVE StreamTypes'
  BY <1>4 DEF LeaveClose, StreamTypes
<1>5. ASSUME NEW s \in Streams, CloseReturns(s) PROVE StreamTypes'
  <2>1. /\ reader' \in [Streams -> {"none", "read", "offer", "close", "done"}]
        /\ writer' \in [Streams -> {"none", "select", "write", "close", "done"}]
        /\ user' \in [Streams -> {"using", "close", "done"}]
    BY <1>5 DEF CloseReturns, StreamTypes
  <2> QED BY <1>5, <2>1 DEF CloseReturns, StreamTypes
<1>6. ASSUME NEW s \in Streams, ReadFrame(s) PROVE StreamTypes'
  <2>1. got[s] + 1 \in 0 .. MaxFrames
    BY <1>6, StreamValues DEF ReadFrame
  <2> QED BY <1>6, <2>1 DEF ReadFrame, ReaderGoes, StreamTypes
<1>7. ASSUME NEW s \in Streams, ReadErr(s) PROVE StreamTypes'
  BY <1>7 DEF ReadErr, ReaderGoes, StreamTypes
<1>8. ASSUME NEW s \in Streams, Offer(s) PROVE StreamTypes'
  <2>1. PICK r \in {"read", "close"} : ReaderGoes(s, r)
    BY <1>8 DEF Offer
  <2>0. reader' \in [Streams -> {"none", "read", "offer", "close", "done"}]
    BY <2>1 DEF ReaderGoes, StreamTypes
  <2>2. /\ incoming' \in [Streams -> Seq(1 .. MaxFrames)]
        /\ \A t \in Streams : Len(incoming'[t]) <= ChanCap
    <3>1. CASE UNCHANGED incoming
      BY <3>1 DEF StreamTypes
    <3>2. CASE /\ Len(incoming[s]) < ChanCap
               /\ incoming' = [incoming EXCEPT ![s] = Append(@, got[s])]
      <4>0. Len(consumed[s]) + Len(incoming[s]) + 1 = got[s]
        BY <1>8 DEF Offer, Orders, InOrder, InOK
      <4>1. got[s] \in 1 .. MaxFrames
        <5>1. /\ Len(consumed[s]) \in Nat /\ Len(incoming[s]) \in Nat
              /\ got[s] \in 0 .. MaxFrames
          BY StreamValues
        <5> DEFINE c == Len(consumed[s])
                   n == Len(incoming[s])
                   g == got[s]
        <5>2. c \in Nat /\ n \in Nat /\ g \in 0 .. MaxFrames /\ c + n + 1 = g
          BY <4>0, <5>1
        <5> HIDE DEF c, n, g
        <5>3. g \in 1 .. MaxFrames
          BY <5>2
        <5> QED BY <5>3 DEF g
      <4>2. /\ Append(incoming[s], got[s]) \in Seq(1 .. MaxFrames)
            /\ Len(Append(incoming[s], got[s])) <= ChanCap
        BY <3>2, <4>1, StreamValues
      <4> QED BY <3>2, <4>2 DEF StreamTypes
    <3> QED BY <1>8, <3>1, <3>2 DEF Offer
  <2>3. UNCHANGED <<mapVars, once, peerDone, writer, user, outVars, netVars,
                    arrived, got, consumed>>
    BY <1>8, <2>1 DEF Offer, ReaderGoes
  <2> QED BY <2>0, <2>2, <2>3 DEF StreamTypes
<1>9. ASSUME NEW s \in Streams, TakeOutgoing(s) PROVE StreamTypes'
  <2>1. PICK r \in {"write", "close"} : WriterGoes(s, r)
    BY <1>9 DEF TakeOutgoing
  <2>0. writer' \in [Streams -> {"none", "select", "write", "close", "done"}]
    BY <2>1 DEF WriterGoes, StreamTypes
  <2>2. /\ outgoing' \in [Streams -> Seq(1 .. MaxSends)]
        /\ inHand' \in [Streams -> 0 .. MaxSends]
        /\ \A t \in Streams : Len(outgoing'[t]) <= ChanCap
    <3>1. CASE UNCHANGED <<inHand, outgoing>>
      BY <3>1 DEF StreamTypes
    <3>2. CASE /\ outgoing[s] # <<>>
               /\ inHand' = [inHand EXCEPT ![s] = Head(outgoing[s])]
               /\ outgoing' = [outgoing EXCEPT ![s] = Tail(@)]
      <4>0. /\ outgoing[s] \in Seq(1 .. MaxSends)
            /\ Len(outgoing[s]) <= ChanCap
        BY StreamValues
      <4>1. /\ Head(outgoing[s]) \in 1 .. MaxSends
            /\ Tail(outgoing[s]) \in Seq(1 .. MaxSends)
            /\ Len(Tail(outgoing[s])) <= ChanCap
        <5>1. /\ Head(outgoing[s]) \in 1 .. MaxSends
              /\ Tail(outgoing[s]) \in Seq(1 .. MaxSends)
              /\ Len(Tail(outgoing[s])) = Len(outgoing[s]) - 1
              /\ Len(outgoing[s]) \in Nat
          BY <3>2, <4>0, HeadOrTail
        <5> QED BY <4>0, <5>1
      <4>2. Head(outgoing[s]) \in 0 .. MaxSends
        BY <4>1
      <4> QED BY <3>2, <4>1, <4>2 DEF StreamTypes
    <3> QED BY <1>9, <3>1, <3>2 DEF TakeOutgoing
  <2>3. UNCHANGED <<mapVars, once, peerDone, reader, user, inVars, netVars,
                    sender, sends, written>>
    BY <1>9, <2>1 DEF TakeOutgoing, WriterGoes
  <2> QED BY <2>0, <2>2, <2>3 DEF StreamTypes
<1>10. ASSUME NEW s \in Streams, WriteFrame(s) PROVE StreamTypes'
  <2>1. inHand[s] \in 1 .. MaxSends
    BY <1>10, StreamValues DEF WriteFrame, Orders, OutOrder, OutOK
  <2>2. Append(written[s], inHand[s]) \in Seq(1 .. MaxSends)
    BY <2>1, StreamValues
  <2>3. /\ written' \in [Streams -> Seq(1 .. MaxSends)]
        /\ inHand' \in [Streams -> 0 .. MaxSends]
    BY <1>10, <2>2 DEF WriteFrame, StreamTypes
  <2> QED BY <1>10, <2>3 DEF WriteFrame, WriterGoes, StreamTypes
<1>11. ASSUME NEW s \in Streams, WriteErr(s) PROVE StreamTypes'
  <2>1. /\ inHand' = [inHand EXCEPT ![s] = 0]
        /\ writer' = [writer EXCEPT ![s] = "select"]
        /\ UNCHANGED <<mapVars, once, peerDone, reader, user, inVars, netVars,
                       sender, sends, outgoing, written>>
    BY <1>11 DEF WriteErr, LoseWrite, WriterGoes
  <2>2. /\ inHand' \in [Streams -> 0 .. MaxSends]
        /\ writer' \in [Streams -> {"none", "select", "write", "close", "done"}]
    BY <2>1 DEF StreamTypes
  <2> QED BY <2>1, <2>2 DEF StreamTypes
<1>12. ASSUME NEW s \in Streams, Send(s) PROVE StreamTypes'
  <2>1. sends[s] + 1 \in 0 .. MaxSends
    BY <1>12, StreamValues DEF Send
  <2> QED BY <1>12, <2>1 DEF Send, StreamTypes
<1>13. ASSUME NEW s \in Streams, SendReturns(s) PROVE StreamTypes'
  <2>1. sends[s] \in 1 .. MaxSends
    BY <1>13, StreamValues DEF SendReturns, Orders, OutOrder, OutOK, TakenOut
  <2>2. /\ Append(outgoing[s], sends[s]) \in Seq(1 .. MaxSends)
        /\ Len(Append(outgoing[s], sends[s])) <= ChanCap
    BY <1>13, <2>1, StreamValues DEF SendReturns
  <2>3. /\ outgoing' \in [Streams -> Seq(1 .. MaxSends)]
        /\ \A t \in Streams : Len(outgoing'[t]) <= ChanCap
    BY <1>13, <2>2 DEF SendReturns, StreamTypes
  <2> QED BY <1>13, <2>3 DEF SendReturns, StreamTypes
<1>14. ASSUME NEW s \in Streams, Consume(s) PROVE StreamTypes'
  <2>1. /\ Head(incoming[s]) \in 1 .. MaxFrames
        /\ Tail(incoming[s]) \in Seq(1 .. MaxFrames)
        /\ Len(Tail(incoming[s])) <= ChanCap
    <3>1. incoming[s] \in Seq(1 .. MaxFrames) /\ Len(incoming[s]) <= ChanCap
      BY StreamValues
    <3>2. incoming[s] # <<>>
      BY <1>14 DEF Consume
    <3>3. /\ Head(incoming[s]) \in 1 .. MaxFrames
          /\ Tail(incoming[s]) \in Seq(1 .. MaxFrames)
          /\ Len(Tail(incoming[s])) = Len(incoming[s]) - 1
          /\ Len(incoming[s]) \in Nat
      BY <3>1, <3>2, HeadOrTail
    <3> QED BY <3>1, <3>3
  <2>2. Append(consumed[s], Head(incoming[s])) \in Seq(1 .. MaxFrames)
    BY <2>1, StreamValues
  <2>3. /\ incoming' \in [Streams -> Seq(1 .. MaxFrames)]
        /\ consumed' \in [Streams -> Seq(1 .. MaxFrames)]
        /\ \A t \in Streams : Len(incoming'[t]) <= ChanCap
    BY <1>14, <2>1, <2>2 DEF Consume, StreamTypes
  <2> QED BY <1>14, <2>3 DEF Consume, StreamTypes
<1>15. ASSUME NEW s \in Streams, UserClose(s) PROVE StreamTypes'
  BY <1>15 DEF UserClose, StreamTypes
<1>16. ASSUME NEW s \in Streams, FrameArrives(s) PROVE StreamTypes'
  <2>1. arrived[s] + 1 \in 0 .. MaxFrames
    BY <1>16, StreamValues DEF FrameArrives
  <2> QED BY <1>16, <2>1 DEF FrameArrives, StreamTypes
<1>17. ASSUME NEW s \in Streams, RemoteActs(s) PROVE StreamTypes'
  <2>1. /\ recvSide' \in [Streams -> {"open", "fin", "reset"}]
        /\ sendSide' \in [Streams -> {"flowing", "stalled", "stopped"}]
    <3>1. ASSUME NEW r \in {"fin", "reset"},
                 recvSide' = [recvSide EXCEPT ![s] = r], UNCHANGED sendSide
          PROVE  <2>1
      BY <3>1 DEF StreamTypes
    <3>2. ASSUME NEW r \in {"flowing", "stalled", "stopped"},
                 sendSide' = [sendSide EXCEPT ![s] = r], UNCHANGED recvSide
          PROVE  <2>1
      BY <3>2 DEF StreamTypes
    <3> QED BY <1>17, <3>1, <3>2 DEF RemoteActs
  <2> QED BY <1>17, <2>1 DEF RemoteActs, StreamTypes
<1>18. CASE PeerClose
  BY <1>18 DEF PeerClose, StreamTypes
<1>19. CASE UNCHANGED streamsVars
  BY <1>19 DEF streamsVars, StreamTypes
<1>20. ASSUME NEW s \in Streams, ReadEmptyFrame(s) PROVE StreamTypes'
  BY <1>20 DEF ReadEmptyFrame, StreamTypes
<1> QED
  BY <1>1, <1>2, <1>3, <1>4, <1>5, <1>6, <1>7, <1>8, <1>9, <1>10, <1>11,
     <1>12, <1>13, <1>14, <1>15, <1>16, <1>17, <1>18, <1>19, <1>20
     DEF StreamsNext, Alive, CloseStep, ReaderStep, WriterStep

-----------------------------------------------------------------------------
(* Streams: the reader's side.                                             *)

(* readFrame returns the next frame.                                       *)
LEMMA InReads ==
  ASSUME NEW c, NEW q, NEW g \in Nat, Len(c) \in Nat, Len(q) \in Nat,
         InOK(c, q, g, "read")
  PROVE  InOK(c, q, g + 1, "offer")
<1> DEFINE m == Len(c)
           n == Len(q)
<1>1. m \in Nat /\ n \in Nat /\ m + n = g
  BY DEF InOK
<1> HIDE DEF m, n
<1>2. m + n + 1 = g + 1
  BY <1>1
<1>3. Len(c) + Len(q) + 1 = g + 1
  BY <1>2 DEF m, n
<1> QED BY <1>3 DEF InOK

(* The frame in hand goes to Incoming.                                     *)
LEMMA InOffers ==
  ASSUME NEW S \in SUBSET Nat, NEW c \in Seq(S), NEW q \in Seq(S), NEW g \in S,
         InOK(c, q, g, "offer")
  PROVE  InOK(c, Append(q, g), g, "read")
<1> DEFINE m == Len(c)
           n == Len(q)
           k == Len(Append(q, g))
<1>1. m \in Nat /\ n \in Nat /\ m + n + 1 = g
  BY LenProperties DEF InOK
<1>2. Run(Append(q, g), Len(c)) /\ k = n + 1
  <2>1. g = Len(c) + Len(q) + 1 /\ Run(q, Len(c)) /\ Len(c) \in Nat
    BY <1>1 DEF InOK
  <2> QED BY <2>1, RunPut
<1> HIDE DEF m, n, k
<1>3. m + k = g
  BY <1>1, <1>2
<1>4. Len(c) + Len(Append(q, g)) = g
  BY <1>3 DEF m, k
<1> QED BY <1>2, <1>4 DEF InOK

(* The user receives a frame.                                              *)
LEMMA InConsumes ==
  ASSUME NEW S \in SUBSET Nat, NEW c \in Seq(S), NEW q \in Seq(S), NEW g \in Nat,
         NEW where, InOK(c, q, g, where), q # <<>>
  PROVE  InOK(Append(c, Head(q)), Tail(q), g, where)
<1> DEFINE m == Len(c)
           n == Len(q)
           m2 == Len(Append(c, Head(q)))
           n2 == Len(Tail(q))
<1>1. m \in Nat /\ n \in Nat /\ Run(c, 0) /\ Run(q, m)
  BY LenProperties DEF InOK
<1>2. Head(q) = m + 1 /\ Head(q) \in S /\ n2 = n - 1 /\ Run(Tail(q), m + 1)
  BY <1>1, RunGet
<1>3. m2 = m + 1 /\ Run(Append(c, Head(q)), 0)
  <2>1. Head(q) = 0 + Len(c) + 1 /\ 0 \in Nat
    BY <1>1, <1>2
  <2> QED BY <1>1, <1>2, <2>1, RunPut
<1> HIDE DEF m, n, m2, n2
<1>4. m2 + n2 = m + n
  BY <1>1, <1>2, <1>3
<1>5. Len(Append(c, Head(q))) + Len(Tail(q)) = Len(c) + Len(q)
  BY <1>4 DEF m, n, m2, n2
<1>6. Run(Tail(q), Len(Append(c, Head(q))))
  BY <1>2, <1>3 DEF m2
<1> QED BY <1>3, <1>5, <1>6 DEF InOK

(* A reader that stops or starts to read changes nothing.                  *)
LEMMA InMoves ==
  ASSUME NEW c, NEW q, NEW g, NEW from, InOK(c, q, g, from)
  PROVE  /\ InOK(c, q, g, "close") /\ InOK(c, q, g, "done")
         /\ from = "none" => InOK(c, q, g, "read")
BY DEF InOK

(* Every step keeps the incoming frames in order.                          *)
LEMMA InStep ==
  ASSUME StreamTypes, Unborn, Orders, [StreamsNext]_streamsVars
  PROVE  \A s \in Streams : InOrder(s)'
<1> USE DEF mapVars, inVars, outVars, netVars
<1>t. /\ reader \in [Streams -> {"none", "read", "offer", "close", "done"}]
      /\ got \in [Streams -> 0 .. MaxFrames]
      /\ incoming \in [Streams -> Seq(1 .. MaxFrames)]
      /\ consumed \in [Streams -> Seq(1 .. MaxFrames)]
  BY DEF StreamTypes
<1>o. \A s \in Streams : InOK(consumed[s], incoming[s], got[s], reader[s])
  BY DEF Orders, InOrder
<1>0. ASSUME NEW s \in Streams,
             \A t \in Streams \ {s} :
               /\ consumed'[t] = consumed[t] /\ incoming'[t] = incoming[t]
               /\ got'[t] = got[t] /\ reader'[t] = reader[t],
             InOK(consumed'[s], incoming'[s], got'[s], reader'[s])
      PROVE  \A t \in Streams : InOrder(t)'
  <2> SUFFICES ASSUME NEW t \in Streams
               PROVE  InOK(consumed'[t], incoming'[t], got'[t], reader'[t])
    BY DEF InOrder
  <2>1. CASE t = s
    BY <1>0, <2>1
  <2>2. CASE t # s
    BY <1>0, <1>o, <2>2
  <2> QED BY <2>1, <2>2
<1>1. ASSUME NEW s \in Streams, NewStream(s) PROVE \A t \in Streams : InOrder(t)'
  <2>1. /\ reader[s] = "none" /\ reader' = [reader EXCEPT ![s] = "read"]
        /\ UNCHANGED <<consumed, incoming, got>>
    BY <1>1 DEF NewStream, Unborn
  <2>2. InOK(consumed[s], incoming[s], got[s], "read")
    BY <1>o, <2>1, InMoves
  <2> QED BY <1>0, <1>t, <2>1, <2>2
<1>2. ASSUME NEW s \in Streams, CloseReturns(s)
      PROVE  \A t \in Streams : InOrder(t)'
  <2>1. /\ \/ reader'[s] = reader[s] \/ reader'[s] = "done"
        /\ \A t \in Streams \ {s} : reader'[t] = reader[t]
        /\ UNCHANGED <<consumed, incoming, got>>
    BY <1>2, <1>t DEF CloseReturns
  <2>2. InOK(consumed[s], incoming[s], got[s], reader'[s])
    BY <1>o, <2>1, InMoves
  <2> QED BY <1>0, <2>1, <2>2
<1>3. ASSUME NEW s \in Streams, ReadFrame(s) PROVE \A t \in Streams : InOrder(t)'
  <2>1. /\ reader[s] = "read" /\ reader' = [reader EXCEPT ![s] = "offer"]
        /\ got' = [got EXCEPT ![s] = @ + 1]
        /\ UNCHANGED <<consumed, incoming>>
    BY <1>3 DEF ReadFrame, ReaderGoes
  <2>2. got[s] \in Nat /\ Len(consumed[s]) \in Nat /\ Len(incoming[s]) \in Nat
    BY StreamValues
  <2>3. InOK(consumed[s], incoming[s], got[s] + 1, "offer")
    BY <1>o, <2>1, <2>2, InReads
  <2> QED BY <1>0, <1>t, <2>1, <2>3
<1>4. ASSUME NEW s \in Streams, ReadErr(s) PROVE \A t \in Streams : InOrder(t)'
  <2>1. /\ reader' = [reader EXCEPT ![s] = "close"]
        /\ UNCHANGED <<consumed, incoming, got>>
    BY <1>4 DEF ReadErr, ReaderGoes
  <2>2. InOK(consumed[s], incoming[s], got[s], "close")
    BY <1>o, InMoves
  <2> QED BY <1>0, <1>t, <2>1, <2>2
<1>5. ASSUME NEW s \in Streams, Offer(s) PROVE \A t \in Streams : InOrder(t)'
  <2>0. reader[s] = "offer" /\ UNCHANGED <<consumed, got>>
    BY <1>5 DEF Offer
  <2>1. CASE /\ incoming' = [incoming EXCEPT ![s] = Append(@, got[s])]
             /\ reader' = [reader EXCEPT ![s] = "read"]
    <3>1. got[s] \in 1 .. MaxFrames
      <4>1. InOK(consumed[s], incoming[s], got[s], "offer")
        BY <1>o, <2>0
      <4> DEFINE c == Len(consumed[s])
                 n == Len(incoming[s])
                 g == got[s]
      <4>2. c \in Nat /\ n \in Nat /\ g \in 0 .. MaxFrames /\ c + n + 1 = g
        BY <4>1, StreamValues DEF InOK
      <4> HIDE DEF c, n, g
      <4>3. g \in 1 .. MaxFrames
        BY <4>2
      <4> QED BY <4>3 DEF g
    <3>2. /\ consumed[s] \in Seq(1 .. MaxFrames)
          /\ incoming[s] \in Seq(1 .. MaxFrames)
          /\ (1 .. MaxFrames) \in SUBSET Nat
      BY StreamValues
    <3>3. InOK(consumed[s], Append(incoming[s], got[s]), got[s], "read")
      BY <1>o, <2>0, <3>1, <3>2, InOffers
    <3> QED BY <1>0, <1>t, <2>0, <2>1, <3>3
  <2>2. CASE reader' = [reader EXCEPT ![s] = "close"] /\ UNCHANGED incoming
    <3>1. InOK(consumed[s], incoming[s], got[s], "close")
      BY <1>o, InMoves
    <3> QED BY <1>0, <1>t, <2>0, <2>2, <3>1
  <2> QED BY <1>5, <2>1, <2>2 DEF Offer, ReaderGoes
<1>6. ASSUME NEW s \in Streams, Consume(s) PROVE \A t \in Streams : InOrder(t)'
  <2>1. /\ incoming[s] # <<>>
        /\ consumed' = [consumed EXCEPT ![s] = Append(@, Head(incoming[s]))]
        /\ incoming' = [incoming EXCEPT ![s] = Tail(@)]
        /\ UNCHANGED <<got, reader>>
    BY <1>6 DEF Consume
  <2>2. /\ consumed[s] \in Seq(1 .. MaxFrames)
        /\ incoming[s] \in Seq(1 .. MaxFrames)
        /\ (1 .. MaxFrames) \in SUBSET Nat /\ got[s] \in Nat
    BY StreamValues
  <2>3. InOK(Append(consumed[s], Head(incoming[s])), Tail(incoming[s]), got[s],
             reader[s])
    BY <1>o, <2>1, <2>2, InConsumes
  <2> QED BY <1>0, <1>t, <2>1, <2>3
<1>7. CASE UNCHANGED <<consumed, incoming, got, reader>>
  BY <1>o, <1>7 DEF InOrder
<1> QED
  BY <1>1, <1>2, <1>3, <1>4, <1>5, <1>6, <1>7
     DEF StreamsNext, Alive, CloseStep, ReaderStep, WriterStep, ListStream, EnterClose,
         LeaveClose, TakeOutgoing, WriteFrame, WriteErr, LoseWrite, WriterGoes,
         Send, SendReturns, UserClose, PeerClose, FrameArrives, RemoteActs,
         ReadEmptyFrame, streamsVars

-----------------------------------------------------------------------------
(* Streams: the writer's side.                                             *)

(* writeLoop takes the next frame.                                         *)
LEMMA OutTakes ==
  ASSUME NEW S \in SUBSET Nat, NEW q \in Seq(S), NEW w, NEW h, NEW taken,
         NEW flowing \in BOOLEAN, OutOK(q, w, h, taken, "select", flowing),
         q # <<>>
  PROVE  OutOK(Tail(q), w, Head(q), taken + 1, "write", flowing)
<1>1. taken \in Nat /\ Run(q, taken) /\ Run(w, 0) /\ (flowing => Len(w) = taken)
  BY DEF OutOK
<1>2. Head(q) = taken + 1 /\ Run(Tail(q), taken + 1)
  BY <1>1, RunGet
<1>3. taken + 1 \in Nat /\ taken + 1 >= 1 /\ (taken + 1) - 1 = taken
  BY <1>1
<1> QED BY <1>1, <1>2, <1>3 DEF OutOK

(* It writes the frame it has in hand, the one after those written.        *)
LEMMA OutWrites ==
  ASSUME NEW S \in SUBSET Nat, NEW q, NEW w \in Seq(S), NEW h \in S, NEW taken,
         OutOK(q, w, h, taken, "write", TRUE)
  PROVE  OutOK(q, Append(w, h), 0, taken, "select", TRUE)
<1> DEFINE n == Len(w)
<1>1. /\ taken \in Nat /\ Run(q, taken) /\ Run(w, 0) /\ h = taken
      /\ n = taken - 1 /\ n \in Nat
  BY LenProperties DEF OutOK
<1> HIDE DEF n
<1>2. h = 0 + n + 1 /\ n + 1 = taken
  BY <1>1
<1>3. Len(Append(w, h)) = n + 1 /\ Run(Append(w, h), 0)
  BY <1>1, <1>2, RunPut DEF n
<1> QED BY <1>1, <1>2, <1>3 DEF OutOK

(* A write that fails loses its frame; no later one succeeds.              *)
LEMMA OutLoses ==
  ASSUME NEW q, NEW w, NEW h, NEW taken, OutOK(q, w, h, taken, "write", FALSE)
  PROVE  OutOK(q, w, 0, taken, "select", FALSE)
BY DEF OutOK

(* Send puts its frame in Outgoing.                                        *)
LEMMA OutPuts ==
  ASSUME NEW S \in SUBSET Nat, NEW q \in Seq(S), NEW w, NEW h, NEW taken,
         NEW where, NEW flowing \in BOOLEAN,
         OutOK(q, w, h, taken, where, flowing),
         NEW x \in S, x = taken + Len(q) + 1
  PROVE  OutOK(Append(q, x), w, h, taken, where, flowing)
<1>1. taken \in Nat /\ Run(q, taken)
  BY DEF OutOK
<1>2. Run(Append(q, x), taken)
  BY <1>1, RunPut
<1> QED BY <1>2 DEF OutOK

(* A writer that is not writing may stop or start, and nothing has to flow *)
(* for the frames to be in order.                                          *)
LEMMA OutMoves ==
  ASSUME NEW q, NEW w, NEW h, NEW taken, NEW from, NEW flowing \in BOOLEAN,
         OutOK(q, w, h, taken, from, flowing)
  PROVE  /\ from # "write" => \A to \in {"select", "close", "done"} :
                                OutOK(q, w, h, taken, to, flowing)
         /\ OutOK(q, w, h, taken, from, FALSE)
BY DEF OutOK

(* Every step keeps the outgoing frames in order.                          *)
LEMMA OutStep ==
  ASSUME StreamTypes, Unborn, Orders, [StreamsNext]_streamsVars
  PROVE  \A s \in Streams : OutOrder(s)'
<1> USE DEF mapVars, inVars, outVars, netVars
<1>t. /\ writer \in [Streams -> {"none", "select", "write", "close", "done"}]
      /\ once \in [Streams -> {"open", "closing", "closed"}]
      /\ sender \in [Streams -> {"idle", "blocked"}]
      /\ sends \in [Streams -> 0 .. MaxSends]
      /\ outgoing \in [Streams -> Seq(1 .. MaxSends)]
      /\ inHand \in [Streams -> 0 .. MaxSends]
      /\ written \in [Streams -> Seq(1 .. MaxSends)]
      /\ sendSide \in [Streams -> {"flowing", "stalled", "stopped"}]
  BY DEF StreamTypes
<1>o. \A s \in Streams :
        /\ Flowing(s) \in BOOLEAN
        /\ OutOK(outgoing[s], written[s], inHand[s], TakenOut(s), writer[s],
                 Flowing(s))
  BY DEF Orders, OutOrder, Flowing
<1>0. ASSUME NEW s \in Streams,
             \A t \in Streams \ {s} :
               /\ outgoing'[t] = outgoing[t] /\ written'[t] = written[t]
               /\ inHand'[t] = inHand[t] /\ writer'[t] = writer[t]
               /\ sender'[t] = sender[t] /\ sends'[t] = sends[t]
               /\ once'[t] = once[t] /\ sendSide'[t] = sendSide[t],
             OutOK(outgoing'[s], written'[s], inHand'[s], TakenOut(s)',
                   writer'[s], Flowing(s)')
      PROVE  \A t \in Streams : OutOrder(t)'
  <2> SUFFICES ASSUME NEW t \in Streams PROVE OutOrder(t)'
    OBVIOUS
  <2>1. CASE t = s
    BY <1>0, <2>1 DEF OutOrder
  <2>2. CASE t # s
    <3>1. TakenOut(t)' = TakenOut(t)
      BY <1>0, <2>2 DEF TakenOut
    <3>2. Flowing(t)' = Flowing(t)
      BY <1>0, <2>2 DEF Flowing
    <3> QED BY <1>0, <1>o, <2>2, <3>1, <3>2 DEF OutOrder
  <2> QED BY <2>1, <2>2
<1>1. ASSUME NEW s \in Streams, NewStream(s) PROVE \A t \in Streams : OutOrder(t)'
  <2>1. /\ writer[s] = "none" /\ writer' = [writer EXCEPT ![s] = "select"]
        /\ UNCHANGED <<outVars, once, sendSide>>
    BY <1>1 DEF NewStream, Unborn
  <2>2. OutOK(outgoing[s], written[s], inHand[s], TakenOut(s), "select", Flowing(s))
    BY <1>o, <2>1, OutMoves
  <2>3. TakenOut(s)' = TakenOut(s) /\ Flowing(s)' = Flowing(s)
    BY <2>1 DEF TakenOut, Flowing
  <2> QED BY <1>0, <1>t, <2>1, <2>2, <2>3
<1>2. ASSUME NEW s \in Streams, once[s] # "closed",
             \E o \in {"closing", "closed"} : once' = [once EXCEPT ![s] = o],
             UNCHANGED <<writer, outVars, sendSide>>
      PROVE  \A t \in Streams : OutOrder(t)'
  <2>1. Flowing(s)' = FALSE /\ \A t \in Streams \ {s} : once'[t] = once[t]
    BY <1>2, <1>t DEF Flowing
  <2>2. TakenOut(s)' = TakenOut(s)
    BY <1>2 DEF TakenOut
  <2>3. OutOK(outgoing[s], written[s], inHand[s], TakenOut(s), writer[s], FALSE)
    BY <1>o, OutMoves
  <2> QED BY <1>0, <1>2, <2>1, <2>2, <2>3
<1>3. ASSUME NEW s \in Streams, CloseReturns(s)
      PROVE  \A t \in Streams : OutOrder(t)'
  <2>1. /\ \/ writer'[s] = writer[s]
           \/ writer[s] = "close" /\ writer'[s] = "done"
        /\ \A t \in Streams \ {s} : writer'[t] = writer[t]
        /\ UNCHANGED <<outVars, once, sendSide>>
    BY <1>3, <1>t DEF CloseReturns
  <2>2. OutOK(outgoing[s], written[s], inHand[s], TakenOut(s), writer'[s], Flowing(s))
    <3>1. CASE writer'[s] = writer[s]
      BY <1>o, <3>1
    <3>2. CASE writer[s] = "close" /\ writer'[s] = "done"
      BY <1>o, <3>2, OutMoves
    <3> QED BY <2>1, <3>1, <3>2
  <2>3. TakenOut(s)' = TakenOut(s) /\ Flowing(s)' = Flowing(s)
    BY <2>1 DEF TakenOut, Flowing
  <2> QED BY <1>0, <2>1, <2>2, <2>3
<1>4. ASSUME NEW s \in Streams, TakeOutgoing(s)
      PROVE  \A t \in Streams : OutOrder(t)'
  <2>0. /\ writer[s] = "select"
        /\ UNCHANGED <<sender, sends, written, once, sendSide>>
    BY <1>4 DEF TakeOutgoing, WriterGoes
  <2>f. Flowing(s)' = Flowing(s)
    BY <2>0 DEF Flowing
  <2>1. CASE /\ outgoing[s] # <<>>
             /\ inHand' = [inHand EXCEPT ![s] = Head(outgoing[s])]
             /\ outgoing' = [outgoing EXCEPT ![s] = Tail(@)]
             /\ writer' = [writer EXCEPT ![s] = "write"]
    <3>1. outgoing[s] \in Seq(1 .. MaxSends) /\ (1 .. MaxSends) \in SUBSET Nat
      BY StreamValues
    <3>2. OutOK(Tail(outgoing[s]), written[s], Head(outgoing[s]), TakenOut(s) + 1,
                "write", Flowing(s))
      BY <1>o, <2>0, <2>1, <3>1, OutTakes
    <3>3. TakenOut(s)' = TakenOut(s) + 1
      <4> DEFINE n == Len(outgoing[s])
                 m == Len(outgoing'[s])
                 d == IF sender[s] = "blocked" THEN sends[s] - 1 ELSE sends[s]
      <4>1. outgoing'[s] = Tail(outgoing[s])
        BY <1>t, <2>1
      <4>2. m = n - 1 /\ n \in Nat
        BY <2>1, <3>1, <4>1, HeadOrTail
      <4>3. d \in Int
        BY StreamValues
      <4>4. TakenOut(s) = d - n /\ TakenOut(s)' = d - m
        BY <2>0 DEF TakenOut
      <4> HIDE DEF n, m, d
      <4>5. d - m = (d - n) + 1
        BY <4>2, <4>3
      <4> QED BY <4>4, <4>5
    <3> QED BY <1>0, <1>t, <2>0, <2>f, <2>1, <3>2, <3>3
  <2>2. CASE writer' = [writer EXCEPT ![s] = "close"] /\ UNCHANGED <<inHand, outgoing>>
    <3>1. OutOK(outgoing[s], written[s], inHand[s], TakenOut(s), "close", Flowing(s))
      BY <1>o, <2>0, OutMoves
    <3>2. TakenOut(s)' = TakenOut(s)
      BY <2>0, <2>2 DEF TakenOut
    <3> QED BY <1>0, <1>t, <2>0, <2>f, <2>2, <3>1, <3>2
  <2> QED BY <1>4, <2>1, <2>2 DEF TakeOutgoing, WriterGoes
<1>5. ASSUME NEW s \in Streams, WriteFrame(s)
      PROVE  \A t \in Streams : OutOrder(t)'
  <2>1. /\ writer[s] = "write" /\ once[s] = "open" /\ sendSide[s] = "flowing"
        /\ written' = [written EXCEPT ![s] = Append(@, inHand[s])]
        /\ inHand' = [inHand EXCEPT ![s] = 0]
        /\ writer' = [writer EXCEPT ![s] = "select"]
        /\ UNCHANGED <<sender, sends, outgoing, once, sendSide>>
    BY <1>5 DEF WriteFrame, WriterGoes
  <2>2. Flowing(s) = TRUE /\ Flowing(s)' = TRUE /\ TakenOut(s)' = TakenOut(s)
    BY <2>1 DEF Flowing, TakenOut
  <2>3. OutOK(outgoing[s], written[s], inHand[s], TakenOut(s), "write", TRUE)
    BY <1>o, <2>1, <2>2
  <2>4. inHand[s] \in 1 .. MaxSends
    BY <2>3, StreamValues DEF OutOK
  <2>5. written[s] \in Seq(1 .. MaxSends) /\ (1 .. MaxSends) \in SUBSET Nat
    BY StreamValues
  <2>6. OutOK(outgoing[s], Append(written[s], inHand[s]), 0, TakenOut(s),
              "select", TRUE)
    BY <2>3, <2>4, <2>5, OutWrites
  <2> QED BY <1>0, <1>t, <2>1, <2>2, <2>6
<1>6. ASSUME NEW s \in Streams, WriteErr(s) PROVE \A t \in Streams : OutOrder(t)'
  <2>1. /\ writer[s] = "write" /\ (once[s] # "open" \/ sendSide[s] = "stopped")
        /\ inHand' = [inHand EXCEPT ![s] = 0]
        /\ writer' = [writer EXCEPT ![s] = "select"]
        /\ UNCHANGED <<sender, sends, outgoing, written, once, sendSide>>
    BY <1>6 DEF WriteErr, LoseWrite, WriterGoes
  <2>2. Flowing(s) = FALSE /\ Flowing(s)' = FALSE /\ TakenOut(s)' = TakenOut(s)
    BY <2>1 DEF Flowing, TakenOut
  <2>3. OutOK(outgoing[s], written[s], inHand[s], TakenOut(s), "write", FALSE)
    BY <1>o, <2>1, <2>2
  <2>4. OutOK(outgoing[s], written[s], 0, TakenOut(s), "select", FALSE)
    BY <2>3, OutLoses
  <2> QED BY <1>0, <1>t, <2>1, <2>2, <2>4
<1>7. ASSUME NEW s \in Streams, Send(s) PROVE \A t \in Streams : OutOrder(t)'
  <2>1. /\ sender[s] = "idle" /\ sender' = [sender EXCEPT ![s] = "blocked"]
        /\ sends' = [sends EXCEPT ![s] = @ + 1]
        /\ UNCHANGED <<outgoing, inHand, written, writer, once, sendSide>>
    BY <1>7 DEF Send
  <2>2. TakenOut(s)' = TakenOut(s)
    <3> DEFINE d == sends[s]
               n == Len(outgoing[s])
    <3>1. d \in Nat /\ n \in Nat
      BY StreamValues
    <3>2. TakenOut(s) = d - n /\ TakenOut(s)' = ((d + 1) - 1) - n
      BY <1>t, <2>1 DEF TakenOut
    <3> HIDE DEF d, n
    <3> QED BY <3>1, <3>2
  <2>3. Flowing(s)' = Flowing(s)
    BY <2>1 DEF Flowing
  <2> QED BY <1>0, <1>o, <1>t, <2>1, <2>2, <2>3
<1>8. ASSUME NEW s \in Streams, SendReturns(s) PROVE \A t \in Streams : OutOrder(t)'
  <2>1. /\ sender[s] = "blocked" /\ sender' = [sender EXCEPT ![s] = "idle"]
        /\ outgoing' = [outgoing EXCEPT ![s] = Append(@, sends[s])]
        /\ UNCHANGED <<sends, inHand, written, writer, once, sendSide>>
    BY <1>8 DEF SendReturns
  <2>2. outgoing[s] \in Seq(1 .. MaxSends) /\ (1 .. MaxSends) \in SUBSET Nat
    BY StreamValues
  <2> DEFINE d == sends[s]
             n == Len(outgoing[s])
  <2>3. d \in 0 .. MaxSends /\ n \in Nat /\ TakenOut(s) = (d - 1) - n
        /\ TakenOut(s) \in Nat
    BY <1>o, <2>1, StreamValues DEF TakenOut, OutOK
  <2>4. d \in 1 .. MaxSends /\ d = TakenOut(s) + n + 1
    <3> HIDE DEF d, n
    <3> QED BY <2>3
  <2>5. OutOK(Append(outgoing[s], sends[s]), written[s], inHand[s], TakenOut(s),
              writer[s], Flowing(s))
    BY <1>o, <2>2, <2>4, OutPuts
  <2>6. TakenOut(s)' = TakenOut(s)
    <3>1. Len(outgoing'[s]) = n + 1
      BY <1>t, <2>1, <2>2, <2>4, AppendProperties
    <3>2. TakenOut(s)' = d - (n + 1)
      BY <1>t, <2>1, <3>1 DEF TakenOut
    <3> HIDE DEF d, n
    <3> QED BY <2>3, <3>2
  <2>7. Flowing(s)' = Flowing(s)
    BY <2>1 DEF Flowing
  <2> QED BY <1>0, <1>t, <2>1, <2>5, <2>6, <2>7
<1>9. ASSUME NEW s \in Streams, RemoteActs(s) PROVE \A t \in Streams : OutOrder(t)'
  <2>1. /\ UNCHANGED <<outVars, writer, once>>
        /\ \A t \in Streams \ {s} : sendSide'[t] = sendSide[t]
        /\ sendSide[s] = "stopped" => sendSide'[s] = "stopped"
    BY <1>9, <1>t DEF RemoteActs
  <2>2. TakenOut(s)' = TakenOut(s)
    BY <2>1 DEF TakenOut
  <2>3. /\ Flowing(s)' \in BOOLEAN
        /\ Flowing(s)' = Flowing(s) \/ Flowing(s)' = FALSE
    BY <2>1 DEF Flowing
  <2>4. OutOK(outgoing[s], written[s], inHand[s], TakenOut(s), writer[s],
              Flowing(s)')
    BY <1>o, <2>3, OutMoves
  <2> QED BY <1>0, <2>1, <2>2, <2>4
<1>10. CASE UNCHANGED <<outVars, writer, once, sendSide>>
  <2> SUFFICES ASSUME NEW t \in Streams PROVE OutOrder(t)'
    OBVIOUS
  <2>1. TakenOut(t)' = TakenOut(t) /\ Flowing(t)' = Flowing(t)
    BY <1>10 DEF TakenOut, Flowing
  <2> QED BY <1>o, <1>10, <2>1 DEF OutOrder
<1>11. ASSUME NEW s \in Streams, EnterClose(s) \/ LeaveClose(s)
       PROVE  \A t \in Streams : OutOrder(t)'
  BY <1>2, <1>11 DEF EnterClose, LeaveClose
<1> QED
  BY <1>1, <1>3, <1>4, <1>5, <1>6, <1>7, <1>8, <1>9, <1>10, <1>11
     DEF StreamsNext, Alive, CloseStep, ReaderStep, WriterStep, ListStream, ReadFrame,
         ReadErr, Offer, ReaderGoes, Consume, UserClose, PeerClose,
         FrameArrives, ReadEmptyFrame, streamsVars

-----------------------------------------------------------------------------
(* Streams: what follows.                                                  *)

(* The goroutines start with NewStream; Close takes a stream out of the    *)
(* map once, and only a stream that was listed after that stays in it.     *)
LEMMA MapStep ==
  ASSUME StreamTypes, Unborn, EarlyClosed, MapMatches,
         [StreamsNext]_streamsVars
  PROVE  Unborn' /\ EarlyClosed' /\ MapMatches'
<1> USE DEF mapVars, inVars, outVars, netVars
<1>t. /\ wrap \in [Streams -> {"none", "started", "listed"}]
      /\ once \in [Streams -> {"open", "closing", "closed"}]
      /\ reader \in [Streams -> {"none", "read", "offer", "close", "done"}]
      /\ writer \in [Streams -> {"none", "select", "write", "close", "done"}]
      /\ early \in [Streams -> BOOLEAN]
  BY DEF StreamTypes
<1>1. ASSUME NEW s \in Streams, NewStream(s)
      PROVE  Unborn' /\ EarlyClosed' /\ MapMatches'
  BY <1>1, <1>t DEF NewStream, Unborn, EarlyClosed, MapMatches
<1>2. ASSUME NEW s \in Streams, ListStream(s)
      PROVE  Unborn' /\ EarlyClosed' /\ MapMatches'
  BY <1>2, <1>t DEF ListStream, Unborn, EarlyClosed, MapMatches
<1>3. ASSUME NEW s \in Streams, EnterClose(s)
      PROVE  Unborn' /\ EarlyClosed' /\ MapMatches'
  BY <1>3, <1>t DEF EnterClose, Unborn, EarlyClosed, MapMatches
<1>4. ASSUME NEW s \in Streams, LeaveClose(s)
      PROVE  Unborn' /\ EarlyClosed' /\ MapMatches'
  BY <1>4, <1>t DEF LeaveClose, Unborn, EarlyClosed, MapMatches
<1>5. ASSUME NEW s \in Streams, CloseReturns(s)
      PROVE  Unborn' /\ EarlyClosed' /\ MapMatches'
  BY <1>5, <1>t DEF CloseReturns, Unborn, EarlyClosed, MapMatches
<1>6. ASSUME NEW s \in Streams, reader[s] # "none",
             \E r \in {"read", "offer", "close"} : ReaderGoes(s, r)
      PROVE  Unborn' /\ EarlyClosed' /\ MapMatches'
  BY <1>6, <1>t DEF ReaderGoes, Unborn, EarlyClosed, MapMatches
<1>7. ASSUME NEW s \in Streams, writer[s] # "none",
             \E w \in {"select", "write", "close"} : WriterGoes(s, w)
      PROVE  Unborn' /\ EarlyClosed' /\ MapMatches'
  BY <1>7, <1>t DEF WriterGoes, Unborn, EarlyClosed, MapMatches
<1>8. CASE UNCHANGED <<wrap, streams, early, once, reader, writer>>
  BY <1>8 DEF Unborn, EarlyClosed, MapMatches
<1>9. ASSUME NEW s \in Streams, ReaderStep(s)
      PROVE  Unborn' /\ EarlyClosed' /\ MapMatches'
  <2>1. reader[s] # "none" /\ \E r \in {"read", "offer", "close"} : ReaderGoes(s, r)
    BY <1>9 DEF ReaderStep, ReadFrame, ReadErr, Offer
  <2> QED BY <1>6, <2>1
<1>10. ASSUME NEW s \in Streams, WriterStep(s)
      PROVE  Unborn' /\ EarlyClosed' /\ MapMatches'
  <2>1. writer[s] # "none" /\ \E w \in {"select", "write", "close"} : WriterGoes(s, w)
    BY <1>10 DEF WriterStep, TakeOutgoing, WriteFrame, WriteErr, LoseWrite
  <2> QED BY <1>7, <2>1
<1> QED
  BY <1>1, <1>2, <1>3, <1>4, <1>5, <1>8, <1>9, <1>10
     DEF StreamsNext, Alive, CloseStep, Send, SendReturns, Consume, UserClose,
         PeerClose, FrameArrives, RemoteActs, ReadEmptyFrame, streamsVars

(* The invariant holds at the start.                                       *)
LEMMA StreamsInitInv == StreamsInit => StreamsInv
<1> SUFFICES ASSUME StreamsInit PROVE StreamsInv
  OBVIOUS
<1> USE StreamsAssumption DEF StreamsInit
<1>1. StreamTypes
  <2>1. /\ incoming \in [Streams -> Seq(1 .. MaxFrames)]
        /\ consumed \in [Streams -> Seq(1 .. MaxFrames)]
        /\ outgoing \in [Streams -> Seq(1 .. MaxSends)]
        /\ written \in [Streams -> Seq(1 .. MaxSends)]
    OBVIOUS
  <2>2. \A s \in Streams : Len(incoming[s]) <= ChanCap /\ Len(outgoing[s]) <= ChanCap
    OBVIOUS
  <2>3. /\ arrived \in [Streams -> 0 .. MaxFrames]
        /\ got \in [Streams -> 0 .. MaxFrames]
        /\ sends \in [Streams -> 0 .. MaxSends]
        /\ inHand \in [Streams -> 0 .. MaxSends]
    OBVIOUS
  <2> QED BY <2>1, <2>2, <2>3 DEF StreamTypes
<1>2. Unborn /\ EarlyClosed /\ MapMatches
  BY DEF Unborn, EarlyClosed, MapMatches
<1>3. ASSUME NEW s \in Streams PROVE InOrder(s) /\ OutOrder(s)
  <2>1. /\ consumed[s] = <<>> /\ incoming[s] = <<>> /\ got[s] = 0
        /\ outgoing[s] = <<>> /\ written[s] = <<>> /\ TakenOut(s) = 0
        /\ reader[s] = "none" /\ writer[s] = "none"
    BY DEF TakenOut
  <2>2. Run(<<>>, 0) /\ Len(<<>>) = 0
    BY DEF Run
  <2>3. InOK(<<>>, <<>>, 0, "none")
    BY <2>2 DEF InOK
  <2>4. OutOK(<<>>, <<>>, inHand[s], 0, "none", Flowing(s))
    BY <2>2 DEF OutOK
  <2> QED BY <2>1, <2>3, <2>4 DEF InOrder, OutOrder
<1> QED BY <1>1, <1>2, <1>3 DEF StreamsInv, Orders

(* The invariant holds throughout.                                         *)
THEOREM StreamsInvariance == StreamsSpec => []StreamsInv
<1>1. StreamsInv /\ [StreamsNext]_streamsVars => StreamsInv'
  <2> SUFFICES ASSUME StreamsInv, [StreamsNext]_streamsVars PROVE StreamsInv'
    OBVIOUS
  <2>1. StreamTypes'
    BY StreamsTypeStep DEF StreamsInv
  <2>2. Orders'
    BY InStep, OutStep DEF StreamsInv, Orders
  <2>3. Unborn' /\ EarlyClosed' /\ MapMatches'
    BY MapStep DEF StreamsInv
  <2> QED BY <2>1, <2>2, <2>3 DEF StreamsInv
<1> QED BY <1>1, StreamsInitInv, PTL DEF StreamsSpec

(* Every variable keeps its type, and no channel of a stream ever holds    *)
(* more than its capacity.                                                 *)
THEOREM StreamsTypeCorrect == StreamsSpec => []StreamsTypeOK
<1> DEFINE Flag == panicked \in BOOLEAN
<1>1. StreamsInit => Flag
  BY DEF StreamsInit
<1>2. Flag /\ [StreamsNext]_streamsVars => Flag'
  BY DEF StreamsNext, Alive, ReadEmptyFrame, streamsVars
<1>3. StreamsInv /\ Flag => StreamsTypeOK
  BY DEF StreamsInv, StreamsTypeOK
<1> HIDE DEF Flag
<1> QED BY <1>1, <1>2, <1>3, StreamsInvariance, PTL DEF StreamsSpec

(* Frames keep their order and none is skipped, in either direction: what  *)
(* the user receives is what arrived, and what is written is what was      *)
(* sent, although writeLoop looks at no error.                             *)
THEOREM StreamsInOrder == StreamsSpec => []OrderKept
<1>1. StreamsInv => OrderKept
  <2> SUFFICES ASSUME StreamsInv, NEW s \in Streams
               PROVE  LET in == consumed[s] \o incoming[s] IN
                      /\ \A i \in 1..Len(in) : in[i] = i
                      /\ Len(in) = got[s] - 1
                         \/ (Len(in) = got[s] /\ reader[s] # "offer")
                      /\ reader[s] = "read" => Len(in) = got[s]
                      /\ \A i \in 1..Len(written[s]) : written[s][i] = i
    BY DEF OrderKept
  <2> DEFINE in == consumed[s] \o incoming[s]
             n == Len(in)
             g == got[s]
             a == Len(consumed[s])
             b == Len(incoming[s])
             l == a + b
             w == written[s]
  <2>1. StreamTypes /\ InOrder(s) /\ OutOrder(s)
    BY DEF StreamsInv, Orders
  <2>2. /\ consumed[s] \in Seq(1 .. MaxFrames)
        /\ incoming[s] \in Seq(1 .. MaxFrames)
        /\ (1 .. MaxFrames) \in SUBSET Nat
        /\ a \in Nat /\ b \in Nat
        /\ g \in Nat /\ Len(w) \in Nat
    BY <2>1, StreamValues
  <2>l. l \in Nat
    <3> HIDE DEF a, b
    <3> QED BY <2>2
  <2>3. n = l /\ Run(in, 0)
    BY <2>1, <2>2, RunConcat DEF InOrder, InOK
  <2>4. /\ l = g \/ l + 1 = g
        /\ reader[s] = "read" => l = g
        /\ reader[s] = "offer" => l + 1 = g
    BY <2>1 DEF InOrder, InOK
  <2>5. Run(w, 0)
    BY <2>1 DEF OutOrder, OutOK
  <2> HIDE DEF in, n, g, l, w
  <2>6. /\ n = g - 1 \/ (n = g /\ reader[s] # "offer")
        /\ reader[s] = "read" => n = g
    BY <2>2, <2>l, <2>3, <2>4
  <2>7. \A i \in 1 .. Len(in) : in[i] = i
    BY <2>2, <2>3 DEF Run, n
  <2>8. \A i \in 1 .. Len(w) : w[i] = i
    BY <2>2, <2>5 DEF Run
  <2> QED BY <2>6, <2>7, <2>8 DEF in, n, g, w
<1> QED BY <1>1, StreamsInvariance, PTL

(* A listed stream is in PeerWrapper's map exactly until its Close is      *)
(* over, unless Close was over before wrapAndRegister came to list it.     *)
THEOREM StreamMapMatches == StreamsSpec => []MapMatches
<1>1. StreamsInv => MapMatches
  BY DEF StreamsInv
<1> QED BY <1>1, StreamsInvariance, PTL

-----------------------------------------------------------------------------
(* Sessions.                                                               *)

(* A handler has a session in hand before it lists the stream there.       *)
FoundFirst ==
  \A s \in AcceptedStreams :
    handler[s] \in {"list", "offer"} => found[s] \in Transfers

(* Every step keeps the types and the capacity of NewStreams.              *)
LEMMA SessionsTypeStep ==
  ASSUME SessionsTypeOK, FoundFirst, [SessionsNext]_sessionsVars
  PROVE  SessionsTypeOK'
<1> USE SessionsAssumption DEF SessionsTypeOK, transferVars
<1>1. ASSUME NEW s \in AcceptedStreams, OnNewStream(s) PROVE SessionsTypeOK'
  BY <1>1 DEF OnNewStream, HandlerGoes
<1>2. ASSUME NEW s \in AcceptedStreams, FirstFrame(s) PROVE SessionsTypeOK'
  BY <1>2 DEF FirstFrame, HandlerGoes
<1>3. ASSUME NEW s \in AcceptedStreams, Timeout(s) PROVE SessionsTypeOK'
  BY <1>3 DEF Timeout, HandlerGoes
<1>4. ASSUME NEW s \in AcceptedStreams, FindSession(s) PROVE SessionsTypeOK'
  BY <1>4 DEF FindSession, HandlerGoes
<1>5. ASSUME NEW s \in AcceptedStreams, AddToList(s) PROVE SessionsTypeOK'
  <2>1. listed' \in [Transfers -> Seq(AcceptedStreams)]
    BY <1>5 DEF AddToList, FoundFirst
  <2> QED BY <1>5, <2>1 DEF AddToList, HandlerGoes
<1>6. ASSUME NEW s \in AcceptedStreams, OfferStream(s) PROVE SessionsTypeOK'
  <2>1. /\ newStreams' \in [Transfers -> Seq(AcceptedStreams)]
        /\ \A i \in Transfers : Len(newStreams'[i]) <= NewStreamsCap
    <3>1. CASE UNCHANGED newStreams
      BY <3>1
    <3>2. CASE /\ Len(newStreams[found[s]]) < NewStreamsCap
               /\ newStreams' = [newStreams EXCEPT ![found[s]] = Append(@, s)]
      <4>0. found[s] \in Transfers
        BY <1>6 DEF OfferStream, Select, FoundFirst
      <4>1. /\ Append(newStreams[found[s]], s) \in Seq(AcceptedStreams)
            /\ Len(Append(newStreams[found[s]], s)) <= NewStreamsCap
        BY <3>2, <4>0
      <4> QED BY <3>2, <4>0, <4>1
    <3> QED BY <1>6, <3>1, <3>2 DEF OfferStream, Select
  <2>2. handler' = [handler EXCEPT ![s] = "close"]
        \/ handler' = [handler EXCEPT ![s] = "left"]
    BY <1>6 DEF OfferStream, Select, HandlerGoes
  <2> QED BY <1>6, <2>1, <2>2 DEF OfferStream, Select
<1>7. ASSUME NEW s \in AcceptedStreams, CloseStream(s) PROVE SessionsTypeOK'
  BY <1>7 DEF CloseStream, HandlerGoes
<1>8. ASSUME NEW s \in AcceptedStreams, StreamEnds(s) PROVE SessionsTypeOK'
  BY <1>8 DEF StreamEnds
<1>9. ASSUME NEW i \in SessionIDs, NEW t \in Transfers, Register(i, t)
      PROVE  SessionsTypeOK'
  BY <1>9 DEF Register
<1>10. ASSUME NEW i \in Transfers, CloseSession(i) PROVE SessionsTypeOK'
  BY <1>10 DEF CloseSession
<1>11. ASSUME NEW i \in Transfers, ReceiveStream(i) PROVE SessionsTypeOK'
  <2>1. /\ Head(newStreams[i]) \in AcceptedStreams
        /\ Tail(newStreams[i]) \in Seq(AcceptedStreams)
        /\ Len(Tail(newStreams[i])) <= NewStreamsCap
    BY <1>11, HeadOrTail DEF ReceiveStream
  <2> QED BY <1>11, <2>1 DEF ReceiveStream
<1>12. CASE UNCHANGED sessionsVars
  BY <1>12 DEF sessionsVars
<1> QED
  BY <1>1, <1>2, <1>3, <1>4, <1>5, <1>6, <1>7, <1>8, <1>9, <1>10, <1>11,
     <1>12 DEF SessionsNext, HandlerStep

(* The initial state has the types.                                        *)
LEMMA SessionsInitType == SessionsInit => SessionsTypeOK
<1> SUFFICES ASSUME SessionsInit PROVE SessionsTypeOK
  OBVIOUS
<1>1. /\ listed \in [Transfers -> Seq(AcceptedStreams)]
      /\ newStreams \in [Transfers -> Seq(AcceptedStreams)]
      /\ \A i \in Transfers : Len(newStreams[i]) <= NewStreamsCap
  BY SessionsAssumption DEF SessionsInit
<1> QED BY <1>1 DEF SessionsInit, SessionsTypeOK

(* A session lists only streams whose handlers have found it and have come *)
(* to the select of AddStream, and every stream there is listed.           *)
Listing ==
  /\ \A i \in Transfers : \A s \in ToSet(listed[i]) :
       found[s] = i /\ handler[s] \in {"offer", "close", "left", "done"}
  /\ \A s \in AcceptedStreams :
       handler[s] = "offer" => s \in ToSet(listed[found[s]])

SessionsInv == SessionsTypeOK /\ FoundFirst /\ Listing /\ ListMatchesChannel

(* A step of a handler that is neither before its listing nor at the       *)
(* select leaves the lists and the channels as they are.                   *)
LEMMA HandlerMoves ==
  ASSUME SessionsInv, NEW s \in AcceptedStreams, NEW to,
         UNCHANGED <<listed, newStreams, received, ended>>,
         \/ found' = found
         \/ /\ handler[s] = "find"
            /\ \A t \in AcceptedStreams \ {s} : found'[t] = found[t],
         handler' = [handler EXCEPT ![s] = to],
         \/ handler[s] \notin {"offer", "close", "left", "done"} /\ to # "offer"
         \/ handler[s] = "close" /\ to = "done"
  PROVE  Listing' /\ ListMatchesChannel'
<1> USE DEF SessionsInv, SessionsTypeOK
<1>1. handler'[s] = to /\ \A t \in AcceptedStreams \ {s} : handler'[t] = handler[t]
  OBVIOUS
<1>2. \A i \in Transfers : ToSet(listed[i]) \subseteq AcceptedStreams
  BY ToSetType
<1>3. \A i \in Transfers : Given(i)' = Given(i)
  BY DEF Given
<1>4. Listing'
  BY <1>1, <1>2 DEF Listing
<1>5. ListMatchesChannel'
  BY <1>1, <1>2, <1>3 DEF ListMatchesChannel, Listing
<1> QED BY <1>4, <1>5

(* Every step keeps list and channel in agreement.                         *)
LEMMA SessionsInvStep ==
  ASSUME SessionsInv, [SessionsNext]_sessionsVars
  PROVE  SessionsInv'
<1>0. SessionsTypeOK'
  BY SessionsTypeStep DEF SessionsInv
<1>f. FoundFirst'
  BY SessionsAssumption
     DEF SessionsInv, SessionsTypeOK, FoundFirst, SessionsNext, HandlerStep,
         OnNewStream, FirstFrame, Timeout, FindSession, AddToList, OfferStream,
         Select, CloseStream, StreamEnds, Register, CloseSession, ReceiveStream,
         HandlerGoes, sessionsVars, transferVars
<1>i. \A i \in Transfers : ToSet(listed[i]) \subseteq AcceptedStreams
  BY ToSetType DEF SessionsInv, SessionsTypeOK
<1> SUFFICES Listing' /\ ListMatchesChannel'
  BY <1>0, <1>f DEF SessionsInv
<1>1. ASSUME NEW s \in AcceptedStreams, OnNewStream(s)
      PROVE  Listing' /\ ListMatchesChannel'
  BY <1>1, HandlerMoves DEF OnNewStream, HandlerGoes, transferVars
<1>2. ASSUME NEW s \in AcceptedStreams, FirstFrame(s)
      PROVE  Listing' /\ ListMatchesChannel'
  <2>1. \E to \in {"close", "left", "find"} : handler' = [handler EXCEPT ![s] = to]
    BY <1>2 DEF FirstFrame, HandlerGoes
  <2> QED BY <1>2, <2>1, HandlerMoves DEF FirstFrame, transferVars
<1>3. ASSUME NEW s \in AcceptedStreams, Timeout(s)
      PROVE  Listing' /\ ListMatchesChannel'
  BY <1>3, HandlerMoves DEF Timeout, HandlerGoes, transferVars
<1>4. ASSUME NEW s \in AcceptedStreams, FindSession(s)
      PROVE  Listing' /\ ListMatchesChannel'
  <2>1. \E to \in {"list", "left"} : handler' = [handler EXCEPT ![s] = to]
    BY <1>4 DEF FindSession, HandlerGoes
  <2>2. \A t \in AcceptedStreams \ {s} : found'[t] = found[t]
    BY <1>4 DEF FindSession, SessionsInv, SessionsTypeOK
  <2> QED BY <1>4, <2>1, <2>2, HandlerMoves DEF FindSession
<1>5. ASSUME NEW s \in AcceptedStreams, AddToList(s)
      PROVE  Listing' /\ ListMatchesChannel'
  <2>1. /\ handler[s] = "list" /\ handler'[s] = "offer"
        /\ \A t \in AcceptedStreams \ {s} : handler'[t] = handler[t]
        /\ UNCHANGED <<found, ended, newStreams, received>>
    BY <1>5 DEF AddToList, HandlerGoes, SessionsInv, SessionsTypeOK
  <2>2. /\ found[s] \in Transfers
        /\ listed'[found[s]] = Append(listed[found[s]], s)
        /\ \A i \in Transfers \ {found[s]} : listed'[i] = listed[i]
        /\ listed[found[s]] \in Seq(AcceptedStreams)
    BY <1>5 DEF AddToList, SessionsInv, SessionsTypeOK, FoundFirst
  <2>3. /\ ToSet(listed'[found[s]]) = ToSet(listed[found[s]]) \cup {s}
        /\ \A i \in Transfers \ {found[s]} : ToSet(listed'[i]) = ToSet(listed[i])
    BY <2>2, ToSetAppend
  <2>4. \A i \in Transfers : Given(i)' = Given(i)
    BY <2>1 DEF Given
  <2>5. \A t \in AcceptedStreams : handler[t] = "offer" => found[t] \in Transfers
    BY DEF SessionsInv, FoundFirst
  <2>6. Listing'
    <3>1. ASSUME NEW i \in Transfers, NEW t \in ToSet(listed'[i])
          PROVE  found'[t] = i /\ handler'[t] \in {"offer", "close", "left", "done"}
      <4>1. CASE t \in ToSet(listed[i])
        <5>1. /\ found[t] = i /\ t \in AcceptedStreams
              /\ handler[t] \in {"offer", "close", "left", "done"}
          BY <1>i, <4>1 DEF SessionsInv, Listing
        <5> QED BY <2>1, <5>1
      <4>2. CASE t \notin ToSet(listed[i])
        <5>1. t = s /\ i = found[s]
          BY <2>3, <4>2
        <5> QED BY <2>1, <5>1
      <4> QED BY <4>1, <4>2
    <3>2. ASSUME NEW t \in AcceptedStreams, handler'[t] = "offer"
          PROVE  t \in ToSet(listed'[found'[t]])
      BY <2>1, <2>2, <2>3, <2>5, <3>2 DEF SessionsInv, Listing
    <3> QED BY <3>1, <3>2 DEF Listing
  <2>7. ListMatchesChannel'
    BY <1>i, <2>1, <2>2, <2>3, <2>4 DEF SessionsInv, ListMatchesChannel
  <2> QED BY <2>6, <2>7
<1>6. ASSUME NEW s \in AcceptedStreams, OfferStream(s)
      PROVE  Listing' /\ ListMatchesChannel'
  <2>1. /\ handler[s] = "offer" /\ handler'[s] \in {"close", "left"}
        /\ \A t \in AcceptedStreams \ {s} : handler'[t] = handler[t]
        /\ UNCHANGED <<found, listed, ended, received>>
    BY <1>6 DEF OfferStream, Select, HandlerGoes, SessionsInv, SessionsTypeOK
  <2>2. found[s] \in Transfers /\ s \in ToSet(listed[found[s]])
    BY <2>1 DEF SessionsInv, Listing, FoundFirst
  <2>3. Listing'
    BY <1>i, <2>1 DEF SessionsInv, Listing
  <2>4. /\ \A i \in Transfers \ {found[s]} : Given(i)' = Given(i)
        /\ \/ Given(found[s])' = Given(found[s]) \cup {s}
           \/ Given(found[s])' = Given(found[s]) /\ found[s] \in ended
    <3>1. CASE newStreams' = [newStreams EXCEPT ![found[s]] = Append(@, s)]
      <4>1. /\ newStreams'[found[s]] = Append(newStreams[found[s]], s)
            /\ newStreams[found[s]] \in Seq(AcceptedStreams)
            /\ \A i \in Transfers \ {found[s]} : newStreams'[i] = newStreams[i]
        BY <2>2, <3>1 DEF SessionsInv, SessionsTypeOK
      <4>2. ToSet(newStreams'[found[s]]) = ToSet(newStreams[found[s]]) \cup {s}
        BY <4>1, ToSetAppend
      <4> QED BY <2>1, <4>1, <4>2 DEF Given
    <3>2. CASE UNCHANGED newStreams /\ found[s] \in ended
      BY <2>1, <3>2 DEF Given
    <3> QED BY <1>6, <3>1, <3>2 DEF OfferStream, Select
  <2>5. ListMatchesChannel'
    BY <1>i, <2>1, <2>2, <2>4 DEF SessionsInv, Listing, ListMatchesChannel
  <2> QED BY <2>3, <2>5
<1>7. ASSUME NEW s \in AcceptedStreams, CloseStream(s)
      PROVE  Listing' /\ ListMatchesChannel'
  BY <1>7, HandlerMoves DEF CloseStream, HandlerGoes, transferVars
<1>8. CASE UNCHANGED <<handler, found, listed, newStreams, received>>
           /\ ended \subseteq ended'
  <2>1. \A i \in Transfers : Given(i)' = Given(i)
    BY <1>8 DEF Given
  <2> QED BY <1>8, <2>1 DEF SessionsInv, Listing, ListMatchesChannel
<1>9. ASSUME NEW i \in Transfers, ReceiveStream(i)
      PROVE  Listing' /\ ListMatchesChannel'
  <2>1. \A j \in Transfers : Given(j)' = Given(j)
    <3>1. /\ newStreams'[i] = Tail(newStreams[i])
          /\ received'[i] = received[i] \cup {Head(newStreams[i])}
          /\ \A j \in Transfers \ {i} :
               newStreams'[j] = newStreams[j] /\ received'[j] = received[j]
      BY <1>9 DEF ReceiveStream, SessionsInv, SessionsTypeOK
    <3>2. ToSet(newStreams[i])
            = ToSet(Tail(newStreams[i])) \cup {Head(newStreams[i])}
      BY <1>9, ToSetTail DEF ReceiveStream, SessionsInv, SessionsTypeOK
    <3>3. Given(i)' = Given(i)
      BY <3>1, <3>2 DEF Given
    <3>4. \A j \in Transfers \ {i} : Given(j)' = Given(j)
      BY <3>1 DEF Given
    <3> QED BY <3>3, <3>4
  <2> QED BY <1>9, <2>1 DEF ReceiveStream, SessionsInv, Listing, ListMatchesChannel
<1> QED
  BY <1>1, <1>2, <1>3, <1>4, <1>5, <1>6, <1>7, <1>8, <1>9
     DEF SessionsNext, HandlerStep, StreamEnds, Register, CloseSession,
         sessionsVars, transferVars

(* SessionsInv is an invariant of the sessions.                            *)
LEMMA SessionsInvariance == SessionsSpec => []SessionsInv
<1>1. SessionsInit => SessionsInv
  <2> SUFFICES ASSUME SessionsInit
               PROVE  FoundFirst /\ Listing /\ ListMatchesChannel
    BY SessionsInitType DEF SessionsInv
  <2>1. \A i \in Transfers : ToSet(listed[i]) = {} /\ Given(i) = {}
    BY ToSetType DEF SessionsInit, Given
  <2> QED BY <2>1 DEF SessionsInit, FoundFirst, Listing, ListMatchesChannel
<1>2. SessionsInv /\ [SessionsNext]_sessionsVars => SessionsInv'
  BY SessionsInvStep
<1> QED BY <1>1, <1>2, PTL DEF SessionsSpec

(* Every variable keeps its type, and no number of handlers makes          *)
(* NewStreams hold more than its capacity.                                 *)
THEOREM SessionsTypeCorrect == SessionsSpec => []SessionsTypeOK
<1>1. SessionsInv => SessionsTypeOK
  BY DEF SessionsInv
<1> QED BY <1>1, SessionsInvariance, PTL

(* A stream is listed before it is given, and a listed stream is given     *)
(* unless its handler still waits for room or the session has ended:       *)
(* AddStream's two steps agree however many handlers run between them.     *)
THEOREM ListAndChannelAgree == SessionsSpec => []ListMatchesChannel
<1>1. SessionsInv => ListMatchesChannel
  BY DEF SessionsInv
<1> QED BY <1>1, SessionsInvariance, PTL
=============================================================================
