----------------------------- MODULE MCDispatcher -----------------------------
(* The packets of the model: a sound one, one whose signature does not    *)
(* verify, one whose Data does not unmarshal, one whose key is cut and one *)
(* whose OriginId is.                                                      *)
EXTENDS Dispatcher

MCPackets == {"chat", "forged", "garbled", "cut", "anon"}

MCEnvelope ==
  [p \in MCPackets |->
     [pubKey   |-> IF p = "cut" THEN "short" ELSE "whole",
      verifies |-> p # "forged",
      payload  |-> IF p = "garbled" THEN "undecodable" ELSE "ChatMessage",
      origin   |-> IF p = "anon" THEN "short" ELSE "whole"]]

(* For the question of how many packets are served, sound ones only.       *)
MCSoundPackets == {"chat1", "chat2", "chat3"}

MCSoundEnvelope ==
  [p \in MCSoundPackets |->
     [pubKey |-> "whole", verifies |-> TRUE, payload |-> "ChatMessage",
      origin |-> "whole"]]
=============================================================================
