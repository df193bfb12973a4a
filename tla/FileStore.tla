------------------------------- MODULE FileStore -------------------------------
(***************************************************************************)
(* What SaveFile and GetFileChunk of internal/p2p/dht promise together: a  *)
(* store from names to files in which a file appears whole and at once,    *)
(* keeps its name and its contents for ever, and a name once given out     *)
(* reads back as the file it was given for.                                *)
(***************************************************************************)
CONSTANTS
  Files,   \* the files that are saved
  NameOf   \* NameOf[f]: the name of a file, which is its alone

VARIABLES
  files,   \* the files that can be read, by name
  given    \* the answers of SaveFile: pairs of a file and its name

Init == files = [n \in {} |-> n] /\ given = {}

(* A file appears under its name, or is there already.                     *)
Put(f) ==
  files' = [n \in DOMAIN files \cup {NameOf[f]} |->
              IF n = NameOf[f] THEN f ELSE files[n]]

(* The call that put a file answers its name, or ends without an answer.   *)
Answer(f) == given' = given \cup {<<f, NameOf[f]>>} \/ UNCHANGED given

Next == \E f \in Files : Put(f) /\ Answer(f)

Spec == Init /\ [][Next]_<<files, given>>
=============================================================================
