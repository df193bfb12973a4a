------------------------------- MODULE MerkleDag -------------------------------
(***************************************************************************)
(* internal/p2p/dht: merkle_dag.go and the files' half of dht.go.  A file  *)
(* of at most ChunkSize bytes is one node; a longer one is a node per      *)
(* chunk, written one by one, and then a node that links to them.  Calls   *)
(* run side by side, a write may fail, and the process may end between any *)
(* two writes.                                                             *)
(*                                                                         *)
(* A byte is a name; the bytes proto.Marshal makes of a node are one such  *)
(* name, the node itself, so that a file may be what some node encodes to. *)
(* SHA-256 is the record of what was hashed.                               *)
(***************************************************************************)
EXTENDS Integers, Sequences, SequencesExt, Storage

CONSTANTS
  ChunkSize,  \* 256 KiB in the code
  Files,      \* the files that are saved: sequences of bytes
  Calls,      \* the callers of SaveFile
  MaxSaves    \* bound: how often SaveFile is called in all

ASSUME MerkleAssumption ==
  /\ ChunkSize \in Nat \ {0}
  /\ MaxSaves \in Nat
  /\ \A f \in Files : f \in Seq({f[i] : i \in DOMAIN f})

VARIABLES
  db,     \* the nodes in storage
  call,   \* where each caller is, its file, and fileChunksKeys
  given,  \* history: the keys SaveFile has answered, with their files
  saves   \* how often SaveFile has been called

vars == <<db, call, given, saves>>

-----------------------------------------------------------------------------
(* Nodes and their keys.                                                   *)

Marshal(node)    == <<node>>
Unmarshal(bytes) == bytes[1]
Sha256(bytes)    == [sha256 |-> bytes]

(* createMetaLink and createFileChunk.                                     *)
MetaLink(data, links) ==
  [type |-> "META_LINK", data |-> data, links |-> links]

FileChunk(data) == [type |-> "FILE_CHUNK", data |-> data, links |-> <<>>]

(* The key of some bytes, behind dagStorageKey.                            *)
KeyOf(bytes) == Sha256(bytes)

(* The chunks of a file longer than ChunkSize, the last of them shorter.   *)
ChunkCount(f) == (Len(f) + ChunkSize - 1) \div ChunkSize
EndOf(f, i)   == IF i * ChunkSize > Len(f) THEN Len(f) ELSE i * ChunkSize

(* Fault: a chunk begins where the last one ended.                         *)
ChunkOverlapping(f, i) ==
  SubSeq(f, IF i = 1 THEN 1 ELSE (i - 1) * ChunkSize, EndOf(f, i))

Chunk(f, i) == SubSeq(f, (i - 1) * ChunkSize + 1, EndOf(f, i))

(* findFileByID: the data of a META_LINK that has some, else that of its   *)
(* children put together; the data of a chunk.  Nothing if a key is not    *)
(* there.                                                                  *)
NotFound == [error |-> "key not found"]

findFileByID(key) ==
  IF ~Exists(db, key) THEN NotFound
  ELSE LET node == Unmarshal(Get(db, key))
       IN  IF node.type # "META_LINK" \/ Len(node.data) > 0 THEN node.data
           ELSE IF \E i \in 1 .. Len(node.links) : ~Exists(db, node.links[i])
           THEN NotFound
           ELSE FlattenSeq([i \in 1 .. Len(node.links) |->
                              Unmarshal(Get(db, node.links[i])).data])

-----------------------------------------------------------------------------
Idle == [at |-> "idle", file |-> <<>>, keys |-> <<>>]

Init ==
  /\ db = Empty
  /\ call = [c \in Calls |-> Idle]
  /\ given = {}
  /\ saves = 0

(* SaveFile up to its first write: nothing to do, and no key to answer, if *)
(* the file is what a stored node encodes to.                              *)
SaveFile(c, f) ==
  /\ call[c] = Idle /\ saves < MaxSaves
  /\ saves' = saves + 1
  /\ ~Exists(db, KeyOf(f))
  /\ call' = [call EXCEPT ![c] =
       [at |-> IF Len(f) <= ChunkSize THEN "meta" ELSE "chunks",
        file |-> f, keys |-> <<>>]]
  /\ UNCHANGED <<db, given>>

SaveFileExists(c, f) ==
  /\ call[c] = Idle /\ saves < MaxSaves
  /\ saves' = saves + 1
  /\ Exists(db, KeyOf(f))
  /\ UNCHANGED <<db, call, given>>

(* The next chunk, and its key to fileChunksKeys.                          *)
SaveChunk(c) ==
  LET bytes == Marshal(FileChunk(Chunk(call[c].file, Len(call[c].keys) + 1)))
      keys  == Append(call[c].keys, KeyOf(bytes))
  IN  /\ call[c].at = "chunks"
      /\ db' = Set(db, KeyOf(bytes), bytes)
      /\ call' = [call EXCEPT
           ![c].keys = keys,
           ![c].at = IF Len(keys) = ChunkCount(call[c].file) THEN "meta" ELSE @]
      /\ UNCHANGED <<given, saves>>

(* The META_LINK a call writes: the data itself, or the links.             *)
MetaOf(f, keys) ==
  IF Len(f) <= ChunkSize THEN MetaLink(f, <<>>) ELSE MetaLink(<<>>, keys)

(* The key of a file's META_LINK, which depends on the file alone.         *)
NameOf == [f \in Files |-> KeyOf(Marshal(MetaOf(f,
             [i \in 1 .. ChunkCount(f) |->
                KeyOf(Marshal(FileChunk(Chunk(f, i))))])))]

(* Fault: the keys are known from the file, so the META_LINK may go first. *)
SaveMetaEarly(c) ==
  LET f == call[c].file
  IN  /\ call[c].at # "idle"
      /\ db' = Set(db, NameOf[f], NameOf[f].sha256)
      /\ call' = [call EXCEPT ![c] = Idle]
      /\ given' = given \cup {<<f, NameOf[f]>>}
      /\ UNCHANGED saves

(* The META_LINK; SaveFile answers its key.                                *)
SaveMeta(c) ==
  LET bytes == Marshal(MetaOf(call[c].file, call[c].keys))
  IN  /\ call[c].at = "meta"
      /\ db' = Set(db, KeyOf(bytes), bytes)
      /\ call' = [call EXCEPT ![c] = Idle]
      /\ given' = given \cup {<<call[c].file, KeyOf(bytes)>>}
      /\ UNCHANGED saves

(* A write fails, SaveFile returns its error, and what was written stays.  *)
WriteFails(c) ==
  /\ call[c].at # "idle"
  /\ call' = [call EXCEPT ![c] = Idle]
  /\ UNCHANGED <<db, given, saves>>

(* The process ends; storage remains.                                      *)
Crash ==
  /\ \E c \in Calls : call[c] # Idle
  /\ call' = [c \in Calls |-> Idle]
  /\ UNCHANGED <<db, given, saves>>

Next ==
  \/ Crash
  \/ \E c \in Calls :
       \/ \E f \in Files : SaveFile(c, f) \/ SaveFileExists(c, f)
       \/ SaveChunk(c) \/ SaveMeta(c) \/ WriteFails(c)

Spec == Init /\ [][Next]_vars

-----------------------------------------------------------------------------
(* Properties.                                                             *)

(* The keys of META_LINK nodes, which are the files one can ask for.       *)
MetaKeys == {k \in DOMAIN db : Unmarshal(db[k]).type = "META_LINK"}

(* Types: storage is addressed by content, so that two calls that share a  *)
(* chunk or a file write the same bytes under the same key.                *)
TypeOK ==
  /\ \A k \in DOMAIN db : k = Sha256(db[k])
  /\ call \in [Calls -> [at   : {"idle", "chunks", "meta"},
                         file : Files \cup {<<>>},
                         keys : Seq(DOMAIN db)]]
  /\ saves \in 0 .. MaxSaves

(* Whatever fails and wherever the process ends, every node that storage   *)
(* links to is in storage, and is a chunk with something in it.            *)
NoDanglingLinks ==
  \A k \in DOMAIN db :
    LET links == Unmarshal(db[k]).links
    IN  \A i \in 1 .. Len(links) :
          /\ Exists(db, links[i])
          /\ Unmarshal(Get(db, links[i])).type = "FILE_CHUNK"
          /\ Len(Unmarshal(Get(db, links[i])).data) \in 1 .. ChunkSize

FS == INSTANCE FileStore
        WITH files <- [k \in MetaKeys |-> findFileByID(k)]

(* SaveFile is atomic and durable to whoever reads: the chunks, the shared *)
(* nodes, the failures and the crashes are invisible, a file appears whole *)
(* with its META_LINK, and every key answered reads back as its file.      *)
ImplementsFileStore == FS!Spec
=============================================================================
