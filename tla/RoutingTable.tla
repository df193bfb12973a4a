----------------------------- MODULE RoutingTable -----------------------------
(***************************************************************************)
(* internal/p2p/dht: routing_table.go, kademlia.go and the peers' half of  *)
(* dht.go.  SavePeer finds the bucket of a peer by its distance, reads the *)
(* bucket from storage, appends the peer and writes the bucket back, with  *)
(* neither a lock nor a transaction around the two: calls interleave.      *)
(***************************************************************************)
EXTENDS Integers, Sequences, FiniteSetsExt, Storage

CONSTANTS
  IDLength,       \* bytes of an ID (32 in the code)
  MyID,           \* this node's ID
  Calls,          \* the calls of SavePeer
  PeerOf,         \* PeerOf[c]: the ID call c is to save
  MaxBucketSize   \* 20 in the code

Bits == 0 .. (8 * IDLength - 1)
IDs  == [Bits -> {0, 1}]

ASSUME RoutingAssumption ==
  /\ IDLength \in Nat \ {0}
  /\ MyID \in IDs
  /\ PeerOf \in [Calls -> IDs]
  /\ MaxBucketSize \in Nat \ {0}

VARIABLES
  db,      \* the buckets in storage
  at,      \* how far each call of SavePeer is
  bucket,  \* the bucket each call is about to write
  order,   \* history: the calls that have written, oldest first
  read     \* history: how many calls had written when this one read

vars == <<db, at, bucket, order, read>>

-----------------------------------------------------------------------------
(* The bits of byte i of the XOR of two IDs that are 1, from the top.      *)
XorByte(a, b, i) == {j \in 0..7 : a[8 * i + j] # b[8 * i + j]}

(* Fault: the zeros are counted from the other end of the byte.            *)
TrailingZeros8(xor) == 7 - Max(xor)

(* bits.LeadingZeros8, of a byte that is not 0.                            *)
LeadingZeros8(xor) == Min(xor)

(* The first byte that differs gives the index.  Equal IDs share the last  *)
(* index with IDs that differ in the last bit.                             *)
getBucketIndex(a, b) ==
  LET differ == {i \in 0 .. (IDLength - 1) : XorByte(a, b, i) # {}}
  IN  IF differ = {} THEN 8 * IDLength - 1
      ELSE 8 * Min(differ) + LeadingZeros8(XorByte(a, b, Min(differ)))

(* CalculateDistance.                                                      *)
CalculateDistance(id) == getBucketIndex(MyID, id)

(* intToKey: the prefix and the index, of fixed width.                     *)
Key(index) == <<"routing_table:", index>>

(* PeerStoreEntry: hash_id, and the rest of the fields as the call's name. *)
Entry(c) == [hashId |-> PeerOf[c], rest |-> c]

IndexOf(c) == CalculateDistance(PeerOf[c])

(* GetNearPeers: the entries of the bucket of an ID, and of no other; with *)
(* ErrKeyNotFound none.                                                    *)
GetNearPeers(id) ==
  LET key == Key(CalculateDistance(id))
  IN  IF Exists(db, key)
      THEN {Get(db, key).peers[i] : i \in 1 .. Len(Get(db, key).peers)}
      ELSE {}

-----------------------------------------------------------------------------
Init ==
  /\ db = Empty
  /\ at = [c \in Calls |-> "new"]
  /\ bucket = [c \in Calls |-> [index |-> 0, peers |-> <<>>]]
  /\ order = <<>>
  /\ read = [c \in Calls |-> 0]

(* SavePeer and saveInKBucket up to setInStorage, given the size at which  *)
(* a bucket is full: a new bucket, "bucket cap", or one peer appended.     *)
Read(c, full) ==
  LET key == Key(IndexOf(c))
      old == IF Exists(db, key) THEN Get(db, key).peers ELSE <<>>
  IN  /\ at[c] = "new"
      /\ \/ /\ Exists(db, key) /\ Len(old) >= full
            /\ at' = [at EXCEPT ![c] = "full"]
            /\ UNCHANGED bucket
         \/ /\ ~Exists(db, key) \/ Len(old) < full
            /\ at' = [at EXCEPT ![c] = "write"]
            /\ bucket' = [bucket EXCEPT ![c] =
                 [index |-> IndexOf(c), peers |-> Append(old, Entry(c))]]
      /\ read' = [read EXCEPT ![c] = Len(order)]
      /\ UNCHANGED <<db, order>>

(* Fault: the size is compared after one peer too many.                    *)
ReadOneMore(c) == Read(c, MaxBucketSize + 1)

ReadBucket(c) == Read(c, MaxBucketSize)

(* Fault: the bucket is written without what was in it.                    *)
WriteAlone(c) ==
  /\ at[c] = "write"
  /\ db' = Set(db, Key(IndexOf(c)), [index |-> IndexOf(c), peers |-> <<Entry(c)>>])
  /\ at' = [at EXCEPT ![c] = "saved"]
  /\ order' = Append(order, c)
  /\ UNCHANGED <<bucket, read>>

(* setInStorage: SavePeer returns nil.                                     *)
WriteBucket(c) ==
  /\ at[c] = "write"
  /\ db' = Set(db, Key(IndexOf(c)), bucket[c])
  /\ at' = [at EXCEPT ![c] = "saved"]
  /\ order' = Append(order, c)
  /\ UNCHANGED <<bucket, read>>

(* Set fails and SavePeer returns its error, or the process ends first.    *)
WriteFails(c) ==
  /\ at[c] = "write"
  /\ at' = [at EXCEPT ![c] = "failed"]
  /\ UNCHANGED <<db, bucket, order, read>>

Next == \E c \in Calls : ReadBucket(c) \/ WriteBucket(c) \/ WriteFails(c)

Spec == Init /\ [][Next]_vars

-----------------------------------------------------------------------------
(* Properties.                                                             *)

KBuckets == [index : Bits, peers : Seq([hashId : IDs, rest : Calls])]

(* Every variable has its type.                                            *)
TypeOK ==
  /\ DOMAIN db \subseteq {Key(i) : i \in Bits}
  /\ \A key \in DOMAIN db : db[key] \in KBuckets
  /\ at \in [Calls -> {"new", "write", "full", "saved", "failed"}]
  /\ bucket \in [Calls -> KBuckets]
  /\ order \in Seq(Calls)
  /\ read \in [Calls -> Nat]

(* The length of the prefix two IDs share is n, counted bit by bit.        *)
SharePrefix(a, b, n) ==
  /\ \A j \in Bits : j < n => a[j] = b[j]
  /\ n \in Bits => a[n] # b[n]

(* An entry belongs where the prefix it shares with this node ends; this   *)
(* node's own ID, if it is saved, belongs in the last bucket.              *)
Belongs(id, n) ==
  \/ SharePrefix(MyID, id, n)
  \/ id = MyID /\ n = 8 * IDLength - 1

(* However calls interleave, no bucket exceeds MaxBucketSize and every     *)
(* entry is in the bucket of its distance, found by comparing bits one by  *)
(* one and not byte by byte.                                               *)
BucketsSound ==
  \A i \in Bits : Exists(db, Key(i)) =>
    LET b == Get(db, Key(i))
    IN  /\ Len(b.peers) \in 1 .. MaxBucketSize
        /\ \A n \in 1 .. Len(b.peers) : Belongs(b.peers[n].hashId, i)

(* a is nearer to t than b is, in the XOR metric.                          *)
Nearer(a, b, t) ==
  \E i \in Bits : /\ a[i] = t[i] /\ b[i] # t[i]
                  /\ \A j \in Bits : j < i => a[j] = b[j]

(* Whoever GetNearPeers names is nearer to the ID asked for than this node *)
(* is: a search that follows the answers makes progress.  The last bucket  *)
(* may hold this node's own ID.                                            *)
AnswersAreNearer ==
  \A c \in Calls : \A e \in GetNearPeers(PeerOf[c]) :
    PeerOf[c] # MyID /\ e.hashId # MyID => Nearer(e.hashId, MyID, PeerOf[c])

(* A save that returned nil is still in its bucket, unless another save of *)
(* the bucket read it before this one wrote and wrote after it: only       *)
(* overlapping saves lose one another, and nothing else removes a peer.    *)
KeptUnlessOverlapped ==
  \A m \in 1 .. Len(order) :
    \/ Entry(order[m]) \in GetNearPeers(PeerOf[order[m]])
    \/ \E n \in (m + 1) .. Len(order) :
         IndexOf(order[n]) = IndexOf(order[m]) /\ read[order[n]] < m
=============================================================================
