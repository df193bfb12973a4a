--------------------------- MODULE RoutingTableProofs --------------------------
(***************************************************************************)
(* Theorems about the routing table, for IDs of any length, any number of  *)
(* calls of SavePeer and buckets of any size.                              *)
(***************************************************************************)
EXTENDS RoutingTable, TLAPS, WellFoundedInduction, SequenceTheorems

-----------------------------------------------------------------------------
(* The index of a bucket.                                                  *)

(* A set of natural numbers that is not empty has a least element.         *)
LEMMA MinIs ==
  ASSUME NEW S \in SUBSET Nat, S # {}
  PROVE  Min(S) \in S /\ \A y \in S : Min(S) <= y
<1>1. \E x \in S : \A y \in S : ~(<<y, x>> \in OpToRel(<, Nat))
  BY NatLessThanWellFounded, WFMin
<1>2. \A x, y \in Nat : y < x => <<y, x>> \in OpToRel(<, Nat)
  BY Zenon DEF OpToRel
<1>3. \E x \in S : \A y \in S : ~(y < x)
  BY <1>1, <1>2, Zenon
<1>4. \E x \in S : \A y \in S : x <= y
  BY <1>3
<1> QED BY <1>4 DEF Min

(* The byte of a bit and its place in the byte.                            *)
LEMMA ByteOf ==
  ASSUME NEW k \in Bits
  PROVE  \E q \in 0 .. (IDLength - 1), r \in 0..7 : k = 8 * q + r
<1>1. k \in Nat /\ k < 8 * IDLength /\ IDLength \in Nat
  BY RoutingAssumption DEF Bits
<1> DEFINE ends == {q \in Nat : k < 8 * (q + 1)}
           q0 == Min(ends)
<1>2. k \in ends
  BY <1>1
<1>3. q0 \in ends /\ \A q \in ends : q0 <= q
  <2>1. ends \in SUBSET Nat
    OBVIOUS
  <2> HIDE DEF ends
  <2> QED BY <1>2, <2>1, MinIs
<1> HIDE DEF q0
<1>4. q0 \in Nat /\ k < 8 * (q0 + 1)
  BY <1>3
<1>5. 8 * q0 <= k
  <2>1. CASE q0 = 0
    BY <1>1, <2>1
  <2>2. CASE q0 # 0
    <3>1. q0 - 1 \in Nat /\ ~(q0 <= q0 - 1)
      BY <1>4, <2>2
    <3>2. ~(k < 8 * ((q0 - 1) + 1))
      BY <1>3, <3>1
    <3> QED BY <1>1, <1>4, <3>2
  <2> QED BY <2>1, <2>2
<1>6. q0 \in 0 .. (IDLength - 1) /\ k - 8 * q0 \in 0..7
  BY <1>1, <1>4, <1>5
<1>7. k = 8 * q0 + (k - 8 * q0)
  BY <1>1, <1>4
<1> QED BY <1>6, <1>7

(* Whether a bit is among the ones of the XOR of its byte.                 *)
LEMMA BitOf ==
  ASSUME NEW a, NEW b, NEW q, NEW r \in 0..7
  PROVE  r \in XorByte(a, b, q) <=> a[8 * q + r] # b[8 * q + r]
BY DEF XorByte

(* getBucketIndex, byte by byte, finds the first bit that differs; for     *)
(* equal IDs it gives the last index.                                      *)
LEMMA IndexIs ==
  ASSUME NEW a \in IDs, NEW b \in IDs
  PROVE  /\ getBucketIndex(a, b) \in Bits
         /\ a # b => SharePrefix(a, b, getBucketIndex(a, b))
         /\ a = b => getBucketIndex(a, b) = 8 * IDLength - 1
<1> DEFINE differ == {i \in 0 .. (IDLength - 1) : XorByte(a, b, i) # {}}
           n == getBucketIndex(a, b)
<1> USE RoutingAssumption
<1>1. differ \in SUBSET Nat
  OBVIOUS
<1>2. CASE differ = {}
  <2>1. n = 8 * IDLength - 1 /\ n \in Bits
    BY <1>2 DEF getBucketIndex, Bits
  <2>2. ASSUME NEW k \in Bits PROVE a[k] = b[k]
    <3>1. PICK q \in 0 .. (IDLength - 1), r \in 0..7 : k = 8 * q + r
      BY ByteOf
    <3>2. ~(r \in XorByte(a, b, q))
      BY <1>2
    <3> QED BY <3>1, <3>2, BitOf
  <2>3. a = b
    BY <2>2 DEF IDs
  <2> QED BY <2>1, <2>3
<1>3. CASE differ # {}
  <2> DEFINE i == Min(differ)
             z == Min(XorByte(a, b, i))
  <2>1. i \in differ /\ \A y \in differ : i <= y
    BY <1>1, <1>3, MinIs
  <2>2. z \in XorByte(a, b, i) /\ \A y \in XorByte(a, b, i) : z <= y
    <3>1. XorByte(a, b, i) \in SUBSET Nat
      BY DEF XorByte
    <3>2. XorByte(a, b, i) # {}
      BY <2>1
    <3> HIDE DEF i
    <3> QED BY <3>1, <3>2, MinIs
  <2>3. n = 8 * i + z
    BY <1>3 DEF getBucketIndex, LeadingZeros8
  <2> HIDE DEF i, z, n
  <2>4. i \in 0 .. (IDLength - 1) /\ z \in 0..7
    BY <2>1, <2>2 DEF XorByte
  <2>5. a[n] # b[n] /\ n \in Bits
    BY <2>2, <2>3, <2>4, BitOf DEF Bits
  <2>6. ASSUME NEW k \in Bits, k < n PROVE a[k] = b[k]
    <3>1. PICK q \in 0 .. (IDLength - 1), r \in 0..7 : k = 8 * q + r
      BY ByteOf
    <3>2. q < i \/ (q = i /\ r < z)
      BY <2>3, <2>4, <2>6, <3>1
    <3>3. ~(r \in XorByte(a, b, q))
      <4>1. CASE q < i
        <5>1. ~(q \in differ)
          BY <2>1, <2>4, <4>1
        <5> QED BY <5>1
      <4>2. CASE q = i /\ r < z
        BY <2>2, <2>4, <4>2
      <4> QED BY <3>2, <4>1, <4>2
    <3> QED BY <3>1, <3>3, BitOf
  <2>7. a # b
    BY <2>5
  <2>8. SharePrefix(a, b, n)
    BY <2>5, <2>6 DEF SharePrefix
  <2> QED BY <2>5, <2>7, <2>8 DEF n
<1> QED BY <1>2, <1>3

(* A call's peer belongs in the bucket SavePeer puts it in.                *)
LEMMA OwnBucket ==
  ASSUME NEW c \in Calls
  PROVE  IndexOf(c) \in Bits /\ Belongs(PeerOf[c], IndexOf(c))
BY IndexIs, RoutingAssumption DEF IndexOf, CalculateDistance, Belongs

-----------------------------------------------------------------------------
(* Types.                                                                  *)

Entries == [hashId : IDs, rest : Calls]

(* The peers a call finds in its bucket.                                   *)
Old(c) ==
  IF Exists(db, Key(IndexOf(c))) THEN Get(db, Key(IndexOf(c))).peers ELSE <<>>

(* What ReadBucket does, with its bucket named.                            *)
LEMMA ReadIs ==
  ASSUME NEW c \in Calls, ReadBucket(c)
  PROVE  /\ at[c] = "new"
         /\ \/ at' = [at EXCEPT ![c] = "full"] /\ UNCHANGED bucket
            \/ /\ Old(c) # <<>> => Len(Old(c)) < MaxBucketSize
               /\ at' = [at EXCEPT ![c] = "write"]
               /\ bucket' = [bucket EXCEPT ![c] =
                    [index |-> IndexOf(c), peers |-> Append(Old(c), Entry(c))]]
         /\ read' = [read EXCEPT ![c] = Len(order)]
         /\ UNCHANGED <<db, order>>
BY DEF ReadBucket, Read, Old

(* What a call finds is a sequence of entries.                             *)
LEMMA OldType ==
  ASSUME TypeOK, NEW c \in Calls
  PROVE  Old(c) \in Seq(Entries) /\ Entry(c) \in Entries
<1>1. Entry(c) \in Entries
  BY RoutingAssumption DEF Entry, Entries
<1>2. CASE Exists(db, Key(IndexOf(c)))
  BY <1>1, <1>2 DEF TypeOK, Old, Exists, Get, KBuckets, Entries
<1>3. CASE ~Exists(db, Key(IndexOf(c)))
  BY <1>1, <1>3, EmptySeq DEF Old
<1> QED BY <1>1, <1>2, <1>3

(* What WriteBucket does to storage.                                       *)
LEMMA WriteIs ==
  ASSUME NEW c \in Calls, WriteBucket(c)
  PROVE  /\ DOMAIN db' = DOMAIN db \cup {Key(IndexOf(c))}
         /\ db'[Key(IndexOf(c))] = bucket[c]
         /\ \A x \in DOMAIN db : x # Key(IndexOf(c)) => db'[x] = db[x]
<1>1. db' = Set(db, Key(IndexOf(c)), bucket[c])
  BY DEF WriteBucket
<1> QED BY <1>1 DEF Set

(* ReadBucket changes nothing of another call.                             *)
LEMMA ReadOthers ==
  ASSUME TypeOK, NEW c \in Calls, ReadBucket(c), NEW d \in Calls, d # c
  PROVE  at'[d] = at[d] /\ bucket'[d] = bucket[d] /\ read'[d] = read[d]
<1> DEFINE new == [index |-> IndexOf(c), peers |-> Append(Old(c), Entry(c))]
<1>1. /\ \/ at' = [at EXCEPT ![c] = "full"] /\ UNCHANGED bucket
         \/ /\ at' = [at EXCEPT ![c] = "write"]
            /\ bucket' = [bucket EXCEPT ![c] = new]
      /\ read' = [read EXCEPT ![c] = Len(order)]
  BY ReadIs
<1>2. at \in [Calls -> {"new", "write", "full", "saved", "failed"}]
      /\ bucket \in [Calls -> KBuckets] /\ read \in [Calls -> Nat]
  BY DEF TypeOK
<1> HIDE DEF new
<1>3. read'[d] = read[d] /\ at'[d] = at[d]
  BY <1>1, <1>2
<1>4. bucket'[d] = bucket[d]
  BY <1>1, <1>2
<1> QED BY <1>3, <1>4

(* A call that goes on to write has room, and its own entry last.          *)
LEMMA ReadOwn ==
  ASSUME TypeOK, NEW c \in Calls, ReadBucket(c), at'[c] = "write"
  PROVE  /\ bucket'[c] = [index |-> IndexOf(c),
                          peers |-> Append(Old(c), Entry(c))]
         /\ Old(c) # <<>> => Len(Old(c)) < MaxBucketSize
         /\ read'[c] = Len(order)
<1> DEFINE new == [index |-> IndexOf(c), peers |-> Append(Old(c), Entry(c))]
<1>1. /\ \/ at' = [at EXCEPT ![c] = "full"]
         \/ /\ Old(c) # <<>> => Len(Old(c)) < MaxBucketSize
            /\ bucket' = [bucket EXCEPT ![c] = new]
      /\ read' = [read EXCEPT ![c] = Len(order)]
  BY ReadIs
<1>2. at \in [Calls -> {"new", "write", "full", "saved", "failed"}]
      /\ bucket \in [Calls -> KBuckets] /\ read \in [Calls -> Nat]
  BY DEF TypeOK
<1> HIDE DEF new
<1>3. at' # [at EXCEPT ![c] = "full"]
  BY <1>2
<1>4. bucket'[c] = new /\ read'[c] = Len(order)
  BY <1>1, <1>2, <1>3
<1> QED BY <1>1, <1>3, <1>4 DEF new

(* Every step keeps the types.                                             *)
LEMMA TypeStep == ASSUME TypeOK, [Next]_vars PROVE TypeOK'
<1> USE RoutingAssumption
<1>1. ASSUME NEW c \in Calls, ReadBucket(c) PROVE TypeOK'
  <2>1. Append(Old(c), Entry(c)) \in Seq(Entries)
    BY OldType, AppendProperties
  <2>2. [index |-> IndexOf(c), peers |-> Append(Old(c), Entry(c))] \in KBuckets
    BY <2>1, OwnBucket DEF KBuckets, Entries
  <2>3. Len(order) \in Nat
    BY DEF TypeOK
  <2>4. bucket' \in [Calls -> KBuckets]
    BY <1>1, <2>2, ReadIs DEF TypeOK
  <2>5. read' \in [Calls -> Nat]
    BY <1>1, <2>3, ReadIs DEF TypeOK
  <2>6. at' \in [Calls -> {"new", "write", "full", "saved", "failed"}]
    BY <1>1, ReadIs DEF TypeOK
  <2>7. UNCHANGED <<db, order>>
    BY <1>1, ReadIs
  <2> QED BY <2>4, <2>5, <2>6, <2>7 DEF TypeOK
<1>2. ASSUME NEW c \in Calls, WriteBucket(c) PROVE TypeOK'
  <2>1. bucket[c] \in KBuckets /\ IndexOf(c) \in Bits
    BY OwnBucket DEF TypeOK
  <2>2. order' \in Seq(Calls)
    BY <1>2 DEF WriteBucket, TypeOK
  <2>3. /\ DOMAIN db' = DOMAIN db \cup {Key(IndexOf(c))}
        /\ db'[Key(IndexOf(c))] = bucket[c]
        /\ \A x \in DOMAIN db : x # Key(IndexOf(c)) => db'[x] = db[x]
    BY <1>2, WriteIs
  <2>4. DOMAIN db' \subseteq {Key(i) : i \in Bits}
    BY <2>1, <2>3 DEF TypeOK
  <2>5. \A key \in DOMAIN db' : db'[key] \in KBuckets
    BY <2>1, <2>3 DEF TypeOK
  <2> QED BY <1>2, <2>2, <2>4, <2>5 DEF WriteBucket, TypeOK
<1>3. ASSUME NEW c \in Calls, WriteFails(c) PROVE TypeOK'
  BY <1>3 DEF WriteFails, TypeOK
<1>4. CASE UNCHANGED vars
  BY <1>4 DEF vars, TypeOK
<1> QED BY <1>1, <1>2, <1>3, <1>4 DEF Next

(* The initial state has the types.                                        *)
LEMMA InitType == Init => TypeOK
<1> SUFFICES ASSUME Init PROVE TypeOK
  OBVIOUS
<1>1. DOMAIN db = {}
  BY DEF Init, Empty
<1>2. [index |-> 0, peers |-> <<>>] \in KBuckets
  BY RoutingAssumption, EmptySeq DEF KBuckets, Bits
<1> QED BY <1>1, <1>2, EmptySeq DEF Init, TypeOK

(* Every variable keeps its type.                                          *)
THEOREM TypeCorrect == Spec => []TypeOK
BY InitType, TypeStep, PTL DEF Spec

-----------------------------------------------------------------------------
(* The buckets.                                                            *)

(* A bucket of index i that is neither empty nor too long, and whose       *)
(* entries belong in it.                                                   *)
Good(b, i) ==
  /\ Len(b.peers) \in 1 .. MaxBucketSize
  /\ \A n \in 1 .. Len(b.peers) : Belongs(b.peers[n].hashId, i)

(* A call that is about to write has a bucket that may be written.         *)
Pending == \A c \in Calls : at[c] = "write" => Good(bucket[c], IndexOf(c))

BInv == TypeOK /\ BucketsSound /\ Pending

(* Keys tell indices apart.                                                *)
LEMMA KeyIs == \A i, j \in Bits : Key(i) = Key(j) => i = j
BY DEF Key

(* Every step keeps the buckets sound.                                     *)
LEMMA BucketStep == ASSUME BInv, [Next]_vars PROVE BInv'
<1>0. TypeOK'
  BY TypeStep DEF BInv
<1> USE RoutingAssumption, <1>0 DEF BInv
<1>1. ASSUME NEW c \in Calls, ReadBucket(c) PROVE BInv'
  <2> DEFINE new == [index |-> IndexOf(c), peers |-> Append(Old(c), Entry(c))]
  <2>1. Old(c) \in Seq(Entries) /\ Len(Old(c)) \in Nat
    BY OldType
  <2>2. \A n \in 1 .. Len(Old(c)) : Belongs(Old(c)[n].hashId, IndexOf(c))
    <3>1. CASE Exists(db, Key(IndexOf(c)))
      BY <3>1, OwnBucket DEF Old, BucketsSound, Get
    <3>2. CASE ~Exists(db, Key(IndexOf(c)))
      BY <3>2 DEF Old
    <3> QED BY <3>1, <3>2
  <2>3. Len(Old(c)) + 1 <= MaxBucketSize => Good(new, IndexOf(c))
    <3>1. Belongs(Entry(c).hashId, IndexOf(c))
      BY OwnBucket DEF Entry
    <3>2. /\ Len(new.peers) = Len(Old(c)) + 1
          /\ new.peers[Len(Old(c)) + 1] = Entry(c)
          /\ \A n \in 1 .. Len(Old(c)) : new.peers[n] = Old(c)[n]
      BY <2>1
    <3>3. \A n \in 1 .. Len(new.peers) : Belongs(new.peers[n].hashId, IndexOf(c))
      BY <2>1, <2>2, <3>1, <3>2
    <3> QED BY <2>1, <3>2, <3>3 DEF Good
  <2>4. (Old(c) # <<>> => Len(Old(c)) < MaxBucketSize)
          => Len(Old(c)) + 1 <= MaxBucketSize
    BY <2>1
  <2>5. BucketsSound'
    BY <1>1, ReadIs DEF BucketsSound
  <2>6. Pending'
    <3> SUFFICES ASSUME NEW d \in Calls, at'[d] = "write"
                 PROVE  Good(bucket'[d], IndexOf(d))
      BY DEF Pending, Good
    <3>1. CASE d = c
      <4>1. bucket'[c] = new /\ (Old(c) # <<>> => Len(Old(c)) < MaxBucketSize)
        BY <1>1, <3>1, ReadOwn
      <4> QED BY <2>3, <2>4, <3>1, <4>1
    <3>2. CASE d # c
      <4>1. at[d] = "write" /\ bucket'[d] = bucket[d]
        BY <1>1, <3>2, ReadOthers
      <4> QED BY <4>1 DEF Pending
    <3> QED BY <3>1, <3>2
  <2> QED BY <2>5, <2>6
<1>2. ASSUME NEW c \in Calls, WriteBucket(c) PROVE BInv'
  <2>1. Good(bucket[c], IndexOf(c)) /\ IndexOf(c) \in Bits
    BY <1>2, OwnBucket DEF WriteBucket, Pending
  <2>2. ASSUME NEW i \in Bits, Exists(db, Key(i))'
        PROVE  Good(db'[Key(i)], i)
    <3>1. CASE i = IndexOf(c)
      BY <1>2, <2>1, <3>1, WriteIs
    <3>2. CASE i # IndexOf(c)
      <4>1. Key(i) # Key(IndexOf(c))
        BY <2>1, <3>2, KeyIs
      <4>2. Key(i) \in DOMAIN db /\ db'[Key(i)] = db[Key(i)]
        BY <1>2, <2>2, <4>1, WriteIs DEF Exists
      <4> QED BY <4>2 DEF BucketsSound, Good, Get, Exists
    <3> QED BY <3>1, <3>2
  <2>3. BucketsSound'
    BY <2>2 DEF BucketsSound, Good, Get
  <2>4. Pending'
    BY <1>2 DEF WriteBucket, Pending, TypeOK
  <2> QED BY <2>3, <2>4
<1>3. ASSUME NEW c \in Calls, WriteFails(c) PROVE BInv'
  BY <1>3 DEF WriteFails, BucketsSound, Pending, TypeOK
<1>4. CASE UNCHANGED vars
  BY <1>4 DEF vars, BucketsSound, Pending
<1> QED BY <1>1, <1>2, <1>3, <1>4 DEF Next

(* The buckets are sound throughout.                                       *)
LEMMA BucketInvariant == Spec => []BInv
<1>1. Init => BInv
  <2> SUFFICES ASSUME Init PROVE BInv
    OBVIOUS
  <2>1. DOMAIN db = {}
    BY DEF Init, Empty
  <2> QED BY <2>1, InitType DEF Init, BInv, BucketsSound, Pending, Exists
<1> QED BY <1>1, BucketStep, PTL DEF Spec

(* However saves interleave, no bucket exceeds MaxBucketSize and every     *)
(* entry is in the bucket of the first bit in which it differs.            *)
THEOREM SoundBuckets == Spec => []BucketsSound
BY BucketInvariant, PTL DEF BInv

(* Two IDs that leave this node's at the same bit are nearer to each other *)
(* than this node is to either.                                            *)
LEMMA NearerIs ==
  ASSUME NEW a \in IDs, NEW t \in IDs, NEW i \in Bits,
         SharePrefix(MyID, a, i), SharePrefix(MyID, t, i)
  PROVE  Nearer(a, MyID, t)
<1>1. MyID[i] # a[i] /\ MyID[i] # t[i]
  BY DEF SharePrefix
<1>2. a[i] = t[i]
  BY <1>1, RoutingAssumption DEF IDs
<1>3. \A j \in Bits : j < i => a[j] = MyID[j]
  BY DEF SharePrefix
<1> QED BY <1>1, <1>2, <1>3 DEF Nearer

(* Whoever GetNearPeers names is nearer to the ID asked for.               *)
LEMMA NearBuckets == BInv => AnswersAreNearer
<1> SUFFICES ASSUME BInv, NEW c \in Calls, NEW e \in GetNearPeers(PeerOf[c]),
                    PeerOf[c] # MyID, e.hashId # MyID
             PROVE  Nearer(e.hashId, MyID, PeerOf[c])
  BY DEF AnswersAreNearer
<1> DEFINE i == IndexOf(c)
           b == db[Key(i)]
<1> USE RoutingAssumption
<1>1. i \in Bits /\ SharePrefix(MyID, PeerOf[c], i)
  BY IndexIs DEF IndexOf, CalculateDistance
<1>2. Exists(db, Key(i)) /\ \E n \in 1 .. Len(b.peers) : e = b.peers[n]
  BY DEF GetNearPeers, IndexOf, Get
<1>3. PICK n \in 1 .. Len(b.peers) : e = b.peers[n]
  BY <1>2
<1>4. Belongs(e.hashId, i)
  BY <1>1, <1>2, <1>3 DEF BInv, BucketsSound, Get
<1>5. e \in Entries
  <2>1. b.peers \in Seq(Entries)
    BY <1>2 DEF BInv, TypeOK, KBuckets, Entries, Exists
  <2> HIDE DEF b
  <2> QED BY <1>3, <2>1
<1>6. SharePrefix(MyID, e.hashId, i) /\ e.hashId \in IDs
  BY <1>4, <1>5 DEF Belongs, Entries
<1> QED BY <1>1, <1>6, NearerIs

(* A search that follows the answers of GetNearPeers makes progress.       *)
THEOREM SearchProgress == Spec => []AnswersAreNearer
BY BucketInvariant, NearBuckets, PTL

-----------------------------------------------------------------------------
(* What saves lose.                                                        *)

Holds(s, e) == \E i \in 1 .. Len(s) : s[i] = e

(* A later save of the bucket had read it before save m wrote.             *)
Overlap(m) ==
  \E n \in (m + 1) .. Len(order) :
    IndexOf(order[n]) = IndexOf(order[m]) /\ read[order[n]] < m

(* The calls that have written are over.                                   *)
Past == \A n \in 1 .. Len(order) : at[order[n]] = "saved"

(* A call about to write has read what was there, adds its own entry, and  *)
(* loses only what was written since or was lost before.                   *)
Carried ==
  \A c \in Calls : at[c] = "write" =>
    /\ read[c] \in 0 .. Len(order)
    /\ Holds(bucket[c].peers, Entry(c))
    /\ \A m \in 1 .. read[c] : IndexOf(order[m]) = IndexOf(c) =>
         Holds(bucket[c].peers, Entry(order[m])) \/ Overlap(m)

(* KeptUnlessOverlapped, by key.                                           *)
Kept ==
  \A m \in 1 .. Len(order) :
    \/ /\ Key(IndexOf(order[m])) \in DOMAIN db
       /\ Holds(db[Key(IndexOf(order[m]))].peers, Entry(order[m]))
    \/ Overlap(m)

KInv == TypeOK /\ Past /\ Carried /\ Kept

(* The two ways of saying it agree.                                        *)
LEMMA KeptIs == ASSUME TypeOK, Kept PROVE KeptUnlessOverlapped
<1> SUFFICES ASSUME NEW m \in 1 .. Len(order), ~Overlap(m)
             PROVE  Entry(order[m]) \in GetNearPeers(PeerOf[order[m]])
  BY DEF KeptUnlessOverlapped, Overlap
<1> DEFINE k == Key(IndexOf(order[m]))
<1>1. k \in DOMAIN db /\ Holds(db[k].peers, Entry(order[m]))
  BY DEF Kept
<1>2. k = Key(CalculateDistance(PeerOf[order[m]]))
  BY DEF IndexOf
<1> HIDE DEF k
<1> QED BY <1>1, <1>2 DEF GetNearPeers, Holds, Exists, Get

(* Every step keeps the invariant.                                         *)
LEMMA KeepStep == ASSUME KInv, [Next]_vars PROVE KInv'
<1>0. TypeOK' /\ TypeOK
  BY TypeStep DEF KInv
<1>00. order \in Seq(Calls) /\ Len(order) \in Nat
  BY <1>0 DEF TypeOK
<1>000. \A n \in 1 .. Len(order) : order[n] \in Calls
  BY <1>00
<1> USE <1>0, <1>00, <1>000 DEF KInv
<1>1. ASSUME NEW c \in Calls, ReadBucket(c) PROVE KInv'
  <2>1. \A n \in 1 .. Len(order) :
          order[n] # c /\ at'[order[n]] = at[order[n]] /\ read'[order[n]] = read[order[n]]
    BY <1>1, ReadIs, ReadOthers DEF Past
  <2>2. UNCHANGED <<db, order>>
    BY <1>1, ReadIs
  <2>3. \A m \in 1 .. Len(order) : Overlap(m)' <=> Overlap(m)
    BY <2>1, <2>2 DEF Overlap
  <2>4. Past'
    BY <2>1, <2>2 DEF Past
  <2>5. Kept'
    BY <2>2, <2>3 DEF Kept
  <2>6. Carried'
    <3> SUFFICES ASSUME NEW d \in Calls, at'[d] = "write"
                 PROVE  /\ read'[d] \in 0 .. Len(order)
                        /\ Holds(bucket'[d].peers, Entry(d))
                        /\ \A m \in 1 .. read'[d] :
                             IndexOf(order[m]) = IndexOf(d) =>
                               \/ Holds(bucket'[d].peers, Entry(order[m]))
                               \/ Overlap(m)'
      BY <2>2 DEF Carried, Holds
    <3>1. CASE d = c
      <4>0. /\ bucket'[c] = [index |-> IndexOf(c), peers |-> Append(Old(c), Entry(c))]
            /\ read'[c] = Len(order)
        BY <1>1, <3>1, ReadOwn
      <4>1. bucket'[c].peers = Append(Old(c), Entry(c)) /\ read'[c] = Len(order)
        BY <4>0
      <4>2. Old(c) \in Seq(Entries)
        BY OldType
      <4>3. Holds(bucket'[c].peers, Entry(c))
        BY <4>1, <4>2 DEF Holds
      <4>4. \A e : Holds(Old(c), e) => Holds(bucket'[c].peers, e)
        BY <4>1, <4>2 DEF Holds
      <4>5. ASSUME NEW m \in 1 .. Len(order), IndexOf(order[m]) = IndexOf(c)
            PROVE  Holds(Old(c), Entry(order[m])) \/ Overlap(m)
        BY <4>5 DEF Kept, Old, Exists, Get
      <4> QED BY <2>3, <3>1, <4>1, <4>3, <4>4, <4>5
    <3>2. CASE d # c
      <4>1. at[d] = "write" /\ bucket'[d] = bucket[d] /\ read'[d] = read[d]
        BY <1>1, <3>2, ReadOthers
      <4> QED BY <2>3, <4>1 DEF Carried
    <3> QED BY <3>1, <3>2
  <2> QED BY <2>4, <2>5, <2>6
<1>2. ASSUME NEW c \in Calls, WriteBucket(c) PROVE KInv'
  <2> DEFINE L == Len(order) + 1
  <2>1. /\ at[c] = "write" /\ at' = [at EXCEPT ![c] = "saved"]
        /\ order' = Append(order, c) /\ UNCHANGED <<bucket, read>>
    BY <1>2 DEF WriteBucket
  <2>2. /\ Len(order') = L /\ order'[L] = c
        /\ \A n \in 1 .. Len(order) : order'[n] = order[n]
    BY <2>1
  <2>3. \A n \in 1 .. Len(order) : Overlap(n) => Overlap(n)'
    BY <2>1, <2>2 DEF Overlap
  <2>4. Past'
    BY <2>1, <2>2 DEF Past, TypeOK
  <2>5. Carried'
    BY <2>1, <2>2, <2>3 DEF Carried, TypeOK
  <2>6. ASSUME NEW m \in 1 .. L
        PROVE  \/ /\ Key(IndexOf(order'[m])) \in DOMAIN db'
                  /\ Holds(db'[Key(IndexOf(order'[m]))].peers, Entry(order'[m]))
               \/ Overlap(m)'
    <3>1. CASE m = L
      BY <1>2, <2>1, <2>2, <3>1, WriteIs DEF Carried
    <3>2. CASE m # L /\ IndexOf(order[m]) # IndexOf(c)
      <4>1. Key(IndexOf(order[m])) # Key(IndexOf(c))
        BY <3>2, KeyIs, OwnBucket
      <4>2. m \in 1 .. Len(order) /\ order'[m] = order[m]
        <5>1. m \in 1 .. Len(order)
          BY <3>2
        <5> QED BY <2>2, <5>1
      <4>3. /\ DOMAIN db \subseteq DOMAIN db'
            /\ \A x \in DOMAIN db : x # Key(IndexOf(c)) => db'[x] = db[x]
        BY <1>2, WriteIs
      <4>4. \/ /\ Key(IndexOf(order[m])) \in DOMAIN db
               /\ Holds(db[Key(IndexOf(order[m]))].peers, Entry(order[m]))
            \/ Overlap(m)
        BY <4>2 DEF Kept
      <4> QED BY <2>3, <4>1, <4>2, <4>3, <4>4
    <3>3. CASE m # L /\ IndexOf(order[m]) = IndexOf(c) /\ m <= read[c]
      <4>1. m \in 1 .. Len(order) /\ m \in 1 .. read[c] /\ order'[m] = order[m]
        <5>1. m \in 1 .. Len(order)
          BY <3>3
        <5>2. read[c] \in Nat
          BY DEF TypeOK
        <5> QED BY <2>2, <3>3, <5>1, <5>2
      <4>2. Key(IndexOf(c)) \in DOMAIN db' /\ db'[Key(IndexOf(c))] = bucket[c]
        BY <1>2, WriteIs
      <4>3. Holds(bucket[c].peers, Entry(order[m])) \/ Overlap(m)
        BY <2>1, <3>3, <4>1 DEF Carried
      <4> QED BY <2>3, <3>3, <4>1, <4>2, <4>3
    <3>4. CASE m # L /\ IndexOf(order[m]) = IndexOf(c) /\ ~(m <= read[c])
      <4>1. read[c] \in Nat /\ read'[c] < m /\ L \in (m + 1) .. L
        BY <2>1, <3>4 DEF TypeOK
      <4> QED BY <2>1, <2>2, <3>4, <4>1 DEF Overlap
    <3> QED BY <3>1, <3>2, <3>3, <3>4
  <2>7. Kept'
    BY <2>2, <2>6 DEF Kept, Holds
  <2> QED BY <2>4, <2>5, <2>7
<1>3. ASSUME NEW c \in Calls, WriteFails(c) PROVE KInv'
  <2>1. \A m \in 1 .. Len(order) : Overlap(m)' <=> Overlap(m)
    BY <1>3 DEF WriteFails, Overlap
  <2> QED BY <1>3, <2>1 DEF WriteFails, Past, Carried, Kept, TypeOK
<1>4. CASE UNCHANGED vars
  <2>1. \A m \in 1 .. Len(order) : Overlap(m)' <=> Overlap(m)
    BY <1>4 DEF vars, Overlap
  <2> QED BY <1>4, <2>1 DEF vars, Past, Carried, Kept
<1> QED BY <1>1, <1>2, <1>3, <1>4 DEF Next

(* A peer that was saved is lost only to a save that overlapped it: calls  *)
(* of SavePeer that follow one another lose nothing.                       *)
THEOREM OnlyOverlapLoses == Spec => []KeptUnlessOverlapped
<1>1. Init => KInv
  BY InitType DEF Init, KInv, Past, Carried, Kept
<1>2. KInv => KeptUnlessOverlapped
  BY KeptIs DEF KInv
<1> QED BY <1>1, <1>2, KeepStep, PTL DEF Spec
=============================================================================
