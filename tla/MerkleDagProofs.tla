---------------------------- MODULE MerkleDagProofs ----------------------------
(***************************************************************************)
(* Theorems about MerkleDag, for chunks of every size, any files and any   *)
(* number of callers.                                                      *)
(***************************************************************************)
EXTENDS MerkleDag, TLAPS, SequenceTheorems, WellFoundedInduction

-----------------------------------------------------------------------------
(* Chunks.                                                                 *)

(* A chunk that is counted begins within the file.                         *)
LEMMA Begins ==
  ASSUME NEW C \in Nat \ {0}, NEW len \in Nat, NEW n \in Nat,
         n < (len + C - 1) \div C
  PROVE  n * C \in Nat /\ (n + 1) * C = n * C + C /\ n * C < len
<1> DEFINE q == (len + C - 1) \div C
<1>1. q \in Int /\ C * q <= len + C - 1
  OBVIOUS
<1> HIDE DEF q
<1>2. n + 1 <= q
  BY <1>1 DEF q
<1>3. C * (n + 1) <= C * q
  BY <1>1, <1>2
<1> QED BY <1>1, <1>3

(* The number of chunks is a number.                                       *)
LEMMA CountIs == ASSUME NEW f \in Files PROVE ChunkCount(f) \in Int
<1>1. Len(f) \in Nat
  BY MerkleAssumption
<1> QED BY <1>1, MerkleAssumption DEF ChunkCount

(* Where a chunk that is counted begins and ends.                          *)
LEMMA ChunkEnds ==
  ASSUME NEW f \in Files, NEW i \in Nat \ {0}, i <= ChunkCount(f),
         NEW a, a = (i - 1) * ChunkSize
  PROVE  /\ a \in Nat /\ i * ChunkSize = a + ChunkSize /\ a < Len(f)
         /\ EndOf(f, i) \in a + 1 .. a + ChunkSize /\ EndOf(f, i) <= Len(f)
<1>1. Len(f) \in Nat
  BY MerkleAssumption
<1>2. a \in Nat /\ i * ChunkSize = a + ChunkSize /\ a < Len(f)
  <2>1. i - 1 \in Nat /\ i - 1 < ChunkCount(f) /\ (i - 1) + 1 = i
    BY <1>1, MerkleAssumption DEF ChunkCount
  <2> QED BY <1>1, <2>1, Begins, MerkleAssumption DEF ChunkCount
<1> QED BY <1>1, <1>2, MerkleAssumption DEF EndOf

(* Each chunk that is counted has something in it, and no more than fits.  *)
LEMMA ChunkIs ==
  ASSUME NEW f \in Files, NEW i \in Nat \ {0}, i <= ChunkCount(f)
  PROVE  Len(Chunk(f, i)) \in 1 .. ChunkSize
<1> DEFINE a == (i - 1) * ChunkSize
           e == EndOf(f, i)
<1>1. f \in Seq({f[j] : j \in DOMAIN f}) /\ Len(f) \in Nat
  BY MerkleAssumption
<1>2. a \in Nat /\ e \in a + 1 .. a + ChunkSize /\ e <= Len(f)
  BY ChunkEnds
<1>3. Chunk(f, i) = SubSeq(f, a + 1, e)
  BY DEF Chunk
<1> HIDE DEF a, e
<1>4. Len(SubSeq(f, a + 1, e)) = e - a
  BY <1>1, <1>2, SubSeqProperties
<1> QED BY <1>2, <1>3, <1>4, MerkleAssumption

(* A file that is longer than a chunk has chunks.                          *)
LEMMA SomeChunk ==
  ASSUME NEW C \in Nat \ {0}, NEW x \in Nat, x >= C PROVE 0 < x \div C
<1> DEFINE q == x \div C
<1>1. q \in Int /\ x < C * q + C
  OBVIOUS
<1> HIDE DEF q
<1>2. q <= 0 => C * q <= 0
  BY <1>1
<1>3. 0 < q
  BY <1>1, <1>2
<1> QED BY <1>3 DEF q

-----------------------------------------------------------------------------
(* A file is its chunks, one after another.                                *)

(* A set of numbers that is not empty has a least one.                     *)
LEMMA LeastIs ==
  ASSUME NEW S \in SUBSET Nat, S # {}
  PROVE  \E x \in S : \A y \in S : x <= y
<1>1. \E x \in S : \A y \in S : ~(<<y, x>> \in OpToRel(<, Nat))
  BY NatLessThanWellFounded, WFMin
<1>2. \A x, y \in Nat : y < x => <<y, x>> \in OpToRel(<, Nat)
  BY Zenon DEF OpToRel
<1>3. \E x \in S : \A y \in S : ~(y < x)
  BY <1>1, <1>2, Zenon
<1> QED BY <1>3

(* g[i] is the first i of the sequences put together.                      *)
Accumulates(g, seqs, n) ==
  g = [i \in 1 .. n |-> IF i = 1 THEN seqs[i] ELSE g[i - 1] \o seqs[i]]

(* FlattenSeq ends where every such g ends: the least *)
(* place where the two differed would not be the first, and not a later    *)
(* one.                                                                    *)
LEMMA Flattened ==
  ASSUME NEW seqs, NEW n \in Nat \ {0}, Len(seqs) = n,
         NEW g, Accumulates(g, seqs, n)
  PROVE  FlattenSeq(seqs) = g[n]
<1> DEFINE h == CHOOSE z : Accumulates(z, seqs, Len(seqs))
<1>1. Accumulates(h, seqs, n)
  BY Zenon
<1>2. FlattenSeq(seqs) = h[n]
  BY DEF FlattenSeq, Accumulates
<1> HIDE DEF h
<1>3. \A i \in 1 .. n :
        h[i] = IF i = 1 THEN seqs[i] ELSE h[i - 1] \o seqs[i]
  BY <1>1 DEF Accumulates
<1>4. \A i \in 1 .. n :
        g[i] = IF i = 1 THEN seqs[i] ELSE g[i - 1] \o seqs[i]
  BY DEF Accumulates
<1> DEFINE differ == {i \in 1 .. n : h[i] # g[i]}
<1>5. differ = {}
  <2> SUFFICES ASSUME differ # {} PROVE FALSE
    OBVIOUS
  <2>1. differ \in SUBSET Nat
    OBVIOUS
  <2>2. PICK x \in differ : \A y \in differ : x <= y
    <3> HIDE DEF differ
    <3> QED BY <2>1, LeastIs
  <2>3. x \in 1 .. n /\ h[x] # g[x]
    OBVIOUS
  <2>4. x # 1
    BY <1>3, <1>4, <2>3
  <2>5. x - 1 \in 1 .. n /\ ~(x <= x - 1)
    BY <2>3, <2>4
  <2>6. h[x - 1] = g[x - 1]
    BY <2>2, <2>5
  <2> QED BY <1>3, <1>4, <2>3, <2>4, <2>6
<1>6. n \in 1 .. n
  OBVIOUS
<1> QED BY <1>2, <1>5, <1>6

(* Two stretches of a sequence, one where the other ends, are one stretch. *)
LEMMA Joined ==
  ASSUME NEW S, NEW f \in Seq(S), NEW a \in Nat, NEW b \in Nat,
         a <= b, b <= Len(f)
  PROVE  SubSeq(f, 1, a) \o SubSeq(f, a + 1, b) = SubSeq(f, 1, b)
<1> DEFINE s == SubSeq(f, 1, a)
           t == SubSeq(f, a + 1, b)
           u == SubSeq(f, 1, b)
<1>0. \A i \in 1 .. b : f[i] \in S
  BY ElementOfSeq
<1>1. s \in Seq(S) /\ Len(s) = a /\ \A i \in 1 .. a : s[i] = f[i]
  <2>1. \A i \in 1 .. a : f[i] \in S
    BY <1>0
  <2>2. /\ s \in Seq(S) /\ Len(s) = IF 1 <= a THEN a - 1 + 1 ELSE 0
        /\ \A i \in 1 .. a - 1 + 1 : s[i] = f[1 + i - 1]
    BY <2>1, SubSeqProperties
  <2> HIDE DEF s
  <2> QED BY <2>2
<1>2. t \in Seq(S) /\ Len(t) = b - a /\ \A i \in 1 .. b - a : t[i] = f[a + i]
  <2>1. \A i \in a + 1 .. b : f[i] \in S
    BY <1>0
  <2>2. /\ t \in Seq(S) /\ Len(t) = IF a + 1 <= b THEN b - (a + 1) + 1 ELSE 0
        /\ \A i \in 1 .. b - (a + 1) + 1 : t[i] = f[(a + 1) + i - 1]
    BY <2>1, SubSeqProperties
  <2> HIDE DEF t
  <2>3. b - (a + 1) + 1 = b - a /\ \A i \in 1 .. b - a : (a + 1) + i - 1 = a + i
    OBVIOUS
  <2> QED BY <2>2, <2>3
<1>3. u \in Seq(S) /\ Len(u) = b /\ \A i \in 1 .. b : u[i] = f[i]
  <2>2. /\ u \in Seq(S) /\ Len(u) = IF 1 <= b THEN b - 1 + 1 ELSE 0
        /\ \A i \in 1 .. b - 1 + 1 : u[i] = f[1 + i - 1]
    BY <1>0, SubSeqProperties
  <2> HIDE DEF u
  <2> QED BY <2>2
<1> HIDE DEF s, t, u
<1>4. /\ s \o t \in Seq(S) /\ Len(s \o t) = b
      /\ \A i \in 1 .. b : (s \o t)[i] = IF i <= a THEN s[i] ELSE t[i - a]
  <2>1. /\ s \o t \in Seq(S) /\ Len(s \o t) = Len(s) + Len(t)
        /\ \A i \in 1 .. Len(s) + Len(t) :
             (s \o t)[i] = IF i <= Len(s) THEN s[i] ELSE t[i - Len(s)]
    BY <1>1, <1>2, ConcatProperties
  <2>2. Len(s) + Len(t) = b
    BY <1>1, <1>2
  <2> QED BY <1>1, <2>1, <2>2
<1>5. ASSUME NEW i \in 1 .. b PROVE (s \o t)[i] = u[i]
  <2>1. CASE i <= a
    BY <1>1, <1>3, <1>4, <2>1
  <2>2. CASE ~(i <= a)
    <3>1. i - a \in 1 .. b - a /\ a + (i - a) = i
      BY <2>2
    <3> QED BY <1>2, <1>3, <1>4, <2>2, <3>1
  <2> QED BY <2>1, <2>2
<1>6. s \o t = u
  BY <1>3, <1>4, <1>5, SeqEqual
<1> QED BY <1>6 DEF s, t, u

(* The last chunk ends with the file.                                      *)
LEMMA Ends ==
  ASSUME NEW C \in Nat \ {0}, NEW len \in Nat
  PROVE  len <= ((len + C - 1) \div C) * C
<1> DEFINE q == (len + C - 1) \div C
<1>1. q \in Int /\ len + C - 1 < C * q + C
  OBVIOUS
<1> HIDE DEF q
<1>2. C * q = q * C /\ q * C \in Int
  BY <1>1
<1>3. len <= q * C
  BY <1>1, <1>2
<1> QED BY <1>3 DEF q

(* A file longer than a chunk is what FlattenSeq makes of its chunks.      *)
LEMMA WholeFile ==
  ASSUME NEW f \in Files, ~(Len(f) <= ChunkSize)
  PROVE  /\ ChunkCount(f) \in Nat \ {0}
         /\ FlattenSeq([i \in 1 .. ChunkCount(f) |-> Chunk(f, i)]) = f
<1> DEFINE n    == ChunkCount(f)
           S    == {f[j] : j \in DOMAIN f}
           seqs == [i \in 1 .. n |-> Chunk(f, i)]
           g    == [i \in 1 .. n |-> SubSeq(f, 1, EndOf(f, i))]
<1>1. f \in Seq(S) /\ Len(f) \in Nat /\ ChunkSize \in Nat \ {0}
  BY MerkleAssumption
<1>2. n \in Nat \ {0}
  <2>1. 0 < ChunkCount(f)
    BY <1>1, SomeChunk DEF ChunkCount
  <2> QED BY <2>1, CountIs
<1> HIDE DEF S, n
<1>3. ASSUME NEW i \in 1 .. n
      PROVE  g[i] = IF i = 1 THEN seqs[i] ELSE g[i - 1] \o seqs[i]
  <2> DEFINE a == (i - 1) * ChunkSize
             e == EndOf(f, i)
  <2>1. i \in Nat \ {0} /\ i <= ChunkCount(f)
    BY <1>2 DEF n
  <2>2. /\ a \in Nat /\ a < Len(f)
        /\ e \in a + 1 .. a + ChunkSize /\ e <= Len(f)
    BY <2>1, ChunkEnds
  <2>3. g[i] = SubSeq(f, 1, e) /\ seqs[i] = SubSeq(f, a + 1, e)
    BY DEF Chunk
  <2>4. CASE i = 1
    <3>1. a = 0
      BY <1>1, <2>4
    <3>2. a + 1 = 1
      BY <3>1
    <3> QED BY <2>3, <2>4, <3>2
  <2>5. CASE i # 1
    <3>1. i - 1 \in 1 .. n
      BY <1>2, <2>5
    <3>2. EndOf(f, i - 1) = a
      BY <1>1, <2>2 DEF EndOf
    <3>3. g[i - 1] = SubSeq(f, 1, a)
      BY <3>1, <3>2
    <3>4. e \in Nat /\ a <= e
      BY <1>1, <2>2
    <3> HIDE DEF a, e, g, seqs
    <3>5. SubSeq(f, 1, a) \o SubSeq(f, a + 1, e) = SubSeq(f, 1, e)
      BY <1>1, <2>2, <3>4, Joined
    <3> QED BY <2>3, <2>5, <3>3, <3>5
  <2> QED BY <2>4, <2>5
<1>4. Accumulates(g, seqs, n)
  BY <1>3 DEF Accumulates
<1>5. Len(seqs) = n
  BY <1>2
<1>6. g[n] = SubSeq(f, 1, EndOf(f, n))
  <2>1. n \in 1 .. n
    BY <1>2
  <2> QED BY <2>1
<1>7. FlattenSeq(seqs) = g[n]
  <2> HIDE DEF g, seqs
  <2> QED BY <1>2, <1>4, <1>5, Flattened
<1>8. EndOf(f, n) = Len(f)
  <2>1. Len(f) <= n * ChunkSize
    BY <1>1, Ends DEF n, ChunkCount
  <2> QED BY <1>1, <1>2, <2>1 DEF EndOf
<1>9. SubSeq(f, 1, Len(f)) = f
  BY <1>1, SubSeqFull
<1> QED BY <1>2, <1>6, <1>7, <1>8, <1>9 DEF n

-----------------------------------------------------------------------------
(* The inductive invariant.                                                *)

(* A key under which storage has a chunk with something in it.             *)
GoodChunk(k, st) ==
  /\ k \in DOMAIN st
  /\ Unmarshal(st[k]).type = "FILE_CHUNK"
  /\ Len(Unmarshal(st[k]).data) \in 1 .. ChunkSize

(* A call that saves chunks is not at the end of its file, and every key   *)
(* it has collected is that of a good chunk.                               *)
Collected ==
  \A c \in Calls :
    /\ call[c].at = "chunks" =>
         call[c].file \in Files /\ Len(call[c].keys) < ChunkCount(call[c].file)
    /\ \A i \in 1 .. Len(call[c].keys) : GoodChunk(call[c].keys[i], db)

IInv == TypeOK /\ Collected /\ NoDanglingLinks

(* To save bytes under their hash changes nothing that is stored.          *)
LEMMA Grows ==
  ASSUME TypeOK, NEW bytes, db' = Set(db, KeyOf(bytes), bytes)
  PROVE  /\ DOMAIN db' = DOMAIN db \cup {KeyOf(bytes)}
         /\ db'[KeyOf(bytes)] = bytes
         /\ \A k \in DOMAIN db : db'[k] = db[k]
         /\ \A k \in DOMAIN db' : k = Sha256(db'[k])
         /\ \A k : GoodChunk(k, db) => GoodChunk(k, db')
<1>1. /\ DOMAIN db' = DOMAIN db \cup {KeyOf(bytes)}
      /\ db'[KeyOf(bytes)] = bytes
      /\ \A k \in DOMAIN db : k # KeyOf(bytes) => db'[k] = db[k]
  BY DEF Set
<1>2. \A k \in DOMAIN db : k = KeyOf(bytes) => db[k] = bytes
  BY DEF TypeOK, KeyOf, Sha256
<1>3. \A k \in DOMAIN db : db'[k] = db[k]
  BY <1>1, <1>2
<1>4. \A k \in DOMAIN db' : k = Sha256(db'[k])
  BY <1>1, <1>3 DEF TypeOK, KeyOf
<1>5. \A k : GoodChunk(k, db) => GoodChunk(k, db')
  BY <1>1, <1>3 DEF GoodChunk
<1> QED BY <1>1, <1>3, <1>4, <1>5

(* A node whose links are good chunks may be saved.                        *)
LEMMA Links ==
  ASSUME IInv, NEW node, db' = Set(db, KeyOf(Marshal(node)), Marshal(node)),
         \A i \in 1 .. Len(node.links) : GoodChunk(node.links[i], db)
  PROVE  NoDanglingLinks'
<1> DEFINE bytes == Marshal(node)
<1>1. /\ DOMAIN db' = DOMAIN db \cup {KeyOf(bytes)}
      /\ db'[KeyOf(bytes)] = bytes
      /\ \A k \in DOMAIN db : db'[k] = db[k]
      /\ \A k : GoodChunk(k, db) => GoodChunk(k, db')
  BY Grows DEF IInv
<1>2. Unmarshal(bytes) = node
  BY DEF Marshal, Unmarshal
<1> SUFFICES ASSUME NEW k \in DOMAIN db',
                    NEW i \in 1 .. Len(Unmarshal(db'[k]).links)
             PROVE  GoodChunk(Unmarshal(db'[k]).links[i], db')
  BY DEF NoDanglingLinks, GoodChunk, Exists, Get
<1> HIDE DEF bytes
<1>3. CASE k \in DOMAIN db
  <2>1. GoodChunk(Unmarshal(db[k]).links[i], db)
    BY <1>1, <1>3 DEF IInv, NoDanglingLinks, GoodChunk, Exists, Get
  <2> QED BY <1>1, <1>3, <2>1 DEF GoodChunk
<1>4. CASE k = KeyOf(bytes)
  <2>1. GoodChunk(node.links[i], db)
    BY <1>1, <1>2, <1>4
  <2> QED BY <1>1, <1>2, <1>4, <2>1 DEF GoodChunk
<1> QED BY <1>1, <1>3, <1>4

(* Sequences of keys stay sequences of keys.                               *)
LEMMA KeysStay ==
  ASSUME NEW S, NEW T, S \subseteq T PROVE Seq(S) \subseteq Seq(T)
OBVIOUS

(* What holds of one call.                                                 *)
CallOK(d) ==
  /\ call[d] \in [at   : {"idle", "chunks", "meta"},
                  file : Files \cup {<<>>},
                  keys : Seq(DOMAIN db)]
  /\ call[d].at = "chunks" =>
       call[d].file \in Files /\ Len(call[d].keys) < ChunkCount(call[d].file)
  /\ \A i \in 1 .. Len(call[d].keys) : GoodChunk(call[d].keys[i], db)

(* What holds of a call still does when storage has grown.                 *)
LEMMA CallStays ==
  ASSUME NEW d \in Calls, CallOK(d), call'[d] = call[d],
         DOMAIN db \subseteq DOMAIN db', \A k : GoodChunk(k, db) => GoodChunk(k, db')
  PROVE  CallOK(d)'
<1>1. Seq(DOMAIN db) \subseteq Seq(DOMAIN db')
  BY KeysStay
<1>2. \A i \in 1 .. Len(call'[d].keys) : GoodChunk(call'[d].keys[i], db')
  BY DEF CallOK
<1>3. call'[d] \in [at   : {"idle", "chunks", "meta"},
                    file : Files \cup {<<>>},
                    keys : Seq(DOMAIN db')]
  BY <1>1 DEF CallOK
<1> QED BY <1>2, <1>3 DEF CallOK

(* An idle call has nothing to show.                                       *)
LEMMA IdleOK ==
  ASSUME NEW d \in Calls, call'[d] = Idle PROVE CallOK(d)'
BY DEF CallOK, Idle

(* The calls, taken together.                                              *)
LEMMA Together ==
  /\ IInv => \A d \in Calls : CallOK(d)
  /\ IInv => call = [d \in Calls |-> call[d]]
BY DEF IInv, TypeOK, Collected, CallOK

LEMMA Assembled ==
  ASSUME call' = [d \in Calls |-> call'[d]], \A d \in Calls : CallOK(d)',
         \A k \in DOMAIN db' : k = Sha256(db'[k]), saves' \in 0 .. MaxSaves,
         NoDanglingLinks'
  PROVE  IInv'
<1>1. call' \in [Calls -> [at   : {"idle", "chunks", "meta"},
                           file : Files \cup {<<>>},
                           keys : Seq(DOMAIN db')]]
  BY DEF CallOK
<1>2. Collected'
  BY DEF Collected, CallOK
<1> QED BY <1>1, <1>2 DEF IInv, TypeOK

(* A step that leaves storage alone keeps the invariant if it does so for  *)
(* each call.                                                              *)
LEMMA SameStorage ==
  ASSUME IInv, UNCHANGED db, saves' \in 0 .. MaxSaves,
         call' = [d \in Calls |-> call'[d]], \A d \in Calls : CallOK(d)'
  PROVE  IInv'
<1>1. NoDanglingLinks'
  BY DEF IInv, NoDanglingLinks
<1>2. \A k \in DOMAIN db' : k = Sha256(db'[k])
  BY DEF IInv, TypeOK
<1> QED BY <1>1, <1>2, Assembled

(* Every step keeps the invariant.                                         *)
LEMMA Step == ASSUME IInv, [Next]_vars PROVE IInv'
<1> USE MerkleAssumption
<1>0. /\ TypeOK /\ \A d \in Calls : CallOK(d)
      /\ call = [d \in Calls |-> call[d]] /\ saves \in 0 .. MaxSaves
  BY Together DEF IInv, TypeOK
<1>00. UNCHANGED db => \A k : GoodChunk(k, db) => GoodChunk(k, db')
  BY DEF GoodChunk
<1>1. ASSUME NEW c \in Calls, NEW f \in Files, SaveFile(c, f) PROVE IInv'
  <2>1. UNCHANGED db /\ saves' \in 0 .. MaxSaves
    BY <1>0, <1>1 DEF SaveFile
  <2>2. call' = [call EXCEPT ![c] =
          [at |-> IF Len(f) <= ChunkSize THEN "meta" ELSE "chunks",
           file |-> f, keys |-> <<>>]]
    BY <1>1 DEF SaveFile
  <2>3. Len(f) \in Nat
    BY MerkleAssumption
  <2>4. ~(Len(f) <= ChunkSize) => 0 < ChunkCount(f)
    BY <2>3, SomeChunk DEF ChunkCount
  <2>5. CallOK(c)'
    <3>1. call'[c] = [at |-> IF Len(f) <= ChunkSize THEN "meta" ELSE "chunks",
                      file |-> f, keys |-> <<>>]
      BY <1>0, <2>2
    <3> QED BY <2>4, <3>1 DEF CallOK
  <2>6. ASSUME NEW d \in Calls, d # c PROVE CallOK(d)'
    BY <1>0, <1>00, <2>1, <2>2, <2>6, CallStays
  <2>7. call' = [d \in Calls |-> call'[d]]
    BY <1>0, <2>2
  <2> QED BY <2>1, <2>5, <2>6, <2>7, SameStorage
<1>2. ASSUME NEW c \in Calls, NEW f \in Files, SaveFileExists(c, f) PROVE IInv'
  <2>1. UNCHANGED <<db, call>> /\ saves' \in 0 .. MaxSaves
    BY <1>0, <1>2 DEF SaveFileExists
  <2>2. \A d \in Calls : CallOK(d)'
    BY <1>0, <1>00, <2>1, CallStays
  <2> QED BY <1>0, <2>1, <2>2, SameStorage
<1>3. ASSUME NEW c \in Calls, SaveChunk(c) PROVE IInv'
  <2> DEFINE n     == Len(call[c].keys)
             node  == FileChunk(Chunk(call[c].file, n + 1))
             bytes == Marshal(node)
             keys  == Append(call[c].keys, KeyOf(bytes))
  <2>1. /\ call[c].at = "chunks" /\ UNCHANGED saves
        /\ db' = Set(db, KeyOf(bytes), bytes)
        /\ call' = [call EXCEPT ![c].keys = keys,
             ![c].at = IF Len(keys) = ChunkCount(call[c].file) THEN "meta" ELSE @]
    BY <1>3 DEF SaveChunk
  <2>2. /\ call[c].file \in Files /\ n < ChunkCount(call[c].file)
        /\ call[c].keys \in Seq(DOMAIN db) /\ n \in Nat
    BY <1>0, <2>1 DEF CallOK
  <2>3. Len(Chunk(call[c].file, n + 1)) \in 1 .. ChunkSize
    <3>1. n + 1 \in Nat \ {0} /\ n + 1 <= ChunkCount(call[c].file)
      BY <2>2, CountIs
    <3> QED BY <2>2, <3>1, ChunkIs
  <2>4. node.links = <<>> /\ node.type = "FILE_CHUNK"
        /\ node.data = Chunk(call[c].file, n + 1)
    BY DEF FileChunk
  <2>5. Unmarshal(bytes) = node
    BY DEF Marshal, Unmarshal
  <2> HIDE DEF node
  <2>6. NoDanglingLinks'
    BY <2>1, <2>4, Links
  <2> HIDE DEF bytes
  <2>7. /\ DOMAIN db' = DOMAIN db \cup {KeyOf(bytes)}
        /\ db'[KeyOf(bytes)] = bytes
        /\ \A k \in DOMAIN db' : k = Sha256(db'[k])
        /\ \A k : GoodChunk(k, db) => GoodChunk(k, db')
    BY <1>0, <2>1, Grows
  <2>8. GoodChunk(KeyOf(bytes), db')
    BY <2>3, <2>4, <2>5, <2>7 DEF GoodChunk
  <2>9. CallOK(c)'
    <3>1. /\ call'[c].file = call[c].file /\ call'[c].keys = keys
          /\ call'[c].at = IF Len(keys) = ChunkCount(call[c].file)
                           THEN "meta" ELSE "chunks"
          /\ call'[c] \in [at   : {"idle", "chunks", "meta"},
                           file : Files \cup {<<>>}, keys : {keys}]
      BY <1>0, <2>1, <2>2 DEF CallOK
    <3>2. call[c].keys \in Seq(DOMAIN db')
      BY <2>2, <2>7, KeysStay
    <3>3. /\ keys \in Seq(DOMAIN db') /\ Len(keys) = n + 1
          /\ keys[n + 1] = KeyOf(bytes)
          /\ \A i \in 1 .. n : keys[i] = call[c].keys[i]
      BY <2>2, <2>7, <3>2, AppendProperties
    <3>4. \A i \in 1 .. n : GoodChunk(call[c].keys[i], db')
      BY <1>0, <2>7 DEF CallOK
    <3> HIDE DEF keys
    <3>5. \A i \in 1 .. Len(keys) : GoodChunk(keys[i], db')
      BY <2>2, <2>8, <3>3, <3>4
    <3>6. ChunkCount(call[c].file) \in Int
      BY <2>2, CountIs
    <3>7. call'[c].at = "chunks" => Len(call'[c].keys) < ChunkCount(call'[c].file)
      BY <2>2, <3>1, <3>3, <3>6
    <3> QED BY <2>2, <3>1, <3>3, <3>5, <3>7 DEF CallOK
  <2>10. ASSUME NEW d \in Calls, d # c PROVE CallOK(d)'
    <3>1. call'[d] = call[d]
      BY <1>0, <2>1, <2>10
    <3> QED BY <1>0, <2>7, <3>1, CallStays
  <2>11. call' = [d \in Calls |-> call'[d]]
    BY <1>0, <2>1
  <2> QED BY <1>0, <2>1, <2>6, <2>7, <2>9, <2>10, <2>11, Assembled
<1>4. ASSUME NEW c \in Calls, SaveMeta(c) PROVE IInv'
  <2> DEFINE node  == MetaOf(call[c].file, call[c].keys)
             bytes == Marshal(node)
  <2>1. /\ db' = Set(db, KeyOf(bytes), bytes) /\ UNCHANGED saves
        /\ call' = [call EXCEPT ![c] = Idle]
    BY <1>4 DEF SaveMeta
  <2>2. node.links = <<>> \/ node.links = call[c].keys
    BY DEF MetaOf, MetaLink
  <2>3. \A i \in 1 .. Len(node.links) : GoodChunk(node.links[i], db)
    BY <1>0, <2>2 DEF CallOK
  <2> HIDE DEF node
  <2>4. NoDanglingLinks'
    BY <2>1, <2>3, Links
  <2> HIDE DEF bytes
  <2>5. /\ DOMAIN db' = DOMAIN db \cup {KeyOf(bytes)}
        /\ \A k \in DOMAIN db' : k = Sha256(db'[k])
        /\ \A k : GoodChunk(k, db) => GoodChunk(k, db')
    BY <1>0, <2>1, Grows
  <2>6. ASSUME NEW d \in Calls PROVE CallOK(d)'
    <3>1. CASE d = c
      BY <1>0, <2>1, <3>1, IdleOK
    <3>2. CASE d # c
      <4>1. call'[d] = call[d]
        BY <1>0, <2>1, <3>2
      <4> QED BY <1>0, <2>5, <4>1, CallStays
    <3> QED BY <3>1, <3>2
  <2>7. call' = [d \in Calls |-> call'[d]]
    BY <1>0, <2>1
  <2> QED BY <1>0, <2>1, <2>4, <2>5, <2>6, <2>7, Assembled
<1>5. ASSUME NEW c \in Calls, WriteFails(c) PROVE IInv'
  <2>1. UNCHANGED <<db, saves>> /\ call' = [call EXCEPT ![c] = Idle]
    BY <1>5 DEF WriteFails
  <2>2. ASSUME NEW d \in Calls PROVE CallOK(d)'
    <3>1. CASE d = c
      BY <1>0, <2>1, <3>1, IdleOK
    <3>2. CASE d # c
      BY <1>0, <1>00, <2>1, <3>2, CallStays
    <3> QED BY <3>1, <3>2
  <2>3. call' = [d \in Calls |-> call'[d]]
    BY <1>0, <2>1
  <2> QED BY <1>0, <2>1, <2>2, <2>3, SameStorage
<1>6. CASE Crash
  <2>1. UNCHANGED <<db, saves>> /\ call' = [d \in Calls |-> Idle]
    BY <1>6 DEF Crash
  <2>2. \A d \in Calls : CallOK(d)'
    BY <2>1, IdleOK
  <2>3. call' = [d \in Calls |-> call'[d]]
    BY <2>1
  <2> QED BY <1>0, <2>1, <2>2, <2>3, SameStorage
<1>7. CASE UNCHANGED vars
  <2>1. UNCHANGED <<db, call, saves>>
    BY <1>7 DEF vars
  <2>2. \A d \in Calls : CallOK(d)'
    BY <1>0, <1>00, <2>1, CallStays
  <2> QED BY <1>0, <2>1, <2>2, SameStorage
<1> QED BY <1>1, <1>2, <1>3, <1>4, <1>5, <1>6, <1>7 DEF Next

(* The invariant holds.                                                    *)
LEMMA Invariant == Spec => []IInv
<1>1. Init => IInv
  <2> SUFFICES ASSUME Init PROVE IInv
    OBVIOUS
  <2>1. DOMAIN db = {}
    BY DEF Init, Empty
  <2>2. call = [c \in Calls |-> Idle] /\ saves \in 0 .. MaxSaves
    BY MerkleAssumption DEF Init
  <2>3. \A c \in Calls : call[c] = Idle
    BY <2>2
  <2>4. Idle \in [at   : {"idle", "chunks", "meta"},
                  file : Files \cup {<<>>}, keys : Seq(DOMAIN db)]
    BY DEF Idle
  <2>5. Collected
    BY <2>3 DEF Collected, Idle
  <2> QED BY <2>1, <2>2, <2>4, <2>5 DEF IInv, TypeOK, NoDanglingLinks
<1> QED BY <1>1, Step, PTL DEF Spec

-----------------------------------------------------------------------------
(* Every variable keeps its type, and storage is addressed by content.     *)
THEOREM TypeCorrect == Spec => []TypeOK
BY Invariant, PTL DEF IInv

(* Whatever fails and wherever the process ends, every node that storage   *)
(* links to is there, and is a chunk of 1 to ChunkSize bytes.              *)
THEOREM LinksHold == Spec => []NoDanglingLinks
BY Invariant, PTL DEF IInv

-----------------------------------------------------------------------------
(* MerkleDag implements FileStore.                                         *)

(* The key of a chunk.                                                     *)
ChunkKey(f, i) == KeyOf(Marshal(FileChunk(Chunk(f, i))))

(* The keys a call has collected are those of its file's chunks, in order; *)
(* it writes the META_LINK of a file that has chunks when it has them all. *)
ExactCall(d) ==
  call[d].at # "idle" =>
    /\ call[d].file \in Files
    /\ \A i \in 1 .. Len(call[d].keys) :
         call[d].keys[i] = ChunkKey(call[d].file, i)
    /\ call[d].at = "meta" /\ ~(Len(call[d].file) <= ChunkSize)
         => Len(call[d].keys) = ChunkCount(call[d].file)

Exact == \A d \in Calls : ExactCall(d)

(* Every step keeps that.                                                  *)
LEMMA ExactStep == ASSUME IInv, Exact, [Next]_vars PROVE Exact'
<1>0. \A d \in Calls : CallOK(d) /\ ExactCall(d)
  BY Together DEF Exact
<1>00. call = [d \in Calls |-> call[d]]
  BY Together
<1>s. ASSUME NEW d \in Calls, call'[d] = call[d] PROVE ExactCall(d)'
  BY <1>0, <1>s DEF ExactCall
<1>i. ASSUME NEW d \in Calls, call'[d] = Idle PROVE ExactCall(d)'
  BY <1>i DEF ExactCall, Idle
<1>1. ASSUME NEW c \in Calls, NEW f \in Files, SaveFile(c, f) PROVE Exact'
  <2>1. call' = [call EXCEPT ![c] =
          [at |-> IF Len(f) <= ChunkSize THEN "meta" ELSE "chunks",
           file |-> f, keys |-> <<>>]]
    BY <1>1 DEF SaveFile
  <2>2. call'[c] = [at |-> IF Len(f) <= ChunkSize THEN "meta" ELSE "chunks",
                    file |-> f, keys |-> <<>>]
    BY <1>00, <2>1
  <2>3. ExactCall(c)'
    BY <2>2 DEF ExactCall
  <2>4. ASSUME NEW d \in Calls, d # c PROVE ExactCall(d)'
    BY <1>00, <1>s, <2>1, <2>4
  <2> QED BY <2>3, <2>4 DEF Exact
<1>2. ASSUME NEW c \in Calls, SaveChunk(c) PROVE Exact'
  <2> DEFINE f    == call[c].file
             n    == Len(call[c].keys)
             keys == Append(call[c].keys, ChunkKey(f, n + 1))
  <2>1. /\ call[c].at = "chunks"
        /\ call' = [call EXCEPT ![c].keys = keys,
             ![c].at = IF Len(keys) = ChunkCount(f) THEN "meta" ELSE @]
    BY <1>2 DEF SaveChunk, ChunkKey
  <2>2. f \in Files /\ call[c].keys \in Seq(DOMAIN db) /\ n \in Nat
        /\ \A i \in 1 .. n : call[c].keys[i] = ChunkKey(f, i)
    BY <1>0, <2>1 DEF CallOK, ExactCall
  <2>3. /\ call'[c].file = f /\ call'[c].keys = keys
        /\ call'[c].at = IF Len(keys) = ChunkCount(f) THEN "meta" ELSE "chunks"
    BY <1>0, <1>00, <2>1 DEF CallOK
  <2>4. /\ Len(keys) = n + 1 /\ keys[n + 1] = ChunkKey(f, n + 1)
        /\ \A i \in 1 .. n : keys[i] = call[c].keys[i]
    <3>1. call[c].keys \in Seq(DOMAIN db \cup {ChunkKey(f, n + 1)})
      BY <2>2, KeysStay
    <3> QED BY <3>1, AppendProperties
  <2> HIDE DEF keys, f, n
  <2>5. \A i \in 1 .. Len(keys) : keys[i] = ChunkKey(f, i)
    BY <2>2, <2>4 DEF f, n
  <2>6. ExactCall(c)'
    BY <2>2, <2>3, <2>5 DEF ExactCall
  <2>7. ASSUME NEW d \in Calls, d # c PROVE ExactCall(d)'
    BY <1>00, <1>s, <2>1, <2>7
  <2> QED BY <2>6, <2>7 DEF Exact
<1>3. ASSUME NEW c \in Calls, SaveMeta(c) \/ WriteFails(c) PROVE Exact'
  <2>1. call' = [call EXCEPT ![c] = Idle]
    BY <1>3 DEF SaveMeta, WriteFails
  <2>2. ASSUME NEW d \in Calls PROVE call'[d] = Idle \/ call'[d] = call[d]
    BY <1>00, <2>1
  <2> QED BY <1>s, <1>i, <2>2 DEF Exact
<1>4. CASE Crash
  <2>1. \A d \in Calls : call'[d] = Idle
    BY <1>4 DEF Crash
  <2> QED BY <1>i, <2>1 DEF Exact
<1>5. CASE UNCHANGED vars \/ \E c \in Calls, f \in Files : SaveFileExists(c, f)
  <2>1. UNCHANGED call
    BY <1>5 DEF vars, SaveFileExists
  <2> QED BY <1>s, <2>1 DEF Exact
<1> QED BY <1>1, <1>2, <1>3, <1>4, <1>5 DEF Next

(* The name SaveFile answers is the file's own.                            *)
LEMMA Named ==
  ASSUME IInv, Exact, NEW c \in Calls, call[c].at = "meta"
  PROVE  /\ call[c].file \in Files
         /\ KeyOf(Marshal(MetaOf(call[c].file, call[c].keys)))
              = NameOf[call[c].file]
<1> DEFINE f    == call[c].file
           keys == call[c].keys
           all  == [i \in 1 .. ChunkCount(f) |->
                      KeyOf(Marshal(FileChunk(Chunk(f, i))))]
<1>1. f \in Files /\ keys \in Seq(DOMAIN db)
  BY Together DEF Exact, ExactCall, CallOK
<1>2. NameOf[f] = KeyOf(Marshal(MetaOf(f, all)))
  BY <1>1 DEF NameOf
<1>3. CASE Len(f) <= ChunkSize
  BY <1>1, <1>2, <1>3 DEF MetaOf
<1>4. CASE ~(Len(f) <= ChunkSize)
  <2>1. /\ Len(keys) = ChunkCount(f)
        /\ \A i \in 1 .. Len(keys) :
             keys[i] = KeyOf(Marshal(FileChunk(Chunk(f, i))))
    BY <1>4 DEF Exact, ExactCall, ChunkKey
  <2>2. keys = [i \in 1 .. Len(keys) |-> keys[i]]
    BY <1>1
  <2>3. keys = all
    <3> HIDE DEF keys, f
    <3> QED BY <2>1, <2>2
  <2> QED BY <1>1, <1>2, <2>3
<1> QED BY <1>3, <1>4

(* What can be read, by name: the files of FileStore.                      *)
Readable == [k \in MetaKeys |-> findFileByID(k)]

(* A file that can be read stays as it is when storage grows.              *)
LEMMA ReadsSame ==
  ASSUME IInv, NEW k \in MetaKeys, DOMAIN db \subseteq DOMAIN db',
         \A l \in DOMAIN db : db'[l] = db[l]
  PROVE  k \in MetaKeys' /\ findFileByID(k)' = findFileByID(k)
<1> DEFINE node  == Unmarshal(db[k])
           links == node.links
           seqs  == [i \in 1 .. Len(links) |-> Unmarshal(db[links[i]]).data]
<1>1. k \in DOMAIN db /\ k \in DOMAIN db' /\ db'[k] = db[k]
  BY DEF MetaKeys
<1>2. \A i \in 1 .. Len(links) :
        links[i] \in DOMAIN db /\ links[i] \in DOMAIN db'
        /\ db'[links[i]] = db[links[i]]
  BY <1>1 DEF IInv, NoDanglingLinks, Exists
<1>3. k \in MetaKeys'
  BY <1>1 DEF MetaKeys
<1>4. findFileByID(k) = IF node.type # "META_LINK" \/ Len(node.data) > 0
                        THEN node.data ELSE FlattenSeq(seqs)
  BY <1>1, <1>2 DEF findFileByID, Exists, Get
<1>5. [i \in 1 .. Len(links) |-> Unmarshal(db'[links[i]]).data] = seqs
  BY <1>2
<1>6. findFileByID(k)' = IF node.type # "META_LINK" \/ Len(node.data) > 0
                         THEN node.data ELSE FlattenSeq(seqs)
  <2>1. findFileByID(k)' =
          IF node.type # "META_LINK" \/ Len(node.data) > 0 THEN node.data
          ELSE FlattenSeq([i \in 1 .. Len(links) |->
                             Unmarshal(db'[links[i]]).data])
    BY <1>1, <1>2 DEF findFileByID, Exists, Get
  <2> QED BY <1>5, <2>1
<1> QED BY <1>3, <1>4, <1>6

(* A file reads back as it was saved.                                      *)
LEMMA ReadsBack ==
  ASSUME IInv, Exact, NEW c \in Calls, SaveMeta(c),
         NEW f, f = call[c].file, NEW k, k = NameOf[f]
  PROVE  k \in MetaKeys' /\ findFileByID(k)' = f
<1> DEFINE keys == call[c].keys
           node == MetaOf(f, keys)
<1>0. call[c].at = "meta"
  BY DEF SaveMeta
<1>1. f \in Files /\ k = KeyOf(Marshal(node))
  BY <1>0, Named
<1>2. db' = Set(db, KeyOf(Marshal(node)), Marshal(node))
  BY DEF SaveMeta
<1>3. /\ k \in DOMAIN db' /\ db'[k] = Marshal(node)
      /\ \A l \in DOMAIN db' : l = Sha256(db'[l])
      /\ \A l : GoodChunk(l, db) => GoodChunk(l, db')
  BY <1>1, <1>2, Grows DEF IInv
<1>4. Unmarshal(Marshal(node)) = node /\ node.type = "META_LINK"
  BY DEF Marshal, Unmarshal, MetaOf, MetaLink
<1>5. f \in Seq({f[j] : j \in DOMAIN f}) /\ Len(f) \in Nat
  BY <1>1, MerkleAssumption
<1>6. CASE Len(f) <= ChunkSize
  <2>1. node.data = f /\ node.links = <<>>
    BY <1>6 DEF MetaOf, MetaLink
  <2>2. CASE Len(f) > 0
    BY <1>3, <1>4, <2>1, <2>2 DEF findFileByID, MetaKeys, Exists, Get
  <2>3. CASE ~(Len(f) > 0)
    <3>1. f = <<>>
      BY <1>5, <2>3
    <3>2. [i \in 1 .. Len(node.links) |->
             Unmarshal(Get(db', node.links[i])).data] = <<>>
      BY <2>1
    <3>3. FlattenSeq(<<>>) = <<>>
      BY DEF FlattenSeq
    <3> HIDE DEF node
    <3>4. findFileByID(k)' = FlattenSeq(<<>>)
      BY <1>3, <1>4, <2>1, <2>3, <3>2 DEF findFileByID, Exists, Get
    <3> QED BY <1>3, <1>4, <1>1, <3>1, <3>3, <3>4 DEF MetaKeys
  <2> QED BY <1>1, <2>2, <2>3
<1>7. CASE ~(Len(f) <= ChunkSize)
  <2>1. node.data = <<>> /\ node.links = keys
    BY <1>7 DEF MetaOf, MetaLink
  <2>2. /\ Len(keys) = ChunkCount(f)
        /\ \A i \in 1 .. Len(keys) : keys[i] = ChunkKey(f, i)
    BY <1>0, <1>7 DEF Exact, ExactCall
  <2>3. \A i \in 1 .. Len(keys) : keys[i] \in DOMAIN db'
    BY <1>3, Together DEF CallOK, GoodChunk
  <2>4. ASSUME NEW i \in 1 .. Len(keys)
        PROVE  Unmarshal(db'[keys[i]]).data = Chunk(f, i)
    <3>1. Sha256(db'[keys[i]]) = Sha256(Marshal(FileChunk(Chunk(f, i))))
      BY <1>3, <2>2, <2>3 DEF ChunkKey, KeyOf
    <3>2. db'[keys[i]] = Marshal(FileChunk(Chunk(f, i)))
      BY <3>1 DEF Sha256
    <3> QED BY <3>2 DEF Marshal, Unmarshal, FileChunk
  <2>5. [i \in 1 .. Len(keys) |-> Unmarshal(db'[keys[i]]).data]
          = [i \in 1 .. ChunkCount(f) |-> Chunk(f, i)]
    BY <2>2, <2>4
  <2> HIDE DEF node, keys
  <2>6. findFileByID(k)' =
          FlattenSeq([i \in 1 .. Len(keys) |-> Unmarshal(db'[keys[i]]).data])
    BY <1>3, <1>4, <2>1, <2>3 DEF findFileByID, Exists, Get
  <2>7. FlattenSeq([i \in 1 .. ChunkCount(f) |-> Chunk(f, i)]) = f
    BY <1>1, <1>7, WholeFile
  <2>8. k \in MetaKeys'
    BY <1>3, <1>4 DEF MetaKeys
  <2> QED BY <1>1, <2>5, <2>6, <2>7, <2>8
<1> QED BY <1>6, <1>7

(* Every step puts one file, whole, or leaves what can be read as it is.   *)
LEMMA StepPuts ==
  ASSUME IInv, Exact, [Next]_vars
  PROVE  [FS!Next]_<<Readable, given>>
<1>1. ASSUME NEW c \in Calls, SaveMeta(c) PROVE FS!Next
  <2>f. PICK f : f = call[c].file
    OBVIOUS
  <2>k. PICK k : k = NameOf[f]
    OBVIOUS
  <2> DEFINE node == MetaOf(f, call[c].keys)
  <2>1. f \in Files /\ k = KeyOf(Marshal(node))
    BY <1>1, <2>f, <2>k, Named DEF SaveMeta
  <2>2. db' = Set(db, KeyOf(Marshal(node)), Marshal(node))
        /\ given' = given \cup {<<f, NameOf[f]>>}
    BY <1>1, <2>f, <2>k, <2>1 DEF SaveMeta
  <2>3. /\ DOMAIN db' = DOMAIN db \cup {k} /\ \A l \in DOMAIN db : db'[l] = db[l]
    BY <2>1, <2>2, Grows DEF IInv
  <2>4. k \in MetaKeys' /\ findFileByID(k)' = f
    BY <1>1, <2>f, <2>k, ReadsBack
  <2>5. \A l \in MetaKeys : l \in MetaKeys' /\ findFileByID(l)' = findFileByID(l)
    BY <2>3, ReadsSame
  <2>6. MetaKeys' = MetaKeys \cup {k}
    BY <2>3, <2>4, <2>5 DEF MetaKeys
  <2>7. Readable' = [l \in DOMAIN Readable \cup {k} |->
                       IF l = k THEN f ELSE Readable[l]]
    BY <2>4, <2>5, <2>6 DEF Readable
  <2> QED BY <2>k, <2>1, <2>2, <2>7 DEF FS!Next, FS!Put, FS!Answer, Readable
<1>2. ASSUME NEW c \in Calls, SaveChunk(c) PROVE UNCHANGED <<Readable, given>>
  <2> DEFINE node == FileChunk(Chunk(call[c].file, Len(call[c].keys) + 1))
             k    == KeyOf(Marshal(node))
  <2>1. db' = Set(db, k, Marshal(node)) /\ UNCHANGED given
    BY <1>2 DEF SaveChunk
  <2>2. /\ DOMAIN db' = DOMAIN db \cup {k} /\ db'[k] = Marshal(node)
        /\ \A l \in DOMAIN db : db'[l] = db[l]
    BY <2>1, Grows DEF IInv
  <2>3. Unmarshal(Marshal(node)).type # "META_LINK"
    BY DEF Marshal, Unmarshal, FileChunk
  <2> HIDE DEF k, node
  <2>4. \A l \in MetaKeys : l \in MetaKeys' /\ findFileByID(l)' = findFileByID(l)
    BY <2>2, ReadsSame
  <2>5. MetaKeys' = MetaKeys
    BY <2>2, <2>3, <2>4 DEF MetaKeys
  <2> QED BY <2>1, <2>4, <2>5 DEF Readable
<1>3. CASE UNCHANGED <<db, given>>
  <2>1. \A l \in MetaKeys : l \in MetaKeys' /\ findFileByID(l)' = findFileByID(l)
    BY <1>3, ReadsSame
  <2>2. MetaKeys' = MetaKeys
    BY <1>3 DEF MetaKeys
  <2> QED BY <1>3, <2>1, <2>2 DEF Readable
<1>4. \/ \E c \in Calls : SaveMeta(c) \/ SaveChunk(c)
      \/ UNCHANGED <<db, given>>
  BY DEF Next, vars, SaveFile, SaveFileExists, WriteFails, Crash
<1> QED BY <1>1, <1>2, <1>3, <1>4

(* SaveFile is atomic and durable to whoever reads, for chunks of every    *)
(* size, any files and any number of callers: MerkleDag implements         *)
(* FileStore, every file whole under its own name, across failing writes   *)
(* and the end of the process.                                             *)
THEOREM SavesAtomically == Spec => ImplementsFileStore
<1>1. Init => Exact
  BY DEF Init, Exact, ExactCall, Idle
<1>2. Init => FS!Init
  <2> SUFFICES ASSUME Init PROVE FS!Init
    OBVIOUS
  <2>1. DOMAIN db = {} /\ given = {}
    BY DEF Init, Empty
  <2>2. MetaKeys = {}
    BY <2>1 DEF MetaKeys
  <2> QED BY <2>1, <2>2 DEF FS!Init
<1>3. Spec => []Exact
  BY <1>1, Invariant, ExactStep, PTL DEF Spec
<1>4. [FS!Next]_<<Readable, given>>
        => [FS!Next]_<<[k \in MetaKeys |-> findFileByID(k)], given>>
  BY DEF Readable
<1> QED BY <1>2, <1>3, <1>4, Invariant, StepPuts, PTL
        DEF Spec, ImplementsFileStore, FS!Spec

-----------------------------------------------------------------------------
(* What that means to a caller.                                            *)

(* Keys are equal only if what was encoded is.                             *)
LEMMA SameKey ==
  ASSUME NEW m, NEW n, KeyOf(Marshal(m)) = KeyOf(Marshal(n)) PROVE m = n
<1>1. [sha256 |-> <<m>>].sha256 = [sha256 |-> <<n>>].sha256
  BY DEF KeyOf, Sha256, Marshal
<1>2. <<m>>[1] = <<n>>[1]
  BY <1>1
<1> QED BY <1>2

(* No two files have the same name: FileStore's Put overwrites nothing.    *)
THEOREM NamesAreOwn == \A f, g \in Files : NameOf[f] = NameOf[g] => f = g
<1> SUFFICES ASSUME NEW f \in Files, NEW g \in Files, NameOf[f] = NameOf[g]
             PROVE  f = g
  OBVIOUS
<1> DEFINE keys(h) == [i \in 1 .. ChunkCount(h) |-> ChunkKey(h, i)]
<1>1. \A h \in Files : NameOf[h] = KeyOf(Marshal(MetaOf(h, keys(h))))
  BY DEF NameOf, ChunkKey
<1>2. MetaOf(f, keys(f)) = MetaOf(g, keys(g))
  <2> HIDE DEF keys
  <2> QED BY <1>1, SameKey
<1>3. ASSUME NEW h \in Files
      PROVE  /\ Len(h) <= ChunkSize =>
                  /\ MetaOf(h, keys(h)).data = h
                  /\ MetaOf(h, keys(h)).links = <<>>
             /\ ~(Len(h) <= ChunkSize) => MetaOf(h, keys(h)).links = keys(h)
  <2> HIDE DEF keys
  <2> QED BY DEF MetaOf, MetaLink
<1>4. ASSUME NEW h \in Files, ~(Len(h) <= ChunkSize) PROVE keys(h) # <<>>
  <2>1. ChunkCount(h) \in Nat \ {0}
    BY <1>4, WholeFile
  <2>2. 1 \in DOMAIN keys(h)
    BY <2>1
  <2> QED BY <2>2
<1>5. CASE Len(f) <= ChunkSize /\ Len(g) <= ChunkSize
  <2> HIDE DEF keys
  <2> QED BY <1>2, <1>3, <1>5
<1>6. CASE ~(Len(f) <= ChunkSize) /\ ~(Len(g) <= ChunkSize)
  <2>1. keys(f) = keys(g)
    <3> HIDE DEF keys
    <3> QED BY <1>2, <1>3, <1>6
  <2>2. /\ ChunkCount(f) \in Nat \ {0} /\ ChunkCount(g) \in Nat \ {0}
        /\ FlattenSeq([i \in 1 .. ChunkCount(f) |-> Chunk(f, i)]) = f
        /\ FlattenSeq([i \in 1 .. ChunkCount(g) |-> Chunk(g, i)]) = g
    BY <1>6, WholeFile
  <2>3. 1 .. ChunkCount(f) = 1 .. ChunkCount(g)
    <3>1. DOMAIN keys(f) = 1 .. ChunkCount(f) /\ DOMAIN keys(g) = 1 .. ChunkCount(g)
      OBVIOUS
    <3> QED BY <2>1, <3>1
  <2>4. ASSUME NEW i \in 1 .. ChunkCount(f) PROVE Chunk(f, i) = Chunk(g, i)
    <3>1. keys(f)[i] = ChunkKey(f, i) /\ keys(g)[i] = ChunkKey(g, i)
      BY <2>3
    <3>2. FileChunk(Chunk(f, i)) = FileChunk(Chunk(g, i))
      BY <2>1, <3>1, SameKey DEF ChunkKey
    <3>3. FileChunk(Chunk(f, i)).data = FileChunk(Chunk(g, i)).data
      BY <3>2
    <3> QED BY <3>3 DEF FileChunk
  <2>5. [i \in 1 .. ChunkCount(f) |-> Chunk(f, i)]
          = [i \in 1 .. ChunkCount(g) |-> Chunk(g, i)]
    BY <2>3, <2>4
  <2> QED BY <2>2, <2>5
<1>7. CASE ~(Len(f) <= ChunkSize <=> Len(g) <= ChunkSize)
  <2> HIDE DEF keys
  <2> QED BY <1>2, <1>3, <1>4, <1>7
<1> QED BY <1>5, <1>6, <1>7

(* A file that can be read can be read for ever, and never changes: no     *)
(* later save, failure or crash touches it.                                *)
FilesKept ==
  \A k \in MetaKeys : k \in MetaKeys' /\ findFileByID(k)' = findFileByID(k)

(* A step writes at most one node, under the hash of its bytes.            *)
LEMMA WritesOne ==
  ASSUME IInv, [Next]_vars
  PROVE  DOMAIN db \subseteq DOMAIN db' /\ \A l \in DOMAIN db : db'[l] = db[l]
<1>1. (\E bytes : db' = Set(db, KeyOf(bytes), bytes)) \/ UNCHANGED db
  BY DEF Next, vars, SaveFile, SaveFileExists, SaveChunk, SaveMeta, WriteFails, Crash
<1>2. ASSUME NEW bytes, db' = Set(db, KeyOf(bytes), bytes)
      PROVE  DOMAIN db \subseteq DOMAIN db' /\ \A l \in DOMAIN db : db'[l] = db[l]
  BY <1>2, Grows DEF IInv
<1> QED BY <1>1, <1>2

(* Storage only grows, so what findFileByID returns for a META_LINK stays. *)
THEOREM Durable == Spec => [][FilesKept]_vars
<1>1. IInv /\ [Next]_vars => FilesKept
  <2> SUFFICES ASSUME IInv, [Next]_vars, NEW k \in MetaKeys
               PROVE  k \in MetaKeys' /\ findFileByID(k)' = findFileByID(k)
    BY DEF FilesKept
  <2> QED BY WritesOne, ReadsSame
<1> QED BY <1>1, Invariant, PTL DEF Spec

(* Every key SaveFile has answered reads back as the file it was answered  *)
(* for.                                                                    *)
AnswersReadBack ==
  \A a \in given :
    a[1] \in Files /\ a[2] \in MetaKeys /\ findFileByID(a[2]) = a[1]

(* GetFileChunk of a key that SaveFile returned gives the file back, byte  *)
(* for byte, whatever was saved, failed or crashed since.                  *)
THEOREM ReadBack == Spec => []AnswersReadBack
<1>1. Init => AnswersReadBack /\ Exact
  BY DEF Init, AnswersReadBack, Exact, ExactCall, Idle
<1>2. IInv /\ Exact /\ AnswersReadBack /\ [Next]_vars => AnswersReadBack'
  <2> SUFFICES ASSUME IInv, Exact, AnswersReadBack, [Next]_vars,
                      NEW a \in given'
               PROVE  a[1] \in Files /\ a[2] \in MetaKeys' /\ findFileByID(a[2])' = a[1]
    BY DEF AnswersReadBack
  <2>1. CASE a \in given
    <3>1. PICK k : k = a[2]
      OBVIOUS
    <3>2. k \in MetaKeys /\ findFileByID(k) = a[1] /\ a[1] \in Files
      BY <2>1, <3>1 DEF AnswersReadBack
    <3>3. k \in MetaKeys' /\ findFileByID(k)' = findFileByID(k)
      BY <3>2, WritesOne, ReadsSame
    <3> QED BY <3>1, <3>2, <3>3
  <2>2. CASE a \notin given
    <3>1. PICK c \in Calls : SaveMeta(c)
      BY <2>2 DEF Next, vars, SaveFile, SaveFileExists, SaveChunk, WriteFails, Crash
    <3>2. PICK f, k : f = call[c].file /\ k = NameOf[f]
      OBVIOUS
    <3>3. f \in Files /\ a = <<f, k>>
      BY <2>2, <3>1, <3>2, Named DEF SaveMeta
    <3>4. k \in MetaKeys' /\ findFileByID(k)' = f
      BY <3>1, <3>2, ReadsBack
    <3> QED BY <3>3, <3>4
  <2> QED BY <2>1, <2>2
<1> QED BY <1>1, <1>2, Invariant, ExactStep, PTL DEF Spec
=============================================================================
