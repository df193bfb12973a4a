-------------------------------- MODULE Storage --------------------------------
(***************************************************************************)
(* internal/storage/badger_storage.go as its users see it: a map from keys *)
(* to values, a function whose domain is the keys present.  Each operation *)
(* is one Badger transaction, so one step; what Set has written outlives   *)
(* the process.  FindValues is in Swarm, its only user.                    *)
(***************************************************************************)
Empty == [k \in {} |-> k]

(* Update: one transaction that sets one key.                              *)
Set(db, key, value) ==
  [k \in DOMAIN db \cup {key} |-> IF k = key THEN value ELSE db[k]]

(* Exists, and whether Get answers a value or ErrKeyNotFound.              *)
Exists(db, key) == key \in DOMAIN db

(* Read, of a key that is there.                                           *)
Get(db, key) == db[key]
=============================================================================
