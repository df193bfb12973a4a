---------------------------- MODULE NodeStartProofs ----------------------------
(***************************************************************************)
(* Theorems about the start of a node, for any number of processes over    *)
(* one directory and any keys and passwords.                               *)
(***************************************************************************)
EXTENDS NodeStart, TLAPS

-----------------------------------------------------------------------------
(* Type correctness.                                                       *)

(* Logger.Info keeps the number of entries within the capacity.            *)
LEMMA InfoType ==
  ASSUME TypeOK, NEW p \in Procs, Info(p)
  PROVE  log' \in [Procs -> 0 .. LogCap]
BY NodeAssumption DEF TypeOK, Info

(* The end of a process keeps the types.                                   *)
LEMMA GoneType == ASSUME TypeOK, NEW p \in Procs, Gone(p) PROVE TypeOK'
<1> USE NodeAssumption DEF Gone, Goto, TypeOK, Within
<1>1. log' \in [Procs -> 0 .. LogCap]
  OBVIOUS
<1> QED BY <1>1

(* Within Start the password is known, and before Bind the key.            *)
Known == \A p \in Procs :
  /\ at[p] \in Within => pass[p] \in Passwords
  /\ at[p] \in {"store", "bind"} => key[p] \in Keys

(* Every step keeps the types.                                             *)
LEMMA TypeStep ==
  ASSUME TypeOK, Known, [Next]_vars PROVE TypeOK' /\ Known'
<1> USE NodeAssumption DEF TypeOK, Known, Within, disk, mem, Goto
<1>1. ASSUME NEW p \in Procs, NEW word \in Passwords, Start(p, word)
      PROVE  TypeOK' /\ Known'
  BY <1>1, InfoType DEF Start
<1>2. ASSUME NEW p \in Procs, Open(p) PROVE TypeOK' /\ Known'
  BY <1>2, InfoType DEF Open
<1>3. ASSUME NEW p \in Procs, GetOrGenerateKeys(p) PROVE TypeOK' /\ Known'
  <2>1. CASE secret # None /\ Unlock(p, secret.key)
    BY <1>3, <2>1, InfoType DEF GetOrGenerateKeys, Unlock
  <2>2. CASE Goto(p, "error") /\ UNCHANGED <<key, log, ids>>
    BY <1>3, <2>2 DEF GetOrGenerateKeys
  <2>3. CASE Generate(p)
    BY <1>3, <2>3 DEF GetOrGenerateKeys, Generate
  <2> QED BY <1>3, <2>1, <2>2, <2>3 DEF GetOrGenerateKeys
<1>4. ASSUME NEW p \in Procs, StoreKeys(p) PROVE TypeOK' /\ Known'
  <2>1. CASE secret' = [key |-> key[p], pass |-> pass[p]] /\ Unlock(p, key[p])
    BY <1>4, <2>1, InfoType DEF StoreKeys, Unlock
  <2>2. CASE ~(secret' = [key |-> key[p], pass |-> pass[p]] /\ Unlock(p, key[p]))
    BY <1>4, <2>2 DEF StoreKeys
  <2> QED BY <2>1, <2>2
<1>5. ASSUME NEW p \in Procs, Bind(p) PROVE TypeOK' /\ Known'
  <2>1. CASE Gone(p)
    BY <2>1, GoneType DEF Gone
  <2>2. CASE ~Gone(p)
    BY <1>5, <2>2 DEF Bind
  <2> QED BY <2>1, <2>2
<1>6. ASSUME NEW p \in Procs, Register(p) PROVE TypeOK' /\ Known'
  BY <1>6, InfoType DEF Register
<1>7. ASSUME NEW p \in Procs, Listen(p) PROVE TypeOK' /\ Known'
  BY <1>7, InfoType DEF Listen, ListenFrom
<1>8. ASSUME NEW p \in Procs, Stop(p) PROVE TypeOK' /\ Known'
  BY <1>8, InfoType DEF Stop
<1>9. ASSUME NEW p \in Procs, Exit(p) PROVE TypeOK' /\ Known'
  BY <1>9, GoneType DEF Exit, Gone
<1>10. ASSUME NEW p \in Procs, ReadLog(p) PROVE TypeOK' /\ Known'
  BY <1>10 DEF ReadLog
<1>11. CASE OtherProgram
  BY <1>11 DEF OtherProgram
<1>12. CASE UNCHANGED vars
  BY <1>12 DEF vars
<1> QED BY <1>1, <1>2, <1>3, <1>4, <1>5, <1>6, <1>7, <1>8, <1>9, <1>10,
           <1>11, <1>12 DEF Next, StartStep

(* Every variable of every process keeps its type; the log never exceeds   *)
(* its capacity.                                                           *)
THEOREM TypeCorrect == Spec => []TypeOK
<1>1. Init => TypeOK /\ Known
  BY NodeAssumption DEF Init, TypeOK, Known, Within
<1> QED BY <1>1, TypeStep, PTL DEF Spec

-----------------------------------------------------------------------------
(* The inductive invariant.                                                *)

(* The places in Start, and after it, that lie behind each of its steps.   *)
PastOpen == {"keys", "store", "bind", "registry", "listen", "started", "stopped"}
PastKeys == PastOpen \ {"keys", "store"}
PastBind == PastKeys \ {"bind"}

(* Whoever is past Open has the database; whoever is about to store a key  *)
(* found none; whoever is past the keys has the one in storage.            *)
Stored ==
  \A p \in Procs :
    /\ at[p] \in PastOpen => dirLock = p
    /\ at[p] = "store" => secret = None
    /\ at[p] \in PastKeys => secret # None /\ key[p] = secret.key

(* Whoever is past Bind has the port and a certificate of its key.         *)
Bound ==
  \A p \in Procs : at[p] \in PastBind =>
    /\ port = p /\ cert[p] = GenerateTLSConfig(key[p])
    /\ at[p] # "registry" => handlers[p] = SubscribedTypes

(* A node accepts connections only after Listen; a Start of a node that    *)
(* does ends in an error.                                                  *)
UpLate ==
  \A p \in Procs : up[p] => at[p] \in {"started", "stopped", "open", "error"}

IInv == TypeOK /\ Known /\ OneIdentity /\ Stored /\ Bound /\ UpLate
          /\ AcceptsOnlyReady

(* The end of a process keeps the invariant: it gives back what is its own *)
(* and no more.                                                            *)
LEMMA GoneStep == ASSUME IInv, NEW p \in Procs, Gone(p) PROVE IInv'
<1> USE NodeAssumption DEF IInv, Gone, Goto
<1>1. TypeOK' /\ Known'
  BY GoneType DEF Known, Within, TypeOK
<1>2. OneIdentity'
  BY DEF OneIdentity
<1>3. Stored'
  BY DEF Stored, PastOpen, PastKeys, TypeOK
<1>4. Bound' /\ UpLate'
  BY DEF Bound, UpLate, PastOpen, PastKeys, PastBind, TypeOK
<1>5. AcceptsOnlyReady'
  BY DEF AcceptsOnlyReady, TypeOK
<1> QED BY <1>1, <1>2, <1>3, <1>4, <1>5

(* Every step keeps the invariant.                                         *)
LEMMA Step == ASSUME IInv, [Next]_vars PROVE IInv'
<1> SUFFICES (OneIdentity /\ Stored /\ Bound /\ UpLate /\ AcceptsOnlyReady)'
  BY TypeStep DEF IInv
<1>0. TypeOK' /\ Known'
  BY TypeStep DEF IInv
<1> DEFINE Rest == OneIdentity /\ Stored /\ Bound /\ UpLate /\ AcceptsOnlyReady
<1> USE NodeAssumption DEF IInv, Goto, disk, mem, OneIdentity, Stored, Bound,
    UpLate, AcceptsOnlyReady, PastOpen, PastKeys, PastBind, TypeOK
<1>1. ASSUME NEW p \in Procs, NEW word \in Passwords, Start(p, word)
      PROVE  Rest'
  BY <1>1 DEF Start
<1>2. ASSUME NEW p \in Procs, Open(p) PROVE Rest'
  BY <1>2 DEF Open
<1>3. ASSUME NEW p \in Procs, GetOrGenerateKeys(p) PROVE Rest'
  BY <1>3 DEF GetOrGenerateKeys, Unlock, Generate
<1>4. ASSUME NEW p \in Procs, StoreKeys(p) PROVE Rest'
  BY <1>4 DEF StoreKeys, Unlock, Known, Within
<1>5. ASSUME NEW p \in Procs, Bind(p) PROVE Rest'
  <2>1. CASE Gone(p)
    BY <2>1, GoneStep
  <2>2. CASE ~Gone(p)
    BY <1>5, <2>2 DEF Bind
  <2> QED BY <2>1, <2>2
<1>6. ASSUME NEW p \in Procs, Register(p) PROVE Rest'
  BY <1>6 DEF Register
<1>7. ASSUME NEW p \in Procs, Listen(p) PROVE Rest'
  BY <1>7 DEF Listen, ListenFrom
<1>8. ASSUME NEW p \in Procs, Stop(p) PROVE Rest'
  BY <1>8 DEF Stop
<1>9. ASSUME NEW p \in Procs, Exit(p) PROVE Rest'
  BY <1>9, GoneStep DEF Exit
<1>10. ASSUME NEW p \in Procs, ReadLog(p) PROVE Rest'
  BY <1>10 DEF ReadLog
<1>11. CASE OtherProgram
  BY <1>11 DEF OtherProgram
<1>12. CASE UNCHANGED vars
  BY <1>12 DEF vars
<1> QED BY <1>1, <1>2, <1>3, <1>4, <1>5, <1>6, <1>7, <1>8, <1>9, <1>10,
           <1>11, <1>12 DEF Next, StartStep

(* The invariant holds throughout.                                         *)
LEMMA Invariant == Spec => []IInv
<1>1. Init => IInv
  BY NodeAssumption DEF Init, IInv, TypeOK, Known, Within, OneIdentity, Stored,
     Bound, UpLate, AcceptsOnlyReady, PastOpen, PastKeys, PastBind
<1> QED BY <1>1, Step, PTL DEF Spec

(* However many processes start over one directory, crash, fail to write   *)
(* or are given a wrong password, GetOrGenerateKeys returns one key.       *)
THEOREM IdentityKept == Spec => []OneIdentity
BY Invariant, PTL DEF IInv

(* A node that accepts connections is complete and alone: its handlers,    *)
(* its certificate, the database and the port are its own.                 *)
THEOREM ReadyWhenAccepting == Spec => []AcceptsOnlyReady
BY Invariant, PTL DEF IInv
=============================================================================
