------------------------------- MODULE NodeStart -------------------------------
(***************************************************************************)
(* pkg/node/node.go and cmd/app/main.go with the key store (internal/      *)
(* crypto/security_keys.go) and the logger: Start from the database to the *)
(* listener, in one process or several over one directory and one port.    *)
(*                                                                         *)
(* Start returns at its first error and undoes nothing; Stop undoes        *)
(* nothing; only the end of the process, which may come at any point,      *)
(* gives the directory and the port back.  main ends the process when      *)
(* Start fails; a program that embeds the node may call Start again.       *)
(***************************************************************************)
EXTENDS Naturals

CONSTANTS
  Procs,      \* the processes
  Passwords,  \* what users type
  Keys,       \* the keys GenerateKey draws, never one that is in use
  LogCap,     \* capacity of LogChan (100 in the code)
  Other,      \* another program on this host
  None

ASSUME NodeAssumption ==
  /\ LogCap \in Nat \ {0}
  /\ None \notin Procs \cup Keys \cup Passwords
  /\ None \notin [key : Keys, pass : Passwords]
  /\ Other \notin Procs \cup {None}

VARIABLES
  dirLock,   \* the process that has the database open
  port,      \* the program that has the UDP port
  secret,    \* what storage has under secret:keys
  at,        \* where each process is in Start
  pass,      \* the password given to it
  key,       \* its PrivKey
  cert,      \* the key of its TLS certificate
  handlers,  \* the payload types its dispatcher has a handler for
  up,        \* AcceptConn runs
  log,       \* the entries in its LogChan
  ids        \* history: the keys GetOrGenerateKeys has returned

disk == <<dirLock, port, secret>>
mem  == <<pass, key, cert, handlers, up>>
vars == <<disk, at, mem, log, ids>>

Init ==
  /\ dirLock = None /\ port = None /\ secret = None
  /\ at = [p \in Procs |-> "off"]
  /\ pass = [p \in Procs |-> None]
  /\ key = [p \in Procs |-> None]
  /\ cert = [p \in Procs |-> None]
  /\ handlers = [p \in Procs |-> {}]
  /\ up = [p \in Procs |-> FALSE]
  /\ log = [p \in Procs |-> 0]
  /\ ids = {}

Goto(p, l) == at' = [at EXCEPT ![p] = l]

(* Fault: the handler waits for room in the channel.                       *)
InfoWaits(p) == log[p] < LogCap /\ log' = [log EXCEPT ![p] = @ + 1]

(* Logger.Info: ChannelHandler.Handle sends, or drops the entry.           *)
Info(p) == log' = [log EXCEPT ![p] = IF @ < LogCap THEN @ + 1 ELSE @]

-----------------------------------------------------------------------------
(* Start.                                                                  *)

Start(p, word) ==
  /\ at[p] \in {"off", "error", "stopped"}
  /\ Info(p) /\ Goto(p, "open")
  /\ pass' = [pass EXCEPT ![p] = word]
  /\ UNCHANGED <<disk, key, cert, handlers, up, ids>>

(* badger.Open fails on a directory that is open already, in this process  *)
(* or in another.                                                          *)
Open(p) ==
  /\ at[p] = "open"
  /\ \/ /\ dirLock = None
        /\ dirLock' = p /\ Info(p) /\ Goto(p, "keys")
     \/ /\ dirLock # None
        /\ Goto(p, "error") /\ UNCHANGED <<dirLock, log>>
  /\ UNCHANGED <<port, secret, mem, ids>>

(* decryptPrivateKey: the tag of the cipher tells a wrong password.        *)
Decrypts(word) == secret.pass = word

Unlock(p, k) ==
  /\ key' = [key EXCEPT ![p] = k]
  /\ ids' = ids \cup {k}
  /\ Info(p) /\ Goto(p, "bind")

Generate(p) ==
  \E k \in Keys \ (ids \cup {key[q] : q \in Procs}) :
    /\ key' = [key EXCEPT ![p] = k]
    /\ Goto(p, "store")
    /\ UNCHANGED <<ids, log>>

(* Fault: keys that cannot be read are replaced.                           *)
GenerateOnAnyError(p) ==
  /\ at[p] = "keys"
  /\ \/ secret # None /\ Decrypts(pass[p]) /\ Unlock(p, secret.key)
     \/ (secret # None => ~Decrypts(pass[p])) /\ Generate(p)
  /\ UNCHANGED <<disk, pass, cert, handlers, up>>

(* GetOrGenerateKeys up to the Set: load, generate if Get says there is no *)
(* key, or fail, for a wrong password, for another error of Get or for one *)
(* of GenerateKey.                                                         *)
GetOrGenerateKeys(p) ==
  /\ at[p] = "keys"
  /\ \/ secret # None /\ Decrypts(pass[p]) /\ Unlock(p, secret.key)
     \/ secret = None /\ Generate(p)
     \/ Goto(p, "error") /\ UNCHANGED <<key, log, ids>>
  /\ UNCHANGED <<disk, pass, cert, handlers, up>>

(* encryptPrivateKey and the Set, which may fail.                          *)
StoreKeys(p) ==
  /\ at[p] = "store"
  /\ \/ /\ secret' = [key |-> key[p], pass |-> pass[p]]
        /\ Unlock(p, key[p])
     \/ /\ key' = [key EXCEPT ![p] = None]
        /\ Goto(p, "error") /\ UNCHANGED <<secret, ids, log>>
  /\ UNCHANGED <<dirLock, port, pass, cert, handlers, up>>

(* GetSubscribedTypes of the two services of svcList.                      *)
SubscribedTypes == {"PeerReq", "PeerRes"} \cup {"ChatMessage"}

(* A certificate that names the public half of a key and is signed by it.  *)
GenerateTLSConfig(priv) == [subject |-> priv, signer |-> priv]

(* The end of a process, of its own or not.                                *)
Gone(p) ==
  /\ Goto(p, "off")
  /\ dirLock' = IF dirLock = p THEN None ELSE dirLock
  /\ port' = IF port = p THEN None ELSE port
  /\ key' = [key EXCEPT ![p] = None]
  /\ cert' = [cert EXCEPT ![p] = None]
  /\ handlers' = [handlers EXCEPT ![p] = {}]
  /\ up' = [up EXCEPT ![p] = FALSE]
  /\ log' = [log EXCEPT ![p] = 0]
  /\ pass' = [pass EXCEPT ![p] = None]
  /\ UNCHANGED <<secret, ids>>

(* The certificate, or its error; NewDispatcher; and NewQUICTransport,     *)
(* where a port in use is fatal.                                           *)
Bind(p) ==
  /\ at[p] = "bind"
  /\ \/ /\ port = None
        /\ port' = p /\ Goto(p, "registry")
        /\ cert' = [cert EXCEPT ![p] = GenerateTLSConfig(key[p])]
        /\ UNCHANGED <<dirLock, secret, pass, key, handlers, up, log, ids>>
     \/ port # None /\ Gone(p)
     \/ Goto(p, "error") /\ UNCHANGED <<disk, mem, log, ids>>

(* NewSwarm; the engine, or its error; the services, and Registry for all  *)
(* their types, which nobody watches; then go Dispatcher.Start.            *)
Register(p) ==
  /\ at[p] = "registry"
  /\ \/ /\ handlers' = [handlers EXCEPT ![p] = SubscribedTypes]
        /\ Info(p) /\ Goto(p, "listen")
     \/ Goto(p, "error") /\ UNCHANGED <<handlers, log>>
  /\ UNCHANGED <<disk, pass, key, cert, up, ids>>

(* ListenEarly, or its error, given where Start may call it.               *)
ListenFrom(p, places) ==
  /\ at[p] \in places
  /\ \/ up' = [up EXCEPT ![p] = TRUE] /\ Info(p) /\ Goto(p, "started")
     \/ Goto(p, "error") /\ UNCHANGED <<up, log>>
  /\ UNCHANGED <<disk, pass, key, cert, handlers, ids>>

(* Fault: the listener is opened as soon as the transport is there.        *)
ListenFirst(p) == ListenFrom(p, {"registry", "listen"})

Listen(p) == ListenFrom(p, {"listen"})

(* Stop only says so: the listener and the database stay open.             *)
Stop(p) ==
  /\ at[p] = "started"
  /\ Info(p) /\ Goto(p, "stopped")
  /\ UNCHANGED <<disk, mem, ids>>

(* os.Exit, a signal, the return of main, or a crash.                      *)
Exit(p) == at[p] # "off" /\ Gone(p)

(* Whoever reads GetLogChannel.                                            *)
ReadLog(p) ==
  /\ log[p] > 0
  /\ log' = [log EXCEPT ![p] = @ - 1]
  /\ UNCHANGED <<disk, at, mem, ids>>

(* Another program takes the port, or gives it back.                       *)
OtherProgram ==
  /\ \/ port = None /\ port' = Other
     \/ port = Other /\ port' = None
  /\ UNCHANGED <<dirLock, secret, at, mem, log, ids>>

StartStep(p) ==
  \/ Open(p) \/ GetOrGenerateKeys(p) \/ StoreKeys(p)
  \/ Bind(p) \/ Register(p) \/ Listen(p)

Next ==
  \/ OtherProgram
  \/ \E p \in Procs : \/ \E word \in Passwords : Start(p, word)
                      \/ StartStep(p) \/ Stop(p) \/ Exit(p) \/ ReadLog(p)

(* Start runs on; nobody has to read the log.                              *)
Fairness == \A p \in Procs : WF_vars(StartStep(p))

Spec == Init /\ [][Next]_vars

FairSpec == Spec /\ Fairness

-----------------------------------------------------------------------------
(* Properties.                                                             *)

Within == {"open", "keys", "store", "bind", "registry", "listen"}

(* Every variable has its type.                                            *)
TypeOK ==
  /\ dirLock \in Procs \cup {None} /\ port \in Procs \cup {None, Other}
  /\ secret \in {None} \cup [key : Keys, pass : Passwords]
  /\ at \in [Procs -> Within \cup {"off", "error", "started", "stopped"}]
  /\ pass \in [Procs -> Passwords \cup {None}]
  /\ key \in [Procs -> Keys \cup {None}]
  /\ cert \in [Procs -> {GenerateTLSConfig(k) : k \in Keys} \cup {None}]
  /\ handlers \in [Procs -> SUBSET SubscribedTypes]
  /\ up \in [Procs -> BOOLEAN]
  /\ log \in [Procs -> 0 .. LogCap]
  /\ ids \in SUBSET Keys

(* The node has one identity for ever: every key that GetOrGenerateKeys    *)
(* returns, in whatever process and after whatever crash, failed write or  *)
(* wrong password, is the one in storage.                                  *)
OneIdentity == ids # {} => secret # None /\ ids = {secret.key}

(* A node that accepts connections has a handler for every type it serves, *)
(* shows a certificate of the key in storage, and is the only process with *)
(* the database and the port, even after Stop and a Start that failed.     *)
AcceptsOnlyReady ==
  \A p \in Procs : up[p] =>
    /\ handlers[p] = SubscribedTypes
    /\ secret # None /\ cert[p] = GenerateTLSConfig(secret.key)
    /\ dirLock = p /\ port = p

(* Start returns or the process ends, though nobody reads the log.         *)
StartEnds == \A p \in Procs : at[p] \in Within ~> at[p] \notin Within
=============================================================================
