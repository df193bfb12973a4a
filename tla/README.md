# echofog-core: models, checks and proofs

echofog-core is the core of a peer-to-peer messenger in Go. A node keeps a key,
accepts and dials QUIC connections, authenticates the other end of each, keeps
one active peer per other node, floods chat messages over its peers and hands
what it receives to services. This directory holds TLA+ modules translated from
that code, the TLC configurations that check them on small instances, and
proofs, checked by TLAPS, of their main invariants for every value of the
constants. `PROJECT.json` maps every definition to the lines it models.

The repository has no tests and no documents besides comments. The
specification is therefore the code; what it is compared with is what its
comments say and what each part needs of the others.

## 1. Inventory

| Part | State it keeps | Operations | Talks to |
|---|---|---|---|
| Dispatcher (`dispatcher.go`) | a bounded channel, a map of handlers, worker goroutines, a context | `Registry`, `PushMessage`, `Start`, `Stop`, `workerLoop`, `processPacket`, `route` | fed by every peer's reader; calls the services |
| Gossip manager (`gossip/manager.go`) | `seenCache` | `Broadcast`, `HandleIncoming` | called by the services; sends through the swarm |
| Messenger (`messenger/service.go`) | none | `Send`, `Handle` | crypto engine, gossip manager |
| Swarm (`swarm.go`, `peer.go`) | `activePeers`, each `Peer`'s context, bans and saved addresses in storage | `registrationLoop`, `AddPeer`, `RemovePeer`, `BanPeer`, `UnBanPeer`, `SavePeer`, lookups | fed by the transport's `connChan`; starts the loops of a peer; pushes to the dispatcher |
| QUIC transport (`quic.go`) | listener, `connChan` | `ListenEarly`, `AcceptConn`, `DialEarly`, `authenticatePeer`, `newConn` | the network; the swarm |
| Handshake (`handshake.go`, `quic_frame.go`, `length-prefix.go`) | one stream, two nonces | `sendHandshake`, `acceptHandshake`, `checkHandshakeResponse`, Ready | the other end of the connection |
| Peer wrapper and streams (`quic.go`, `stream.go`) | map of open streams; per stream two channels of 100, a context, a `sync.Once` | `wrapAndRegister`, `removeStream`, `readLoop`, `writeLoop`, `Send`, `Close` | the connection; the stream handler of the swarm |
| Sessions (`sessions.go`) | map of sessions; per session a list and a channel of 10 streams | `CreateNewSession`, `AddStream`, `Register`, `Close` | the stream handler of the swarm |
| Routing table (`dht/`) | Kademlia buckets in storage | `SavePeer`, `GetNearPeers`, `getBucketIndex` | storage |
| Merkle DAG (`dht/merkle_dag.go`) | chunks and links in storage | `SaveFile`, `GetFileChunk` | storage |
| Storage (`badger_storage.go`) | a Badger database, locked by one process | `Set`, `Get`, `Delete`, `Exists`, `FindValues` | everyone |
| Key store (`security_keys.go`) | the encrypted key in storage | `GetOrGenerateKeys` | node start |
| Discovery (`discovery/`) | none; mDNS browsing | `Handle` and its halves `peerGetter`, `peerGiver`; announcements | swarm, gossip |
| Node (`node.go`, `main.go`) | the parts above, the UDP port | `Start`, `Stop` | everyone |
| Logger (`channel_handler.go`) | a channel of 100 entries | `Handle` | everyone logs |
| Identity, configuration | addresses, constants | | |

What is hard in this code is concurrency without a test: every connection, peer,
stream, send, save and worker is a goroutine, locks are held for single
statements, results pass through bounded channels, and the errors of goroutines
are read by nobody. `PROJECT.json` lists the hazards at their lines and the
properties that would show them going wrong.

What makes each part correct:

- *Dispatcher*: no admitted packet is lost or served twice, however full the
  channel; a worker is there for the next; only a packet that verifies and decodes
  reaches a handler; a stop releases everyone.
- *Gossip*: a message is sent on once per node, the flood ends, each hop is a new
  node, and the target shows the message.
- *Swarm*: one open peer per node, none out of reach of `RemovePeer` and
  `BanPeer`, every authenticated connection registered.
- *Handshake*: the owner of the key a connection is registered under has taken
  part in this handshake, two ends of this make have each other's key, and both
  agree that they do.
- *Streams*: frames in order and without a gap, one cleanup, no goroutine left.
- *Sessions*: the list and the channel of a session agree; handlers return.
- *Two swarms*: once the link between two nodes is at rest each hears the other,
  unless there is a reason that the code admits; what was sent without an error is
  read.
- *Routing table*: no save lost, no bucket over twenty, every entry in the bucket
  of its distance, every answer nearer to what was asked for.
- *Merkle DAG*: a file appears whole or not at all and is read back as saved; a
  crash leaves no dangling link.
- *Key store*: the identity survives a restart, a crash and a wrong password.
- *Node*: it accepts connections only when everything that serves them is there;
  `Start` comes to an end.

How they interact: the transport hands an authenticated connection to the swarm
over `connChan` (capacity 10); the swarm makes a `Peer` and starts three loops on
it; `AcceptUniLoop` reads one frame per unidirectional stream and pushes it to
the dispatcher (capacity 2000); a worker verifies it and calls the service
registered for its payload; a service answers through the gossip manager or the
swarm, which open a unidirectional stream to each peer. Bidirectional streams go
to the swarm's stream handler and from there to a transfer session. The routing
table and the Merkle DAG stand apart: the node never constructs a DHT, and only
the content service, which it does not register, refers to one. They are modelled
as the library code they are.

## 2. The modules

| Module | Models | State and actions |
|---|---|---|
| `Dispatcher` | `dispatcher.go` | The channel, the handlers, each worker's position and packet. `workerLoop` is split where another goroutine can step in: the receive, `processPacket`, `route`, the return of the handler. A panic, in `processPacket` or in the handler, ends the process. |
| `Gossip` | `gossip/manager.go`, `messenger/service.go`, the sending side of `quic.go` | One `seenCache` per node, the calls of `Broadcast` under way (before the lock, after it), the sends under way, the workers each node's dispatcher has left. A send is handled, and takes a worker, or it is lost: on the way, to a full channel, or to a channel nobody reads any more. Packets besides the flood's take workers too. A node of another make (`Outside`) brings in messages of its own with any hop limit, 0 included. |
| `Swarm` | `swarm.go`, `peer.go`, `newConn`, `AcceptUniLoop` and `AcceptStreamLoop` of `quic.go`, `FindValues` | Each connection's way to `activePeers`, the contexts, the loops, saves and bans. `AddPeer` and `BanPeer` are split at their locks. |
| `Handshake` | `DialEarly`, `AcceptConn`, `authenticatePeer`, `handshake.go`, framing | Two ends, the frames in flight each way, the end of the stream, the close of the connection. An end may run other software. It cannot sign for another, but it may pass on any answer that was made to a nonce: the other end's own, or one it has obtained from a third node (`ThirdAnswers`). No part of an answer names the connection it is for, so `checkHandshakeResponse` cannot tell. |
| `Streams` | `stream.go`, `wrapAndRegister`, `removeStream` | Reader, writer, user and registration of each stream, its channels, its `sync.Once`, and what the other node does with the QUIC stream. An empty frame panics in `readFrame` and ends the process. |
| `Sessions` | `sessions.go` and the stream handler of `AddPeer` | A handler per stream; the map from IDs to sessions, in which `Register` replaces; each session's list and channel. |
| `PairLink` | two `Swarm`s, `peer.go`, the sending side of `quic.go`, `discovery/service.go` | Composition: two nodes, the connections between them, each end's calls of `newConn`, its `connChan`, active peer, contexts and loops, and the unidirectional streams in flight. `RemovePeer` and `BanPeer` are steps of either. Registration, which `Swarm` takes apart, and the handshake, which `Handshake` does, are one step of one end each. |
| `Storage` | `badger_storage.go` as its users see it | A map from keys to values; an operation is one transaction. |
| `RoutingTable` | `dht/routing_table.go`, `dht/kademlia.go`, the peers' half of `dht/dht.go` | The buckets in storage and the calls of `SavePeer`, each split between its read of a bucket and its write. IDs are sequences of bits and `getBucketIndex` works on their bytes as the code does. |
| `MerkleDag` | `dht/merkle_dag.go`, the files' half of `dht/dht.go` | The nodes in storage and the calls of `SaveFile`, one step per write, with a failing write and the end of the process as steps. A hash is the record of what was hashed; the bytes of an encoded node are a value a file may contain. |
| `FileStore` | what `SaveFile` and `GetFileChunk` promise | Abstract: a map from names to files to which a file is added at once. `MerkleDag` implements it under the mapping "the names are the stored `META_LINK`s, the files what `findFileByID` returns for them". |
| `NodeStart` | `node.go`, `main.go`, `security_keys.go`, `NewQUICTransport` and `ListenEarly`, `channel_handler.go` | Processes over one directory and one port. `Start` is split at every call that can fail; keys, certificate, handlers and the log of each process; what storage has under `secret:keys`. |
| `*Proofs` | | The theorems about the module of that name; `NetworkProofs` has those about `Handshake`, `Streams` and `Sessions`, whose `Init`, `Next`, `Spec` and `TypeOK` carry the module's name for that reason. |
| `MC*` | | The instances TLC checks. |

Conventions. A definition whose comment begins with "Fault" is a wrong version of
the operation that follows it; `PROJECT.json` pairs it with the property that
must notice it, and nothing else uses it. Variables marked "history" are read by
properties only. Messages, keys and addresses are names: a key is the node that
has it, a signature is who signed what. What the code converts is converted in
the model too: a peer's ID is a hash and never equals a key, a saved entry is
protobuf and the reader expects JSON, the hop limit is an unsigned integer of
`HopModulus` values.

A write to storage may fail everywhere: in `RoutingTable`, `MerkleDag` and
`NodeStart` the caller returns the error, in `Swarm` it ignores it and goes on
(`SavePeer`, `BanSet`). What `Set` has written is taken to outlive the process; a crash of the machine, where Badger may lose what it has
not synced, is not modelled.

## 3. The runs

| Run | Instance | Shows |
|---|---|---|
| `dispatcher` | 5 packets (sound, forged, garbled, key too short, origin too short), 2 workers, channel of 2 | Every admitted packet is in one place, none lost or doubled; a worker is free as long as fewer packets were taken than there are workers; only sound packets handled; the first packets are served and a stop releases the workers. |
| `dispatcher_all_served` | 3 sound packets, 2 workers | **Violated.** `workerLoop` has no loop: the packet after the `workersNum`-th is never served. |
| `gossip_relay` | ring of 4 nodes and one of another make, 1 message, hop limit 4 of 5 values (any of them from outside), 2 workers per node, 1 other packet | One forward per node although `HandleIncoming` tests a stale cache; every hop a new node; enough hops; a message of which no copy was lost is shown, at any node if `HandleIncoming` is called and at a direct peer if it is not. |
| `swarm` | 2 connections of one node, one of which may fail and brings bidirectional streams, `connChan` of 1 | One open peer, no orphan, an effective ban, no open peer dropped, at most one late stream in `AcceptUniLoop`; every connection is registered; the loops of a closed peer end. |
| `swarm_history` | the same without bans | **Violated.** `GetHistoryConnected(0)` returns nothing once a peer is saved. |
| `handshake` | two ends, either of them foreign with up to 3 frames, and a third node | The owner of the key registered has answered this handshake's nonce, and between two ends of this make it is the other end's; Ready is never early; two ends of this make never fail each other and never wait for each other. |
| `streams` | 1 stream, channels of 1, 3 frames each way | Order, the map of streams, the end of both goroutines. |
| `sessions` | 2 handlers, 2 sessions that take turns under one ID, channel of 1 | List and channel agree; handlers return. |
| `routing_table` | 5 saves, IDs of 2 bytes, buckets of 2 | Sound buckets, answers that are nearer, saves lost only to overlapping saves. |
| `merkle` | 6 files, 2 callers, 3 saves, chunks of 2 bytes | No dangling link; `MerkleDag` implements `FileStore`. |
| `node_start` | 2 processes, 2 passwords, 3 keys, a log of 2 | One identity; nobody accepts before it is ready; `Start` ends. |
| `pair_link` | 2 connections, one dialed by each node, `connChan` of 1, 1 request | A link at rest leaves a node unheard only for one of the reasons `DeafHasCause` lists; what is sent is read. |

Bounds. Every queue that a module follows has its capacity as a constant (in
`Gossip` the dispatcher's channel is not followed: being full, or having no reader
left, is one of the causes of a loss); the small values (1, 2) make it fill with the fewest items, and nothing depends on the
capacity but whether the queue is full. Two workers and more packets than workers
and places together cover a worker that is free, one that is busy and a packet
that finds neither. Four nodes in a ring are the smallest network in which two
copies of a message reach a node by different ways; a hop limit of 4 lets a copy
go all the way round, and of 5 values the one that 0 wraps to is as large. Two
workers are one per neighbour, so that a node may hear both and may run out. Two
connections of one node are what `AddPeer` distinguishes: an old one and a new
one; that only one of them may fail (`Restless`) keeps the run short, and it may
be either of the two. Three foreign frames are as many as the code reads before it
decides. Three frames per direction put one in the hand of the goroutine, one in
its channel and one behind. One stream is enough because streams share only what
any step may change (the peer's context); two sessions under one ID are the one
that is found and the one that has replaced it. The saves of `routing_table` put
more peers in a bucket than it holds, within the second byte of an ID, in its last
bit, and with this node's own ID; that every bit of every byte is right is proved.
The files of `merkle` share chunks, repeat one, are empty, fit one node, and are
what a node encodes to; two calls run side by side and a third finds what they
left. Two processes are one that has the directory and one that wants it, and the
names `p1`, `p2` also cover one process after another; three keys are one per
process and one to spare. For the parts that are proved, the bounds do not matter.

Fairness is weak fairness of goroutines that can run: a started worker, a
goroutine spawned by the code, the reader of a channel. Go's scheduler is
preemptive, so a runnable goroutine runs. Timeouts that the code sets (five
seconds in the stream handler, QUIC's idle timeout) come in the end. In `Swarm`
nobody has to open a stream. In `NodeStart` a `Start` under way goes on; in
`PairLink` a Ready byte on its way arrives or the connection is lost, and the
loops of a node run on. Nothing is assumed of peers, users or the network: nobody
has to send, read, dial, register, remove or close, nobody has to read the log,
and a send may fail. Liveness properties therefore end in "or the send failed",
"or the process is gone", "or the other node has stopped reading".

`Gossip` takes the identifiers of messages to be unique: a node draws each once, and
the node of another make brings fresh ones.

Deadlock checking is off in every run because each of these systems may rest:
peers fall silent, workers return, floods die out, streams close.

## 4. What the code does that its reader may not expect

- `workerLoop` is a single `select`; a dispatcher serves `NumCPU - 1` packets in
  its life and none on one CPU (`dispatcher_all_served`). Every node of a flood is
  exposed to it: `Delivered` counts a packet that finds no worker as lost.
- `HopLimit` is unsigned and `Broadcast` takes one off before it tests it: a message
  that comes with 0 wraps and has the whole width of the integer before it. It
  wraps once, and `seenCache` still ends the flood (`HopsAreDistinctNodes`).
- A handshake shows that the owner of a key has answered the nonce, not that it is
  at the other end of the connection: the signature covers the nonce and the key
  alone. An end of another make can register a connection under the key of a node
  whose answer it passes on, or under the reader's own.
- `SavePeer` writes protobuf and `FindValues` parses JSON (`swarm_history`).
- `Broadcast` means to skip the origin and compares a peer's ID, which is a hash,
  with `OriginId`, which is a key: no peer is ever skipped, and the origin gets
  copies back (they die at its `seenCache`).
- `HandleIncoming` has no caller, so nothing is relayed; a target that is not a
  direct peer gets nothing. `Gossip` starts in either case (`relays`).
- A message is shown once per copy received: `Handle` looks for no duplicates.
- A connection that ends leaves its `Peer` in `activePeers`; `BanPeer` leaves it
  there too, closed; nothing consults the bans: `CheckOnBan` has no caller, and
  answers `true` for a peer without a ban.
- A Ready exchange that fails leaves the connection open; no read of the
  handshake has a deadline; the protocol version is sent and not compared.
- `AcceptConn` goes on after every error of `Accept`: when its context ends it spins.
- A key that is too short panics in `processPacket` and in
  `checkHandshakeResponse` before its length is tested; so does an origin that is
  too short in the messenger's `Handle`, and an empty frame in `readFrame`.
- `AcceptStreamLoop` leaves the end of its context to `AcceptStream`: a closed peer
  goes on accepting bidirectional streams while some wait (`ClosedLoopsEnd`).
- A stream closed before `wrapAndRegister` lists it stays in the map for good
  (`MapMatches` says exactly when). A write to a node that has stopped reading
  holds `writeLoop` even after `Close` (`LoopsEnd` says exactly when). The stream
  handler closes a stream it has just given to a session.
- `findAndConnectToPeers` leaves `s.mu` read-locked on two of its paths; it has
  no caller. `netTransport` of the swarm is never set, so `AddPotentialPeer` could
  not dial; `peerID` of a `PeerWrapper` is never set, so `OnData` gets a zero ID.
- A connection can be up, its writer's sends succeed, and its other end not read it.
  `DeafHasCause` lists how a link at rest comes to that: the other end has removed
  or banned its peer, which for a ban leaves its own writing as it was; the two
  nodes registered two connections in opposite orders, as they may when both dial
  at once, so that each keeps the one the other has closed its reader on; or the other end
  replaced it by a connection that it dialed and that failed before it was
  accepted. It lasts until somebody dials again.
- `DiscoveryService.Handle` gives requests to `peerGetter`, which is empty, and
  answers to `peerGiver`, which ignores them: no request is ever answered.
  `peerGiver` also looks its requester up by key where the peers are stored by its
  hash, and would always broadcast.
- Of two saves of one bucket that overlap, the later write drops the earlier
  peer. A peer saved again is appended again. This node's own ID shares the last
  bucket with an ID that differs in the last bit.
- `SaveFile` asks whether the hash of the *file* is stored, but stores under the
  hashes of encoded *nodes*: saving a file twice writes it twice (the same nodes
  under the same keys), and only a file that is the encoding of a stored node is
  found; for that one `SaveFile` answers neither a key nor an error.
- A `Start` that fails leaves the database open and the port bound, and
  `Node.Stop` stops nothing: another `Start` in the same process fails at the
  database, while the first listener, if there was one, goes on accepting.
- `SavePeer` ignores the error of `Set` and returns on one of `Marshal`: a node may
  be registered and never saved (`AllRegistered` claims the attempt only).

## 5. The proofs

All are safety properties, for every value of the constants that satisfies the
module's assumption (capacities positive, the functions well typed). Each proof
strengthens its property to an inductive invariant, since the property alone says
too little about the steps under way.

- `DispatcherProofs`. `IInv` adds to the types that a worker without a packet is
  at its `select` (`Idle`), that the channel is the untaken rest of the admission
  order (`Backlog`), that no packet is admitted twice (`Distinct`), that packets
  taken and packets held are the same, one worker each, and that there are as many
  of them as workers that have one (`Count`). `FreeUntilSpent` (`SomeoneFree`) is a
  matter of counting: by `Waiting` a worker without a packet has not returned while
  the dispatcher runs, and by `Count` there is one as long as fewer packets were
  taken than there are workers. It is the safety half of `EarlyPacketsServed`.
  `PacketsAccounted` (`Accounted`) needs `Results`: a packet has a result exactly
  when the worker that took it has returned with it. `OnlySoundPacketsHandled` needs
  `Inspected`: a worker past `processPacket` holds a packet that passed it.
- `GossipProofs`. The invariant follows a message from `Broadcast` to the wire:
  a node whose call is past the lock has marked the message, has not sent it on,
  and has no other such call; a message is as it was born or has lost a hop at each
  of the nodes it has visited, which are distinct and have marked it, where a limit
  of 0 counts as the width of the integer (`DecrementWraps`). From that:
  `ForwardOnce`, `HopsAreDistinctNodes`, and `HopsSuffice` by counting (a copy with
  one hop left has visited as many nodes as there are). `TypeOK` is part.
- `SwarmProofs`. The invariant says that at most one connection is being
  registered, that an open peer is the active one or the one being registered,
  that while a peer is built the active one of its node is closed, and what a
  `BanPeer` under way has found. Proved: `TypeOK`, `NoOrphan`, `OneLivePeer`,
  `LateAcceptBound`, `BanCutsKnownPeers`, and the action property
  `LeavesOnlyClosed`.
- `NetworkProofs`, the handshake. `Signed` says that an answer on the stream that
  verifies is one the owner of its key has made (`answered`), and from an end of
  this make its own; `Checked`, that an end past its check holds the key of such an
  answer to its nonce, and the other's if that is of this make; `ReadySaid`, that
  with a dialer of this make no Ready is on its way or received before the dialer
  has the acceptor's key. From these `AuthenticPeer` and `ReadyAgreement`, with any
  number of foreign frames. `NoSpuriousFailure` is not inductive: an end fails on a
  frame of the wrong kind, so what is on the wire must be known. `FollowScript` says
  it: while the network holds, each of two ends of this make has before it exactly
  what the other's script has written and it has not read. `Bounded` is for
  `HandshakeTypeOK`: at most three frames of an end of this make are ever before the
  other, failed or not. `FollowScript` also gives `NeverBothWaiting`: two ends of
  this make are never both in a read that finds nothing. With `AlwaysOnward` (an end
  that moves moves forward, so it moves at most six times) that is the safety half
  of `BothRegister`.
- `NetworkProofs`, the streams. Frames are numbered, so order without a gap is that
  each place holds a run of numbers and the runs join: what the user has received,
  `Incoming`, the reader's hand (`InOK`); what is written, the writer's hand,
  `Outgoing` (`OutOK`). What is written falls behind what was taken only once a
  write can have failed, and then no later one succeeds. The lemmas `RunPut`,
  `RunGet` and `RunConcat` say how runs grow, shrink and join. Proved
  for any number of streams, frames and places: `StreamsTypeOK`, `OrderKept`,
  `MapMatches`.
- `NetworkProofs`, the sessions. `FoundFirst` says that a handler past the lookup
  holds a session, whatever the map says by now; `Listing` ties it to the list: a
  listed stream is one whose handler has found that session and is past the
  listing, and the stream of a handler at the `select` is listed. Proved: `SessionsTypeOK`,
  `ListMatchesChannel`.
- `RoutingTableProofs`. First the arithmetic: the index found byte by byte is the
  length of the prefix two IDs share, for IDs of any length (`IndexIs`). Then
  three results. `BucketsSound` needs that a call about to write holds a bucket
  that may be written (`Pending`). `AnswersAreNearer` follows from it: an entry of
  the bucket of `t` shares with `t` the bit in which this node differs from both.
  `KeptUnlessOverlapped` needs `Carried`: a call about to write holds every entry
  written before its read, unless an overlap had lost it.
- `NodeStartProofs`. A process past `GetOrGenerateKeys` holds the key in storage
  and the database; one past `NewQUICTransport` holds the port and shows the
  certificate; whoever is about to store a key has the database and has found no
  key in it; and a process that accepts connections is not within a `Start` that
  could get past the database. Proved: `TypeOK`, `OneIdentity`,
  `AcceptsOnlyReady`.
- `PairLinkProofs`. `Current` says that a peer is open only if it is the active
  one, that the active one is the last registered, and that one registered last is
  open or was removed or banned; `Arrivals`, that a connection reaches its dialer
  before the other node, and both if it is up (with `newConn`, in `connChan` or
  registered). At rest, then, an unheard connection that was not cut was replaced,
  and its successor is known to the first node, which registered it before, or
  failed before that node accepted it. Proved: `TypeOK` and `DeafHasCause`
  (`DeafExplained`), for any number of connections and messages.
- `MerkleDagProofs`. Storage is addressed by content, so a write changes nothing
  that is stored; the keys a call has collected are those of stored chunks with
  something in them, which takes the arithmetic of `ChunkCount` for every size
  (`ChunkIs`). Proved: `TypeOK`, `NoDanglingLinks`.
- `MerkleDagProofs`, the refinement. `Exact` says of a call under way that the keys
  it has collected are those of the first chunks of its file, in order. Hence when
  `SaveMeta` writes the links, `findFileByID` joins all the chunks, and that they
  make up the file is `WholeFile`. This is an induction over the chunks, done with
  the least-number principle: of the prefixes for which the claim fails `WFMin`
  gives a least one, and the one before it refutes it (`LeastIs`, `Accumulates`,
  `Flattened`, `Joined`). Every other step stutters: `ReadsSame` says that a file
  that can be read is read the same after any write, and `StepPuts` that the names
  change only with `SaveMeta`. Proved, for files and chunks of every size and any
  number of calls, failing writes and crashes: `SavesAtomically`, which is that
  `MerkleDag` implements `FileStore`; `NamesAreOwn`, that different files have
  different names; `Durable`, that a file once readable stays and stays the same;
  `ReadBack`, that every name `SaveFile` has answered reads back as its file. That a
  hash is the record of what was hashed is the assumption they rest on: no two
  contents have one hash.

Every invariant and action property that a passing run checks, and the refinement,
is thus stated by a theorem. Only model-checked are the ten properties that need
fairness, which the prover does not have: `EarlyPacketsServed`,
`StopReleasesWorkers`, `Delivered`, `AllRegistered`, `ClosedLoopsEnd`,
`BothRegister`, `LoopsEnd`, `HandlersReturn`, `StartEnds` and `SentIsRead`.

## 6. What is left, and what is not modelled

Left to prove: what liveness rests on and safety can say, as `NeverBothWaiting` and
`FreeUntilSpent` do for the handshake and the dispatcher: that a flood can always go
on until the target has shown the message, that a goroutine of a closed stream is
never in a place it cannot leave but for a stalled write, that every step of
`Start` moves it onward.

Not modelled:

- mDNS (`m_dns.go`) and STUN (`stun_ident.go`): the libraries do the work, nothing
  calls `NewMDNS`, and what it finds would be dialed through a transport that is
  never set.
- `findAndConnectToPeers`, `connect` and `AddPotentialPeer` of the swarm, for the
  same reason; `OpenNewStreams`, which opens streams side by side and collects
  those that opened (`Streams` has the opening); the datagram loop, which prints.
- `UpdateTTL` (no caller) and `GCWorker` of the storage, and what a crash of the
  machine may take from it.
- Configuration, addresses, the formatting of log entries, the buffer pool.
- The generated protobuf code, but for the fields the models carry.
- The arithmetic of the cryptography: a signature verifies under the signer's
  key, a shared key belongs to a pair, a wrong password is noticed.
- The content and Kademlia services, whose methods panic with a TODO and which
  the node does not register.
