# t-chat in TLA+

t-chat is a peer-to-peer chat and file-transfer program.  Its messages travel over a fork of the
Pinecone overlay network that lives in the same tree.  This directory specifies its concurrent and
distributed parts in TLA+, model-checks them with TLC on small instances and proves the safety that
matters most with TLAPS for every instance.

Paths below are relative to the repository (`src/` here); `router/` stands for
`internal/pinecone/router/`, `network/` for `internal/network/`.

## 1. The system

```
 cmd/, main.go (CLI)  chat, friend, account, file   what users see
        |                    |
        |             internal/chat, friend, account, file     what is stored
        |
 internal/network     PineconeService: envelopes, dispatcher, workers, acks, pings,
        |             confirmations, file transfers, mDNS, route discovery
 internal/pinecone/sessions                          QUIC streams over the overlay
        |
 internal/pinecone/router                            tree + SNEK routing, peers, queues
        |
 TCP                                                 bytes between neighbours
```

### Inventory

| Component | State | Operations | What is hard | What makes it correct |
|---|---|---|---|---|
| Tree (`router/state_tree.go`, `state.go`) | parent, stored announcement of every peer with a receive order, own sequence, ordering counter, waiting flag, cache of coordinates | announcements, maintenance timer, wait timer, add peer, peer disconnected, next hop by coordinates | the ends of a link learn of its failure at different times; timers are never cancelled; a frame that a reader had before a stop is queued and handled after it | no loop passed on, every wait ends, all nodes settle on one tree, the tree delivers |
| Peers and queues (`router/peer.go`, `queue*.go`) | started flag, unbounded protocol queue, fair traffic queue, reader and writer actors | push, head drop, pop, ack, reset, stop | a channel chosen under a mutex is used after it is released; stop runs between any two steps of the writer | nothing is stuck, a flow stays in order, the count agrees with the channels, a stopped writer ends |
| SNEK (`router/state_snek.go`) | table of paths by key with expiry, the descending node | bootstrap, handle bootstrap, maintenance, next hop | expiry, choices that depend on map order, tables of different moments | the snake is in order, a key that exists is reached |
| Forwarding (`router/state_forward.go`, `packetconn.go`) | a local queue | forward, local delivery, ReadFrom, WriteTo | stale coordinates, watermarks | a frame of a settled network ends at its addressee |
| Broadcasts (`router/state_broadcast.go`) | seen sequence and time per source | send, flood, filter | duplicates, rate filter, hop limit | a flood reaches everybody once |
| Router construction (`router/router.go`) | the actors, the ports | NewRouter, Connect, Disconnect, Close | port reuse | a port has one peer at a time |
| Sessions (`internal/pinecone/sessions/`) | map of sessions by key, each with a lock and a QUIC connection | dial, accept, session listener | lookup and lock are two steps; replacement and removal race | locks are released, dials and accepts end |
| Network service (`network/pinecone_service.go`) | service lock, callbacks of awaited acknowledgements, contacts, pools | Start, Stop, send, receive loop, search, pings | lost and reordered frames, full queues, Stop against work, reuse of pooled objects | a delivered message was handled; what is handed over is not overwritten |
| Dispatcher and handlers (`network/dispatcher.go`, `new_handlers.go`, `handler/`) | handler tables, initialised flags | register, initialise, route | handlers come from three sides, initialisation fails half-way | once initialised, every type is routed |
| Workers and queue (`network/worker_pool.go`, `priority_queue.go`) | task channel, workers, heap | submit, close, push, pop, replace | closing against submitting, the full queue | an idle pool stops, the heap pops in order |
| Error handler (`network/error_handler.go`) | statistics, bounded history | RetryWithPolicy, record, stop | cancellation while waiting | attempts follow the policy error by error |
| Pings (`network/ping_manager.go`) | pending pings with channels | ping, pong, time-out | answer against time-out | no pending entry without a caller |
| Connections (`network/connection_manager.go`) | two tables, monitors, clean-up queue | create, get, close, health check, clean up | clean-up names a peer, not a connection | a healthy connection is not dropped |
| Route discovery (`network/route_discovery.go`) | links, failures, recent dials, event queue | events, tickers, discovery, dialling | suppression intervals that cancel each other, limits on what one discovery dials | a node with too few connections dials others again and again |
| mDNS (`network/mdns_service.go`, `local_discovery.go`) | caches, sockets, callback | start, query, receive, expire, report | start order, nodes that leave and come back while reported | one dial of a node at a time |
| File transfer (`network/file_transfer_service.go`, `transfer_state_manager.go`, `retry_manager.go`, ...) | session, transfer state with a table of transitions, pending transfers | send, request, confirm, chunk, ack, complete, cancel, time-out, retry | cancel against the sending loop, retry after time-out, reordered completion | consent first, a cancelled transfer stays cancelled, all sent before closed |
| User confirmation (`network/user_confirmation_handler.go`) | pending requests with two channels each | request, answer, time-out, clean-up | closes against sends | a request is answered once and forgotten |
| File package (`internal/file/`) | sessions and files on disk, chunk cache, window | save chunk, assemble, resume, send window | duplicates, restart, crash in a write | a file called complete is whole |
| `file send` (`cmd/file.go`) | window, two maps, a listener per command | send, acknowledge, time-out | acknowledgements twice, late, for earlier sends | the window holds what is unacknowledged |
| Chat and friends (`internal/chat/`, `internal/friend/`, `cmd/`) | messages.json, friends.json, their locks | send, mark, save, load, add, remove | early acknowledgement, crash in a write, a lock taken twice | history survives, commands return |
| Accounts (`internal/account/`, `cmd/account.go`) | files, tables, the selected account, the node's keys | create, log in, select, delete | several processes, files cut off, selection while online | a node introduces itself as somebody it is |
| Pools (`internal/performance/`, `network/memory_pool.go`) | pooled packets, maps, buffers | take, put back | reuse under a reader | contents stay what they were |
| Wire types, utilities, multicast, Bluetooth, configuration, logging | - | encoding, printing | - | see section 5 |

The router is an actor system: one *state actor* per router runs closures one at a time, each peer
has a reader and a writer actor, and timers post closures to the state actor.  Actors share the
peers' `started` flags and the queues.  Routers exchange frames over connections that keep order.

Above it `PineconeService` reads datagrams in one loop and hands them to a pool of workers, so
handlers run concurrently and in any order; what a handler answers is sent under the service's
read-write lock.  Nothing retransmits but `file send` and the callers of `RetryWithPolicy`.

## 2. Modules

| Module | Models |
|---|---|
| `TreeState` | The state actor's own record and every handler of the tree as an operator from a state to a state (or a set of states where Go's map order decides). |
| `TreeNode`, `TreeNodeProofs` | One router in an environment: peers that come and go, readers that hold a frame past their `started` check, the inbox of the state actor, the timers. |
| `TreeNetwork`, `TreeNetworkProofs` | Several routers, each an `INSTANCE` of `TreeState`, joined by links that come up, break and come up again. |
| `SnakeState` | The snake of one router as operators. |
| `Overlay`, `OverlayProofs` | The routers of `TreeNetwork` with their snakes and one frame of traffic at a time. |
| `PeerQueues`, `PeerQueuesProofs` | The protocol queue and the fair traffic queue of one peer, between the state actor and the writer actor. |
| `Broadcast` | Wakeup floods over a settled tree. |
| `Sessions` | Diallers, the listener and one goroutine per connection around the entry of one remote node. |
| `Connections` | The connection manager: tables, monitors, queued clean-ups, wrappers. |
| `Routes` | Route discovery: events, tickers, discoveries, dials. |
| `Discovery` | The start of the program, mDNS and its local fallback, the callback for new nodes, contacts. |
| `Messaging` | The message service: receive loop, workers, handlers, commands, Start and Stop. |
| `Handlers` | Registration and routing of handlers. |
| `ObjectPools` | Packets, maps and buffers that are reused. |
| `Retries` | The error handler's retries, counts and history. |
| `PriorityQueue` | The bounded heap. |
| `UserConfirmation` | One question to the user: the goroutine that waits, the one that runs the callback, the timer, and the two channels between them. |
| `FileTransfer`, `FileTransferProofs` | One file from a sender to a receiver; it extends `UserConfirmation` and composes its steps with the receiver's. |
| `TransferPromise` | The abstract specification of a transfer: what the users at both ends may rely on.  `FileTransfer` implements it (`Promised`). |
| `DirectTransfer` | A file over one stream, with its window and resume. |
| `FileStore` | The file manager: sessions, chunks, assembled files, two JSON files, restarts. |
| `CommandTransfer` | `file send`, several times in one session. |
| `ChatHistory` | The messages a user sends and `messages.json`. |
| `Accounts` | Accounts, logins and account commands of several processes. |
| `Friends` | The friend list and its lock. |
| `MCTreeNode`, `MCTreeNetwork`, `MCOverlay`, `MCPeerQueues`, `MCFileTransfer`, `MCFriends` | Instances of one component each. |
| `MCPeers`, `MCApplication` | Several components in one run (below). |
| `PeersProofs` | Theorems about `Connections`, `Discovery` and all of `MCPeers`. |
| `ServiceProofs` | Theorems about `Messaging`, `Handlers`, `ChatHistory`, `Accounts` and `FileStore`. |
| `ApplicationProofs` | Theorems about `ObjectPools`, `Retries`, `PriorityQueue`, `CommandTransfer` and all of `MCApplication`. |

`MCPeers` and `MCApplication` hold components that share no variables: none reads what another
writes.  Their product would only multiply states, so a variable `turn` names the component that
runs, and the others stay in their initial states; all behaviours of each component are explored.
Fairness of one component says nothing while another has its turn, since no action that is owed to a
component is enabled in its initial state.  Components that do interact are composed for real:
`FileTransfer` with `UserConfirmation`, `TreeNetwork` with `TreeState`, `Overlay` with both and with
`SnakeState`, `Messaging` with the pool, the pings and Stop of the redundancy service, `Discovery`
with the main goroutine and the contacts, `Routes` with the mDNS cache.

### How the models correspond to the code

*TreeState.*  `announcements`, `parent`, `sequence`, `ordering`, `waiting`, `coordsCache` are the
fields `_announcements`, `_parent`, `_sequence`, `_ordering`, `_waiting`, `_coordsCache` of `state`.
An announcement is its root, its sequence and the list of signatures (key and hop); a stored one
also has its `receiveOrder` and whether it has `expired`, which real time decides and the environment
here.  `HandleTreeAnnouncement`, `SelectNewParent`, `BecomeRoot`, `MaintainTree`, `PortDisconnected`,
`Start`, `SendTreeAnnouncements`, `EndWait`, `NextHopsTree` are the functions of nearly the same
name, with their early returns.  A public key is a natural number: the code only compares keys.
Signatures are taken to be valid; `SanityCheck` keeps its structural tests.

*TreeNode.*  The reader's test of `started` (`ReadFrame`) and its posting of a closure (`Dispatch`)
are two actions; so are the swap of `started` in `stop` (`Stop`) and the clean-up closure on the
state actor (`HandleCleanup`), and the firing of a timer (`FireWaitTimer`, `FireTreeTimer`) and its
closure (`HandleEndOfWait`, `HandleMaintain`).  Closures leave the inbox in order, and each is one
action with everything it does.  `told` remembers the last announcement pushed to each neighbour.
An announcement that is refused makes the reader stop the peer.

*TreeNetwork.*  `Connect` adds a new peer object at both ends, `Break` and `Disconnect` are the loss
of a connection and each end's separate notice of it, `Deliver` and `Refuse` are the two outcomes of
an announcement.  Stop and clean-up of one end are a single step here, since `TreeNode` has them
apart.  A link reconnects after both ends have cleaned up.  Ports are numbered by neighbour.

*PeerQueues.*  What matters is which Go channel is which: a channel of the fair queue is a pair of a
generation (made new by `reset`) and an index; a channel of the protocol queue has a number.  `pop`
only returns a channel, and the writer evaluates it for its first `select`, and again, one queue at a
time, for the second.  `proto` and `traffic` each have their mutex, so each of their methods is one
step, except the head drop, whose receive and send are two steps because the writer can receive
without the mutex in between.  `GiveUp` is the branch on the cancelled context.

*UserConfirmation.*  `request` says whether the request is in `pendingRequests` (`open`) or cleaned up
with its channels closed; `response` and `timeout` are the contents of the two buffered channels.
`sendResponse` and `startConfirmationTimeout` look the request up under the mutex and send after they
have released it, so each is two actions (`FindForResponse`, `SendResponse`; `TimerFires`,
`SendTick`).  Sending on a closed channel panics: the callback's goroutine recovers, the timer's does
not, and then the process is gone (`Alive` in `FileTransfer`).

*FileTransfer.*  `sender.pc` follows `SendFile`, `waitForConfirmationAndSend` and `sendFileChunks`;
`session` is the sender's `TransferSession` with its status, its sticky `Accepted` flag and its two
one-place channels; `transfer` is the entry of the state manager, whose table `ValidTransitions` and
whose silent refusals are `SetState`.  `receiver` has the goroutine of `HandleFileRequest`, the
pending transfer, the session, the state and the stored chunks.  Making the session (`Accept`) and
sending the acknowledgement (`SendAccepted`) are two steps, as in the code.  Messages are a set
(`net`); `Lose` removes any of them, which stands for the full worker pool and the router's dropped
frames.  No lock spans `HandleFileChunk`: it looks the session up (`LookUpSession`) and stores the chunk
(`StoreChunk`) in two steps, `held` are the chunks in between, and the end of the file may remove the
session meanwhile.  `net` has no duplicates since neither end sends a message twice.  The handlers modelled are
the registered ones: that of a refusal only logs, so a refused sender waits for its timeout.

*TransferPromise.*  It has no messages and no goroutines: the receiver's user speaks once, the question
is settled once and only that user can settle it with yes, chunks leave in order and with consent,
are taken in any order or not at all, and only while the receiver has not closed the file, are stored
once taken or never, also after the close; the receiver closes the file once and not before the last chunk
has left, and a report of failure gets no better.  The mapping reads `said` and `verdict` from the
confirmation, `sent` from the sender's counter, `taken` (the chunks held), `stored` and `closed` from the receiver, `reported` from
the state manager.

*SnakeState and Overlay.*  `table` and `descending` are the fields of `state`; `HandleBootstrap`,
`NewBootstrap`, `MaintainSnake`, `SnakePortDisconnected`, `NextHopsSNEK` are the functions of nearly the
same name, and next hops are a set wherever Go's map order decides.  An entry carries its root and sequence, which the code
compares before use.  In `Overlay` bootstraps share the protocol queue with tree announcements: `boots`
holds those on their way to a node, and how many announcements of `chan` each is behind, so the two
together are the queue in its order.  A frame of traffic goes from node to node with its watermark,
which the wire drops for frames routed by the tree, and with the coordinates of its sender, which the
node it is for puts into its `cache`.  `WriteTo` takes the addressee's coordinates from there, whatever has
become of them: an entry goes when half a minute is over (`ForgetCoords`) or when the root of the node that
holds it changes (`RootChanged`), and not when the addressee moves.

`fresh` is not in the code.  It remembers which nodes have bootstrapped in turn since the tree, an
expiry, or a bootstrap out of turn last disturbed them: each when the tree was quiet and no other
bootstrap was under way, after all nodes above it that send any, the first of them when the tables
were empty of older rounds.  The properties speak of that case, and no step is restricted to it.  They
are not true without it: a bootstrap that meets another one, or entries of a former tree (`valid()` in
`state_snek.go` looks at their time only), can end at a node that is not next to its sender, and what
puts that right in the program is that every entry expires and every node bootstraps again.

*Broadcast.*  `seen` and `hot` are `_seenBroadcasts` by sequence and by time.  A copy that arrives is
dropped by the filters, or handled and flooded to the other neighbours in the tree; a node's own
broadcast goes to every neighbour, and a new neighbour is greeted with one of its own.

*Sessions.*  The entry of the `sync.Map` is looked up in one step; the lock of the session found is
taken in another.  `DialStep` and `Install` follow `dial.go` and `listen.go` step by step, with the
read lock that a dial holds while it shakes hands.  A waiting writer keeps new readers out, as in Go.

*Connections.*  `table` holds both maps by key, `holder` is the call that waits while it has the lock,
`tasks` the queued clean-ups with the key they name.  A wrapper whose `Read` runs cannot be closed.

*Routes.*  `found` is the mDNS cache as route discovery sees it, `recent` the peers whose dial is suppressed.
A discovery (`lookups`) is a goroutine with its wait of five seconds between two steps; at its end it
dials as many of the cached peers as `MaxPeers` and `MaxNew` leave room for (`Selections`), any of them, since
scores are left out.  What the router reports may be nothing at all (`SeenPeers`).

*Discovery.*  Entries of caches are fresh or old, as far as the code's limits tell them apart.  What a
packet changes is `AddDiscoveredPeer`, under `HandleMessage` for each kind of packet; `MainGoesOn` is the
order of the main goroutine.  `lock` is the mDNS service's mutex, which `StartDiscovery` never gets a second
time.  `reporting` counts the goroutines of the callback for a node and `dialling` their dials.

*Messaging.*  A worker takes a frame, handles it, and replies under the read lock as separate steps.
A command's steps are its lock, its send, its save and its wait.  `svc` is per node: the holder of
`ps.mu`, how far Stop is, whether the pool is closed.  `told` and `handled` remember the callbacks and
the accepted texts.  A submit or a second close of a closed channel panics and ends the node.

*ObjectPools.*  Objects have identities.  A goroutine that sends takes a packet and a buffer, fills,
serialises, hands over and puts back, each a step of its own; a receiver decodes, and hands its message
to the channel with the map of the packet, a text twice (`DispatchText`, by the dispatched handler, and
`Queue`, by the service).  Then it clears the packet and puts it back; a packet that contradicts itself
is left to the garbage collector (`Reject`).

*Handlers.*  `registered` is the dispatcher's table, `handlers` the adapter's; an `Initialize` that
fails leaves what it has done.  *Retries.*  An operation tries, fails with a category, waits and tries
again; `IsRetryable` is the policy's decision.  *PriorityQueue.*  `Up` and `Down` are those of
`container/heap`, written by the elements that a new one passes (`Passed`) or that rise above the one
from the end (`Rising`); a full queue overwrites the last element of the array.

*DirectTransfer.*  An attempt is one connection; the receiver answers with the number of whole chunks that
the file at its path has (`older`), and needs the rest.  Chunks, and the files whose checksums are taken,
are read into pooled buffers, and the pool hands out buffers of length zero
(`internal/performance/memory_pool.go`, `buf[:0]`): the first chunk that is needed fails (`ReceiveChunk`), no
acknowledgement ever comes (`WaitForAck`), and two checksums always agree (`EndReceive`).
*FileStore.*  Writing a JSON file and
writing data are separate steps between which a restart may come.  *CommandTransfer.*  `pendingChunks`,
`ackMap` and `inflight` are the locals of `sendFileCmd`; the goroutine of each command that picks
acknowledgements out of the service's channel is never stopped.

*ChatHistory, Accounts, Friends.*  A write to a file has a beginning and an end, and a process may end
in between; what it leaves (`torn`, `Unreadable`) does not parse.  `LogsIn` is what every login shares;
`HandleDeleteAccount` is the command, around the manager's `DeleteAccount`.  Locks are those of the code.

## 3. What TLC checks

| Run | Result | Properties |
|---|---|---|
| `tree_node` | holds | `TypeOK`, `NeverPassesOnALoop`, `ParentHasAnnouncement`, `WaitWillEnd`, `ReceiveOrdersDiffer`, `RootWeakensOnlyOnBadNews`, `TellsOlderOnlyAfterLosingParent` |
| `tree_late_frame` | violated | `ParentIsAttached` |
| `tree_network` | holds | `QuietIsTree`, `QuietTreeDelivers`, `Converges` |
| `overlay` | holds | `SnakeIsOrdered`, `SettledDelivers` |
| `peer_queues` | holds | `TypeOK`, `CountIsQueued`, `NeverSleepsOnWork`, `InOrder`, `WriterEnds`, `QueuesDrain` |
| `peers` | holds | `PeersTypeOK`, `BroadcastReaches`, `DialledOnce`, `HealthyStays`, `LocksAreReleased` |
| `routes` | holds | `FewPeersDialMore` |
| `file_transfer` | holds | `TypeOK`, `ConsentFirst`, `NeverResurrected`, `Promised`, `SenderEnds`, `RequestForgotten` |
| `file_incomplete` | violated | `CompleteHasAllChunks` |
| `confirm_crash` | violated | `TimerSurvives` |
| `application` | holds | `ApplicationTypeOK`, `ToldMeansHandled`, `HandedOverIsKept`, `IntegratedIsRouted`, `FilesAreWhole`, `BookkeepingIsTrue`, `HistoryIsKept`, `IntroducesAKnownName`, `PopTakesTheFirst`, `IdlePoolStops` |
| `friend_add` | violated | `CommandReturns` |

What they show on these instances (section 4 says which of it is proved for every instance):

* One router: its root gets weaker only when its parent says so or is lost, whatever other peers announce
  and however they go, and it tells a peer that is
  up an older sequence than before only after it has lost a parent.  (A peer that has stopped and is
  not cleaned up may be told one when it has a frame left in the inbox: `InformPeerOfStrongerRoot`
  answers it although nobody told it of what came since.  With two neighbours this does not happen,
  with three it does, so the property speaks of the peers that are up.)
* Three routers: whenever nothing is in flight the parents form one tree per component with its
  strongest node as root, and tree routing delivers between every pair; with fairness they get there.
  With snakes on top, once every node has bootstrapped in turn, each node's descending entry leads
  to the nearest key below it, and a frame sent then arrives whatever choice map order makes,
  if it carries no coordinates or those that its addressee has.
* Queues: the writer never sleeps on one channel while another holds work, a flow stays in order,
  queues drain and a stopped writer ends.
* Peers: a flood reaches every node although only first copies are passed on and hops are limited
  to fewer than there are nodes;
  dials and accepts do not lock each other out; a healthy connection outlives the monitor of an older one.
* Routes: a node with fewer connections than `minConnections`, while there are nodes it could dial, comes to
  dial one, again and again until it has enough, although the periodic discovery suppresses itself
  and a discovery dials only some of what it found.  Which of them it dials is not promised: with
  others connected a certain node may never be dialled.
* Files: whatever is lost or reordered, goroutines at both ends come to an end; what the
  store lists or assembles is whole.
* Messages: what is handed over stays what it was although objects are reused; the first of the
  heap is popped; a pool without work lets Stop end.

### Bounds

* `MCTreeNode`: we have key 2, a weaker neighbour 1, a stronger one 3, and a root 4 that both can
  speak for, so every comparison of keys, a tie between two neighbours, a stronger root, a loop
  through us and an older or newer sequence occur.  `MaxInbox` 2 lets a frame wait behind a clean-up
  or a timer, `MaxSequence` 1 lets the node become root again after a wait, `MaxOrdering` 3 lets both
  neighbours announce and one of them again.  About 3.5 million states.
* `MCTreeNetwork`: three routers in a triangle, the smallest network with an alternative path and
  with count-to-infinity.  `MaxConnections` 2 lets each link come back once, `MaxFailures` 2 can
  isolate a node or partition the network twice, `MaxSequence` bounds the tree timers, `MaxOverlaps`
  the events that come before the network has settled (below).
* `MCOverlay`: the same triangle, in which each link comes up once and either a link fails or an entry
  expires (`MaxMishaps`), each node bootstraps once per tree, and a frame is forwarded three times at
  most.  Three nodes have one that is neither the highest nor the lowest key, and one link lost makes the snake
  pass through a node in between.  One entry at a time is in the caches of coordinates (`MaxCached`), which is
  enough for an entry to be learnt, to become stale and to be used.  About 900,000 states.
* `MCPeerQueues`: two flows that hash to different queues, `QueueSize` 2 (the code has 16) so that a
  head drop needs few frames, three frames per flow, two protocol frames, one stop.  A queue of size
  one is excluded by an assumption: its head drop could block.  The code never has one.
* `MCPeers`: four nodes in a triangle with a tail and a horizon of three hops, so that a longer way can
  overtake a shorter one; two diallers, two connections and four sessions, enough for a replacement
  while both dial; three links of one peer, so that a clean-up and a monitor of the first can meet
  the third, and a clean-up queue of one, which is full when a second task comes; one node to find
  with one event waiting and one in work; two reports of one node at once.  About 430,000 states.
* `MCRoutes.cfg`, of `MCPeers` too: two nodes in reach with `MinPeers` and `MaxPeers` 2 and one dial per
  discovery, so that both limits and the choice bind; `WorkSize` 0 is a work queue that is always full, where
  every event is handled at once (`MCPeers.cfg` has room for one).  About 510,000 states.
* `MCFileTransfer`: two chunks, so that one can be lost, overtake the other or be overtaken by the
  end; two retries (five in the code) so that a retry follows a retry.  About 250,000 states.  The
  cancel and pause commands, losses and answers are not bounded.  The two violations need no second
  retry and allow one.
* `MCApplication`: two nodes with three workers, of which one is hired late, a work queue of one, which
  is full, two commands; two goroutines, two packets, two maps and one buffer, so that each is
  reused at once (the proof of `HandedOverIsKept` is for any number); two operations with two retries (the code's first try and three more behave alike);
  a heap of four with six pushes, the fewest with which a replaced element has a sibling of another
  level; three chunks over two connections; two chunks with one duplicate and one
  restart; two sends of two chunks; three messages; two processes, names, passwords and key pairs.
  About 710,000 states.
* `MCFriends`: one known name and one new one.

### Fairness

`TreeNode` is checked for safety only.  `TreeNetwork` assumes weak fairness of *some* connection
being dialled (a lost peer is dialled again) and of *some* node taking a step (the Go
scheduler runs actors, TCP delivers, timers fire).  The latter, `NodeFairness`, spells out when a node can
take one (`CanStep`, which TLC finds equal to `ENABLED` on the triangle): evaluating `ENABLED` would take
TLC most of its time.  Nothing ever makes a link fail.  `PeerQueues`
assumes weak fairness of the writer goroutine and of the state actor finishing what it began; no
traffic, keepalive or stop is ever owed.

`FileTransfer` assumes weak fairness of the sender's goroutine with its timeout, of the receiver's
goroutine, and of the confirmation's goroutines with their timer, as long as the process lives.  No
message need arrive, no user need answer and no monitor need run.

`Overlay` is checked for safety (`SettledDelivers` is about every step, not about progress).  Of
`MCPeers`, `LocksAreReleased` assumes that each dial and the listener take their steps (`SessionsFairness`:
QUIC bounds handshakes with its idle time-out), and, in the run `routes`, `FewPeersDialMore` assumes that
the event listener, the optimisation ticker and dials go on and that suppressions age, and, strongly, that a
node in reach is heard of during a discovery now and then, and that now and then a discovery ends while
its cache holds a node that is not connected and the router answers (`RoutesFairness`).  Of `MCApplication`, `IdlePoolStops` assumes that a
worker that may exit does, and that the call that stops runs (`StoppingFairness`); neither the network nor
the receive loop owes anything.  `CommandReturns` assumes that a command goes on when it can.

`Converges` also rests on time: a wait of one second is assumed to outlast the frames in flight, and
links and maintenance timers to come and go slower than the tree settles, except `MaxOverlaps` times.
This is not a convenience.  A parent that hears a weaker root from its child answers with what it
announced before (`state_tree.go:380`); the child takes a repeated sequence from its parent as bad
news, waits, and becomes root with a higher sequence.  If its waits are always shorter than the
round trip, this goes on for ever: the code's convergence depends on the second being long enough.

`CHECK_DEADLOCK FALSE` is set everywhere because the bounds use up the events, and because processes,
stopped writers and finished commands really end.

### What the runs do not cover

* `HistoryIsKept` excepts the write that a crash cuts short: `messages.json` is rewritten in place, and a torn
  file is loaded as no history.  It says that nothing else loses history, with one process that writes.
* The premise of `IdlePoolStops` excludes a worker that is about to reply, with which `Stop` deadlocks
  (`StopReturns`).  `HealthyStays` excepts the queued clean-up, which does drop a healthy connection
  (`CleansOnlyInvalid`).
* `BookkeepingIsTrue` joins three statements: of retries (`RetriedAsThePolicySays`), of pings
  (`PendingPingIsOpen`) and of the window of `file send` (`WindowHolds`).
* `SettledDelivers` says nothing of frames sent with stale coordinates: they may be lost (`CacheIsCurrent`).
* `PopTakesTheFirst` is about `Pop` only; what a full queue drops need not be the lowest (`DropsTheLowest`).

### What was found

* **A dead peer can become the parent** (`tree_late_frame`).  A reader that has passed its
  check of `started` queues its frame after `stop()` and the clean-up have run (`router/peer.go:417-437`),
  and no handler asks again.
* **A file with missing chunks is complete** (`file_incomplete`).  `HandleFileComplete` does not look at
  what arrived, and no chunk is ever sent again, whatever the documentation says of failed
  acknowledgements.
* **An answer as the timeout fires can end the process** (`confirm_crash`).  The timer sends on a
  channel that the clean-up has closed, and nothing recovers.
* **Adding a friend never returns** (`friend_add`).  The list's lock is held for writing while saving
  takes it for reading (`internal/friend/list.go:147`).  The run shows it for `AddFriend`; in the code
  `RemoveFriend` takes the same path.

Further statements of comments and documents that the models refute are defined beside the properties
that hold; naming one in a configuration replays it:

| Definition | What the code does |
|---|---|
| `RootChangeClearsCoords` (`MCTreeNodeCoords.cfg`) | Coordinates of an old root survive: `_portDisconnected` deletes the parent's announcement before `_setParent` compares roots. |
| `NeverRefused` (`MCTreeNetworkRefused.cfg`) | Honest routers close each other's peerings: a node that loses its parent may pass on an older sequence of the same root, which its neighbour treats as abuse. |
| `NeverInvalidQueueState` (`MCPeerQueuesReset.cfg`) | A stop can panic the writer: `fairFIFOQueue.reset` leaves `count`. |
| `StopReturns` (`Messaging`) | Stop holds `ps.mu` and waits for the lock that the redundancy service keeps for ever, or for workers whose acknowledgement needs `ps.mu`. |
| `DeliveredIsPersisted` (`Messaging`) | An acknowledgement that overtakes `AddMessage` marks nothing. |
| `CleansOnlyInvalid` (`Connections`) | A queued clean-up removes a connection that was dialled after it was queued. |
| `NewIsReported`, `RediscoveryReturns` under `FairDiscovery` (`Discovery`) | The callback is set after mDNS has begun to answer; `StartDiscovery` locks itself out. |
| `CacheIsCurrent` (`Overlay`) | One node learns another's coordinates, a link fails, the other moves below the same root, and the network settles with the old coordinates in the cache: a frame sent with them may be dropped or end elsewhere. |
| `FailsOnlyWhenBroken` (`DirectTransfer`, `MCDirect.cfg`) | `receiveChunk` reads into a pooled buffer of length zero (`internal/file/transmission.go:418-425`) where its comment has 256 KB, gets nothing, and gives up at the first chunk, over a sound connection.  Only a transfer that needs no chunk succeeds. |
| `ReceivedIsWhole` (`DirectTransfer`) | A transfer that finds an older file at least as long reports success, and the older content stays. |
| `UniqueNameIsFree` (`FileStore`) | An assembled file is not in `files.json`, so after a restart its name counts as free. |
| `DropsTheLowest` (`PriorityQueue`) | The last of the array is replaced, which need not be the lowest. |
| `SelectedIsUsed` (`Accounts`) | The node keeps the keys of the login. |
| `CompletesAcknowledged` (`CommandTransfer`) | The request's own acknowledgement counts as one of a chunk. |
| `FailedIsStored` (`ChatHistory`) | A message that could not be sent is not stored. |

Read in the code without a definition of their own: the comment at `state_tree.go:89-91` speaks of an
expired parent announcement, which `_rootAnnouncement` does not test; `isBetterNextHopCandidate` is
asked with `bestPeer == p`, which is never true (`state_tree.go:244`); the guard at
`state_tree.go:480-487`, "for some reason", never applies (this is proved, see below); a stale timer
may end a later wait early (`state_tree.go:372`); no code calls `MarkAcked` (`file/window.go`); the
transfer state `completed` is never set, and a receiver's state stays `idle` since `idle` to `confirmed`
is not in the table of transitions; cancelling does not stop a sender that was accepted.

## 4. What is proved

Every theorem holds for all values of the constants that satisfy the modules' `ASSUME`s.  These only
fix types (keys are naturals, sets of nodes and workers are finite, bounds are numbers), say that a
"nothing" value is not one of the things, and exclude what the code never has (a traffic queue of
size one, whose head drop could block).  `Broadcast` starts from a settled network: its `TreeSpans` says
that the tree joins all nodes, which is what `QuietNetworkIsTree` proves of the tree protocol.

### The router's tree

| Theorem | States |
|---|---|
| `Invariance` | `Spec => []IInv` |
| `TypeCorrect` | `Spec => []TypeOK` |
| `NoLoopPassedOn` | `Spec => []NeverPassesOnALoop` |
| `ParentInTable` | `Spec => []ParentHasAnnouncement` |
| `OrdersAreUnique` | `Spec => []ReceiveOrdersDiffer` |
| `WaitsAreTimed` | `Spec => []WaitWillEnd` |
| `WeakensOnlyOnBadNews` | `Spec => RootWeakensOnlyOnBadNews` |
| `WaitsAsRoot` | `Spec => []WaitingMeansNoParent` |
| `RootStrongEnough` | `Spec => []RootNotWeakerThanSelf` |
| `UpPeersKnowOurRoot` | `Spec => []UpKnowRoot` |
| `OlderOnlyAfterParent` | `Spec => TellsOlderOnlyAfterLosingParent` |

The safety properties are not inductive one by one: whether a handler may pass an announcement on
depends on what is stored for the parent, and what is stored for the parent on whether the node
waits.  The inductive invariant is `IInv == TypeOK /\ Sound(node)`, where `Sound(s)` says that the
record is well typed and that *if there is a parent*, its announcement is stored, the node is not
waiting, that announcement does not hold our own key, and its root is at least as strong as we are.
The argument follows the code: `BecomeRoot` clears the parent (`BecomeRootSound`); `SelectNewParent`
takes a best candidate, a best one exists because "better" is transitive on a finite set and every
candidate passed the loop test (`BetterIsTransitive`, `BestParentIsCandidate`,
`SelectNewParentSound`); the handlers of announcements, waits and disconnections call those two or
leave the parent alone (`HandleTreeAnnouncementSound`, `EndWaitSound`, `PortDisconnectedSound`);
`NextIInv` has one step per action of `Next`.  As a by-product the guard "our own key happens to be
stronger than our current root for some reason" is dead code: `RootStrongEnough` says so.

`OrdersAreUnique` needs, besides, that every stored receive order is at most the counter, and that the
counter only starts again with an empty table (`OrdersDiffer` and the lemmas `...Table`).
`WaitsAreTimed` needs that a wait begins only with its timer, and that the only closure that uses up a
timer ends the wait (`WaitIsKept`).
`WeakensOnlyOnBadNews` is an action property, proved from `IInv` before and after the step.  A weaker
root means there was a parent, since without one the root is the weakest possible, ourselves.  When
that parent is started and has not expired it is itself a candidate of every selection, and no
candidate's root is weaker than the one we follow (`SelectKeepsRoot`); an update of another peer is
adopted directly only for a stronger root (`OthersUpdateKeepsRoot`), and the clean-up of another peer
selects among candidates that the parent is one of.
`OlderOnlyAfterParent` rests on what every started peer was told last (`ToldIInv`): between two tasks
it is what the node would announce now (`UpKnowRoot`), as every task that changes the announcement
ends by sending it to all of them, and that a stored path is signed by the root it names, so that a
parent never speaks of a root that is ourselves (`SignedByRoot`).  So a task that tells a peer of an older sequence has made the
announcement older, and only losing the parent does.

### The network's tree

| Theorem | States |
|---|---|
| `QuietNetworkIsTree` | `Spec => []QuietIsTree` |
| `QuietTreeDelivering` | `Spec => []QuietTreeDelivers` |

For any finite set of routers, any links among them, and links that come up, break unnoticed at either
end and come up again, any number of times.  Both are statements about quiet moments and cannot be
inductive; what is inductive (`NetworkIInv`, which TLC checked first on the triangle of
`MCTreeNetwork`) says that nothing a neighbour announced is ever forgotten or outrun: on every
connection that is up at both ends, the last announcement in the channel, or with an empty channel
the entry of the table, is what the neighbour would announce now (`UpToDate`).  That is kept because
every task of the state actor which changes what the node would announce ends by pushing it to all
peers (`Announces`, one lemma `...Sound` per handler), because connections keep order (`LastOfTail`),
and because a new connection starts with the current root at both ends (`ConnectStep`).  Besides,
the two ends of a connection belong together (`OneConnection`), nothing is kept of a peer that is
gone (`OnlyOfPeers`), and each record is sound: a parent is up and has announced a path that does not
go through us, and unless we wait nobody has announced a stronger root on such a path (`SoundNode`).

In a quiet network it follows that the path of every node is its parent's and one hop more
(`PathsAreReal`), that tables hold the neighbours' real paths (`TablesAreReal`), and that a neighbour
with a stronger root has a path through us (`NobodyIsBetter`).  A node with the shortest path that
breaks the claim, if there were one, would have a parent with a shorter one: so every step of a path is a
real node with the same root (`Ancestors`), which makes neighbours agree on their root
(`NeighboursAgree`), and the node with the shortest path among those that follow a root in a closed
set of nodes is that root (`RootIsReached`).  Hence all nodes of a component follow one of its nodes
that no other exceeds (`RootIsStrongest`).  For delivery, coordinates are an address within one tree
(`CoordsAreUnique`); off the way to the destination the parent is one step nearer (`HopBack`), on it
a child is (`HopOn`), and what a router has stored of its neighbours are their coordinates
(`StoredCoords`), so `NextHopsTree` is not empty and every element of it is nearer.

### The snake and traffic

| Theorem | States |
|---|---|
| `OverlayIsTreeNetwork` | `OverlaySpec => Spec`: `Overlay` implements `TreeNetwork` |
| `SnakeOrder` | `OverlaySpec => []SnakeIsOrdered` |
| `SettledDelivery` | `OverlaySpec => SettledDelivers` |

For any finite set of routers, any links and any history of them, any map order, any expiry and any
bootstraps before.  The first theorem makes the tree's invariant hold under snakes and traffic: every
step of `Overlay` is one of `TreeNetwork` or leaves its variables alone (`OverlayStep`).

`SnakeIsOrdered` is about moments when nothing is under way; the inductive invariant follows each
bootstrap on its way.  `OverlayIInv` says that while any node counts as `fresh` the network is
`InTurn(H)` for some `H`, the hops from each sender: whoever holds an entry has it from a peer that is
up, and that peer is the sender or holds a later entry of the same sender, or one of the same bootstrap
with fewer hops (`SoundTables`); a descending node is below, in the same component and under the same
root (`SoundDescending`); the nodes above a fresh one are fresh (`FromAbove`); and the bootstrap of every
fresh node has made it the descending node of the node next above (`Arrived`), but for one bootstrap
at most, which is under way and alone (`UnderWay`).

What must be shown is that this one cannot get lost, turn around, or stop early.  The choice in
`_nextHopsSNEK` is a walk to a *goal*: the least key beyond the wanted one among those a router knows
of, its own, its ancestors', its peers' and their ancestors', and those of its table (`Goal`,
`LastIsGoal`).  Four numbers get smaller with every hop, in lexicographic order (`Rank`, `Before`): the
goal; how it is known (`Stage`: it is the router itself, on its way to the root, on that of a peer, or
only in the table); how far the root is, or how old the entry followed is; and how many hops along the entry.
`Nearer` proves it for every branch of the choice, whichever peer map order picks.  A hop may lead from
one entry to a newer and longer one of the same key, which is why the age comes before the hops, and what
the watermark is about: a hop that gets nearer never makes it worse (`GoodMark`, `HopMarkType`,
`BootstrapHop`), so `_forward` does not drop the bootstrap.  `Launch` and `Handled` are the two
steps of a round: a bootstrap that is sent in turn, and one that a router handles, which stores it and
sends it on, or is the node next above its sender and takes it as its descending node.

`SettledDelivers` is an action property about frames that were sent without coordinates, or with those that
their addressee has (`calm`); its invariant `FrameIInv` says of a frame under way in a settled
network that it is `OnItsWay`: there is a set of as many nodes as it has made hops, all further from
where the search ends than the node it is at (`BySnake`: in the order `Before`; `ByTree`: by tree
distance), and the peer it came from is one of them.  From that follows for any next hop
(`NextOnItsWay`) that it is not the node itself (`NotYetThere`: somebody nearer is always known), not the
peer it came from, that its watermark is not worse, and that the hops made are fewer than the nodes
(`HopsAreFew`), so that neither the code's rules nor the bound `MaxHops` drop it.  A frame that goes by
coordinates rests on `NearerHops`, the lemma behind `QuietTreeDelivering`, and never falls back to its key.
All other steps either disturb the network, and the frame is no longer counted on (`DisturbedStep`), or
leave the tables as they are (`StayingStep`).

### The queues of a peer

| Theorem | States |
|---|---|
| `QueueTyping` | `Spec => []TypeOK` |
| `CountStaysTrue` | `Spec => []CountIsQueued` |
| `WriterIsAwake` | `Spec => []NeverSleepsOnWork` |
| `WrittenInOrder` | `Spec => InOrder` |
| `PanicsOnlyAfterReset` | `Spec => [](At("panicked") => traffic.gen = 1)` |

For any flows, any hash, any number and size of queues.  `QueuesIInv` has two halves.  Of the
protocol queue it says that its channels are numbered like the frames, in a line whose first is the one
that the writer holds (`ProtoIsALine`, `WriterIsAtTheFirst`).  Of the traffic queue: the count is what
the channels hold and the frame that is received but not acknowledged (`Counted`), and it is at least
two while a push waits for room (`PushIsPending`); a waiting writer has chosen a channel with a frame,
or the one that the next frame goes to when there is none (`ChoosesWork`), and another than the
shared one only when that is empty (`ChoosesTheOldest`); the frames of a flow are in the shared queue
or in its own, oldest first, and newer than what the writer has (`FramesInOrder`).  After the reset little of this is left (`ResetIsLast`), which
is why `pop()` may panic then, and only then (`PanicsOnlyAfterReset`).

### The file transfer

| Theorem | States |
|---|---|
| `TransferInvariance` | `Spec => []IInv` |
| `TransferTypeCorrect` | `Spec => []TypeOK` |
| `NothingWithoutConsent` | `Spec => []ConsentFirst` |
| `SessionAwaitsChunks` | `Spec => []SessionBeforeChunks` |
| `FinalStaysFinal` | `Spec => NeverResurrected` |
| `PromiseIsKept` | `Spec => Promised`: `FileTransfer` implements `TransferPromise` |

`ConsentFirst` says nothing of acknowledgements or sessions, so it is not inductive.  `IInv` spells
out the chain of causes: what the confirmation returns is what the user's callback gave
(`AnswerIsTheUsers`), the receiver's session comes from that (`SessionFromConsent`,
`AcceptingHasSession`), the acknowledgement and the sender's `accepted` flag come from the session
(`AcceptedFromSession`), and chunks come from the flag (`ChunksFromAccepted`).  The lemma `KeptAndMade`
goes through the actions once: it says what no step takes away and out of what each step makes new
links of the chain.  `FinalStaysFinal` rests on the table of transitions (`SetStateFinal`), and on the
state manager not knowing a transfer before `SendFile` (`UnknownUntilSent`).

The refinement needs more of the reachable states than the chain of causes: a chunk that is on its
way or stored has been counted by the sender, and an end only follows the last of them (`SentInOrder`);
the receiver's session is made once (`NoSessionYet`); the user is asked and answers once (`AskedOnce`).
`StepRefines` then maps each step of `Next` to a step of `TransferPromise` or to a stutter: steps of the
confirmation to `Say` and `Settle`, `SendChunk` to `SendNext`, `LookUpSession` to `TakeIn`, `StoreChunk` to `Store`,
`HandleFileComplete` to `Close`, what sets the state manager to `Report`, and all else to nothing.

### The network service and what it keeps

| Theorem | States | Rests on |
|---|---|---|
| `MessagingTypes` | `MessagingSpec => []MessagingTypeOK` | `Types`, `MessagingTypeOK` with the sets that bound each command, node and worker spelt out |
| `DoubleTickIsHonest` | `MessagingSpec => []ToldMeansHandled` | `Honest`: a worker about to reply to a text has handled it (`RepliesSound`), an acknowledgement in flight is of a handled text or of user information (`FramesSound`), and only texts wait for one (`CallbacksSound`); `ToldMeansHandled` alone says nothing of what is still under way |
| `HandlersInvariance`, `IntegrationRouted` | `HandlersSpec => []HandlersIInv`, `[]IntegratedIsRouted` | `Installed`: the handlers themselves are registered, since a route through the default handler can be replaced at any time |
| `OneDialAtATime` | `DiscoveryInit /\ [][DiscoveryNext \/ EndSearch]_discoveryVars => []DialledOnce` | `DiallingIsContact`: the contact is stored in the step that decides to dial, and is neither old nor forgotten while the dial lasts, so no second report dials |
| `HealthyConnectionStays` | `ConnectionsSpec => HealthyStays` | `HoldsNoHealthyLink`: a connection that a monitor is about to forget, or a dial about to replace, while it has the lock is not healthy |
| `PeersTypes` | `PeersSpec => []PeersTypeOK` | `PeersIInv`, the invariants of the five components of `MCPeers`; that no session's lock is held for writing and for reading at once needs who holds it and how far that goroutine is (`SessionsTypes`) |
| `BroadcastsReach` | `Cardinality(Router) <= Horizon` implies `PeersSpec => []BroadcastReaches` | `FloodsSpread`: at every edge of the tree between a node that has a broadcast and one that has not, a copy is on its way; each hop a copy has spent is a node that heard of the broadcast; and filters close only to nodes that did |
| `HistoryStays` | `ChatSpec => []HistoryIsKept` | `KeepsAll` and `StoresNew`: what a complete file held is in memory and in the file, and a command stores a message that is not stored yet |
| `AccountsInvariance`, `KnownNameIntroduced` | `AccountsSpec => []AccountsIInv`, `[]IntroducesAKnownName` | besides types and the property itself, a process that is off has selected nobody (`OffIsNobody`), and one that starts has decrypted the key of the account it selected (`StartingHasItsKey`) |
| `StoredFilesAreWhole` | `FileStoreSpec => []FilesAreWhole` | `StoreIInv`: besides, `files.json` lists no file that the table in memory does not, so that a restart lists nothing new |

`BroadcastsReach` needs its hypothesis.  A copy that has come a longer way may be the first to arrive, and
the node then drops a later one that had more hops left; so what a broadcast can spend is bounded by
the number of nodes, not by their distance.  With the code's `NetworkHorizonDistance` of 5 the theorem is
about networks of at most five nodes.  The run of `MCPeers` has four nodes and a horizon of three: in its
network the property still holds, which the theorem does not say.

Five theorems are about the ten components of `MCApplication` side by side, from
`ApplicationIInv`, which joins the invariants of all ten:

| Theorem | States | Rests on |
|---|---|---|
| `ApplicationTypes` | `ApplicationSpec => []ApplicationTypeOK` | the typing halves of all of them |
| `HandedOverStays` | `ApplicationSpec => []HandedOverIsKept` | `PoolsIInv`: an object is held by one goroutine or lies in one pool (`HeldOnce`), the map of a queued message is its own (`OwnMaps`), so nobody can write what was handed over |
| `CompleteFilesAreWhole` | `ApplicationSpec => []FilesAreWhole` | `StoreIInv`; of files received over a stream nothing is claimed |
| `BookkeepingStaysTrue` | `ApplicationSpec => []BookkeepingIsTrue` | `RetriesIInv` (`FollowsThePolicy` error by error, `EveryErrorCounted`), `PingsWait`, and `WindowHolds` with the size of `pendingChunks` |
| `PopsTheFirst` | `ApplicationSpec => PopTakesTheFirst` | `QueueIInv`: the array is a heap.  `Up` and `Down` move the elements of one path, where the new or the last one finds its place, and keep it one; that the top is first follows up the parents of any other element |

### Only model-checked

* All liveness (`Converges`, `WriterEnds`, `QueuesDrain`, `SenderEnds`, `RequestForgotten`,
  `LocksAreReleased`, `FewPeersDialMore`, `IdlePoolStops`), which is beyond the prover, as `ENABLED` is.
* That a frame of `SettledDelivery` arrives, given that `Forward` goes on: liveness too, although the
  proof counts the nodes that are left.
* That the statements of the four runs with a violation are false: the counterexamples are TLC's.

## 5. What is not modelled, and why

* *Multicast and Bluetooth* (`internal/pinecone/multicast/`, `bluetooth/`): nothing calls `NewMulticast`,
  and the Bluetooth scan does nothing on the supported systems.
* *Wire types, cryptography, encodings*: the modules carry decoded values, and signatures are taken to
  be valid.  Where a coding drops something that matters (a watermark) the module drops it.
* *Statistics, events, manhole, logging, configuration, progress, printing*: views of state or text.
* *Route redundancy*: its Start never releases its lock, so its tables are never filled; the lock is in
  `Messaging`.  Its Stop is what waits for it.
* *Chat managers, sessions and their encryption* (`internal/chat/`), *`sendMessageWithAck` and
  `waitForAck`*, *the handler package*, *the ping manager's stop*, *`CancelConfirmation`*, *`AssembleFile`*,
  *the service's `HandleFileNack` and `HandleFileCancel`*, *`file send`'s resume*: nothing calls them, or
  nothing writes what they need.
* *In the tree*: filters, the exact lengths of timers, and a new peering to a neighbour that coexists
  with the not yet cleaned-up old one.  *In the snake*: a wall clock that steps back.  *In sessions*:
  open streams, HTTP.  *In the file transfer*: `checkTimeouts`, whose two minutes a confirmation of 30
  seconds never reaches, a callback that panics, two transfers under one file id, and sending errors
  once the address has been parsed (`SendMessagePacket` reports none while the service runs).
* *Real time*: a time-out, an expiry or the end of a suppression may come at any moment, except where
  `Converges` says otherwise.

What would come next: bootstraps that overtake one another, of which the theorems say nothing; several callers of `ReadFrom`; and a composition of `Discovery` with `Routes` over one
cache.
