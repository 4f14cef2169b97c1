# Trin: a TLA+ verification project

Trin is a client of the Ethereum Portal Network. This directory models it in TLA+,
model-checks the models with TLC on small instances and proves the most important
invariants with TLAPS for every instance. Paths below are relative to the repository.

`PROJECT.json` lists the components, maps every definition to the lines it models, and
lists the hazards of the code with the properties that cover them.

## The system

A node runs discv5 and, on top of it, one *overlay network* per kind of data (history,
beacon, state). A bridge is a program of its own that brings data from Ethereum clients
into the network.

| Part | Code | Modules |
|---|---|---|
| One FINDNODES or FINDCONTENT lookup | `portalnet/src/find/iterators` | `QueryIterator`, `FindNodeQuery`, `FindContentQuery` |
| The query pools and the service loop that polls them, sends requests, feeds answers back and answers callers | `portalnet/src/find`, `overlay_service.rs` | `OverlayQueries` |
| The trace of a lookup | `ethportal-api/src/types/query_trace.rs` | `QueryTrace` |
| OFFER, ACCEPT and the uTP transfer; validation, storing, passing on | `overlay_service.rs` | `ContentTransfer` |
| Whom content is gossiped to | `portalnet/src/gossip.rs` | `Gossip` |
| The routing table, the ping queue, ENR and radius updates | `overlay_service.rs` | `RoutingTable` (one bucket) |
| Messages and payloads on the wire | `ethportal-api/src/types/portal_wire.rs`, `portalnet/src/utils/portal_wire.rs` | `PortalWire` |
| The start of a node, its key and its ENR on disk | `portalnet/src/discovery.rs`, `utils/db.rs`, `socket.rs`, `src/lib.rs`, `cli.rs` | `Discovery` |
| TALKREQ: from discv5 through channels and services to the reply | `discovery.rs`, `events.rs`, `overlay_service.rs`, `trin-*/src/events.rs` | `TalkRequests` |
| The operations of an overlay | `portalnet/src/overlay.rs`, `gossip.rs` | `OverlayApi` |
| JSON-RPC calls, from the server through a network's channel and back | `rpc/src`, `trin-*/src/jsonrpc.rs` | `JsonRpc` |
| The set-up of the JSON-RPC server | `rpc/src/builder.rs`, `rpc_server.rs`, `lib.rs`, `cors.rs` | `RpcServer` |
| What a content store promises | `trin-storage/src/lib.rs` | `ContentStore` |
| The history store: capacity, pruning, the data radius | `trin-history/src/storage.rs`, `trin-storage` | `HistoryStorage` |
| The beacon store | `trin-beacon/src/storage.rs` | `BeaconStorage` |
| Validation of history content, accumulators, Merkle proofs | `trin-validation`, `trin-history/src/validation.rs` | `Epochs`, `MerkleTree`, `Validation` |
| Block bodies | `ethportal-api/src/types/execution/block_body.rs` | `BlockBody` |
| The light client | `light-client`, `trin-beacon/src/sync.rs` | `LightClient`, `Checkpoints` |
| The bridges, their arguments, clients and providers | `portal-bridge` | `BridgeInputs`, `ExecutionApi`, `BridgeGossip`, `HistoryBridge`, `BeaconBridge` |

How they interact: a JSON-RPC call (`JsonRpc`) becomes an operation of the overlay
(`OverlayApi`), which waits for the overlay service; there it is a lookup
(`OverlayQueries`) or a request. Content that is found or offered (`ContentTransfer`)
is validated (`Validation`), which needs lookups of its own, and kept in a store
(`HistoryStorage`, `BeaconStorage`) whose radius the peers are told. Requests of others
come through `TalkRequests`. The light client's requests are lookups of beacon content.
The bridges gossip through the JSON-RPC of the clients they start.

Modules are composed by `EXTENDS` where they share state (`OverlayApi` and `RpcServer`
in `JsonRpc`, `Discovery` in `TalkRequests`, `MerkleTree` in `Validation`,
`BridgeInputs` in `HistoryBridge`) and by `INSTANCE` where one implements the other
(`ContentStore`). `Results` holds the two values for Rust's `None` and `Err`.

## Modules

**QueryIterator** holds the operators that both lookups share. `closest_peers` is a
map keyed by XOR distance to the target, so a peer *is* its distance. `Instant`s are
ticks left, so that `now >= timeout` is exact and the state space finite. The loop of
`poll` is a left-to-right scan that stops at the first peer that decides the outcome; the
model says which peer that is and what the scan did to those before it (`Sweep`).

**FindNodeQuery** is one lookup with the network: `PollQuery` (poll), `ReceiveNodes`
(on_success), `ReportFailure` (on_failure), `LoseAnswer`, `ClockTick`. An answer may
come late, after the peer was given up or the query ended, or not at all.
**FindContentQuery** adds the content a peer may return.

**OverlayQueries** puts lookups into the two pools: `StartLookup` (init_find_*_query),
`PollQuery` (query_event_poll with the handlers of its events), the answers (advance_*),
the fetch over uTP in its own task, and both timeouts. The pools number their queries
independently and a response carries only a number, so an answer of the wrong kind
reaches the query of the *other* pool with that number (`Addressed`). The routing table
and the ENR cache are not state: what they return is chosen whenever they are read. All
lookups have one target, so that a peer has one name. Polling is one action per query: as
queries do not share state, the order of the pool is one the scheduler may choose.

**ContentTransfer** has, per offer, the task that offers and the tasks that accept: the
service checks the offered keys against the store, answers, waits for the stream, splits
the payload, and spawns one task per item that validates, asks the store and puts, as
separate steps; when all are done the valid items are propagated. Every step can fail the
way the code handles. uTP is external: a payload arrives whole or not at all. The radius
may become any smaller value at a put, which is what pruning can do to it.

**RoutingTable** is one bucket with the ping queue. The handlers of the service are
functions on its state record (`RegisterNodeActivity`, `ProcessPing`, `ProcessPong`,
`ProcessResponse`, `ProcessDiscoveredEnr`, `ConnectNode`); an action applies those that
one message runs, in their order. discv5's `KBucketsTable` is external. `DiscoverNode`
stands for answers of nodes in other buckets, `AddEnr` and `DeleteEnr` for the calls that
change an entry. An ENR is its sequence number. `failed` is
not in the code: it records which nodes left a request unanswered.

**Discovery** is `run_trin` up to the dispatcher, step by step: arguments, directories,
the private key file, the ENR with its address (given, by STUN, by UPnP, or none) and
sequence number, the write of the ENR file, and the networks in their order. A start may
fail at every step that returns an error, and the process may crash at any time, also in
the middle of a write. `spoken` and `clean` are history variables.

**TalkRequests** continues it: the event stream of discv5, which is bounded and loses
what finds no room in it (external), the event loop with the cache of node addresses, the
channel of bounded length, the dispatcher that is started last, a queue per network,
a task per request, the commands of the overlay services and their answers to PING,
FINDNODES, FINDCONTENT and OFFER, and the uTP socket. The store of the state network
panics (`unimplemented!()`), which ends its service (`ServicePanics`). discv5 answers a
TALKREQ that is dropped with an empty response (external).

**OverlayApi** has a call as a record whose `stage` says what it waits for; the overlay
service on the other end of the channel answers, drops the sender, or stops, and a send
to a service that has stopped fails at once. **JsonRpc**
adds the way to it: the API task, the channel of the network, the spawned task, the
response channel. **RpcServer** and **Gossip** are functions.

**ContentStore** is the abstract store. **HistoryStorage** names content by its distance
to the node; `Short` is the four-byte prefix the SQL sorts by. Each statement of the prune
loop that matters is a step, as the beacon network writes to the same table and the
process may die between statements; an eviction may be followed by a statement that fails
(`PruneEvictThenError`), which leaves the item evicted and the radius as it was. `alone` (frozen) says whether the store has a
database to itself whose statements do not fail; the runs cover both cases.
**BeaconStorage** writes a range of updates row by row, each of which may fail; the
finality and the optimistic update are in memory only.

**Validation** runs validators that share the header oracle. The lock of tokio is fair,
so a reader waits behind a waiting writer; a body is validated with the lock held across
the lookup of its header, whose own validation takes it again. The networks write to
the oracle when they start. The accumulator of an epoch is looked up through JSON-RPC, and
the conversion of the answer is modelled: `recursive_find_content` answers with an object
(`ContentInfo`), `lookup_epoch_acc` takes only a string (`LookupEpochAcc`), so that the
proof of a header that needs the network fails. Hashes are terms, so that two are equal exactly when what was
hashed is; accumulators and proofs are built with **MerkleTree**, whose recursive
operators keep it out of the proofs.

**LightClient** names a header by its slot and a committee by its period; a `genuine` flag
stands for Merkle branches and signatures. Bootstrap, sync, advance, shutdown with the
checkpoint file (also torn), restart and fallback are actions. **Checkpoints** is the
vote of the checkpoint services.

**HistoryBridge** goes through its modes with a task per block and a number of permits;
the provider may fail, lag, or answer for another block, and accumulator files may be
missing; the accumulator of an epoch is looked for before its first height is served
(`FindEpochAcc`), and gossiped when it is found. **BeaconBridge** has rounds of four
concurrent tasks. The clock moves on between the read of the period and the answer of the
provider (`ExpectPeriod`), and gossip to one client after the other may fail halfway, after
which the task keeps what it had (`Gossips`). **BridgeInputs**,
**ExecutionApi** (batches of requests and their retries) and **BridgeGossip** are
functions of arguments, answers and attempts.

`MC*` modules give the constants their values. Where one run covers several components
a variable `scope`, which never changes, says which of them a behaviour is about; the
others keep still.

## Runs

| Run | Shows | States |
|---|---|---|
| `queries` | a FINDNODES lookup among five peers or a FINDCONTENT lookup: the counter `num_waiting` is exact, a finished result is complete and final, peers only move forward; content ends a lookup, has a source that answered, and is not poked back | 170,059 |
| `overlay` | one lookup per pool with crossed answers: one answer per caller, an ENR for every peer, every lookup is answered. Two offers of one and two keys: one outcome each, only valid content in the radius is stored and only valid content passed on, both sides end | 146,008 |
| `content` | the history store with failing statements, crashes and the beacon network in its table: it implements `ContentStore`, the radius covers the content and only shrinks; alone, prunes end and evict no more than needed. The beacon store implements `ContentStore`. The Merkle tree is the tree of its leaves. What is found valid is what its key stands for, and validations end | 47,804 |
| `chain` | the light client over two periods of three slots: right committees, headers and saved checkpoint go forward, the head is never ahead of the clock, an advance releases its lock. Both bridges: what is gossiped is consistent, updates are served in order, a backfill ends | 243,382 |
| `routing_table` | two nodes and a bucket of one, entries added and deleted: an unconnected entry is pinged until it fails, and the table catches up with the ENR of a node that pings and answers | 251,620 |
| `node_requests` | restarts: a node that is up shows the newest ENR it ever showed. Requests while it starts: each that the event stream took is answered, and finds the address of its sender if the stream took a session before it, unless the cache pushed it out | 412,099 |
| `json_rpc` | a call of any method beside one that stores: it returns, with valid content, an ENR no older than the known one unless the node itself sent it, a consistent gossip report | 296,953 |

Pure parts are named assumptions of the `MC` modules, which TLC evaluates on all inputs
of a bounded set before a run: the query trace, uTP payloads, messages, sizes of replies
and identifiers (`MCOverlay`); block bodies, header proofs of full epochs, and that
beacon content that can be read is not taken again (`MCContent`); the namespaces that
are served (`MCJsonRpc`); the vote of the checkpoint services and the order of the
fallbacks, modes, clients, batches, providers and the retries of gossip (`MCChain`).

Five runs show where the code does not do what a comment or documentation says
(`findings` in `PROJECT.json`):

| Run | Disagreement |
|---|---|
| `header_proofs` | `construct_proof` always appends the length of a full epoch, so its proofs do not validate in the last epoch, which is shorter |
| `bridge_exit` | a backfill returns when its last block was spawned, and the process ends with blocks half served |
| `transfer_partial_accept` | a partly accepted offer is transferred and then dropped |
| `find_node_timeout` | at capacity expired peers behind an uncontacted one are never given up |
| `lookup_older` | a lookup of an ENR returns what the node itself answers without comparing it with the newer ENR of the table |

Observations from modelling that no run checks:

* only the last peer of an answer decides whether a lookup made progress
  (`findnodes.rs:149`, against the comment at line 98);
* an emptied history store can be over capacity because of beacon content in its table
  (`trin-history/src/storage.rs:255`); content stored again is counted again;
* a node that failed a request and is heard from again is connected but no longer in the
  ping queue (`overlay_service.rs:1394`, against the comment at line 278);
* the content pool reports a peer without an ENR to the node pool
  (`overlay_service.rs:775`); `PeersHaveEnrs` shows the branch is never taken;
* of a range of light client updates one stored period is enough to decline all of it,
  while a read needs all of them (`trin-beacon/src/storage.rs:224`);
* a cached finality update also answers for older slots, and a put replaces it by an
  older one;
* with UPnP the port of a given external address is replaced (`discovery.rs:118`); an
  address that discv5 learns is not written to the ENR file;
* the end of a range of blocks is exclusive when it is cut at the head of the chain, and
  `latest` is one block behind (`portal-bridge/src/bridge/history.rs`);
* the header of the merge block itself is let through without an accumulator
  (`<` at `history.rs:300`, `<=` elsewhere);
* `lookup_epoch_acc` takes a string for the accumulator, and `recursive_find_content`
  answers with an object (`trin-validation/src/accumulator.rs:144`,
  `trin-history/src/jsonrpc.rs:129`);
* a body is validated without its withdrawals root, and one of a merged block decodes as
  a legacy one, with the same roots;
* a payload that ends inside a length is indexed beyond its end (`OutOfRange` in
  `PortalWire`).

**Bounds.** Five peers with parallelism two and three results are enough for a query to
stall, to return to iterating, and to have peers on both sides of its result. One lookup
per pool suffices for interference, as pools share nothing but ids. Five distances with
prefixes of pairs give ties inside and between prefixes; capacities 0, 2 and 3 with sizes
1 and 2 give empty, exactly full and overfull stores. Three periods give ranges that
overlap. Two offers with two keys give partial acceptance and races for one key. A tree
of depth three has full, half full, zero and finalized subtrees at every level below
the root. Epochs of two blocks with the merge in block 2 give a full and a short epoch,
and a block after the merge. Two light client periods of three slots let the client
cross a boundary with and without the next committee. Two nodes for one place give a full
bucket, a pending node and a replacement. Two requests, a
channel of one and an event stream of one (`EventStreamSize`) fill both while the node
starts; two peers and a cache of one push an address out. Two permits for three
blocks make a backfill wait. `BeaconLimit`, `MaxSlot`, `LastUpdateSlot`, `MaxPeriod`,
`LastPeriod`, `MaxUpdates`, `MaxSeq`, `MaxRequests`, `MaxSessions`, `MaxChanges`,
`MaxPartial`, `MaxBlock` and `MaxRounds` only bound numbers and queues. Runs without deadlock
checking model programs that may stop: all lookups answered, all transfers done, a
backfill complete, the bound on time reached.

**Fairness.** The service loop polls its pools again and again: it is woken by every
command and response and at least by the 60 second bucket refresh (`overlay_service.rs`,
`start`); time passes. Nothing is assumed of peers. The tasks of a transfer run, because
discv5 requests and uTP connections and streams time out by themselves. `prune_db` is a
loop in one thread; `PruneKeepsFull` and `PruneEnds` are for a store that is `alone`: with
a delete that fails every time, or with beacon content that no prune takes away, neither
is claimed.
Overlay lookups always answer (`EventuallyAnswered`), hence so do the light client's
requests, the lookups of `Validation` and the waits of `JsonRpc`. The loops and tasks of
`TalkRequests` and `JsonRpc` are scheduled by the runtime. A block of the bridge ends by
its timeout. `EnrIsLearnt` assumes of the `Reliable` nodes alone that they keep pinging
and answer requests for their ENR.

**Refinement.** `ContentStore` says what the trait promises: an item comes into an open
store by a put of that item within the radius, a put touches no other item, a lasting
item keeps its value while it is held, and the radius of an open store does not grow.
`HistoryStorage` maps its table to the contents and the prefix of its radius to the
radius (the prefix is all that the SQL compares); `BeaconStorage` maps its two tables and
its cache, of which only the tables last. `KeepsPromise` and `BeaconKeepsPromise` are the
abstract specification as a property.

## Proofs

For all values of the constants that satisfy the named assumptions:

* `LookupProofs`, a FINDNODES lookup: types, the exact counter, completeness of a
  finished lookup, forward-moving peers, final results. The inductive invariant is
  `CountInv`: the type and the exact counter together, since an assertion of one action
  (a decrement) needs the other. Completeness is inductive on top of it, because only the
  poll finishes a query (`PollCompletes`) and nothing changes a finished one. A
  FINDCONTENT lookup: its counter is exact, its content has a source, and nobody is asked
  after it. `ContentInv` adds to the counter that the source is a peer that succeeded; no
  late answer, failure or timeout takes a peer out of that state. The lemmas about the
  iterator's operators are in `QueryIteratorProofs`.
* `OverlayQueriesProofs`: `PeersHaveEnrs` and the exact counters of both pools by
  `QueryInv`, `AnsweredOnce` by `AnswerInv`, whichever query an answer reaches. That
  every known peer has an ENR shows that the branch of the handlers for a missing ENR
  cannot be taken.
* `OverlayServiceProofs`, offers and transfers: `OneOutcome`, `PropagatedIsValid` and
  `StoresValidContent` by `TransferInv`. It relates the two sides of an offer: the
  offering task has a connection only where the answer accepts a key and its caller has
  heard nothing before it closes (`OfferingInv`), an answer that accepts has a bit for
  every key (`AnsweringInv`), and the tasks that store a payload run only while it is
  being stored, each with the content of its key once it passed the validator
  (`StoringInv`).
* `OverlayServiceProofs`, the routing table: `UnconnectedIsPinged` by `RoutingInv`. One
  message runs several handlers on the table, so the invariant is stated of any table
  between the one a handler found and the one it leaves (`Upkeep`), with a lemma per
  handler. It is stronger than the property in the pending place: the ping queue takes no
  notice of a pending node, so there only a failure accounts for one that is not queued,
  and a node that leaves the pending place for the bucket stays accounted for.
* `NodeProofs`, the start: `EnrIsNewest` speaks of the ENR in memory, which a crash takes
  away. What carries it over a restart is the file: by `EnrInv`, while no ENR was made
  without it, it holds the newest ENR shown under its key, or nothing if none was shown,
  or it is torn and no start gets past it. The assumption is that an absent or torn file
  is not read as an ENR.
* `NodeProofs`, requests: `AddressOfHeardPeer` by `TalkInv`. A session that the stream took
  precedes in it the requests that come after it (`SessionFirst`), whatever else was lost
  for want of room; once a request is
  past the event loop, in a channel, a queue or a task, the cache has its sender or has
  had to give it up (`OnTheirWay`), and the cache drops nobody without recording it.
* `JsonRpcProofs`: `FoundContentIsValid`, `LookupKeepsKnownEnr` and `TraceGossipConsistent`
  by `RpcInv`, which gives for each of the three methods what its call holds at each of
  its waits: the content already validated, the ENR of the table, the report and
  how much of the list of peers is left (`Offerable` bounds the two together). A call
  that waits in the channel is there once and fresh, so none is started over after it has
  found something. The composition is that of the runs: `OverlayApi`, the channels and
  the server together.
* `HistoryProofs`, the history store: `StoredWithinRadius` needs to know that the id a
  prune is about to look at is a farthest one (`PruneIdIsFarthest`), also after a failed
  eviction; with it `RadiusShrinks` follows, and that the store implements `ContentStore`
  (`StoreKeepsPromise`): its initial states map to initial ones, and each of its steps to
  a put, a prune, an opening, a closing or a stutter. All hold with failing statements,
  crashes, and any beacon content.
* `HistoryProofs`, the bridge: `GossipedIsConsistent` by `BridgeInv`. The accumulator of a
  task and the header it gossiped stay as they are because a height is given to a task
  only once (`ServedOnce`): what is served is below `block_index`, and only heights from
  there on are spawned.
* `BeaconProofs`, the beacon store: it implements `ContentStore` as well
  (`BeaconStoreKeepsPromise`). The invariant `BeaconInv` is the type, with the rows that
  are still to be written, and that a store that is down caches no update: so opening it
  changes nothing that `get` finds. A row of a range maps to a put of its period, and a
  crash in the middle of a range to a closing that loses the cached updates only.
* `BeaconProofs`, the bridge: `BeaconServedInOrder` by `BeaconBridgeInv`. Each task works
  on its own part of the result of the round, which is what was known before until the
  task ends, and a period that is asked for is a new one however far the clock has moved
  (`ResultIsKnown`); nothing handed to all clients is beyond the result
  (`ServedUpToResult`), whereas content whose gossip failed halfway may be, and is served
  again.
* `BeaconProofs`, the light client: `Inv` says that headers are ordered and not in the
  future, that committees match the finalized header's period, and that checkpoints in
  memory are at least the saved one; `AppliedIsSound` shows that every verified update
  keeps it, with one case per rotation. Its corollaries are the type, the committees, the
  head in time, no going back, and the saved checkpoint.

The assumptions on the constants say that bounds and limits are numbers, and positive
where the code divides by them or needs one (`QueryConfigAssumption`,
`RoutingAssumption`, `HistoryAssumption`, `BeaconAssumption`, `LightClientAssumption`,
`GossipAssumption`); that answers list peers (`ResponsesAssumption`); that names of
different kinds differ, peers from requests and the marks for `None`, `Err` and a torn
file from ENRs (`TalkAssumption`, `EnrAssumption`, `OverlayAssumption`); that the peers of
a gossip are finitely many, as the report counts them; and that the four-byte prefix
preserves the order of distances (`StorageAssumption`). TLC evaluates them in the runs.

Of the safety properties of the runs three are only model-checked: `TreeIsItsLeaves` and
`ValidIsOfItsKey`, as the Merkle tree and the accumulators are recursive and what they
compute is a matter of induction over data, and `PruneKeepsFull`, which compares sums
over the content. So are all liveness properties (the provers do not handle fairness) and
the named assumptions about payloads, traces, bodies and the other pure functions.

## Not modelled

* Derived codecs, and content types that are data: SSZ, RLP and JSON of keys, headers,
  receipts, transactions and light client types (`ethportal-api/src/types`). They have no
  behaviour over time, and their laws are about bytes in numbers beyond TLC's reach.
* Cryptography: signatures and hashes are flags or terms.
* discv5, uTP, SQLite, jsonrpsee, tokio and the HTTP clients are external, modelled by
  how the code uses them.
* The validators of the beacon and the state network decode one value, or accept it.
* The state network is mostly unimplemented in the repository; its dispatch is part of
  `TalkRequests`.
* Real time: how late a poll or a refresh is. Timeouts that race with answers are
  modelled, their lengths relative to each other are not, apart from the peer and the
  query timeout of a lookup.
* Metrics, dashboards, logging, configuration tables and test tools.
