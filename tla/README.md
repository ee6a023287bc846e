# A TLA+ development of lilP2P

lilP2P is a small peer-to-peer node in Go, modelled on devp2p: a Kademlia-like
UDP discovery protocol (`discovery/`), a server that runs it (`server.go`), a
few network helpers (`netutil/`) and demo programs (`main/`).  This directory
holds TLA+ modules of its core logic, the configurations that model-check them
with TLC, and theorems proved with TLAPS.

`PROJECT.json` maps every definition to the source lines it models, and lists
the hazards of the code, the runs, the findings and the theorems.

## 1. Inventory

| component | state | operations | what makes it correct |
|---|---|---|---|
| main loop and node states (`discovery/net.go`) | per node: state, open ping, pending query, deferred queries, failure count; the armed timers; known nodes; fallback nodes; the running refresh | one `select`: packet, timeout, query, refresh request, tick, end of a refresh | a node is queried, and spread to others, only after it proved its endpoint; nothing waits for a timer that is not armed; no query is lost or answered twice; silent nodes are revalidated; the table is refilled when it empties |
| node table (`discovery/table.go`) | bucket entries, replacements, counter | add, delete, deleteReplace, closest | counter = entries; no node twice; slices bounded |
| lookup (`net.go:638-696`) | asked, seen, result list, reply channel, number of pending queries | ask the alpha closest, take a reply, time out | terminates; never blocks the main loop; asks every close node |
| UDP transport and codec (`discovery/udp.go`) | the socket; packets under way | encode, sign, send; decode, recover the sender; split neighbours | two programs verify one another through it whatever was lost before; an answer arrives whole |
| node identity (`discovery/node.go`) | a node's address | parse, validate, compare distances | distances are exact; a known node's address is its own |
| server (`server.go`) | running, quit, listener, discovery network | Start, Stop | a running server has a network that listens; Stop is safe in any order |
| IP tracker (`netutil/iptrack.go`) | statements and contacts with times | AddStatement, AddContact, predictions, lazy collection | a prediction uses exactly the statements of the window, whenever they were collected |
| IP helpers (`netutil/net.go`) | a DistinctNetSet's counts | SameNet; Add, Remove, Contains; CheckRelayIP | at most `Limit` addresses of a network; no relayed address a host may not relay |
| chain demo (`main/PosChain.go`) | chain, candidate blocks, validators, two channels | connection handler, collector, pickWinner | the chain is a chain; no candidate is lost; winners are announced |

How they interact.  `Server.Start` opens the socket and creates a `Network`,
whose constructor starts `loop` in a goroutine; `readLoop` turns datagrams into
`ingressPacket`s on the channel `read`.  All the node and table state belongs
to the `loop` goroutine.  Timers are `time.AfterFunc` goroutines that offer
their event on the unbuffered channel `timeout`; aborting a timer removes it
from `timeoutTimers`, and an event without an entry there is dropped.  Lookups
run in goroutines of their own (one per refresh and one per minute), submit
`findnodeQuery`s on `queryReq` and get their answers on a channel of their own.
`SetFallbackNodes` hands `loop` the fallback list on `refreshReq`.

Hard behaviours: packets are lost, delayed, reordered and duplicated; answers
race their timeouts; handlers of one node change other nodes (a node that
enters the table contests another; a neighbours packet starts the verification
of its contents); queries survive several state changes of their node; the
table is changed on five paths; the refresh cycle depends on the table's
counter; programs restart without memory, move to other addresses and are
remembered by others; stopped timers whose goroutine waits already; a server
that does not stop what it started.

## 2. Modules

| module | what it is |
|---|---|
| `Table` | the node table as pure operators on a record (entries, replacements, count) |
| `Network` | the main loop: variables, one action per event and state, properties, the refinement mapping |
| `EndpointProof` | abstract specification: what the handshake promises of each peer |
| `QueryLines` | abstract specification: the lines of queries the main loop serves, one for each node |
| `TimedEvent` | the timers of `timedEvent` and `abortTimedEvent` as goroutines on an unbuffered channel |
| `Deadlines` | abstract specification: deadlines that are armed and aborted as handlers ask, come due and are handled, as `Network` assumes |
| `Exchange` | two programs that run the handshake with one another, their packets and addresses |
| `Lookup` | one run of `lookup`, with the main loop as its environment |
| `NearestSearch` | abstract specification: a search for the nearest nodes, one question at a time |
| `Server` | Start, Stop and the networks they leave |
| `IPTracker`, `NetSet`, `RelayedIP` | `IPTracker`; `SameNet` and `DistinctNetSet`; what neighbours packets make of the addresses in them: checked for a new node, replaced unchecked for one that is there |
| `Metric`, `Neighbours` | `distcmp`, `logdist` with its table `lzcount`, and the refresh target; `sendNeighbours` and its packets' sizes |
| `PosChain` | the chain demo: connections, collector and `pickWinner` as processes |
| `MCNetwork`, `MCLookup`, `MCPosChain`, `MCTimers`, `MCExchange` | constants for TLC |
| `MCHelpers` | the small components for TLC, of which a behaviour uses one (`part`) |
| `SequenceLemmas`, `TableProofs` | induction, folds, sums and sequence operators; lemmas about the table operators |
| `NetworkProofs` | invariants of `Network` and the refinements of `EndpointProof` and `QueryLines`, proved |
| `LookupProofs` | invariants and progress of `Lookup` and the refinement of `NearestSearch`, proved |
| `ExchangeProofs`, `PosChainProofs` | invariants of `Exchange` and `PosChain`, proved |
| `TimedEventProofs` | invariants of `TimedEvent` with the refinement of `Deadlines`, proved |
| `HelperProofs` | the properties of the small components, proved |

### State of `Network` and the code

| variable | code |
|---|---|
| `nodes` | keys of `net.nodes` |
| `state` | `n.state` (a node without `*Node` counts as `unknown`) |
| `pingEcho` | nodes with `n.pingEcho != nil` |
| `pendingNeighbours`, `deferredQueries`, `queryTimeouts` | the fields of the same name |
| `timeoutTimers` | keys of `net.timeoutTimers` |
| `tab` | bucket 0 and `count` of `net.tab` |
| `nursery`, `refreshDone` | `net.nursery`; `loop`'s local `refreshDone` (nil, open, closed) |
| `open` | history variable: queries taken from `queryReq` and not yet replied to |

### Actions and the code

A packet and a timeout are handled by `handle`: `checkPacket`, the state's
`handle` function, `transition`, and the next state's `enter` function, which
may call `transition` for another node.  Each action is all of that.

| action | code |
|---|---|
| `PingFromUnknown`, `PingFromVerifyinit`, `PingFromUnresponsive` | pingPacket in these states; in the others it is answered only (`PacketWithoutEffect`) |
| `PongWhileVerifyinit`, `PongToKnown`, `PongWhileKnown` | pongPacket with the token of the open ping |
| `HandleNeighbours` | neighboursPacket with a query pending; `accepted` are the entries `internNodeFromNeighbours` returned without error |
| `PacketWithoutEffect` | every packet the state rejects or only answers |
| `PongTimeoutVerify`, `PongTimeoutContested`, `PingTimeout`, `NeighboursTimeout` | the timeout case, by event and state |
| `StartQuery`, `DeferQuery` | the queryReq case |
| `SetFallbackNodes`, `RefreshTick`, `CloseDone`, `RefreshDone` | the refresh cases and the end of a refresh |

`Lookup` has one action per step of `lookup`'s loop: `Ask` (the inner `for`, one
query per step, since the main loop takes each from `queryReq` between other
events), `Receive` and `Timeout` (the cases of the select), `Finish`; and
`Reply` for the main loop.  `filled` is the fill of every reply channel made so
far, `open` the queries the main loop has not answered, each with its channel.
The two modules meet in `queryReq` and the reply channels: `Network` leaves open
when a query is submitted, `Lookup` when it is answered, and each relies on what
the other shows.  `Network` answers a query at most once (`QueryPlaced`), which
is why `Reply` removes it from `open`; a reply never finds its channel full
(`RoomForReplies`), which is why `Network`'s handlers never block.

`PosChain` splits each goroutine at its blocking and locking operations: a
connection's handler reads a balance (`Register`; `Leave` if it is not a number;
`NoBalance` at the end of the input or a line too long, after which the handler
goes on for a validator that nobody registered), reads a number (`ReadBPM`,
`ReadBadBPM`), makes a block on the last one under the lock (`Forge`) and sends
it (`Submit`, a rendezvous with the collector); the collector stores it under
the lock (`Collect`); `pickWinner` copies the blocks (`Snapshot`), looks up each
stake (`Weigh`), draws and appends (`Draw`, or `Panic` on an empty pool),
ranges over the validators (`NextKey`) and sends each message to a listener that
is ready (`Announce`), and when the range is over (`Announced`) drops the blocks
(`Reset`).  A listener writes what it reads to its client, which returns
(`Written`) when the client reads or the connection is closed, and it reads no
other announcement before.  A client may leave at any time (`Disconnect`).

`TimedEvent` is what `Network!timeoutTimers` stands for.  `Expire` is the timer's
time passing, after which its goroutine waits in the send of `timedEvent`;
`Deliver` and `Discard` are the two outcomes of the timeout case in `loop`, of
which the first removes the entry (`Removed`) before it handles the event;
`Other` is any other case.  What a handler aborts and starts is arbitrary (`asked`
records it) but for one thing, that it starts no timer that is armed, which
`Network` shows (`VerificationArmed`, `PendingTimed`: a ping or a query is timed
exactly while it is open).  `late` records the timers whose abort came when the
goroutine waited already: those that `timer.Stop` could not stop.  In `Deadlines`,
which it refines, there are no goroutines: exactly what a handler asks for is
aborted and armed, a deadline is handled when it is due, and what remains of a
deadline aborted too late is a stray event.

`Exchange` has the handlers of `Network` once per party, for one node, and adds
what `Network` leaves out: where a packet goes, what makes a pong the answer to a
ping, and `n.IP`, `n.UDP`.  `ReceivePingUnknown`, `ReceivePing` and `ReceivePong` are
`internNode`, `checkPacket`, the state's handler and `handlePing`; `Introduce` is
the three ways to hear of a node (`internNodeFromDB` from a fallback list or a
lookup's end, `internNodeFromNeighbours`), with the address each keeps or
replaces; `Contest` is the revalidation of a known node.  `Restart`, `Move`,
`Lose` and `Tick` are faults and time.

`RelayedIP` has the three outcomes of `internNodeFromNeighbours`: a node that is
new is interned at an address that passes `CheckRelayIP` (`RelayNew`), one that is
there gets the packet's address as it is (`RelayInterned`), unless it is known.

`Server` has `Start` in two actions, with and without a key, and in the first
the outcomes of `setupDiscovery`: disabled; no socket (`ListenFails`), because
`ListenAddr` cannot be resolved or bound, or another process has the port, or a
network of the server's own earlier run; a network is listening.  All but the last
of these reasons, a bad bootstrap node and a socket that failed later make the
server `spoiled`: nothing is claimed of it then.  `Configure` changes the exported `Config` between runs, `ReadFails`
ends a network's read loop and closes its socket, `Rival` is another process that
takes or releases the port.  In the other helper modules each exported method is an
action; `Remove` of `NetSet` is called for any address, as the code accepts any.

`EnterKnown` and `EnterUnknown` are the enter functions of these states, shared
by the actions that enter them; `BeginVerify` and `PongTimers` are the
transition to verifyinit and `ping`.  Definitions named like another with a
suffix, or just before one with the same parameters (`TrimOff`,
`AbandonedPendingOnly`, `SameChannel`, `KeptBlocks`, ...), are faulty variants,
used only to show that a property notices the fault; no action uses them.

### Abstractions

* One bucket.  `logdist(self.sha, n.sha)` selects the bucket, and `NewNode`
  never sets `sha`.  Every node that reaches the table is made by `NewNode`
  (`internNode`, `internNodeFromDB`, `nodeFromRPC`; the copies on which
  `SetFallbackNodes` sets `sha` are re-created by `internNodeFromDB`), so that
  both hashes are zero, the index is 0, and all distances are equal.
* In `Network` a pong that counts is one that carries the token of the last ping;
  a wrong token has no effect.  Tokens and addresses are in `Exchange`;
  expirations are never read by a handler, and signatures are the certainty of a
  packet's sender.
* In `Network` time is left out: an armed timer may fire at any moment.  This
  includes the event of an aborted timer being taken for a re-armed one
  (net.go:380), which `TimedEvent` shows.
* In `Exchange` each program has one other node, so that no table is full and a
  revalidation may begin at any time.  A packet stays until it is lost or, once
  the faults have stopped, read; one that stays may be read again.  A ping's hash
  is its destination and its second: two pings of one second are one packet.
* In `Server` the network is a port and a socket that is bound or not; the quit
  channel is nil, open or closed.
* In `Metric` a byte has `ByteBits` bits, at most eight, and a hash `Bytes` bytes; the
  prefix overflows at its width.  `lzcount` is the code's table of 256 entries, read
  for smaller bytes with the bits they lack taken off.  Go's `^` is the constant
  `XorOf`, of which `XorAssumption` says what is used; TLC is given the bitwise
  operator of the community modules.  In `NetSet` and `RelayedIP` an address is its
  version and its leading bits; `RelayedIP` leaves out the addresses from which nodes
  send to us themselves, and nodes that are forgotten.
* Our own node, `Self`, can be among the peers: a fallback list or a neighbours
  packet may name it.  `ping` sends nothing to it and arms no timer (net.go:514), the
  table passes over it, and it is never queried as a node, so that once it is in
  verifyinit it stays there.  `Others` are the remote nodes, and what is said of
  handshakes is said of them.  A query to ourselves is answered from the table
  without touching a node.
* A pong without a token is left out: it would be accepted while no ping is open, but
  no program of this code sends one.
* `queryTimeouts` saturates at `MaxFindnodeFailures + 1`, which all larger
  values are equivalent to (it is only compared with `>`).
* A query identity may be reused when it was answered.
* `loop` is never asked to stop: nothing closes `closeReq`.
* In `Lookup`, the contents of a reply are chosen when it is received, and a
  forgotten channel is only its fill: nobody reads it.  `Distance` is arbitrary,
  although all hashes of the code are zero, because `push` and the search do not
  depend on that.  `stopOnMatch` is left out (no caller sets it).
* In `PosChain`, a block is named by its maker and a number, since its hash
  covers the time it was made; BPM values and the weight of a ticket are left
  out (any validator in the pool may win).  `validators` is accessed without the
  lock: a write while another goroutine may be in the map is an ordinary write
  or one the Go runtime notices, which kills the program.  The minute's dump of
  the chain to each connection changes nothing and is left out.  `MaxBlocks`
  bounds each connection's blocks.

## 3. Runs

Deadlock is checked in the runs of `Network` and `Exchange`.  A lookup returns,
the chain program may crash, `sendNeighbours` ends and a program that panicked has
stopped, so that the other runs may stop; `TimedEvent` always has a step.

| run | instance | distinct states | shows |
|---|---|---|---|
| `MCTable` | 3 remote nodes and our own, 1 query, bucket of 2, one fallback list (our own node and a remote one) | 761 211 | `TypeOK`, `TableVetted`, `TableConsistent` |
| `MCQueries` | 2 remote nodes and our own, 3 queries, bucket of 1, one failure allowed, the same kind of fallback list | 101 559 | `VerificationArmed`, `PendingTimed`, `QueryPlaced`, `KnownAnswers`, refinements of `EndpointProof` and `QueryLines` |
| `MCLiveness` | 2 remote nodes and our own, 2 queries, bucket of 1, no failure allowed, two fallback lists (our own node alone; with two others), fair | 96 168 | `VerificationEnds`, `DeferredSettled`, `TableRefilled` |
| `MCTimers` | 2 events, each timed up to 3 times | 54 208 | `ArmedAlive`, `OrphansAreLate`, refinement of `Deadlines` |
| `MCExchange` | a party that stays and one that moves, 2 seconds, up to 3 packets under way before the faults stop, fair | 372 708 | `TypeOK`, `AllAnswered`, `KnownAddressKept`, `WaitSuffices`, `HandshakeCompletes` |
| `MCLookup` | 4 peers at three distances, alpha 2, result of 4, answers of up to 2 nodes, fair | 828 | `TypeOK`, `RoomForReplies`, `PendingCounted`, `ResultNearest`, `Terminates`, refinement of `NearestSearch` |
| `MCPosChain` | 2 connections with 2 and 1 blocks, stakes 0 and 1, fair | 369 674 | `TypeOK`, `LinkedToEarlier`, `ForgedOnce`, `RoundEnds` |
| `MCHelpers` | each helper alone: 3 hosts over 4 windows; 5 addresses offered up to twice; 2 relayed nodes and 9 addresses of every kind; all hashes of two bytes of three bits; answers of up to 3 packets; up to 3 networks of a server | 221 358 | `PredictionIsMajority`, `NoConeMeansContacted`, `InsertionsCollect`, `DistinctNets`, `NoDetour`, `MetricIsXor`, `AnswerArrives`, `Served`, `PanicsWithoutKey` |
| `MCContested` | 3 peers, bucket of 1 | | `ContestedRevalidated` violated (finding) |
| `MCClosest` | as `MCTable` | | `ClosestDistinct` violated (finding) |
| `MCPosValid` | as `MCPosChain` | | `ChainValid` violated (finding) |
| `MCFullCone` | as `MCHelpers` | | `ConeMeansUncontacted` violated (finding) |

Why these bounds are enough.  A bucket of two with three nodes is the smallest
where one node is bumped over another, a third finds the bucket full, and a
replacement is promoted with another entry present; a bucket of one makes every
arrival contest the only entry.  Handlers touch at most the node of the event,
the nodes of one packet and one contested node, so that three peers give every
pair of roles a bystander.  Three queries to one node are one pending and two
deferred, the shortest queue with a head and a rest.  A lookup over five nodes
and a result of four pushes a node out again; with alpha 2 a timeout can leave
two late replies, and new queries run beside them.  Two validators are rivals in
a round, and the second block of one of them needs a second round.  An event
that is timed three times can have two aborted goroutines waiting while a third
timer is armed.  In `MCExchange` each direction can have a ping and an answer to
one under way, beside one packet of an earlier second or address; after the faults
have stopped, packets are not bounded.  Four windows of the tracker are a
statement, its collection, and a window on either side; three networks are one to
bind the fixed port, one that finds it free again, and one on another port.  One
statement is enough to predict an address in that run (`MinStatements` is 1); a
higher threshold of the vote is the theorem's, which holds for every one.  Symmetry is used for the
peers that are in no fallback list and for the queries, and never with
liveness.

### Fairness

`FairSpec` assumes weak fairness of each timer's handler, of the refresh ticker,
of the end of a refresh and of the `refreshDone` case.  An armed timer's
goroutine waits on `timeout` until `loop` receives, and `select` chooses at
random among the cases that are ready, so that a sender which stays ready is
served with probability one.  The handlers do not block `loop`: a lookup has at
most `alpha` open queries and its channel holds `alpha` replies.  That a
refresh's lookup ends (`CloseDone`) is assumed: it asks every node once and
forgets unanswered queries after `respTimeout`.  Nothing is assumed of packets,
pings or pongs: they may all be lost.

`Exchange!FairSpec` assumes nothing until the faults stop (`Stabilize`); from then
on every packet under way is read, and a timer fires between exchanges that may go
on for ever, since each of those takes time (strong fairness of `Timeout`).  In
that phase timers fire after the packets they race: `respTimeout` is far longer
than a round trip.  Nothing says that anybody begins a verification; the
properties are about those that are begun.  `Stabilize` asks that no timer runs and
each node is at the address it is believed to be at; what the two are to one
another by then is left open.  It includes a ping that timed out while its node was
contested: the node became unresponsive, a ping of its own may have made it known
again, and `pingEcho` is set for good.  A party that holds such a ping answers like
any other, so that the other's verification of it completes.  A revalidation by that
party sends nothing, times nothing and does not end, which is the finding
`ContestedRevalidated`; `HandshakeCompletes` speaks of the revalidations that have a
`pongTimeout`, which are those a ping is sent for.

`Lookup!FairSpec` assumes that the main loop takes submitted queries (`Ask`),
that the select of `lookup` ends (a reply is there or its timer fires) and that
`lookup` returns; no reply is assumed to come.  `PosChain!FairSpec` assumes that
`pickWinner`'s goroutine, an endless loop, runs whenever it can, and that a write to
a connection that is closed returns.  Nothing is assumed of handlers, of the
collector, or of clients: one that stays and does not read holds its listener in
`io.WriteString` once the buffers are full.  `pickWinner` sends on an unbuffered
channel, and when every listener is held like that it waits for ever.  `RoundEnds`
excludes the behaviours in which this is so from some moment on, and no others: one
listener whose client has left, or reads, is enough for the round to end.

### Findings

Where the code does not do what its comments say.

* `ContestedRevalidated`.  The comment in `known.enter` says that the last node
  of a full bucket is revalidated.  A contested node that does not answer
  becomes unresponsive with its `pingEcho` left set.  When a ping brings it
  back to known and it is contested again, `ping` returns at once: no ping is
  sent, no timeout armed, and the node stays contested in the table.
* `ClosestDistinct`.  `closest` is called "obviously correct", but the table can
  hold a node twice: a node that waits among the replacements enters the bucket
  by itself when room was made, and `deleteReplace` promotes its stale
  replacement record later.
* `ChainValid`.  "Blockchain is a series of validated Blocks", but a block is
  validated when it is made, against the last block of that moment.  One that is
  made before a round's winner is appended and collected after the round's
  blocks are dropped takes part in the next round, and is appended with a stale
  index and previous hash.  (`LinkedToEarlier` is what remains true.)
* `ConeMeansUncontacted`.  `PredictFullConeNAT` "predicts by checking whether any
  statement has been received from a node we didn't contact before the statement
  was made", but only a host's latest contact is kept: one that is contacted,
  makes its statement and is contacted again counts as one that was not.
  (`NoConeMeansContacted`, the other direction, is true.)

`PosChain` defines two more such properties, which TLC finds violated when they
are checked in the instance of `MCPosChain` and which no run lists:

* `AllHear`.  "announcements broadcasts winning validator to all nodes", but
  each message on the channel is read by one goroutine: one connection can read
  all of them, and the readers of closed connections read on.
* `LotteryUnraced`.  "lock list of validators to prevent data race", but what is
  read under the lock is the reference of the map; the lookup of the stakes and
  the connections' writes are outside it.

A divergence that is read rather than checked: `server.go:66-71` describes
`NoDiscovery` and `Discovery` as switches of two protocols, while
`setupDiscovery` (line 324) runs unless the first is set and the second is not.
`Disabled` is what the code does.

## 4. Proofs

Each theorem holds for every value of its module's constants: all sets of peers
and queries, every `BucketSize >= 1`, every `MaxFindnodeFailures` in Nat and all
fallback lists of `Network`; all finite sets of peers, distances and answers and
every `Alpha >= 1` of `Lookup`; all connections, stakes and bounds of `PosChain`;
all finite sets of events of `TimedEvent`.  The only assumptions are the named
ones of the modules, which TLC evaluates in every run.  Those that say more than
the kind of a constant:

* `Exchange`: there are two parties, and no packet's hash or address is `None`.
* `NetSet`: the addresses are finitely many, those of one version have one length,
  and they have the bits of the prefix up to its last byte (`PrefixAssumption`).  A
  longer prefix is no network for `SameNet` but one for `DistinctNetSet`, and
  `DistinctNets` is false of it.
* `Neighbours`: an answer is a sequence, and a packet has room for a node.
* `Metric`: the prefix is not longer than a hash, a byte has up to eight bits, and
  exclusive or is closed on bytes, commutative, its own inverse, and has 0 as its
  unit; `LzcountAssumption` states of the table, entry by entry, what it is for, which
  TLC decides.
* `Network`: fallback lists are sequences of peers, the own node among them or not.

| theorem | property | inductive invariant |
|---|---|---|
| `TypeCorrect` | `TypeOK` | `TypeInv`: the types, with `tab` in `Tables(Others)`, and the own node never queryable |
| `HandshakeTimed` | `VerificationArmed` | itself, with `TypeInv` |
| `QueriesTimed` | `PendingTimed` | itself, with `TypeInv` |
| `TableIsVetted` | `TableVetted` | `tab` in `Tables(vetted nodes)`; a node that can be queried can be queried for ever (`CanQueryLasts`) |
| `TableIsConsistent` | `TableConsistent` | `TypeInv` |
| `SuspectsAreRevalidated` | `KnownAnswers` | itself, with `TypeInv` |
| `ImplementsEndpointProof` | `EndpointSpec` | step simulation under `TypeInv /\ VerificationArmed`, for the remote nodes |
| `ImplementsQueryLines` | `LinesSpec` | step simulation under `TypeInv /\ PendingTimed /\ QueryPlaced` |
| `QueriesAnsweredOnce` | `QueryPlaced` | itself, with `TypeInv` |
| `RepliesHaveRoom` | `RoomForReplies` | `Counted /\ RoomForReplies /\ PendingCounted` |
| `PendingIsCounted` | `PendingCounted` | the same |
| `LookupTyped` | `TypeOK` | `SearchInv`: the same, `AllClosestAsked`, and result and seen nodes in `Found` |
| `ResultIsNearest` | `ResultNearest` | the same |
| `ClosestWereAsked` | | the same |
| `ImplementsNearestSearch` | `SearchSpec` | step simulation under `SearchInv` |
| `LookupProgresses` | | `Left`, a natural number that every step decreases, under `SearchInv` |
| `ExchangeTyped` | `TypeOK` | `ExchangeInv == Typed /\ Waiting /\ Timely`, over states, timers and packets of both sides |
| `PingsAreAnswered` | `AllAnswered` | the same |
| `KnownAddressIsKept` | `KnownAddressKept` | the same |
| `WaitingSuffices` | `WaitSuffices` | the same |
| `BlocksLinked` | `LinkedToEarlier` | `LinkedInv`: all blocks that wait anywhere are linked to the chain |
| `BlocksForgedOnce` | `ForgedOnce` | `OnceInv`: blocks waiting, sent and forged are kept apart |
| `PosChainTyped` | `TypeOK` | `LinkedInv`, with `AllMade` (each block was made by its connection) and `PlainTypes` |
| `DeadlinesKept` | `ArmedAlive` | itself, with `TypeOK` |
| `OrphansBounded` | `OrphansAreLate` | `OrphansInv`: with `Numbered` and `Apart`, timers are started once and aborted ones not armed again |
| `TimersImplementDeadlines` | `DeadlineSpec` | step simulation under `OrphansInv` |
| `ServerServes` | `Served` | `AllBound`: unless it is `spoiled`, every network of the server is bound and the last is the one it has |
| `PanicsOnlyKeyless` | `PanicsWithoutKey` | `QuitFollows`: quit is open exactly while the server runs, from one Start with a key to the next without |
| `ServerTypeCorrect` | | `ServerInv`: the types, and no two networks with the fixed port |
| `PredictionHasMajority` | `PredictionIsMajority` | `TrackerInv`; and `BestOf`, the invariant of the loop over the statements |
| `NoConeIsSafe` | `NoConeMeansContacted` | `TrackerInv`: what is kept is what was said, and all of the window is kept |
| `InsertionsAlsoCollect` | `InsertionsCollect` | the same, whose last two parts bound the age of what is kept |
| `TrackerTyped` | | the same |
| `NetsAreDistinct` | `DistinctNets` | `NetInv`: a network's count is the sum over its addresses inside while calls are orderly, and never more than that over those offered |
| `NetSetTyped` | | the same |
| `RelaysAreNoDetour` | `NoDetour` | itself, with the type of `IP`: who passes `CheckRelayIP` is not nearer than who relayed it (`RelayedNoNearer`) |
| `DistancesAreXor` | `MetricIsXor` | `MetricInv`: the types suffice for it |
| `AnswersArrive` | `AnswerArrives` | `SendInv`: what is sent and what is collected are the nodes up to the next one |

Why the strengthenings are needed.  `TypeOK` alone does not bound the table
after `delete` or say what `deleteReplace` may promote; `Tables(S)` does, and it
is monotonic in S, so that one set of lemmas in `TableProofs` (each table
operator maps `Tables(S)` into `Tables(S)`) serves the type invariant and
`TableVetted` alike.  `VerificationArmed` is inductive because it also says
which states have no open ping: without that, `ping` could skip the node that
just entered verifyinit.  It says of the own node that it has no ping and no timer
and cannot be queried: it would be contested otherwise, and wait for a ping that is
never sent.

`QueryPlaced` is inductive; every handler changes the places of one node only, and
`OnePlace` reduces each of them to that node.  In `Lookup`, each channel's fill and
its open queries together never grow except by `Ask`, which only adds to the
current channel while `pendingQueries`, their sum there, is below `Alpha`;
`Timeout` starts a new channel at zero.

`QueryLines` sees the line of a node as its pending query, if there is one, before
its deferred ones.  Each handler changes one line, and `QueryPlaced` says that no
query is in it that is elsewhere, so that the head which is answered or times out
was entered once.  A query leaves the middle of no line: `HandleNeighbours` takes
the pending one and starts the next, `EnterKnown` moves only the mark between the
two, and only `EnterUnknown` empties a line, of a node that may
not be queried yet (`CanQueryLasts`: one that may is never given up).  What is
promised has one exception, in `Overtake`: after a `neighboursTimeout` nothing is
started (net.go:557), and the query that comes next is sent ahead of those that
wait.

`NearestSearch` knows neither queries nor channels.  `Ask` of `Lookup` looks for
its node in `result`, which by `Found` is a choice of the nearest nodes heard of
(`ResultIsClosest`); asking in its order asks the nearest first (`AskSearches`).
A reply only grows what is heard of.  The late replies that a `Timeout` leaves to a
forgotten channel, and those the main loop has not given, map to stutters.
`LookupProgresses` bounds the number of steps by `4 * Cardinality(Nodes) + 1`: `Left`
counts 4 for a node that was not asked, 2 for a query without an answer, 1 for a
pending one and 1 for the end, so that an `Ask`, which turns the first of these
into the next two, uses up some, as do a reply, its receipt, a timeout and the end.

For the chain, `LinkedToEarlier` alone
says nothing of the block that is appended next: `LinkedInv` adds that every
block being sent, held, collected or copied was valid on some block of the chain,
which stays true because the chain only grows.  `ForgedOnce` needs to know that a
drawn block is still among the collected ones, that these were not forged
before, and that a new block, by its number, is none of those that exist.

`OrphansAreLate` compares two cardinalities, and each step has to say which
elements come and go.  A handler makes an orphan of exactly the waiting timers it
aborts, and records them in `late`, where they are new because an armed timer
never is late.  When the loop takes the event of an orphan for that of the armed
timer, the armed timer becomes an orphan in its place (`OrphanTaken`).  The refinement of `Deadlines` counts the orphans of each event (they
are its stray events), which is why it is proved under the same invariant.  `Served`
is about one network, but a Start that finds the port taken is saved by another
run's network, so that `AllBound` follows them all.

`AllClosestAsked` is inductive with `PendingCounted`: a lookup finishes only when
no query is pending and its search for a node to ask found none.  `ResultNearest`
needs `Found`, which says of the nodes seen and the result what the property says
of the finished search, and which `push` keeps: the position it inserts at is the
first with a farther node, and what falls off the end is as far as anything kept.

`AllAnswered` speaks of the moment when no packet is under way, so that its
invariant is about the packets.  `InTime` says that a ping whose `pongTimeout` runs
has a packet under way that will close it (`Exchanging`).  A handler may close it only
if the packet it answers by is one that the other side accepts, hence `Delivered`
(packets go to where the other is) and, for a node that is unknown, that nothing of
ours but its own pings can be under way.  A ping that is open without its timer is
promised nothing.  `WaitSuffices` rests on the part of `InTime` that follows a
verification through its stages: an answer to a program in verifyinit comes from
one that knows it, or waits for its pong only (`Reachable`).  Before the faults
stop none of this holds, and `Waiting` is what does: `Stabilize` turns it into
`Timely`.

`TrackerInv` relates the statements that are kept to all that were ever made:
without `lastStatementGC` in it, an insertion could leave an old statement that
an earlier collection had no reason to drop.  `NetInv` holds a count against a sum
over a set of addresses, as long as only accepted ones are removed, and against
the offers in any case.  For `Metric` the theorem is in the lemmas: a prefix is
less than the power of its width (`PrefixRange`), so that nothing behind the first
difference outweighs it (`SmallerPrefix`), each further byte adds its width to the
length of a number (`LongerPrefix`), and the table of leading zeros gives the length
of the byte in front (`ZerosOfByte`).

Loops and recursion.  No module with a theorem declares a RECURSIVE operator, and
the library's induction theorems take operators as parameters, which the provers
cannot instantiate.  Induction here is first-order: `LeastElement` follows from the
well-foundedness of strict inclusion among finite sets, and `UpTo` from it, for a
set instead of a predicate.  A fold of the community modules is the value of a
function chosen by its recursion over subsets; `FoldExists` shows that there is
such a function, and each module that folds derives its own recursion from it:
`Predicted`, the loop over a reply in `Lookup`, `PrefixOf` (`PrefixChain`),
`FlattenSeq` (`FlattenJoins`) and the sums of `NetSet` (`PartialSums`).  Powers of
two are counted by the subsets of an interval (`PowerStep`).

Only model-checked: the liveness properties (`VerificationEnds`,
`DeferredSettled`, `TableRefilled`, `HandshakeCompletes`, `Terminates`,
`RoundEnds`), which are outside the prover's reach, and the findings.  Every
invariant, action property and refinement of a run is also a theorem.  The
theorems without a property in the table state definitions that no run lists: the
types of the small components, `AllClosestAsked`, whose point `SearchSpec` makes
without the result list, and `EveryStepCounts`.  The last is what `Terminates`
rests on; what is left of it is that some
step of the lookup is enabled until it is finished, which speaks of ENABLED and
stays with TLC.

## 5. Not modelled

`tableOpReq` and `closeReq` have no users.  `stuff`, the revalidation queues and
`sendBuf` are dead code, as are the server's TCP side (`setupListening`,
`listenLoop`, `SetupConn`, `checkpoint`: the only call is commented out) and
`dial.go`.  The bytes of a packet, node URLs and address parsing are pure
conversions without state.  `ToBig` and `IsTemporaryError` classify errors of the
operating system.  The demo programs other than the chain are socket examples.

The refresh target (`ChooseBucketRefreshTarget`) is modelled with its overflowing
bound, and no property speaks of it: all hashes of nodes in the table are zero, so
that the entry it starts from is always at the same distance.  A relayed address that
replaces another is checked by nobody (net.go:818-828), so that `NoDetour` says
nothing of it; nor does anything stop an address heard from others from replacing
that of a node which is being verified or contested.

What a model of this code could still say and this one does not: that a
neighbours answer belongs to the query it is taken for (the code does not match
them, and promises nothing), that an answer without nodes counts as a failure of
the node that sent it (`sendNeighbours` sends no packet then), and how long a
query waits that is deferred behind one that timed out (net.go:557; without its
first conjunct, which leaves those out, `DeferredSettled` is violated).  `PROJECT.json`
lists these hazards with their lines.

## 6. What could follow

1. The composition of `Lookup` with the query side of `Network` in one run, where
   each is now the other's stated assumption.
2. Two parties with neighbours answers in several packets (`Exchange` has pings and
   pongs only).
