# A verification of the hole-punching overlay `nat`

The repository builds one program, `server`: a peer that keeps a routing table
of other peers, learns from a public *main node* how its own NAT maps it, opens
holes between itself and its peers, and keeps them open. This directory holds
TLA+ modules of that program, TLC configurations that model-check them on small
overlays, and proofs checked by TLAPS.

## 1. Inventory

| Component | Source | State | Operations | Status |
|---|---|---|---|---|
| Routing table | `managerhost.cpp/.hpp` | `_HostList`, a map from node ID to JSON text | `addNewNode` (insert: an entry that exists is kept), `getPublicNode` (first public entry in key order); the handlers also assign and erase entries directly | `ManagerHost` |
| Node | `server.cpp/.hpp` | `_NodeID`, `_localEpInfo`, `tickerNum`, `fCkTimeMap`, `_count`, `_HostList` | `handleReceive` with ten message types, `threadhandle` (a round every 5 s), `updateRouteInfo`, `listMsgQueue` | `UdpServer`, `NodeThreads` |
| Start and end | `main.cpp` | none | `servermode` (start, first `detect`), `bind` (one `detect` without `nodeID`) | `UdpServer` |
| Sender | `client.cpp/.hpp` | the socket | `sendTo` | `UdpServer` (`Transmit`) |
| NATs, UDP | external | mappings, admitted endpoints, datagrams in flight | deliver, refuse, lose, duplicate, reorder | `UdpServer` |
| `dispatch_queue` | `dispatchqueue.cpp/.hpp` | mutex, condition variable, task queue, `quit_` | `dispatch`, worker loop, destructor | `DispatchQueue` |
| `materialtest` | `materialtest.cpp` | ring of three receive slots | receive, re-arm, echo | `ReceiveRing` |
| AES, JSON, CLI11 | `encrypto.hpp`, `json.hpp`, `CLI11.hpp` | - | - | vendored, not modelled |

How they interact. A process has two threads that share everything without a
lock: the one in `io_service::run`, which calls `handleReceive` for one datagram
at a time, and the one in `threadhandle`. Processes share nothing but datagrams:

* `detect` (a node, at its start or alone for ten rounds, to its remote server):
  the server lists the sender where it sees it, asks a public neighbour to probe
  the sender's NAT (`filteringcheck`), and sends everybody its list (`update`).
* `update`: the reader learns from its own entry how it is seen, then walks the
  list: `openconnect` to public peers; for the others `proxyconnect` to a public
  helper and, unless it is public itself, `openconnect` to the peer.
* `proxyconnect` -> `helpconnect` -> three `openconnect`: the peer opens its own
  NAT towards the asking node. An `openconnect` lists its sender where it is seen.
* `filteringcheck` -> `callclient` -> three `callclientRes`: the probed node is
  unfiltered if it got the neighbour's call. A probe is dropped after 20 s, and
  its node then declared filtered.
* `ticker` -> `tickerRes`: each round counts a ticker against every peer; either
  message from an endpoint erases its counter; at 60 all entries reached at that
  endpoint are erased and everybody is told.

What is hard here: datagrams that overtake each other between the six hops from
a `detect` to two open NATs; verdicts that depend on which of two datagrams came
first; a restarted process (new ID, old endpoint) among peers that still list,
count and call the former one; messages that overwrite what another one told;
counters that run out while an answer is under way; two threads on the same
maps. `dispatch_queue` is compiled into the server but not used by it (a member
is commented out), and `materialtest` is a program of its own: both share
nothing with the rest, and are hard for their threads alone. `PROJECT.json` lists each
hazard at its line with the properties aimed at it.

What makes each component correct:

* *Routing table*: an entry is added only for a node heard from; it leads to the
  node it names; an entry goes when its node is dead and not before.
* *Connecting*: nodes started in any order end up connected to each other both
  ways; nobody fails on a message a peer may send.
* *Probing*: a verdict is reached, stays, and is true.
* *Keeping alive*: counters are of listed peers; live peers that answer stay; a
  round leaves out nobody, and takes a ticker's answer into account, whatever the
  other thread does meanwhile.
* *dispatch_queue*: no task waits while a worker sleeps; order, at most once;
  the destructor returns.
* *materialtest*: the server receives once at a time and always again, answers
  everything, and what it echoes is what it got.

## 2. Modules

* `ManagerHost`: the routing table as functions from IDs to `Info` records. An
  ID is a natural number, since the code uses only the equality and the order of
  UUIDs; the JSON text is the record it encodes, of whose `endpoint` array only
  element 0 is ever read.
* `UdpServer`: every process and the network. One action for each message type
  (`RcvDetect...` to `RcvTickerRes`); one per kind of list entry for the loop of
  the `update` handler (`UpdateSelf`, `UpdateSender`, `UpdatePublic`,
  `UpdateProxy`), whose position is `rcv`; `TimerRound` for a round of
  `threadhandle`, in the order of the code: expire probes, drop dead peers, send
  tickers, announce, count rounds alone; `Boot` and `Bind` for `main.cpp`;
  `Crash`, `Lose`, `Duplicate`, `Undeliverable` for the environment. Exceptions
  (which the handler turns into `abort()`), the assertion of `json.hpp` and the
  `return` that lets `run()` end are actions to the status `aborted`
  (`RcvDetectNoID`, `RcvDetectNoProber`, `RcvUpdateFatal`, `RcvOpenconnectNull`).
  The state of the code keeps its names; `net` holds the datagrams of each
  channel (a pair of endpoints as seen by the receiver), `perm` what a filtering
  NAT admits, `heard` is a history variable, `budget` what the bounds leave.
  A NAT is given by constants: `MapEp` is the source endpoint it shows to each
  destination (cone or symmetric), `Filters` says who has a filtering one,
  `Hairpin` who has one that loops back.
* `MCUdpServer`: small overlays. `s` is a main node, `p` a second public node,
  `a` and `b` are behind NATs of their own.
* `Membership`: what `UdpServer` promises at least, as an abstract specification:
  processes draw IDs that were never drawn before, hear of IDs that were, list
  only themselves and who they heard from, forget, and end with all they knew.
  `UdpServer` implements it with `nodeID` for `member`, the domain of `hostList`
  for `peers`, `used` for `born` (`ImplementsMembership`).
* `NodeThreads`: one process, its two threads, and the three maps they share
  without a lock, at the grain of one map operation. The timer's round is its
  three loops (`WakeUp` to `TickersDone`), with the iterators of the code: `fit`
  (probes), `hit` (hosts), `nit` and `cit` (counters). The handlers are what they
  do to the maps (`FindSender`, `Assign`, `AddNewNode`, `HearFrom`, `Reset`,
  `FindAnswering`, ... with `rhost`, `rcount`), in any order in which messages may
  come. Finding an entry, reading it and writing or erasing it are steps of their
  own, and so are sending a ticker (`SendTicker`, 838), looking for its counter
  (`FindTicker`, 843) and raising or inserting it (`Count`, 844-848). An iterator whose element the other thread erases becomes
  `dangling`; to use it sends the process to the fate `undefined`, as
  `map::at` does to `aborted` when the entry went between two lookups (557). A
  single map operation is atomic: without that nothing at all could be said of
  this code, so the module shows what remains after the cheapest repair, a lock
  in the map. The messages sent and the verdicts are `UdpServer`'s; the walks of
  `updateRouteInfo` and `listMsgQueue` at the end of a round only read, as `Walk`
  does. `silence`, `due` and `doomed` are history variables.
* `TaskPool` and `DispatchQueue`: the pool of tasks that `dispatch_queue` is to
  its users, and the class with its mutex, condition variable, workers, callers
  and destructor, one action for each stretch between two points where a thread
  takes or leaves the mutex, waits or notifies. `notify_one` wakes one of those
  that wait at that moment or is lost; a waiter may wake unasked. Tasks may
  dispatch tasks. `DispatchQueue` implements `TaskPool` with `q_` for `pending`,
  `op` for `running` and a `state` read off `quit_` and the owner's place.
* `ReceiveRing`: the echo server of `materialtest.cpp`. `boost::asio` is external:
  a receive that is ready is filled by a thread that polls, or by the thread that
  arms it, and its handler is called by any thread; a send is performed later and
  reads its buffer then (its destination was copied before).
* `UdpServerProofs`, `MembershipProofs`, `HolesProofs`, `ConnectedProofs` and
  `DeliveredProofs` (each extends the one before), `NodeThreadsProofs`,
  `DispatchQueueProofs`, `ReceiveRingProofs`: lemmas and theorems.

Operators marked `mutant` state plausible mistakes in the code; each property of
a passing run is shown to fail under one of them.

## 3. Runs

| Run | Overlay and faults | Checked |
|---|---|---|
| `punch` | `s`, `a`, `b`, filtering cone NATs; any start order, any ID order; one process killed, not replaced | `NobodyAborts`, `NoFalseEviction`, `HolePunched`, `DeadForgotten` |
| `probe` | `s`, `p`, `a`, NAT without filtering | `VerdictReached` |
| `rejoin` | `s`, `a` and no third node; two processes killed and started again, four IDs | `HolePunched` |
| `lossy` | `s`, `a`, `b`; any reordering, one loss, one kill, `s` before `a` before `b` in ID order | `TypeOK`, `OnlyHeardPeers`, `HolesOpen`, `ListedIsConnected`, `ImplementsMembership` |
| `timers` | `s`, `a`, one unanswered ticker too many; two rounds between any two datagrams, reordering, a duplicate, a bind client, no main node and both readings of the flag of `s` | `CountersOfPeers`, `EvictedWhenOverdue` |
| `tasks` | up to two workers, two clients, three tasks, one spurious wakeup | `TypeOK`, `WorkConserving`, `NobodySleepsOn`, `ImplementsPool` |
| `ring` | three threads, three slots, five receives of which one may fail | `TypeOK`, `OneReceive`, `IntactUntilLapped`, `Answered` |
| `rounds` | three IDs (the node's own in the middle), two endpoints, one probe at a time, any number of rounds and messages | `TypeOK`, `TimerHostsValid`, `EveryPeerTicked`, `DeadPeersGone`, `CountedWithinOne` |
| `verdict` | as `probe` | `VerdictStands` is violated |
| `early_help` | `s`, `a`, `b`; reordering | `OpenconnectTellsNatType` is violated |
| `misfiled` | `s`, `p`, `a`, `b`; `b` was given `p` for its server | `ListedIsConnected` is violated |
| `unlisted` | `s`, `a`, `b`; one restart | `UpdateListsReader` is violated |

`HolePunched` says that in the end any two nodes that are not killed for good are
connected, unless a server is. In `punch` the orders of IDs are all those that
differ by more than the names of `a` and `b`. The passing runs have 20 000 to
300 000 distinct states, `rounds` 1.8 million.

What they show. With datagrams that arrive, in order, before the next round of a
timer, hole punching works for every order of starts and of IDs, live peers stay
and dead ones go, as long as nobody is started again. Restarts are another
matter: two nodes find each other again (`rejoin`), since each is left alone,
detects anew and hears of the other; with three, one of them may abort
(`unlisted`) or stay unconnected (below). Under loss, reordering and restarts
the tables stay well formed and list only nodes heard from, that can be talked to
both ways, and (cone NATs, one server) at the endpoints that lead to them; and
the overlay is a membership in which no ID names two processes.

`NoFalseEviction` holds in `punch` because every answer is handled before the next
round. The code does not ensure that: the handlers of `helpconnect` (424-427) and
`callclient` (521-524) sleep 3 s each on the thread that would read the answers,
every update may bring one `helpconnect` for each pair of nodes, and a duplicate
brings another; twenty or more in a queue outlast rounds, and a hundred all 60.
`EvictedWhenOverdue` is what remains without that assumption: whenever rounds
fall, a live peer is dropped only while `PACKAGENUM` tickers to it, counted with
the answers to them, are under way, so that no answer handled is ever held
against it. `timers` checks it with rounds anywhere, and section 4 proves both.

`rounds` says which parts of a round do not need a lock held through it. No
handler erases an entry of `_HostList`, so the timer's walks of it stay valid,
tick everybody who was listed when the walk began, and erase every entry of a
dead endpoint that was not renewed since. A ticker is counted after it was sent,
and its answer may be handled before the counter is looked for: the counter is
then erased, not found and inserted anew at 1. So a counter may be ahead of the
unanswered tickers, by one and no more. What does need a lock: a handler's own
iterator to an entry the round evicts; the round's iterators to counters that a
handler erases (between 843 and 844 too); and the entry the round parses, changes
and writes back (746-754), which puts an endpoint written in between back to the
old one. The round's iterator to a probe is safe, if only because a probe is
never found under the msgid that its answer carries (184, 202).

`tasks`: `cv_` is notified outside the mutex, and yet for every queued task a
worker is awake or about to be woken; the destructor's joins return; the class
implements the pool, with its liveness. What is queued when `quit_` is set is
dropped, in the pool as in the code. `ring`: one receive is outstanding at any
time, whatever the error codes; everything received is answered; an echo is what
came as long as the ring has not come back to its slot, that is for the next two
receives. After that it may be torn or another's: the comment at
`materialtest.cpp:40` speaks of ten buffers where the code has three.

The findings, each with its comment of the source, are in `PROJECT.json`:

* `verdict`: the probe is filed under another UUID than the one its answer
  carries, so each probe expires and each reachable node is declared filtered.
* `early_help`: a node asked to help before its first update sends null as its
  information; the receiver throws and aborts.
* `misfiled`: the loop of an update recognises the sender by an address that the
  choice of a helper has overwritten, and lists the sender where the helper is,
  until the sender's next ticker.
* `unlisted`: a restarted node reads an update addressed to its former process
  and dereferences `end()`.

Three observations that earlier runs of this model produced, and that a reader
can follow in it:

* The route update sent with a probe (`server.cpp:205`) makes the probed node
  open its NAT to the prober. If the update comes before the `callclient`, a
  node behind a filtering NAT is declared `Nonfilter`.
* `openconnect` lists a peer behind a symmetric NAT where it is seen (the comment
  at 457 says why); the peer's next ticker writes back what the peer believes
  (583), and the list leads nowhere. `ListedIsConnected` is checked for cone NATs.
* `tickerNum` is keyed by endpoint: the counter that a dead process leaves may
  drop the process started in its place (783), and that process need not connect
  to everybody again. Take `s`, `a` and `b`, and `a` killed and started again: the
  server's counter for the old process drops both entries at `a`'s endpoint; `b`
  starts, and its update lists only `s` and `b`; the next ticker of `a` puts it
  back into the server's list, which is announced to nobody. `a` and `b` both list
  `s`, so neither detects again, and they never connect. `HolePunched` is
  therefore violated with three nodes and one restart. `NoFalseEviction` is
  checked where a killed process is not replaced.

Two more that need no search: a `bind` client sends a `detect` without `nodeID`
(`main.cpp:34`), which makes the server throw at `server.cpp:115` and abort; and
`mainNode` (`main.cpp:47`) is read uninitialised unless `-m` is given, so that a
node may take itself for public until its first update. `timers` has the `bind`
client, and both readings of the flag where the node is public (with `false` it
dies of its first mapped client, `RcvDetectNoProber`). At a node behind
a NAT the wrong reading makes its peers list it at its private address, in a
ticker that its first update overtakes; when that entry is then corrected, the
counter of the old address stays, and `CountersOfPeers` fails after a fourth
round. So it is checked, and proved, for flags that read false behind NATs.

### Bounds, and why they are enough

* Nodes: three make a pair behind NATs and the server they meet through, or a
  prober, a server and a probed node; two suffice for questions about one peer.
* `PACKAGENUM` is 2 (1 in `timers`) for 60, `ProbeRounds` 2 (1) for 5,
  `DetectRounds` 1 for 10. The code only compares these counts; with 2 there is
  a round in which a peer has an unanswered ticker and stays, and one that drops it.
* `Repeats` is 1 for 3: the copies are equal, and their handlers repeatable.
* `MaxHosts` is 3: with IDs for four processes an update may be too long for the
  receive buffer (`RcvTruncated`). `misfiled` has four nodes and room for four.
* Loss, duplicates, kills: one or two each. Rounds: two in `timers`, where one
  unanswered ticker is enough to be dropped, so that the second may drop whom the
  first ticked, at either node, before or after the answer. `Restarts` says whether a killed process may be started again. In
  a safety run with reordering a lost datagram is one that is never delivered.
* `Synchronous` runs let a round or a restart wait until all datagrams are
  handled: datagrams take milliseconds, rounds 5 s, and the queues behind a
  sleeping handler are short in small overlays. They need no bound on rounds, so
  liveness can be asked of them. In `timers` and `lossy` rounds and restarts fall
  anywhere, and their number is bounded.
* `tasks`: `MaxSpurious` bounds wakeups that nobody asked for, since each costs
  nothing; with two workers one can be asleep while the other runs, and with
  three tasks one is queued beyond that. Two clients race for the mutex.
* `ring`: `MaxReceives` is two more than the slots, so the ring is lapped while
  the first handler is still at work; `MaxFailures` is 1. Three threads for four:
  one to receive, one to echo, one that is slow.
* `rounds`: an ID before the node's own and one after it, so that the walks pass
  it; two endpoints, so that peers may share one; `MaxSilence` caps a history
  counter that goes on only while nothing is heard (`PACKAGENUM` is 2).
* `CHECK_DEADLOCK FALSE`: an overlay whose processes have all ended, a queue that
  was destroyed, a process that ended, a ring that has used up its receives:
  there is no step left.

### Fairness

`FairSpec` assumes what the two threads and the network provide: weak fairness
of an arrival (a datagram arrives or is refused) and of each update loop, which
nothing but itself can disable while its process runs; strong fairness of each
timer and of starting a node, since `Synchronous` makes both wait for the others'
datagrams again and again, and a real timer fires after 5 s whatever they do.
Starting is fair because an operator who starts an overlay starts all of it;
crashes, losses and duplicates are never fair.

`DispatchQueue` assumes weak fairness of each thread: who can go on does. The
mutex is not fair. Nobody must dispatch or destroy; tasks end (`Return`), which
is what the pool's `WF_vars(Finish(w))` says of them. `ReceiveRing` assumes weak
fairness of each thread's own steps; datagrams need not come, nor receives fail.

## 4. Proofs

Every theorem holds for all values of the constants that satisfy the assumptions
of the module it is about.

`UdpServerProofs` proves, for any sets of nodes, IDs and endpoints, any NATs and
any bounds allowed by the assumptions of `ManagerHost` and `UdpServer`:

* `TypeInvariant`: `Spec => []TypeOK`. `TypeOK` is inductive as it stands. Beside
  the types of tables, queues and messages it says that an ID belongs to a
  running process, that only a running process that knows its own entry is in an
  update loop, and that such a loop has entries left, all from its update. So no
  step of any handler meets an empty loop, an unlisted item or a message with a
  field missing, other than in the places where the code aborts. The argument has
  one lemma for each operator on host lists, for each way to build a queue of
  messages (`AndThen`, `To`, `ToAll`, `Route`, `Without`), and for each action.
* `OnlyHeard`: `Spec => []OnlyHeardPeers`. A process lists only IDs it has
  handled a datagram of. This is not inductive: the loop of an update lists the
  sender of that update many steps after its arrival, and a new process must
  find an empty list. `HeardInv` adds both (`HeardFrom`, and `TypeOK`).

`MembershipProofs`:

* `OverlayIsMembership`: `Spec => ImplementsMembership`. Each step of `UdpServer`
  is a step of `Membership` or leaves its variables alone. The invariant is
  `MemberInv`: `HeardInv`, and `Drawn`, that every ID a process has, has heard or
  that any datagram in flight or loop at work names as its sender is in `used`.
  Without it a datagram might make a process hear of an ID never drawn.

`HolesProofs`:

* `ListedIsWithinReach`: `Spec => []HolesOpen`, provided that nodes without
  filtering are seen at one endpoint, no private ip is another NAT's public one,
  and the nodes behind one NAT share its hairpinning (`Answerable`; so it is in
  every configuration here). NATs that filter may map as they like. It says less
  than `ListedIsConnected`, which is about the endpoint that is listed and holds
  for fewer overlays, as `misfiled` and symmetric NATs show. The invariant
  `HolesInv` follows each datagram back: the process whose ID it carries, if it
  still runs, is seen at the datagram's source and has opened its NAT to its
  destination; what a process has heard came that way; no two have the same ID.

`ConnectedProofs`, for overlays with one server and cone NATs (`OneServer`: every
node was given the server for its own, all others are behind NATs of their own
that show each of them at one endpoint, and none reads its flag as true; `lossy`
and `punch` are such overlays, `misfiled` is not), under any loss, reordering,
duplicates, kills and restarts:

* `ListedWhereItIs`: `[]ListedIsConnected`, provided that no node but the server
  finds an endpoint dead (`NobodyDead`). The proviso is there because a node that
  drops a peer sends an update of its own, and a reader whose search for a helper
  replaced the sender's address by the server's (352) may file the server's entry
  under that node's ID, as in `misfiled`, if it does not list it yet. The
  invariant `ServerInv` follows each entry, in a table, a loop or a datagram, to
  the process it leads to: only the server sends updates, what it lists is where
  it saw a node, and a node's own endpoint in a message is where it is seen.
  `HolesInv` gives the rest. It also says that the server, having nobody public
  to ask, tries no NAT, so that the filtering messages are never read.
* `PunchedWhereItIs`: the same without the proviso, until a timer wakes up.
* `CountedWhileListed`: `[]CountersOfPeers`, if also no two nodes may draw the
  same ID. An entry stays where it is (`Grows`) until it is evicted together with
  its counter, so that no counter is left behind.

`DeliveredProofs`, for such overlays with nothing lost or reordered, a server with
`-m`, room in a buffer for every update, and no restart (`Delivered`; the
constants of `punch` satisfy it); datagrams may be repeated and processes killed:

* `ReadsToTheEnd`: `[]NobodyAborts`, with the proviso `NobodyDead`;
  `PunchedToTheEnd`: without it, until a timer wakes up. Nothing in a handler
  keeps a message from being fatal; what does is the order of the server's
  datagrams to a node. The invariant `TalkInv` says that the first of them is an
  update, for as long as the node does not know of itself; that whoever is named
  to others has been sent one; and that an update lists its reader. So a node
  knows its own entry before it is asked for help, and the message that
  `early_help` shows, without the sender's information, is never sent.
* `CountsUnanswered`: `[]CountedUnanswered`, with the proviso `NobodyDead`. A
  counter for a living process never exceeds the tickers to it and its answers
  that are under way (`Unanswered`), whenever the rounds fall, at any node and
  after kills of others. `CountInv` adds to it that both NATs are open (`OpenWays`),
  so that none of these goes astray. Each kind of step keeps the balance: a round
  sends at least one ticker where it counts one, for it counts only at an endpoint
  where exactly one listed process is, which `ServerInv` gives; who reads a ticker
  sends the answer, who reads the answer erases the counter; a duplicate adds to
  what is under way, and nothing that could be read is taken away.
* `NoneIsEvictedEarly`: `EvictedWhenOverdue`, with the same proviso.
* `TickingGoesWell`: `NobodyDead`, hence `NobodyAborts`, `ListedIsConnected` and
  `CountersOfPeers`, for any number of rounds, while nobody is killed and
  `Timely` holds: fewer than `PACKAGENUM` tickers and answers are under way
  between any node other than the server and each other node.
* `NobodyLosesAPeer`: `NoFalseEviction`, while nobody is killed and that is so at
  the server too (`Prompt`). With 60 for `PACKAGENUM`, a round each 5 s and no
  copies, it means that every ticker is answered within five minutes. This is a
  condition on queues and network, not a fact about the code, and it is weaker by
  far than `Synchronous`: rounds overlap with answers, and counters go up and down.

`DispatchQueueProofs`, for any finite sets of workers and clients and any tasks:

* `PoolTypes`: `Spec => []TypeOK`, which includes mutual exclusion: exactly the
  thread between taking and leaving the mutex holds it.
* `NoneLeftAsleep`: `Spec => []NobodySleepsOn`, from `Shutdown` (once `quit_` is
  set and all are notified, nobody waits, and none can come to wait, since the
  predicate is looked at under the mutex).
* `NoLostWakeup`: `Spec => []WorkConserving`. It counts: each `Push` makes its
  caller a notifier, each notification makes a sleeper awake, each worker that
  falls asleep found the queue empty under the mutex.
* `QueueIsPool`: `Spec => Pool!Spec`, the refinement of `TaskPool`, from `Fresh`:
  no task is in two places, so each is started at most once.

`NodeThreadsProofs`, for any IDs, endpoints and probes that are numbers (which
stand for the order of the keys):

* `ThreadsTypes`, `HostIteratorStaysValid`, `RoundLeavesNobodyOut`,
  `DeadPeersAreErased`: `TypeOK`, `TimerHostsValid`, `EveryPeerTicked` and
  `DeadPeersGone` are invariants. All follow from `ThreadsInv`: an iterator that
  is not dangling is at its map's end or at an element; what the third loop has
  still to tick, and what the second has still to erase, lies at or beyond the
  entry it stands on. There is a lemma for what each kind of map operation does
  to the iterators, and for what leaves the loops where they are.
* `NoneIsCountedTwice`: `Spec => []CountedWithinOne`. A counter may be ahead of
  the tickers its endpoint has not answered, since a handler may erase it between
  the ticker and the search for its counter, which then starts again at 1. Not by
  more than one, for `CountInv` adds what the loops remember: a ticker sent and
  not counted yet was sent since the last answer or is the one ahead, and a
  counter that was ahead stays so only while nothing is heard. When the counter
  goes after it was found, the process is in the fate `undefined` once it is used. The history stops at `MaxSilence`, and the property excuses
  an endpoint there; with three IDs no counter exceeds 3, so in the run the
  excuse hides nothing.

`ReceiveRingProofs`, for any length of the ring and any threads:

* `RingTypes`, `ReceivesOnce` (`Spec => []OneReceive`) and `IntactBeforeLap`
  (`Spec => IntactUntilLapped`). The invariant `RingInv` says where the one
  receive is (armed, filled, ready or in its handler), and that a receive not yet
  echoed lies as many slots behind the latest as receives have come since, round
  the ring; so the next slot is none of those of the last `Slots - 1` receives.

The assumptions: in `ManagerHost` and `UdpServer`, IDs are finitely many and each
set of them has a first and a last one; the constants have their types; no two
nodes share an endpoint (used by the model; the proofs that need it state what
they need as a hypothesis). In the other
modules, that names of threads and values do not collide, that bounds are
numbers, and (`NodeThreads`) that a set of keys has a first one.

Only model-checked: liveness (`HolePunched`, `DeadForgotten`, `VerdictReached`,
`Answered`, and of `ImplementsPool` what goes beyond safety), which needs
fairness and ENABLED; and what becomes of `NobodyAborts`, `NoFalseEviction` and
`EvictedWhenOverdue` once nodes other than the server evict somebody, and so send
updates of their own: that is checked by `punch`, for three nodes (and, for two
and without kills, by `timers`).

## 5. What is left out

* Data races within one map operation or one JSON value: C++ gives them no
  meaning, and `NodeThreads` takes map operations as atomic. In `UdpServer` a
  handler (in an update loop, one entry) and a timer round are one step each.
  `helpconnect` and `callclient` sleep 3 s while they send equal copies, which
  are sent at once here: they read nothing in between.
* A receive that ends with another error than `message_size` (`server.cpp:83`): the
  handler returns without receiving again, so `run()` and the process end. No
  action of its own models it; for the other processes it is a `Crash`.
* NAT mappings and pinholes that expire.
* Two nodes behind one NAT, and two public nodes on one ip: the update loop then
  files entries under the sender's ID (`server.cpp:308`). The actions model it,
  the proofs include it, no run has such an overlay.
* A dead process whose endpoint a live one shares is never forgotten, and a list
  with two or more entries is never refreshed by a new `detect`: nothing is
  promised there, so nothing is checked (the third observation above is such a case).
* A NAT that loops back (`Hairpin`): the actions have it and the proofs include
  it, no run does.
* Malformed messages: only those the program itself sends are in the model.
* The time of day: the round's `std::stoi` of the time a probe was filed throws
  from 2038 on (`server.cpp:738`).
* `json.hpp`, `CLI11.hpp` and `encrypto.hpp`: vendored libraries, 95 of every 100
  lines of the repository. What the program relies on of the first two is in the
  actions that use them; the third has no caller. So most lines of `src/` are
  mapped to no definition, and of the program's own nearly all are.
* `pulicNodes`, `tickerNodes`, `tickerNodeRes` (never read); `deleteNode`,
  `changeNode`, `getList`, `getLocalIP`, `sendRequest`, `LocalIp`, `encrypto`
  (no effect or no caller); `msgThread` (only sleeps).

## 6. Plan

1. A run with two nodes behind one NAT, for the entries filed under the sender.
2. `NodeThreads` and `UdpServer` composed: the lost endpoint of 746-754 among
   nodes that act on it.
3. Proofs: `NobodyAborts` and `NoFalseEviction` after a kill. Who drops a peer
   sends a ticker before its update, so that its reader lists it before it reads
   the update: with that in `ServerInv`, for updates of any node, the proviso
   `NobodyDead` may go where datagrams arrive in order.
4. Three nodes and a restart: which change to the code (an update when a ticker
   adds an entry) would make `HolePunched` hold, and in which runs.
