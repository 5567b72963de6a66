------------------------------ MODULE UdpServer ------------------------------
(***************************************************************************)
(* The overlay: every node runs udpServer, which learns its own mapped     *)
(* endpoint and its peers from a main node, opens holes in the NATs        *)
(* between itself and its peers and keeps them open with tickers.          *)
(*                                                                         *)
(* One action per message type of handleReceive, one per kind of item of   *)
(* the loop in its "update" branch, one for a round of the timer thread.   *)
(* NATs and UDP are external and modelled from how the code uses them.     *)
(***************************************************************************)
EXTENDS ManagerHost, Sequences, SequencesExt

CONSTANTS
  Node,         \* the hosts on which a udpServer runs
  LocalEp,      \* [Node -> Endpoint], options -i and -p of a node
  MapEp,        \* [Node -> [Endpoint -> Endpoint]], the source endpoint that
                \* the owner of an endpoint sees in datagrams of a node
  Filters,      \* nodes whose NAT admits only endpoints they have sent to
  Hairpin,      \* nodes whose NAT loops a datagram back to its own side
  MainNodes,    \* nodes started with --mainnode
  RemoteServer, \* [Node -> Endpoint], options -s and -P of a node
  IDsOf,        \* [Node -> SUBSET ID], the IDs a node may draw
  Garbage,      \* [Node -> SUBSET BOOLEAN], what the uninitialised flag
                \* mainNode of a node may read as without -m
  BindChannels, \* source and target endpoints of the runs of "bind" mode
  Repeats,      \* copies the helpconnect and callclient handlers send (3)
  MaxHosts,     \* entries of an update that fit in the receive buffer
  PACKAGENUM,   \* unanswered tickers after which a peer is dropped (60)
  ProbeRounds,  \* the timer round in which a probe expires: 20 s, 5 s each (5)
  DetectRounds, \* rounds alone after which a node detects again (10)
  InOrder,      \* TRUE: a channel delivers in the order sent
  Synchronous,  \* TRUE: datagrams take no time compared with a restart or
                \* with the 5 s of a timer round, which then need no bound
  Restarts,     \* FALSE: a process that was killed is not started again
  MaxLoss, MaxDup, MaxCrash, MaxRounds  \* bounds on what may happen

ASSUME ConfigAssumption ==
  /\ LocalEp \in [Node -> Endpoint]
  /\ MapEp \in [Node -> [Endpoint -> Endpoint]]
  /\ RemoteServer \in [Node -> Endpoint]
  /\ IDsOf \in [Node -> SUBSET ID] /\ Garbage \in [Node -> SUBSET BOOLEAN]
  /\ Filters \subseteq Node /\ Hairpin \subseteq Node /\ MainNodes \subseteq Node
  /\ BindChannels \subseteq [src : Endpoint, dst : Endpoint]
  /\ Null \notin ID /\ Null \notin Info

ASSUME NumberAssumption ==
  /\ {Repeats, MaxHosts, PACKAGENUM, ProbeRounds, DetectRounds} \subseteq Nat \ {0}
  /\ {MaxLoss, MaxDup, MaxCrash, MaxRounds} \subseteq Nat
  /\ {InOrder, Synchronous, Restarts} \subseteq BOOLEAN

(***************************************************************************)
(* No two nodes share an endpoint: each knows which node it leads to.      *)
(***************************************************************************)
Owns(n, e) == \E d \in Endpoint : MapEp[n][d] = e

ASSUME OwnerAssumption ==
  \A n, m \in Node : \A e \in Endpoint : Owns(n, e) /\ Owns(m, e) => n = m

VARIABLES
  status,       \* [Node -> Status]
  nodeID,       \* _NodeID
  hostList,     \* manHost->_HostList
  localEpInfo,  \* _localEpInfo
  tickerNum,    \* tickerNum, by the endpoint its key is printed from
  fCkTimeMap,   \* fCkTimeMap, a set of probes
  count,        \* _count
  rcv,          \* what the update loop of the receive thread still has to do
  heard,        \* the IDs this process handled a datagram of (history)
  net,          \* datagrams in flight: a sequence for each busy channel
  perm,         \* the endpoints a filtering NAT admits for its node
  used,         \* IDs drawn so far
  budget        \* what the bounds leave

process == <<status, nodeID, hostList, localEpInfo, tickerNum, fCkTimeMap,
             count, rcv, heard>>
vars == <<process, net, perm, used, budget>>

-----------------------------------------------------------------------------
(***************************************************************************)
(* Messages and datagrams.                                                 *)
(***************************************************************************)
Channel == [src : Endpoint, dst : Endpoint]

InfoOrNull == Info \cup {Null}

DetectMsg(id, local)          == [type |-> "detect", id |-> id, local |-> local]
UpdateMsg(id, hosts)          == [type |-> "update", id |-> id, hosts |-> hosts]
InfoMsg(type, id, info)       == [type |-> type, id |-> id, info |-> info]
CheckMsg(type, id, ep, msgid) == [type |-> type, id |-> id, ep |-> ep, msgid |-> msgid]
ResMsg(id, msgid)             == [type |-> "callclientRes", id |-> id, msgid |-> msgid]
TickerRes(id)                 == [type |-> "tickerRes", id |-> id]

(***************************************************************************)
(* genUuid never returns a value twice: the msgid of a probe and the key   *)
(* it is filed under come from two calls.                                  *)
(***************************************************************************)
MsgUuid(id)       == <<"msgid", id>>
KeyUuid(id)       == <<"key", id>>
Uuid              == {"msgid", "key"} \X ID

Probe == [key : Uuid, id : ID, age : 0 .. ProbeRounds - 1]

(***************************************************************************)
(* What a handler sends, by destination, in the order sent.                *)
(***************************************************************************)
SentTo(out, e) == IF e \in DOMAIN out THEN out[e] ELSE <<>>

AndThen(out, more) ==
  [e \in DOMAIN out \cup DOMAIN more |-> SentTo(out, e) \o SentTo(more, e)]

Silence          == [e \in {} |-> <<>>]
To(e, m)         == [x \in {e} |-> <<m>>]
Repeatedly(e, m) == [x \in {e} |-> [k \in 1 .. Repeats |-> m]]

(* One copy for every entry of the list hl but self's. *)
ToAll(hl, self, m) ==
  LET others == DOMAIN hl \ {self}
      at(e)  == {i \in others : hl[i].ep = e}
  IN  [e \in {hl[i].ep : i \in others} |-> [k \in 1 .. Cardinality(at(e)) |-> m]]

(***************************************************************************)
(* The network takes what can be read at all: somebody owns the endpoint,  *)
(* the handler does not throw it away as its own (seeRemoteIp != _localIp),*)
(* and it need not be looped back by a NAT that does not.                  *)
(***************************************************************************)
Readable(n, ch) ==
  /\ Owns(n, ch.dst)
  /\ ch.src.ip # LocalEp[n].ip
  /\ ch.src.ip = ch.dst.ip => n \in Hairpin

Route(n, out) ==
  [ch \in {c \in {[src |-> MapEp[n][e], dst |-> e] : e \in DOMAIN out} :
             \E r \in Node : Readable(r, c)} |-> out[ch.dst]]

(* The NAT of the reader lets the datagram through. *)
Admits(n, ch) ==
  n \in Filters => ch.src \in perm[n] /\ MapEp[n][ch.src] = ch.dst

Without(ch, k) ==
  LET rest == RemoveAt(net[ch], k)
  IN  IF rest = <<>> THEN Restrict(net, DOMAIN net \ {ch})
                     ELSE [net EXCEPT ![ch] = rest]

(* The datagrams of a channel that may arrive next; of equal ones, one. *)
Deliverable(ch) ==
  IF InOrder THEN {1}
  ELSE {k \in DOMAIN net[ch] : \A j \in 1 .. k - 1 : net[ch][j] # net[ch][k]}

(* n sends out; left is what its handler left in the network. *)
Transmit(n, out, left) ==
  /\ net' = AndThen(left, Route(n, out))
  /\ perm' = IF n \in Filters THEN [perm EXCEPT ![n] = @ \cup DOMAIN out] ELSE perm

Init ==
  /\ status      = [n \in Node |-> "off"]
  /\ nodeID      = [n \in Node |-> Null]
  /\ hostList    = [n \in Node |-> EmptyMap]
  /\ localEpInfo = [n \in Node |-> Null]
  /\ tickerNum   = [n \in Node |-> EmptyMap]
  /\ fCkTimeMap  = [n \in Node |-> {}]
  /\ count       = [n \in Node |-> 0]
  /\ rcv         = [n \in Node |-> Null]
  /\ heard       = [n \in Node |-> {}]
  /\ net         = EmptyMap
  /\ perm        = [n \in Node |-> {}]
  /\ used        = {}
  /\ budget      = [loss |-> MaxLoss, dup |-> MaxDup, crash |-> MaxCrash,
                    rounds |-> MaxRounds, bind |-> BindChannels]

(***************************************************************************)
(* The process ends: all its state is in memory.                           *)
(***************************************************************************)
Stop(n, how) ==
  /\ status'      = [status      EXCEPT ![n] = how]
  /\ nodeID'      = [nodeID      EXCEPT ![n] = Null]
  /\ hostList'    = [hostList    EXCEPT ![n] = EmptyMap]
  /\ localEpInfo' = [localEpInfo EXCEPT ![n] = Null]
  /\ tickerNum'   = [tickerNum   EXCEPT ![n] = EmptyMap]
  /\ fCkTimeMap'  = [fCkTimeMap  EXCEPT ![n] = {}]
  /\ count'       = [count       EXCEPT ![n] = 0]
  /\ rcv'         = [rcv         EXCEPT ![n] = Null]
  /\ heard'       = [heard       EXCEPT ![n] = {}]

-----------------------------------------------------------------------------
(* Every datagram has arrived and is dealt with. *)
Quiet == net = EmptyMap /\ \A n \in Node : rcv[n] = Null

(***************************************************************************)
(* Starting a node: a new ID, and a first detect to the remote server.     *)
(***************************************************************************)
AnyOf(n) == IDsOf[n] \* mutant: an ID is kept from one start to the next

NewID(n) == IDsOf[n] \ used

Boot(n, id) ==
  /\ status[n] \in {"off", "crashed"}
  /\ status[n] = "crashed" => Restarts /\ (Synchronous => Quiet)
  /\ id \in NewID(n)
  /\ used' = used \cup {id}
  /\ status' = [status EXCEPT ![n] = "up"]
  /\ nodeID' = [nodeID EXCEPT ![n] = id]
  /\ \E publicFlag \in IF n \in MainNodes THEN {TRUE} ELSE Garbage[n] :
       localEpInfo' = [localEpInfo EXCEPT
                         ![n] = IF publicFlag THEN PublicInfo(LocalEp[n]) ELSE Null]
  /\ Transmit(n, To(RemoteServer[n], DetectMsg(id, LocalEp[n])), net)
  /\ UNCHANGED <<hostList, tickerNum, fCkTimeMap, count, rcv, heard, budget>>

(* A run of "bind" mode: a detect without a nodeID, from a fixed local ip. *)
Bind(ch) ==
  /\ ch \in budget.bind
  /\ budget' = [budget EXCEPT !.bind = @ \ {ch}]
  /\ net' = AndThen(net, To(ch, DetectMsg(Null, ch.src)))
  /\ UNCHANGED <<process, perm, used>>

-----------------------------------------------------------------------------
(***************************************************************************)
(* handleReceive.  The k-th datagram of channel ch is read by n.           *)
(***************************************************************************)
CanRead(n, ch) == status[n] = "up" /\ Readable(n, ch) /\ Admits(n, ch)

Fits(m) == m.type = "update" => Cardinality(DOMAIN m.hosts) <= MaxHosts

Receive(n, ch, k, type) ==
  /\ net[ch][k].type = type /\ Fits(net[ch][k])
  /\ rcv[n] = Null
  /\ CanRead(n, ch)

(* The handler of the k-th datagram of ch sends out and returns. *)
Handle(n, ch, k, out) ==
  /\ Transmit(n, out, Without(ch, k))
  /\ heard' = [heard EXCEPT ![n] = @ \cup {net[ch][k].id}]
  /\ UNCHANGED <<used, budget>>

(* An exception, a failed assertion of json.hpp, or the end of main. *)
Abort(n, ch, k) ==
  /\ Stop(n, "aborted")
  /\ net' = Without(ch, k)
  /\ UNCHANGED <<perm, used, budget>>

(* updateRouteInfo with the list hl *)
RouteInfo(n, hl) == ToAll(hl, nodeID[n], UpdateMsg(nodeID[n], hl))

(* A JSON text cut off by the end of the buffer is not accepted. *)
RcvTruncated(n, ch, k) ==
  /\ rcv[n] = Null
  /\ CanRead(n, ch)
  /\ ~ Fits(net[ch][k])
  /\ net' = Without(ch, k)
  /\ UNCHANGED <<process, perm, used, budget>>

(***************************************************************************)
(* "detect".  The sender is listed with the endpoint it was seen at, then  *)
(* the node itself; everybody listed is told.                              *)
(***************************************************************************)
(* Mutant: the two entries swapped. *)
ListSwapped(n, id, info) ==
  AddNewNode(AddNewNode(hostList[n], nodeID[n], info), id, PublicInfo(LocalEp[n]))

ListSender(n, id, info) ==
  AddNewNode(AddNewNode(hostList[n], id, info), nodeID[n], PublicInfo(LocalEp[n]))

RcvDetectNoID(n, ch, k) ==
  /\ Receive(n, ch, k, "detect")
  /\ net[ch][k].id = Null
  /\ Abort(n, ch, k)

RcvDetectPublic(n, ch, k) ==
  LET m  == net[ch][k]
      hl == ListSender(n, m.id, PublicInfo(ch.src))
  IN  /\ Receive(n, ch, k, "detect")
      /\ m.id # Null
      /\ ch.src = m.local
      /\ hostList' = [hostList EXCEPT ![n] = hl]
      /\ Handle(n, ch, k, RouteInfo(n, hl))
      /\ UNCHANGED <<status, nodeID, localEpInfo, tickerNum, fCkTimeMap, count, rcv>>

(* The neighbour asked to try the sender's NAT, or the node itself. *)
NoFallback(n, hl) == GetPublicNode(hl, nodeID[n]) \* mutant

Prober(n, hl) ==
  LET neighbour == GetPublicNode(hl, nodeID[n])
  IN  IF neighbour = Null THEN localEpInfo[n] ELSE neighbour

MappedList(n, ch, id) == ListSender(n, id, MakeInfo("mapping", "", ch.src))

NewProbe(id) == [key |-> KeyUuid(id), id |-> id, age |-> 0]

RcvDetectMapped(n, ch, k) ==
  LET m     == net[ch][k]
      hl    == MappedList(n, ch, m.id)
      check == CheckMsg("filteringcheck", nodeID[n], ch.src, MsgUuid(m.id))
  IN  /\ Receive(n, ch, k, "detect")
      /\ m.id # Null
      /\ ch.src # m.local
      /\ Prober(n, hl) # Null
      /\ hostList' = [hostList EXCEPT ![n] = hl]
      /\ fCkTimeMap' = [fCkTimeMap EXCEPT ![n] = @ \cup {NewProbe(m.id)}]
      /\ Handle(n, ch, k, AndThen(To(Prober(n, hl).ep, check), RouteInfo(n, hl)))
      /\ UNCHANGED <<status, nodeID, localEpInfo, tickerNum, count, rcv>>

(* Nobody to ask, and _localEpInfo is still null: "endpoint" of null throws. *)
RcvDetectNoProber(n, ch, k) ==
  /\ Receive(n, ch, k, "detect")
  /\ net[ch][k].id # Null
  /\ ch.src # net[ch][k].local
  /\ Prober(n, MappedList(n, ch, net[ch][k].id)) = Null
  /\ Abort(n, ch, k)

(***************************************************************************)
(* "update".  Its own entry tells a node how it is seen.  Then the loop    *)
(* walks the entries in key order, at each of them connecting to a peer.   *)
(* Its first test, for an entry of the list filed under "ip_port", finds   *)
(* nothing: the list is keyed by ID.                                       *)
(***************************************************************************)
(* A node's own update makes the handler return before it receives again,  *)
(* so that run() and main end; in an update that does not list the reader, *)
(* getself is end() and json.hpp asserts that nobody dereferences it.      *)
Usable(n, m) == m.id # nodeID[n] /\ nodeID[n] \in DOMAIN m.hosts

RcvUpdateFatal(n, ch, k) ==
  /\ Receive(n, ch, k, "update")
  /\ ~ Usable(n, net[ch][k])
  /\ Abort(n, ch, k)

RcvUpdate(n, ch, k) ==
  LET m == net[ch][k]
  IN  /\ Receive(n, ch, k, "update")
      /\ Usable(n, m)
      /\ localEpInfo' = [localEpInfo EXCEPT ![n] = m.hosts[nodeID[n]]]
      /\ rcv' = [rcv EXCEPT ![n] = [from |-> m.id, remote |-> ch.src,
                                     hosts |-> m.hosts, items |-> DOMAIN m.hosts]]
      /\ Handle(n, ch, k, Silence)
      /\ UNCHANGED <<status, nodeID, hostList, tickerNum, fCkTimeMap, count>>

Looping(n) == rcv[n] # Null
Item(n)    == Min(rcv[n].items)
ItemObj(n) == rcv[n].hosts[Item(n)]

(* Mutant: the end of the loop is missed. *)
NextItemOnly(n, remote) ==
  rcv' = [rcv EXCEPT ![n].items = @ \ {Item(n)}, ![n].remote = remote]

NextItem(n, remote) ==
  LET rest == rcv[n].items \ {Item(n)}
  IN  rcv' = [rcv EXCEPT ![n] = IF rest = {} THEN Null
                                ELSE [@ EXCEPT !.items = rest, !.remote = remote]]

(* An entry that is only filed: under the node's own ID, or the sender's. *)
FileItem(n, id) ==
  /\ hostList' = [hostList EXCEPT ![n] = AddNewNode(@, id, ItemObj(n))]
  /\ NextItem(n, rcv[n].remote)
  /\ UNCHANGED <<status, nodeID, localEpInfo, tickerNum, fCkTimeMap, count, heard,
                 net, perm, used, budget>>

UpdateSelf(n) ==
  /\ Looping(n)
  /\ Item(n) = nodeID[n]
  /\ FileItem(n, nodeID[n])

IsFromSender(n) == ItemObj(n).ep.ip = rcv[n].remote.ip

UpdateSender(n) ==
  /\ Looping(n)
  /\ Item(n) # nodeID[n]
  /\ IsFromSender(n)
  /\ FileItem(n, rcv[n].from)

(* Mutant: a peer is listed before it has answered. *)
ConnectAndList(n, out, remote) ==
  /\ hostList' = [hostList EXCEPT ![n] = AddNewNode(@, Item(n), ItemObj(n))]
  /\ NextItem(n, remote)
  /\ Transmit(n, out, net)
  /\ UNCHANGED <<status, nodeID, localEpInfo, tickerNum, fCkTimeMap, count, heard,
                 used, budget>>

Connect(n, out, remote) ==
  /\ NextItem(n, remote)
  /\ Transmit(n, out, net)
  /\ UNCHANGED <<status, nodeID, hostList, localEpInfo, tickerNum, fCkTimeMap, count,
                 heard, used, budget>>

OpenItem(n) == To(ItemObj(n).ep, InfoMsg("openconnect", nodeID[n], localEpInfo[n]))

UpdatePublic(n) ==
  /\ Looping(n)
  /\ Item(n) # nodeID[n] /\ ~ IsFromSender(n)
  /\ IsPublic(ItemObj(n))
  /\ Connect(n, OpenItem(n), rcv[n].remote)

(* Who is asked for help: the last public entry listed, or the sender.  It *)
(* also takes the place of the sender for the items still to come.         *)
Helper(n) ==
  LET public == PublicIDs(hostList[n])
  IN  IF public = {} THEN rcv[n].remote ELSE hostList[n][Max(public)].ep

UpdateProxy(n) ==
  LET help == To(Helper(n), InfoMsg("proxyconnect", nodeID[n], ItemObj(n)))
  IN  /\ Looping(n)
      /\ Item(n) # nodeID[n] /\ ~ IsFromSender(n)
      /\ ~ IsPublic(ItemObj(n))
      /\ Connect(n, IF IsPublic(localEpInfo[n]) THEN help ELSE AndThen(help, OpenItem(n)),
                 Helper(n))

(***************************************************************************)
(* Hole punching.  A proxy tells the peer where the asking node is seen;   *)
(* the peer opens its own NAT towards that endpoint.                       *)
(***************************************************************************)
RcvProxyconnect(n, ch, k) ==
  LET m    == net[ch][k]
      help == InfoMsg("helpconnect", nodeID[n], [m.info EXCEPT !.ep = ch.src])
  IN  /\ Receive(n, ch, k, "proxyconnect")
      /\ Handle(n, ch, k, To(m.info.ep, help))
      /\ UNCHANGED <<status, nodeID, hostList, localEpInfo, tickerNum, fCkTimeMap, count,
                     rcv>>

RcvHelpconnect(n, ch, k) ==
  LET open == InfoMsg("openconnect", nodeID[n], localEpInfo[n])
  IN  /\ Receive(n, ch, k, "helpconnect")
      /\ Handle(n, ch, k, Repeatedly(net[ch][k].info.ep, open))
      /\ UNCHANGED <<status, nodeID, hostList, localEpInfo, tickerNum, fCkTimeMap, count,
                     rcv>>

(* A peer is listed at the endpoint it is seen at, which overrides what is *)
(* listed when it is not the endpoint the peer believes it has.            *)
Opened(hl, id, info, seen) ==
  IF seen # info.ep THEN PutNode(hl, id, [info EXCEPT !.ep = seen])
                    ELSE AddNewNode(hl, id, info)

RcvOpenconnect(n, ch, k) ==
  LET m == net[ch][k]
  IN  /\ Receive(n, ch, k, "openconnect")
      /\ m.info # Null
      /\ hostList' = [hostList EXCEPT ![n] = Opened(@, m.id, m.info, ch.src)]
      /\ Handle(n, ch, k, Silence)
      /\ UNCHANGED <<status, nodeID, localEpInfo, tickerNum, fCkTimeMap, count, rcv>>

RcvOpenconnectNull(n, ch, k) ==
  /\ Receive(n, ch, k, "openconnect")
  /\ net[ch][k].info = Null
  /\ Abort(n, ch, k)

(***************************************************************************)
(* The filtering probe: a neighbour calls the probed node, which answers   *)
(* to the node that asked the neighbour.                                   *)
(***************************************************************************)
RcvFilteringcheck(n, ch, k) ==
  LET m == net[ch][k]
  IN  /\ Receive(n, ch, k, "filteringcheck")
      /\ Handle(n, ch, k, To(m.ep, CheckMsg("callclient", nodeID[n], ch.src, m.msgid)))
      /\ UNCHANGED <<status, nodeID, hostList, localEpInfo, tickerNum, fCkTimeMap, count,
                     rcv>>

RcvCallclient(n, ch, k) ==
  LET m == net[ch][k]
  IN  /\ Receive(n, ch, k, "callclient")
      /\ Handle(n, ch, k, Repeatedly(m.ep, ResMsg(nodeID[n], m.msgid)))
      /\ UNCHANGED <<status, nodeID, hostList, localEpInfo, tickerNum, fCkTimeMap, count,
                     rcv>>

Settled(probes, msgid) == {p \in probes : p.key # msgid}

RcvCallclientRes(n, ch, k) ==
  LET m  == net[ch][k]
      hl == SetFiltering(hostList[n], {m.id}, "Nonfilter")
  IN  /\ Receive(n, ch, k, "callclientRes")
      /\ hostList' = [hostList EXCEPT ![n] = hl]
      /\ fCkTimeMap' = [fCkTimeMap EXCEPT
                          ![n] = IF m.id \in DOMAIN hl THEN Settled(@, m.msgid) ELSE @]
      /\ Handle(n, ch, k, RouteInfo(n, hl))
      /\ UNCHANGED <<status, nodeID, localEpInfo, tickerNum, count, rcv>>

(***************************************************************************)
(* Tickers.  Any sign of life from an endpoint resets its counter.         *)
(***************************************************************************)
NoReset(counters, e) == counters \* mutant

Reset(counters, e) == Restrict(counters, DOMAIN counters \ {e})

RcvTicker(n, ch, k) ==
  LET m == net[ch][k]
  IN  /\ Receive(n, ch, k, "ticker")
      /\ hostList' = [hostList EXCEPT
                        ![n] = IF m.info = Null THEN @ ELSE PutNode(@, m.id, m.info)]
      /\ tickerNum' = [tickerNum EXCEPT ![n] = Reset(@, ch.src)]
      /\ Handle(n, ch, k, To(ch.src, TickerRes(nodeID[n])))
      /\ UNCHANGED <<status, nodeID, localEpInfo, fCkTimeMap, count, rcv>>

RcvTickerRes(n, ch, k) ==
  /\ Receive(n, ch, k, "tickerRes")
  /\ tickerNum' = [tickerNum EXCEPT ![n] = Reset(@, ch.src)]
  /\ Handle(n, ch, k, Silence)
  /\ UNCHANGED <<status, nodeID, hostList, localEpInfo, fCkTimeMap, count, rcv>>

-----------------------------------------------------------------------------
(***************************************************************************)
(* One round of threadhandle: probes time out, dead peers are dropped,     *)
(* every peer gets a ticker, changes are announced, and a node that has    *)
(* been alone for long detects again.                                      *)
(***************************************************************************)
Expired(probes) == {p \in probes : p.age + 1 >= ProbeRounds}

Older(probes) == {[p EXCEPT !.age = @ + 1] : p \in probes}

DeadEps(counters) == {e \in DOMAIN counters : counters[e] >= PACKAGENUM}

(* The list after the first two loops of a round. *)
Checked(n) ==
  EraseAt(SetFiltering(hostList[n], {p.id : p \in Expired(fCkTimeMap[n])}, "isFilter"),
          DeadEps(tickerNum[n]))

(* Mutant: the counters of dropped peers stay. *)
TickedForever(counters, hl, self) ==
  LET at(e) == {i \in DOMAIN hl \ {self} : hl[i].ep = e}
      eps   == {hl[i].ep : i \in DOMAIN hl \ {self}}
  IN  [e \in DOMAIN counters \cup eps |->
         (IF e \in DOMAIN counters THEN counters[e] ELSE 0) + Cardinality(at(e))]

(* One more unanswered ticker for every entry of hl at an endpoint. *)
Ticked(counters, hl, self) ==
  LET kept  == DOMAIN counters \ DeadEps(counters)
      at(e) == {i \in DOMAIN hl \ {self} : hl[i].ep = e}
      eps   == {hl[i].ep : i \in DOMAIN hl \ {self}}
  IN  [e \in kept \cup eps |->
         (IF e \in kept THEN counters[e] ELSE 0) + Cardinality(at(e))]

AloneNever(n, hl)   == count[n] \* mutant
AloneIsEmpty(n, hl) == count[n] + IF hl = EmptyMap THEN 1 ELSE 0 \* mutant

Alone(n, hl) == count[n] + IF Cardinality(DOMAIN hl) <= 1 THEN 1 ELSE 0

NeedNotify(n) == Expired(fCkTimeMap[n]) \cup DeadEps(tickerNum[n]) # {}

TimerRound(n) ==
  LET hl      == Checked(n)
      tickers == ToAll(hl, nodeID[n], InfoMsg("ticker", nodeID[n], localEpInfo[n]))
      updates == IF NeedNotify(n) THEN RouteInfo(n, hl) ELSE Silence
      detect  == IF Alone(n, hl) >= DetectRounds
                 THEN To(RemoteServer[n], DetectMsg(nodeID[n], LocalEp[n]))
                 ELSE Silence
  IN  /\ status[n] = "up"
      /\ IF Synchronous THEN Quiet ELSE budget.rounds > 0
      /\ hostList' = [hostList EXCEPT ![n] = hl]
      /\ fCkTimeMap' = [fCkTimeMap EXCEPT ![n] = Older(@ \ Expired(@))]
      /\ tickerNum' = [tickerNum EXCEPT ![n] = Ticked(@, hl, nodeID[n])]
      /\ count' = [count EXCEPT ![n] = IF Alone(n, hl) >= DetectRounds THEN 0
                                       ELSE Alone(n, hl)]
      /\ Transmit(n, AndThen(AndThen(tickers, updates), detect), net)
      /\ budget' = IF Synchronous THEN budget ELSE [budget EXCEPT !.rounds = @ - 1]
      /\ UNCHANGED <<status, nodeID, localEpInfo, rcv, heard, used>>

-----------------------------------------------------------------------------
(***************************************************************************)
(* The environment: a process killed, a datagram lost, duplicated, or      *)
(* arriving where no process reads it or a NAT refuses it.                 *)
(***************************************************************************)
Crash(n) ==
  /\ status[n] = "up"
  /\ budget.crash > 0
  /\ budget' = [budget EXCEPT !.crash = @ - 1]
  /\ Stop(n, "crashed")
  /\ UNCHANGED <<net, perm, used>>

Lose(ch, k) ==
  /\ budget.loss > 0
  /\ budget' = [budget EXCEPT !.loss = @ - 1]
  /\ net' = Without(ch, k)
  /\ UNCHANGED <<process, perm, used>>

Duplicate(ch, k) ==
  /\ budget.dup > 0
  /\ budget' = [budget EXCEPT !.dup = @ - 1]
  /\ net' = AndThen(net, To(ch, net[ch][k]))
  /\ UNCHANGED <<process, perm, used>>

Undeliverable(ch, k) ==
  /\ \A n \in Node : ~ CanRead(n, ch)
  /\ net' = Without(ch, k)
  /\ UNCHANGED <<process, perm, used, budget>>

-----------------------------------------------------------------------------
Detecting(n, ch, k) == \/ RcvDetectNoID(n, ch, k)
                       \/ RcvDetectPublic(n, ch, k)
                       \/ RcvDetectMapped(n, ch, k)
                       \/ RcvDetectNoProber(n, ch, k)

Updating(n, ch, k) == \/ RcvUpdateFatal(n, ch, k)
                      \/ RcvUpdate(n, ch, k)
                      \/ RcvTruncated(n, ch, k)

Punching(n, ch, k) == \/ RcvProxyconnect(n, ch, k)
                      \/ RcvHelpconnect(n, ch, k)
                      \/ RcvOpenconnect(n, ch, k)
                      \/ RcvOpenconnectNull(n, ch, k)

Probing(n, ch, k) == \/ RcvFilteringcheck(n, ch, k)
                     \/ RcvCallclient(n, ch, k)
                     \/ RcvCallclientRes(n, ch, k)

Ticking(n, ch, k) == RcvTicker(n, ch, k) \/ RcvTickerRes(n, ch, k)

HandleReceive(n, ch, k) == \/ Detecting(n, ch, k)
                           \/ Updating(n, ch, k)
                           \/ Punching(n, ch, k)
                           \/ Probing(n, ch, k)
                           \/ Ticking(n, ch, k)

UpdateLoop(n) == UpdateSelf(n) \/ UpdateSender(n) \/ UpdatePublic(n) \/ UpdateProxy(n)

(* A datagram arrives, somewhere or nowhere, or an update loop goes on. *)
Arrival == \E ch \in DOMAIN net : \E k \in Deliverable(ch) :
             \/ \E n \in Node : HandleReceive(n, ch, k)
             \/ Undeliverable(ch, k)

Fault == \/ \E n \in Node : Crash(n)
         \/ \E ch \in DOMAIN net : \E k \in Deliverable(ch) :
              Lose(ch, k) \/ Duplicate(ch, k)

Start(n) == \E id \in IDsOf[n] : Boot(n, id)

Next == \/ \E n \in Node : Start(n) \/ UpdateLoop(n) \/ TimerRound(n)
        \/ \E ch \in BindChannels : Bind(ch)
        \/ Arrival
        \/ Fault

Spec == Init /\ [][Next]_vars

(***************************************************************************)
(* The threads of a process run, its timer keeps waking up, and what is    *)
(* sent arrives or not.  When Synchronous, timers and restarts wait again  *)
(* and again for others' datagrams to arrive: hence strong fairness.       *)
(***************************************************************************)
Fairness == /\ WF_vars(Arrival)
            /\ \A n \in Node : WF_vars(UpdateLoop(n))
            /\ \A n \in Node : SF_vars(TimerRound(n))
            /\ \A n \in Node : SF_vars(Start(n))

FairSpec == Spec /\ Fairness

-----------------------------------------------------------------------------
(***************************************************************************)
(* Types.                                                                  *)
(***************************************************************************)
IsMsg(m) ==
  \/ m \in [type : {"detect"}, id : ID \cup {Null}, local : Endpoint]
  \/ m \in [type : {"proxyconnect", "helpconnect"}, id : ID, info : Info]
  \/ m \in [type : {"openconnect", "ticker"}, id : ID, info : InfoOrNull]
  \/ m \in [type : {"filteringcheck", "callclient"}, id : ID, ep : Endpoint, msgid : Uuid]
  \/ m \in [type : {"callclientRes"}, id : ID, msgid : Uuid]
  \/ m \in [type : {"tickerRes"}, id : ID]
  \/ m \in [type : {"update"}, id : ID, hosts : {m.hosts}] /\ IsHostList(m.hosts)

IsQueue(sq) ==
  /\ sq # <<>>
  /\ sq \in Seq(Range(sq))
  /\ \A m \in Range(sq) : IsMsg(m)

(* Queues of messages for some members of D. *)
AreQueues(q, D) == DOMAIN q \subseteq D /\ \A x \in DOMAIN q : IsQueue(q[x])

AreCounters(c) == DOMAIN c \subseteq Endpoint /\ c \in [DOMAIN c -> Nat \ {0}]

(* A loop has entries left, of those its update came with. *)
IsLoop(r) ==
  /\ r \in [from : ID, remote : Endpoint, hosts : {r.hosts}, items : SUBSET ID]
  /\ IsHostList(r.hosts)
  /\ r.items # {}
  /\ r.items \subseteq DOMAIN r.hosts

ProcessOK ==
  /\ status \in [Node -> {"off", "up", "crashed", "aborted"}]
  /\ nodeID \in [Node -> ID \cup {Null}]
  /\ DOMAIN hostList = Node /\ \A n \in Node : IsHostList(hostList[n])
  /\ localEpInfo \in [Node -> InfoOrNull]
  /\ DOMAIN tickerNum = Node /\ \A n \in Node : AreCounters(tickerNum[n])
  /\ fCkTimeMap \in [Node -> SUBSET Probe]
  /\ count \in [Node -> 0 .. DetectRounds - 1]
  /\ DOMAIN rcv = Node /\ \A n \in Node : rcv[n] = Null \/ IsLoop(rcv[n])
  /\ heard \in [Node -> SUBSET ID]

NetworkOK ==
  /\ AreQueues(net, Channel)
  /\ perm \in [Node -> SUBSET Endpoint]
  /\ used \subseteq ID
  /\ budget \in [loss : Nat, dup : Nat, crash : Nat, rounds : Nat,
                 bind : SUBSET BindChannels]

(* An ID is what a running process has; only a running process handles an  *)
(* update, lists anybody and knows of itself.                              *)
LifeOK ==
  \A n \in Node :
    /\ nodeID[n] # Null <=> status[n] = "up"
    /\ rcv[n] # Null => status[n] = "up" /\ localEpInfo[n] # Null
    /\ status[n] # "up" => DOMAIN hostList[n] = {}

(* The type invariant of the variables above. *)
TypeOK == ProcessOK /\ NetworkOK /\ LifeOK

-----------------------------------------------------------------------------
(***************************************************************************)
(* Properties.                                                             *)
(***************************************************************************)
(* A process lists nobody it has not heard from: an update only makes it   *)
(* call the peers named, and a peer is listed when it calls back ("only    *)
(* nodes connected to successfully may join", the comment at 617).         *)
OnlyHeardPeers ==
  \A n \in Node : DOMAIN hostList[n] \subseteq {nodeID[n]} \cup heard[n]

Lists(n, m) == status[m] = "up" /\ nodeID[m] \in DOMAIN hostList[n]

(* What n sends to ep gets to m. *)
Reaches(n, m, ep) ==
  LET ch == [src |-> MapEp[n][ep], dst |-> ep]
  IN  Readable(m, ch) /\ Admits(m, ch)

(* n and m can talk: what n sends to ep gets to m's process, its answers   *)
(* get to n, and n sees them come from ep.                                 *)
OpenBetween(n, m, ep) ==
  LET back == MapEp[n][ep]
  IN  Reaches(n, m, ep) /\ Reaches(m, n, back) /\ MapEp[m][back] = ep

Connected(n, m) ==
  Lists(n, m) /\ OpenBetween(n, m, hostList[n][nodeID[m]].ep)

(* Whoever is listed can be talked to, at whatever endpoint: its NAT and   *)
(* the lister's have been opened towards each other before the entry was   *)
(* made, which is what 434 logs as "pouching successful".                  *)
HolesOpen ==
  \A n \in Node : \A m \in Node \ {n} :
    Lists(n, m) => \E ep \in Endpoint : OpenBetween(n, m, ep)

(* That endpoint is the one listed, while the process lives: "only nodes   *)
(* connected to successfully may join" (the comment at 617).               *)
ListedIsConnected ==
  \A n \in Node : \A m \in Node \ {n} : Lists(n, m) => Connected(n, m)

(* Unanswered tickers are counted against listed peers only: a peer goes   *)
(* with its counter, and a new one starts from nothing.                    *)
CountersOfPeers ==
  \A n \in Node :
    DOMAIN tickerNum[n] \subseteq
      {hostList[n][i].ep : i \in DOMAIN hostList[n] \ {nodeID[n]}}

(* With nothing lost or reordered, and nobody started again after a kill,  *)
(* no handler meets what it cannot handle.                                 *)
NobodyAborts == \A n \in Node : status[n] # "aborted"

(* A round of the timer drops no peer that is alive and answers: its       *)
(* tickers or its answers reset the counter in time.                       *)
NoFalseEviction ==
  [][\A n \in Node : \A m \in Node \ {n} :
       Lists(n, m) /\ status'[m] = "up" /\ status'[n] = "up" => Lists(n, m)']_vars

(* The messages of a type in a channel of q. *)
Carried(q, ch, type) ==
  Cardinality({k \in DOMAIN SentTo(q, ch) : SentTo(q, ch)[k].type = type})

(* The tickers of n on their way to e, and the answers on their way back.  *)
Unanswered(n, e) ==
  LET seen == MapEp[n][e]
  IN  Carried(net, [src |-> seen, dst |-> e], "ticker")
        + Carried(net, [src |-> e, dst |-> seen], "tickerRes")

(* Whenever rounds fall, and however late a message is, who lives is only  *)
(* dropped while PACKAGENUM tickers to it are without an answer handled:   *)
(* none of those counted was answered before.                              *)
EvictedWhenOverdue ==
  [][\A n \in Node : \A m \in Node \ {n} :
       Lists(n, m) /\ status'[m] = "up" /\ status'[n] = "up" =>
         \/ Lists(n, m)'
         \/ Unanswered(n, hostList[n][nodeID[m]].ep) >= PACKAGENUM]_vars

(* In whatever order nodes are started, in the end any two are connected,  *)
(* but for those that are down and not to be started again, as long as no  *)
(* server is.  Two nodes also find each other again when they are killed   *)
(* and restarted; three need not.                                          *)
Gone(n) == status[n] = "crashed" /\ (~ Restarts \/ NewID(n) = {})

Serves(n) == \E m \in Node : Owns(n, RemoteServer[m])

HolePunched ==
  <>[](\/ \E n \in Node : Serves(n) /\ Gone(n)
       \/ \A n \in Node : \A m \in Node \ {n} : Connected(n, m) \/ Gone(n) \/ Gone(m))

(* In the end nobody lists a process that has ended: its counters reach    *)
(* PACKAGENUM at every node, and no update brings it back.                 *)
LiveIDs == {nodeID[m] : m \in {x \in Node : status[x] = "up"}}

DeadForgotten == <>[](\A n \in Node : DOMAIN hostList[n] \subseteq LiveIDs)

(* Every node is told a filtering verdict in the end, and so are its peers *)
(* about it: no later ticker takes it back.                                *)
VerdictReached ==
  <>[](\A n \in Node :
         /\ localEpInfo[n] # Null /\ localEpInfo[n].filtering # ""
         /\ \A i \in DOMAIN hostList[n] \ {nodeID[n]} : hostList[n][i].filtering # "")

(* A record still filed when it expires was not answered (comment at 741), *)
(* so a node found reachable is not declared filtered.                     *)
VerdictStands ==
  [][\A n \in Node : \A i \in DOMAIN hostList[n] \cap DOMAIN hostList'[n] :
       hostList[n][i].filtering = "Nonfilter"
          => hostList'[n][i].filtering # "isFilter"]_vars

(* An openconnect tells the NAT type of its sender (comment at 420).       *)
OpenconnectTellsNatType ==
  \A ch \in DOMAIN net : \A k \in DOMAIN net[ch] :
    net[ch][k].type = "openconnect" => net[ch][k].info # Null

(* What an update handler looks up is in the update: the iterator it       *)
(* dereferences is not end(), which json.hpp asserts.                      *)
UpdateListsReader ==
  \A n \in Node : \A ch \in DOMAIN net : \A k \in Deliverable(ch) :
    Receive(n, ch, k, "update") => nodeID[n] \in DOMAIN net[ch][k].hosts

(***************************************************************************)
(* The overlay as a set of processes that come and go and know each other. *)
(***************************************************************************)
Overlay == INSTANCE Membership WITH
             NoID <- Null, member <- nodeID, born <- used,
             peers <- [n \in Node |-> DOMAIN hostList[n]]

(* Whatever is lost, reordered or restarted, no ID is that of two          *)
(* processes, and all that a process knows it has heard, in its own life,  *)
(* from one that was started: genUuid at each start is what makes a list   *)
(* of peers mean anything after a crash.                                   *)
ImplementsMembership == Overlay!Spec
=============================================================================
