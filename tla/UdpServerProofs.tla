--------------------------- MODULE UdpServerProofs ---------------------------
(***************************************************************************)
(* Proofs about UdpServer, for every overlay that its assumptions allow:   *)
(* its type invariant, and that a process lists only peers it heard from.  *)
(***************************************************************************)
EXTENDS UdpServer, FiniteSetTheorems, TLAPS

(***************************************************************************)
(* IDs.                                                                    *)
(***************************************************************************)
LEMMA FirstAndLast ==
  ASSUME NEW S \in SUBSET ID, S # {}
  PROVE  Min(S) \in S /\ Max(S) \in S
<1>1. \E x \in S : \A y \in S : x <= y
  BY IDAssumption
<1>2. \E x \in S : \A y \in S : x >= y
  BY IDAssumption
<1> QED
  BY <1>1, <1>2 DEF Min, Max

LEMMA SomeIDs ==
  ASSUME NEW S \in SUBSET ID
  PROVE  Cardinality(S) \in Nat /\ (S # {} => Cardinality(S) # 0)
<1>1. IsFiniteSet(S)
  BY IDAssumption, FS_Subset
<1> QED
  BY <1>1, FS_CardinalityType, FS_EmptySet

(***************************************************************************)
(* The operators on host lists: which IDs they list.                       *)
(***************************************************************************)
LEMMA FilteringDomain ==
  ASSUME NEW hl, NEW ids, NEW verdict
  PROVE  DOMAIN SetFiltering(hl, ids, verdict) = DOMAIN hl
BY DEF SetFiltering

LEMMA EraseDomain ==
  ASSUME NEW hl, NEW eps
  PROVE  DOMAIN EraseAt(hl, eps) \subseteq DOMAIN hl
BY DEF EraseAt, Restrict

(***************************************************************************)
(* They keep host lists host lists.                                        *)
(***************************************************************************)
LEMMA AddTypes ==
  ASSUME NEW hl, IsHostList(hl), NEW id \in ID, NEW info \in Info
  PROVE  IsHostList(AddNewNode(hl, id, info)) /\ IsHostList(PutNode(hl, id, info))
<1>1. IsHostList(PutNode(hl, id, info))
  BY DEF IsHostList, PutNode
<1> QED
  BY <1>1 DEF AddNewNode

LEMMA SetFilteringType ==
  ASSUME NEW hl, IsHostList(hl), NEW ids, NEW verdict \in Filtering
  PROVE  IsHostList(SetFiltering(hl, ids, verdict))
BY DEF IsHostList, SetFiltering, Info

LEMMA EraseAtType ==
  ASSUME NEW hl, IsHostList(hl), NEW eps
  PROVE  IsHostList(EraseAt(hl, eps))
BY DEF IsHostList, EraseAt, Restrict

LEMMA EmptyHostList == IsHostList(EmptyMap)
BY DEF IsHostList, EmptyMap

LEMMA PublicInfoType ==
  ASSUME NEW ep \in Endpoint
  PROVE  PublicInfo(ep) \in Info /\ MakeInfo("mapping", "", ep) \in Info
BY DEF PublicInfo, MakeInfo, Info, Mapping, Filtering

LEMMA PublicNodeType ==
  ASSUME NEW hl, IsHostList(hl), NEW self
  PROVE  GetPublicNode(hl, self) \in InfoOrNull
<1> DEFINE others == PublicIDs(hl) \ {self}
<1>1. others \in SUBSET ID /\ others \subseteq DOMAIN hl
  BY DEF PublicIDs, IsHostList
<1>2. CASE others = {}
  BY <1>2 DEF GetPublicNode, InfoOrNull
<1>3. CASE others # {}
  <2>1. Min(others) \in others
    BY <1>1, <1>3, FirstAndLast
  <2>2. hl[Min(others)] \in Info
    BY <2>1, <1>1 DEF IsHostList
  <2> QED
    BY <1>3, <2>2 DEF GetPublicNode, InfoOrNull
<1> QED
  BY <1>2, <1>3

(***************************************************************************)
(* Queues.  Range(sq) is cited as it is defined in the module Functions.   *)
(***************************************************************************)
LEMMA QueueOf ==
  ASSUME NEW S, \A m \in S : IsMsg(m), NEW sq \in Seq(S), sq # <<>>
  PROVE  IsQueue(sq)
<1>1. Range(sq) \subseteq S
  BY DEF Range
<1>2. sq \in Seq(Range(sq))
  BY DEF Range
<1> QED
  BY <1>1, <1>2 DEF IsQueue

LEMMA QueueConcat ==
  ASSUME NEW sq, NEW tq, IsQueue(sq), IsQueue(tq)
  PROVE  IsQueue(sq \o tq)
<1> DEFINE S == Range(sq) \cup Range(tq)
<1>1. sq \in Seq(S) /\ tq \in Seq(S)
  <2>1. sq \in Seq(Range(sq)) /\ tq \in Seq(Range(tq))
    BY DEF IsQueue
  <2> QED
    BY <2>1
<1>2. sq \o tq \in Seq(S)
  BY <1>1
<1>3. sq \o tq # <<>>
  <2>1. Len(sq) > 0
    BY <1>1 DEF IsQueue
  <2>2. Len(sq \o tq) = Len(sq) + Len(tq)
    BY <1>1
  <2> QED
    BY <2>1, <2>2, <1>1
<1>4. \A m \in S : IsMsg(m)
  BY DEF IsQueue
<1> QED
  BY <1>2, <1>3, <1>4, QueueOf

(* What is left of a queue after one of its messages is taken. *)
LEMMA QueueRemove ==
  ASSUME NEW sq, IsQueue(sq), NEW k \in DOMAIN sq, RemoveAt(sq, k) # <<>>
  PROVE  IsQueue(RemoveAt(sq, k))
<1>1. sq \in Seq(Range(sq)) /\ k \in 1 .. Len(sq)
  BY DEF IsQueue
<1>2. RemoveAt(sq, k) \in Seq(Range(sq))
  BY <1>1 DEF RemoveAt
<1> QED
  BY <1>2, QueueOf DEF IsQueue

LEMMA QueueMember ==
  ASSUME NEW sq, IsQueue(sq), NEW k \in DOMAIN sq
  PROVE  IsMsg(sq[k])
BY DEF IsQueue, Range

(***************************************************************************)
(* Messages by destination, and what becomes of them.                      *)
(***************************************************************************)
LEMMA AndThenType ==
  ASSUME NEW D, NEW out, NEW more, AreQueues(out, D), AreQueues(more, D)
  PROVE  AreQueues(AndThen(out, more), D)
<1> DEFINE all == AndThen(out, more)
<1>1. DOMAIN all = DOMAIN out \cup DOMAIN more
  BY DEF AndThen
<1>2. ASSUME NEW e \in DOMAIN all PROVE IsQueue(all[e])
  <2>1. all[e] = SentTo(out, e) \o SentTo(more, e)
    BY DEF AndThen
  <2>2. CASE e \in DOMAIN out /\ e \in DOMAIN more
    <3>1. IsQueue(out[e]) /\ IsQueue(more[e])
      BY <2>2 DEF AreQueues
    <3> QED
      BY <2>1, <2>2, <3>1, QueueConcat DEF SentTo
  <2>3. CASE e \in DOMAIN out /\ e \notin DOMAIN more
    <3>1. IsQueue(out[e])
      BY <2>3 DEF AreQueues
    <3>2. out[e] \o <<>> = out[e]
      BY <3>1 DEF IsQueue
    <3> QED
      BY <2>1, <2>3, <3>1, <3>2 DEF SentTo
  <2>4. CASE e \notin DOMAIN out /\ e \in DOMAIN more
    <3>1. IsQueue(more[e])
      BY <2>4 DEF AreQueues
    <3>2. <<>> \o more[e] = more[e]
      BY <3>1 DEF IsQueue
    <3> QED
      BY <2>1, <2>4, <3>1, <3>2 DEF SentTo
  <2> QED
    BY <1>1, <2>2, <2>3, <2>4
<1> QED
  BY <1>1, <1>2 DEF AreQueues

LEMMA SilenceType == \A D : AreQueues(Silence, D)
BY DEF AreQueues, Silence

LEMMA OneMessage ==
  ASSUME NEW m, IsMsg(m), NEW k \in Nat, k # 0
  PROVE  IsQueue([j \in 1 .. k |-> m])
<1>1. [j \in 1 .. k |-> m] \in Seq({m})
  OBVIOUS
<1>2. [j \in 1 .. k |-> m] # <<>>
  OBVIOUS
<1> QED
  BY <1>1, <1>2, QueueOf

LEMMA ToType ==
  ASSUME NEW D, NEW e \in D, NEW m, IsMsg(m)
  PROVE  AreQueues(To(e, m), D) /\ AreQueues(Repeatedly(e, m), D)
<1>1. IsQueue(<<m>>)
  <2>1. <<m>> \in Seq({m}) /\ <<m>> # <<>>
    OBVIOUS
  <2> QED
    BY <2>1, QueueOf
<1>2. IsQueue([k \in 1 .. Repeats |-> m])
  BY OneMessage, NumberAssumption
<1> QED
  BY <1>1, <1>2 DEF AreQueues, To, Repeatedly

LEMMA ToAllType ==
  ASSUME NEW hl, IsHostList(hl), NEW self, NEW m, IsMsg(m)
  PROVE  AreQueues(ToAll(hl, self, m), Endpoint)
<1> DEFINE others == DOMAIN hl \ {self}
           at(e)  == {i \in others : hl[i].ep = e}
<1>1. DOMAIN ToAll(hl, self, m) = {hl[i].ep : i \in others}
  BY DEF ToAll
<1>2. \A i \in others : hl[i].ep \in Endpoint
  BY DEF IsHostList, Info
<1>3. ASSUME NEW e \in DOMAIN ToAll(hl, self, m)
      PROVE  IsQueue(ToAll(hl, self, m)[e])
  <2>1. at(e) \in SUBSET ID /\ at(e) # {}
    BY <1>1 DEF IsHostList
  <2>2. Cardinality(at(e)) \in Nat /\ Cardinality(at(e)) # 0
    BY <2>1, SomeIDs
  <2>3. ToAll(hl, self, m)[e] = [k \in 1 .. Cardinality(at(e)) |-> m]
    BY <1>1 DEF ToAll
  <2> QED
    BY <2>2, <2>3, OneMessage
<1> QED
  BY <1>1, <1>2, <1>3 DEF AreQueues

LEMMA RouteType ==
  ASSUME NEW n \in Node, NEW out, AreQueues(out, Endpoint)
  PROVE  AreQueues(Route(n, out), Channel)
<1>1. DOMAIN Route(n, out) \subseteq {[src |-> MapEp[n][e], dst |-> e] : e \in DOMAIN out}
  BY DEF Route
<1>2. \A e \in DOMAIN out : MapEp[n][e] \in Endpoint /\ e \in Endpoint
  BY ConfigAssumption DEF AreQueues
<1>3. DOMAIN Route(n, out) \subseteq Channel
  BY <1>1, <1>2 DEF Channel
<1>4. ASSUME NEW ch \in DOMAIN Route(n, out) PROVE IsQueue(Route(n, out)[ch])
  <2>1. Route(n, out)[ch] = out[ch.dst]
    BY DEF Route
  <2>2. ch.dst \in DOMAIN out
    BY <1>1
  <2> QED
    BY <2>1, <2>2 DEF AreQueues
<1> QED
  BY <1>3, <1>4 DEF AreQueues

LEMMA DeliverableIsThere ==
  ASSUME AreQueues(net, Channel), NEW ch \in DOMAIN net, NEW k \in Deliverable(ch)
  PROVE  /\ ch \in Channel
         /\ k \in DOMAIN net[ch]
         /\ IsMsg(net[ch][k])
<1>1. ch \in Channel /\ IsQueue(net[ch])
  BY DEF AreQueues
<1>2. 1 \in DOMAIN net[ch]
  <2>1. net[ch] \in Seq(Range(net[ch])) /\ net[ch] # <<>>
    BY <1>1 DEF IsQueue
  <2> QED
    BY <2>1
<1>3. k \in DOMAIN net[ch]
  BY <1>2 DEF Deliverable
<1> QED
  BY <1>1, <1>3, QueueMember

LEMMA WithoutType ==
  ASSUME AreQueues(net, Channel), NEW ch \in DOMAIN net, NEW k \in Deliverable(ch)
  PROVE  AreQueues(Without(ch, k), Channel)
<1> DEFINE rest == RemoveAt(net[ch], k)
<1>1. CASE rest = <<>>
  BY <1>1 DEF Without, Restrict, AreQueues
<1>2. CASE rest # <<>>
  <2>1. IsQueue(net[ch]) /\ k \in DOMAIN net[ch]
    BY DeliverableIsThere DEF AreQueues
  <2>2. IsQueue(rest)
    BY <1>2, <2>1, QueueRemove
  <2>3. Without(ch, k) = [net EXCEPT ![ch] = rest]
    BY <1>2 DEF Without
  <2> QED
    BY <2>2, <2>3 DEF AreQueues
<1> QED
  BY <1>1, <1>2

LEMMA TransmitType ==
  ASSUME NEW n \in Node, NEW out, AreQueues(out, Endpoint),
         NEW left, AreQueues(left, Channel),
         perm \in [Node -> SUBSET Endpoint],
         Transmit(n, out, left)
  PROVE  AreQueues(net', Channel) /\ perm' \in [Node -> SUBSET Endpoint]
<1>1. AreQueues(net', Channel)
  BY RouteType, AndThenType DEF Transmit
<1>2. DOMAIN out \subseteq Endpoint
  BY DEF AreQueues
<1> QED
  BY <1>1, <1>2 DEF Transmit

(***************************************************************************)
(* Messages: what is built is one, and what one has, by its type.          *)
(***************************************************************************)
LEMMA MsgTypes ==
  ASSUME NEW id \in ID
  PROVE  /\ \A i \in ID \cup {Null}, e \in Endpoint : IsMsg(DetectMsg(i, e))
         /\ \A hl : IsHostList(hl) => IsMsg(UpdateMsg(id, hl))
         /\ \A i \in Info : IsMsg(InfoMsg("proxyconnect", id, i))
         /\ \A i \in Info : IsMsg(InfoMsg("helpconnect", id, i))
         /\ \A i \in InfoOrNull : IsMsg(InfoMsg("openconnect", id, i))
         /\ \A i \in InfoOrNull : IsMsg(InfoMsg("ticker", id, i))
         /\ \A e \in Endpoint, u \in Uuid : IsMsg(CheckMsg("filteringcheck", id, e, u))
         /\ \A e \in Endpoint, u \in Uuid : IsMsg(CheckMsg("callclient", id, e, u))
         /\ \A u \in Uuid : IsMsg(ResMsg(id, u))
         /\ IsMsg(TickerRes(id))
<1>1. \A i \in ID \cup {Null}, e \in Endpoint : IsMsg(DetectMsg(i, e))
  BY DEF IsMsg, DetectMsg
<1>2. \A hl : IsHostList(hl) => IsMsg(UpdateMsg(id, hl))
  BY DEF IsMsg, UpdateMsg
<1>3. \A i \in Info : /\ IsMsg(InfoMsg("proxyconnect", id, i))
                      /\ IsMsg(InfoMsg("helpconnect", id, i))
  BY DEF IsMsg, InfoMsg
<1>4. \A i \in InfoOrNull : /\ IsMsg(InfoMsg("openconnect", id, i))
                            /\ IsMsg(InfoMsg("ticker", id, i))
  BY DEF IsMsg, InfoMsg
<1>5. \A e \in Endpoint, u \in Uuid : /\ IsMsg(CheckMsg("filteringcheck", id, e, u))
                                      /\ IsMsg(CheckMsg("callclient", id, e, u))
  BY DEF IsMsg, CheckMsg
<1>6. \A u \in Uuid : IsMsg(ResMsg(id, u))
  BY DEF IsMsg, ResMsg
<1>7. IsMsg(TickerRes(id))
  BY DEF IsMsg, TickerRes
<1> QED
  BY <1>1, <1>2, <1>3, <1>4, <1>5, <1>6, <1>7

LEMMA MsgFields ==
  ASSUME NEW m, IsMsg(m)
  PROVE  /\ m.type # "detect" => m.id \in ID
         /\ m.type = "detect" => m.id \in ID \cup {Null} /\ m.local \in Endpoint
         /\ m.type = "update" => IsHostList(m.hosts)
         /\ m.type \in {"proxyconnect", "helpconnect"} => m.info \in Info
         /\ m.type \in {"openconnect", "ticker"} => m.info \in InfoOrNull
         /\ m.type \in {"filteringcheck", "callclient"} => m.ep \in Endpoint /\ m.msgid \in Uuid
         /\ m.type = "callclientRes" => m.msgid \in Uuid
BY DEF IsMsg

(***************************************************************************)
(* The parts of a step that handlers have in common.                       *)
(***************************************************************************)
LEMMA ReaderRuns ==
  ASSUME TypeOK, NEW n \in Node, status[n] = "up"
  PROVE  /\ nodeID[n] \in ID
         /\ IsHostList(hostList[n])
         /\ localEpInfo[n] \in InfoOrNull
         /\ AreCounters(tickerNum[n])
         /\ LocalEp[n] \in Endpoint
BY ConfigAssumption DEF TypeOK, LifeOK, ProcessOK

LEMMA RouteInfoType ==
  ASSUME TypeOK, NEW n \in Node, status[n] = "up", NEW hl, IsHostList(hl)
  PROVE  AreQueues(RouteInfo(n, hl), Endpoint)
<1>1. IsMsg(UpdateMsg(nodeID[n], hl))
  BY ReaderRuns, MsgTypes
<1> QED
  BY <1>1, ToAllType DEF RouteInfo

LEMMA ReceiveType ==
  ASSUME TypeOK, NEW n \in Node, NEW ch \in DOMAIN net, NEW k \in Deliverable(ch),
         NEW type, Receive(n, ch, k, type)
  PROVE  /\ IsMsg(net[ch][k])
         /\ net[ch][k].type = type
         /\ ch.src \in Endpoint
         /\ status[n] = "up"
         /\ rcv[n] = Null
<1>1. AreQueues(net, Channel)
  BY DEF TypeOK, NetworkOK
<1> QED
  BY <1>1, DeliverableIsThere DEF Receive, CanRead, Channel

LEMMA HandleType ==
  ASSUME TypeOK, NEW n \in Node, NEW ch \in DOMAIN net, NEW k \in Deliverable(ch),
         NEW out, AreQueues(out, Endpoint), net[ch][k].id \in ID, Handle(n, ch, k, out)
  PROVE  NetworkOK' /\ heard' \in [Node -> SUBSET ID]
<1>1. AreQueues(Without(ch, k), Channel)
  BY WithoutType DEF TypeOK, NetworkOK
<1>2. AreQueues(net', Channel) /\ perm' \in [Node -> SUBSET Endpoint]
  BY <1>1, TransmitType DEF Handle, TypeOK, NetworkOK
<1>3. NetworkOK'
  BY <1>2 DEF Handle, TypeOK, NetworkOK
<1>4. heard' \in [Node -> SUBSET ID]
  BY DEF Handle, TypeOK, ProcessOK
<1> QED
  BY <1>3, <1>4

LEMMA StopType ==
  ASSUME TypeOK, NEW n \in Node, NEW how \in {"crashed", "aborted"}, Stop(n, how)
  PROVE  ProcessOK' /\ LifeOK'
<1>1. AreCounters(EmptyMap)
  BY DEF AreCounters, EmptyMap
<1>2. ProcessOK'
  BY <1>1, EmptyHostList, NumberAssumption DEF Stop, TypeOK, ProcessOK, InfoOrNull
<1>3. LifeOK'
  BY DEF Stop, TypeOK, ProcessOK, LifeOK, EmptyMap
<1> QED
  BY <1>2, <1>3

LEMMA AbortType ==
  ASSUME TypeOK, NEW n \in Node, NEW ch \in DOMAIN net, NEW k \in Deliverable(ch),
         Abort(n, ch, k)
  PROVE  TypeOK'
<1>1. AreQueues(Without(ch, k), Channel)
  BY WithoutType DEF TypeOK, NetworkOK
<1>2. NetworkOK'
  BY <1>1 DEF Abort, TypeOK, NetworkOK
<1> QED
  BY <1>2, StopType DEF Abort, TypeOK

LEMMA InitType == Init => TypeOK
<1> SUFFICES ASSUME Init PROVE TypeOK
  OBVIOUS
<1>1. AreCounters(EmptyMap)
  BY DEF AreCounters, EmptyMap
<1>2. ProcessOK
  BY <1>1, EmptyHostList, NumberAssumption DEF Init, ProcessOK, InfoOrNull
<1>3. NetworkOK
  BY NumberAssumption DEF Init, NetworkOK, AreQueues, EmptyMap
<1>4. LifeOK
  BY DEF Init, LifeOK, EmptyMap
<1> QED
  BY <1>2, <1>3, <1>4 DEF TypeOK

LEMMA BootType ==
  ASSUME TypeOK, NEW n \in Node, NEW id \in IDsOf[n], Boot(n, id)
  PROVE  TypeOK'
<1>1. id \in ID /\ LocalEp[n] \in Endpoint /\ RemoteServer[n] \in Endpoint
  BY ConfigAssumption
<1>2. NetworkOK'
  <2>1. AreQueues(To(RemoteServer[n], DetectMsg(id, LocalEp[n])), Endpoint)
    BY <1>1, MsgTypes, ToType
  <2>2. AreQueues(net', Channel) /\ perm' \in [Node -> SUBSET Endpoint]
    BY <2>1, TransmitType DEF Boot, TypeOK, NetworkOK
  <2> QED
    BY <1>1, <2>2 DEF Boot, TypeOK, NetworkOK
<1>3. ProcessOK'
  <2>1. localEpInfo' \in [Node -> InfoOrNull]
    BY <1>1, PublicInfoType DEF Boot, TypeOK, ProcessOK, InfoOrNull
  <2> QED
    BY <1>1, <2>1 DEF Boot, TypeOK, ProcessOK
<1>4. LifeOK'
  BY <1>1, ConfigAssumption DEF Boot, TypeOK, ProcessOK, LifeOK
<1> QED
  BY <1>2, <1>3, <1>4 DEF TypeOK

LEMMA RcvDetectPublicType ==
  ASSUME TypeOK, NEW n \in Node, NEW ch \in DOMAIN net, NEW k \in Deliverable(ch),
         RcvDetectPublic(n, ch, k)
  PROVE  TypeOK'
<1> DEFINE m  == net[ch][k]
           hl == ListSender(n, m.id, PublicInfo(ch.src))
<1>1. /\ m.id \in ID
      /\ ch.src \in Endpoint
      /\ status[n] = "up"
      /\ rcv[n] = Null
  BY ReceiveType, MsgFields DEF RcvDetectPublic
<1>2. IsHostList(hl)
  BY <1>1, ReaderRuns, PublicInfoType, AddTypes DEF ListSender
<1>3. NetworkOK' /\ heard' \in [Node -> SUBSET ID]
  BY <1>1, <1>2, RouteInfoType, HandleType DEF RcvDetectPublic
<1>4. ProcessOK'
  BY <1>2, <1>3 DEF RcvDetectPublic, TypeOK, ProcessOK
<1>5. LifeOK'
  BY <1>1 DEF RcvDetectPublic, TypeOK, ProcessOK, LifeOK
<1> QED
  BY <1>3, <1>4, <1>5 DEF TypeOK

LEMMA RcvDetectMappedType ==
  ASSUME TypeOK, NEW n \in Node, NEW ch \in DOMAIN net, NEW k \in Deliverable(ch),
         RcvDetectMapped(n, ch, k)
  PROVE  TypeOK'
<1> DEFINE m     == net[ch][k]
           hl    == MappedList(n, ch, m.id)
           check == CheckMsg("filteringcheck", nodeID[n], ch.src, MsgUuid(m.id))
           out   == AndThen(To(Prober(n, hl).ep, check), RouteInfo(n, hl))
<1>1. /\ m.id \in ID
      /\ ch.src \in Endpoint
      /\ status[n] = "up"
      /\ rcv[n] = Null
  BY ReceiveType, MsgFields DEF RcvDetectMapped
<1>2. IsHostList(hl)
  BY <1>1, ReaderRuns, PublicInfoType, AddTypes DEF MappedList, ListSender
<1>3. AreQueues(out, Endpoint)
  <2>1. IsMsg(check)
    BY <1>1, ReaderRuns, MsgTypes DEF Uuid, MsgUuid
  <2>2. Prober(n, hl) \in Info
    BY <1>1, <1>2, ReaderRuns, PublicNodeType DEF RcvDetectMapped, Prober, InfoOrNull
  <2>3. Prober(n, hl).ep \in Endpoint
    BY <2>2 DEF Info
  <2> QED
    BY <1>1, <1>2, <2>1, <2>3, ToType, RouteInfoType, AndThenType
<1>4. NetworkOK' /\ heard' \in [Node -> SUBSET ID]
  BY <1>1, <1>3, HandleType DEF RcvDetectMapped
<1>5. ProcessOK'
  <2>1. NewProbe(m.id) \in Probe
    BY <1>1, NumberAssumption DEF NewProbe, Probe, Uuid, KeyUuid
  <2> QED
    BY <1>2, <1>4, <2>1 DEF RcvDetectMapped, TypeOK, ProcessOK
<1>6. LifeOK'
  BY <1>1 DEF RcvDetectMapped, TypeOK, ProcessOK, LifeOK
<1> QED
  BY <1>4, <1>5, <1>6 DEF TypeOK

LEMMA RcvUpdateType ==
  ASSUME TypeOK, NEW n \in Node, NEW ch \in DOMAIN net, NEW k \in Deliverable(ch),
         RcvUpdate(n, ch, k)
  PROVE  TypeOK'
<1> DEFINE m == net[ch][k]
<1>1. /\ m.id \in ID
      /\ IsHostList(m.hosts)
      /\ ch.src \in Endpoint
      /\ status[n] = "up"
  BY ReceiveType, MsgFields DEF RcvUpdate
<1>2. m.hosts[nodeID[n]] \in Info
  BY <1>1 DEF RcvUpdate, Usable, IsHostList
<1>3. NetworkOK' /\ heard' \in [Node -> SUBSET ID]
  BY <1>1, SilenceType, HandleType DEF RcvUpdate
<1>4. IsLoop([from |-> m.id, remote |-> ch.src, hosts |-> m.hosts, items |-> DOMAIN m.hosts])
  BY <1>1 DEF RcvUpdate, Usable, IsLoop, IsHostList
<1>5. ProcessOK'
  BY <1>2, <1>3, <1>4 DEF RcvUpdate, TypeOK, ProcessOK, InfoOrNull
<1>6. LifeOK'
  BY <1>1, <1>2, ConfigAssumption DEF RcvUpdate, TypeOK, ProcessOK, LifeOK
<1> QED
  BY <1>3, <1>5, <1>6 DEF TypeOK

LEMMA RcvProxyconnectType ==
  ASSUME TypeOK, NEW n \in Node, NEW ch \in DOMAIN net, NEW k \in Deliverable(ch),
         RcvProxyconnect(n, ch, k)
  PROVE  TypeOK'
<1> DEFINE m    == net[ch][k]
           help == InfoMsg("helpconnect", nodeID[n], [m.info EXCEPT !.ep = ch.src])
<1>1. /\ m.id \in ID
      /\ m.info \in Info
      /\ ch.src \in Endpoint
      /\ status[n] = "up"
  BY ReceiveType, MsgFields DEF RcvProxyconnect
<1>2. m.info.ep \in Endpoint /\ [m.info EXCEPT !.ep = ch.src] \in Info
  BY <1>1 DEF Info
<1>3. AreQueues(To(m.info.ep, help), Endpoint)
  BY <1>1, <1>2, ReaderRuns, MsgTypes, ToType
<1>4. NetworkOK' /\ heard' \in [Node -> SUBSET ID]
  BY <1>1, <1>3, HandleType DEF RcvProxyconnect
<1>5. ProcessOK'
  BY <1>4 DEF RcvProxyconnect, TypeOK, ProcessOK
<1>6. LifeOK'
  BY DEF RcvProxyconnect, TypeOK, ProcessOK, LifeOK
<1> QED
  BY <1>4, <1>5, <1>6 DEF TypeOK

LEMMA RcvHelpconnectType ==
  ASSUME TypeOK, NEW n \in Node, NEW ch \in DOMAIN net, NEW k \in Deliverable(ch),
         RcvHelpconnect(n, ch, k)
  PROVE  TypeOK'
<1> DEFINE m    == net[ch][k]
           open == InfoMsg("openconnect", nodeID[n], localEpInfo[n])
<1>1. /\ m.id \in ID
      /\ m.info \in Info
      /\ status[n] = "up"
  BY ReceiveType, MsgFields DEF RcvHelpconnect
<1>2. m.info.ep \in Endpoint
  BY <1>1 DEF Info
<1>3. AreQueues(Repeatedly(m.info.ep, open), Endpoint)
  BY <1>1, <1>2, ReaderRuns, MsgTypes, ToType
<1>4. NetworkOK' /\ heard' \in [Node -> SUBSET ID]
  BY <1>1, <1>3, HandleType DEF RcvHelpconnect
<1>5. ProcessOK'
  BY <1>4 DEF RcvHelpconnect, TypeOK, ProcessOK
<1>6. LifeOK'
  BY DEF RcvHelpconnect, TypeOK, ProcessOK, LifeOK
<1> QED
  BY <1>4, <1>5, <1>6 DEF TypeOK

LEMMA RcvOpenconnectType ==
  ASSUME TypeOK, NEW n \in Node, NEW ch \in DOMAIN net, NEW k \in Deliverable(ch),
         RcvOpenconnect(n, ch, k)
  PROVE  TypeOK'
<1> DEFINE m == net[ch][k]
<1>1. /\ m.id \in ID
      /\ m.info \in Info
      /\ ch.src \in Endpoint
      /\ status[n] = "up"
  BY ReceiveType, MsgFields DEF RcvOpenconnect, InfoOrNull
<1>2. [m.info EXCEPT !.ep = ch.src] \in Info
  BY <1>1 DEF Info
<1>3. IsHostList(Opened(hostList[n], m.id, m.info, ch.src))
  BY <1>1, <1>2, ReaderRuns, AddTypes DEF Opened
<1>4. NetworkOK' /\ heard' \in [Node -> SUBSET ID]
  BY <1>1, SilenceType, HandleType DEF RcvOpenconnect
<1>5. ProcessOK'
  BY <1>3, <1>4 DEF RcvOpenconnect, TypeOK, ProcessOK
<1>6. LifeOK'
  BY <1>1 DEF RcvOpenconnect, TypeOK, ProcessOK, LifeOK
<1> QED
  BY <1>4, <1>5, <1>6 DEF TypeOK

LEMMA RcvFilteringcheckType ==
  ASSUME TypeOK, NEW n \in Node, NEW ch \in DOMAIN net, NEW k \in Deliverable(ch),
         RcvFilteringcheck(n, ch, k)
  PROVE  TypeOK'
<1> DEFINE m == net[ch][k]
<1>1. /\ m.id \in ID
      /\ m.ep \in Endpoint
      /\ m.msgid \in Uuid
      /\ ch.src \in Endpoint
      /\ status[n] = "up"
  BY ReceiveType, MsgFields DEF RcvFilteringcheck
<1>2. AreQueues(To(m.ep, CheckMsg("callclient", nodeID[n], ch.src, m.msgid)), Endpoint)
  BY <1>1, ReaderRuns, MsgTypes, ToType
<1>3. NetworkOK' /\ heard' \in [Node -> SUBSET ID]
  BY <1>1, <1>2, HandleType DEF RcvFilteringcheck
<1>4. ProcessOK'
  BY <1>3 DEF RcvFilteringcheck, TypeOK, ProcessOK
<1>5. LifeOK'
  BY DEF RcvFilteringcheck, TypeOK, ProcessOK, LifeOK
<1> QED
  BY <1>3, <1>4, <1>5 DEF TypeOK

LEMMA RcvCallclientType ==
  ASSUME TypeOK, NEW n \in Node, NEW ch \in DOMAIN net, NEW k \in Deliverable(ch),
         RcvCallclient(n, ch, k)
  PROVE  TypeOK'
<1> DEFINE m == net[ch][k]
<1>1. /\ m.id \in ID
      /\ m.ep \in Endpoint
      /\ m.msgid \in Uuid
      /\ status[n] = "up"
  BY ReceiveType, MsgFields DEF RcvCallclient
<1>2. AreQueues(Repeatedly(m.ep, ResMsg(nodeID[n], m.msgid)), Endpoint)
  BY <1>1, ReaderRuns, MsgTypes, ToType
<1>3. NetworkOK' /\ heard' \in [Node -> SUBSET ID]
  BY <1>1, <1>2, HandleType DEF RcvCallclient
<1>4. ProcessOK'
  BY <1>3 DEF RcvCallclient, TypeOK, ProcessOK
<1>5. LifeOK'
  BY DEF RcvCallclient, TypeOK, ProcessOK, LifeOK
<1> QED
  BY <1>3, <1>4, <1>5 DEF TypeOK

LEMMA RcvCallclientResType ==
  ASSUME TypeOK, NEW n \in Node, NEW ch \in DOMAIN net, NEW k \in Deliverable(ch),
         RcvCallclientRes(n, ch, k)
  PROVE  TypeOK'
<1> DEFINE m  == net[ch][k]
           hl == SetFiltering(hostList[n], {m.id}, "Nonfilter")
<1>1. m.id \in ID /\ status[n] = "up"
  BY ReceiveType, MsgFields DEF RcvCallclientRes
<1>2. IsHostList(hl)
  BY <1>1, ReaderRuns, SetFilteringType DEF Filtering
<1>3. NetworkOK' /\ heard' \in [Node -> SUBSET ID]
  BY <1>1, <1>2, RouteInfoType, HandleType DEF RcvCallclientRes
<1>4. ProcessOK'
  BY <1>2, <1>3 DEF RcvCallclientRes, Settled, TypeOK, ProcessOK
<1>5. LifeOK'
  BY <1>1 DEF RcvCallclientRes, TypeOK, ProcessOK, LifeOK
<1> QED
  BY <1>3, <1>4, <1>5 DEF TypeOK

LEMMA ResetType ==
  ASSUME NEW counters, AreCounters(counters), NEW e
  PROVE  AreCounters(Reset(counters, e))
BY DEF AreCounters, Reset, Restrict

LEMMA RcvTickerType ==
  ASSUME TypeOK, NEW n \in Node, NEW ch \in DOMAIN net, NEW k \in Deliverable(ch),
         RcvTicker(n, ch, k)
  PROVE  TypeOK'
<1> DEFINE m  == net[ch][k]
           hl == IF m.info = Null THEN hostList[n] ELSE PutNode(hostList[n], m.id, m.info)
<1>1. /\ m.id \in ID
      /\ m.info \in InfoOrNull
      /\ ch.src \in Endpoint
      /\ status[n] = "up"
  BY ReceiveType, MsgFields DEF RcvTicker
<1>2. IsHostList(hl)
  BY <1>1, ReaderRuns, AddTypes DEF InfoOrNull
<1>3. AreCounters(Reset(tickerNum[n], ch.src))
  BY <1>1, ReaderRuns, ResetType
<1>4. AreQueues(To(ch.src, TickerRes(nodeID[n])), Endpoint)
  BY <1>1, ReaderRuns, MsgTypes, ToType
<1>5. NetworkOK' /\ heard' \in [Node -> SUBSET ID]
  BY <1>1, <1>4, HandleType DEF RcvTicker
<1>6. ProcessOK'
  BY <1>2, <1>3, <1>5 DEF RcvTicker, TypeOK, ProcessOK
<1>7. LifeOK'
  BY <1>1 DEF RcvTicker, TypeOK, ProcessOK, LifeOK
<1> QED
  BY <1>5, <1>6, <1>7 DEF TypeOK

LEMMA RcvTickerResType ==
  ASSUME TypeOK, NEW n \in Node, NEW ch \in DOMAIN net, NEW k \in Deliverable(ch),
         RcvTickerRes(n, ch, k)
  PROVE  TypeOK'
<1>1. net[ch][k].id \in ID /\ status[n] = "up"
  BY ReceiveType, MsgFields DEF RcvTickerRes
<1>2. AreCounters(Reset(tickerNum[n], ch.src))
  BY <1>1, ReaderRuns, ResetType
<1>3. NetworkOK' /\ heard' \in [Node -> SUBSET ID]
  BY <1>1, SilenceType, HandleType DEF RcvTickerRes
<1>4. ProcessOK'
  BY <1>2, <1>3 DEF RcvTickerRes, TypeOK, ProcessOK
<1>5. LifeOK'
  BY DEF RcvTickerRes, TypeOK, ProcessOK, LifeOK
<1> QED
  BY <1>3, <1>4, <1>5 DEF TypeOK

LEMMA RcvTruncatedType ==
  ASSUME TypeOK, NEW n \in Node, NEW ch \in DOMAIN net, NEW k \in Deliverable(ch),
         RcvTruncated(n, ch, k)
  PROVE  TypeOK'
<1>1. AreQueues(Without(ch, k), Channel)
  BY WithoutType DEF TypeOK, NetworkOK
<1> QED
  BY <1>1 DEF RcvTruncated, process, TypeOK, ProcessOK, NetworkOK, LifeOK

(***************************************************************************)
(* The update loop.                                                        *)
(***************************************************************************)
LEMMA LoopType ==
  ASSUME TypeOK, NEW n \in Node, Looping(n)
  PROVE  /\ status[n] = "up"
         /\ IsLoop(rcv[n])
         /\ Item(n) \in rcv[n].items
         /\ ItemObj(n) \in Info
         /\ localEpInfo[n] \in Info
<1>1. status[n] = "up" /\ IsLoop(rcv[n]) /\ localEpInfo[n] \in Info
  BY DEF Looping, TypeOK, ProcessOK, LifeOK, InfoOrNull
<1>2. Item(n) \in rcv[n].items
  BY <1>1, FirstAndLast DEF IsLoop, Item
<1>3. ItemObj(n) \in Info
  BY <1>1, <1>2 DEF IsLoop, IsHostList, ItemObj
<1> QED
  BY <1>1, <1>2, <1>3

LEMMA NextItemType ==
  ASSUME TypeOK, NEW n \in Node, Looping(n), NEW remote \in Endpoint, NextItem(n, remote)
  PROVE  /\ DOMAIN rcv' = Node
         /\ \A x \in Node : rcv'[x] = Null \/ IsLoop(rcv'[x])
         /\ \A x \in Node : rcv'[x] # Null => rcv[x] # Null /\ rcv'[x].from = rcv[x].from
<1> DEFINE rest == rcv[n].items \ {Item(n)}
<1>1. IsLoop(rcv[n])
  BY LoopType
<1>2. CASE rest = {}
  BY <1>2 DEF NextItem, TypeOK, ProcessOK
<1>3. CASE rest # {}
  <2>1. rcv' = [rcv EXCEPT ![n] = [@ EXCEPT !.items = rest, !.remote = remote]]
    BY <1>3 DEF NextItem
  <2>2. IsLoop([rcv[n] EXCEPT !.items = rest, !.remote = remote])
    BY <1>1, <1>3 DEF IsLoop
  <2>3. [rcv[n] EXCEPT !.items = rest, !.remote = remote].from = rcv[n].from
    BY <1>1 DEF IsLoop
  <2> QED
    BY <2>1, <2>2, <2>3 DEF TypeOK, ProcessOK, Looping
<1> QED
  BY <1>2, <1>3

LEMMA FileItemType ==
  ASSUME TypeOK, NEW n \in Node, Looping(n), NEW id \in ID, FileItem(n, id)
  PROVE  TypeOK'
<1>1. IsHostList(AddNewNode(hostList[n], id, ItemObj(n)))
  BY LoopType, ReaderRuns, AddTypes
<1>2. rcv[n].remote \in Endpoint
  BY LoopType DEF IsLoop
<1>3. /\ DOMAIN rcv' = Node
      /\ \A x \in Node : rcv'[x] = Null \/ IsLoop(rcv'[x])
      /\ \A x \in Node : rcv'[x] # Null => rcv[x] # Null
  BY <1>2, NextItemType DEF FileItem
<1>4. ProcessOK'
  BY <1>1, <1>3 DEF FileItem, TypeOK, ProcessOK
<1>5. NetworkOK'
  BY DEF FileItem, TypeOK, NetworkOK
<1>6. LifeOK'
  BY <1>3, LoopType DEF FileItem, TypeOK, ProcessOK, LifeOK
<1> QED
  BY <1>4, <1>5, <1>6 DEF TypeOK

LEMMA ConnectType ==
  ASSUME TypeOK, NEW n \in Node, Looping(n), NEW out, AreQueues(out, Endpoint),
         NEW remote \in Endpoint, Connect(n, out, remote)
  PROVE  TypeOK'
<1>1. /\ DOMAIN rcv' = Node
      /\ \A x \in Node : rcv'[x] = Null \/ IsLoop(rcv'[x])
      /\ \A x \in Node : rcv'[x] # Null => rcv[x] # Null
  BY NextItemType DEF Connect
<1>2. AreQueues(net', Channel) /\ perm' \in [Node -> SUBSET Endpoint]
  BY TransmitType DEF Connect, TypeOK, NetworkOK
<1>3. ProcessOK'
  BY <1>1 DEF Connect, TypeOK, ProcessOK
<1>4. NetworkOK'
  BY <1>2 DEF Connect, TypeOK, NetworkOK
<1>5. LifeOK'
  BY <1>1 DEF Connect, TypeOK, LifeOK
<1> QED
  BY <1>3, <1>4, <1>5 DEF TypeOK

LEMMA OpenItemType ==
  ASSUME TypeOK, NEW n \in Node, Looping(n)
  PROVE  AreQueues(OpenItem(n), Endpoint)
<1>1. ItemObj(n).ep \in Endpoint
  BY LoopType DEF Info
<1>2. IsMsg(InfoMsg("openconnect", nodeID[n], localEpInfo[n]))
  BY LoopType, ReaderRuns, MsgTypes
<1> QED
  BY <1>1, <1>2, ToType DEF OpenItem

LEMMA HelperType ==
  ASSUME TypeOK, NEW n \in Node, Looping(n)
  PROVE  Helper(n) \in Endpoint
<1> DEFINE public == PublicIDs(hostList[n])
<1>1. IsHostList(hostList[n]) /\ rcv[n].remote \in Endpoint
  BY LoopType, ReaderRuns DEF IsLoop
<1>2. public \in SUBSET ID /\ public \subseteq DOMAIN hostList[n]
  BY <1>1 DEF PublicIDs, IsHostList
<1>3. ASSUME public # {} PROVE hostList[n][Max(public)].ep \in Endpoint
  <2>1. Max(public) \in DOMAIN hostList[n]
    BY <1>2, <1>3, FirstAndLast
  <2> QED
    BY <1>1, <2>1 DEF IsHostList, Info
<1> QED
  BY <1>1, <1>3 DEF Helper

LEMMA UpdateLoopType ==
  ASSUME TypeOK, NEW n \in Node, UpdateLoop(n)
  PROVE  TypeOK'
<1>1. Looping(n)
  BY DEF UpdateLoop, UpdateSelf, UpdateSender, UpdatePublic, UpdateProxy
<1>2. rcv[n].remote \in Endpoint /\ rcv[n].from \in ID /\ nodeID[n] \in ID
  BY <1>1, LoopType, ReaderRuns DEF IsLoop
<1>3. CASE UpdateSelf(n)
  BY <1>1, <1>2, <1>3, FileItemType DEF UpdateSelf
<1>4. CASE UpdateSender(n)
  BY <1>1, <1>2, <1>4, FileItemType DEF UpdateSender
<1>5. CASE UpdatePublic(n)
  BY <1>1, <1>2, <1>5, OpenItemType, ConnectType DEF UpdatePublic
<1>6. CASE UpdateProxy(n)
  <2> DEFINE help == To(Helper(n), InfoMsg("proxyconnect", nodeID[n], ItemObj(n)))
  <2>1. AreQueues(help, Endpoint)
    BY <1>1, <1>2, LoopType, HelperType, MsgTypes, ToType
  <2>2. AreQueues(AndThen(help, OpenItem(n)), Endpoint)
    BY <1>1, <2>1, OpenItemType, AndThenType
  <2> QED
    BY <1>1, <1>6, <2>1, <2>2, HelperType, ConnectType DEF UpdateProxy
<1> QED
  BY <1>3, <1>4, <1>5, <1>6 DEF UpdateLoop

(***************************************************************************)
(* The timer.                                                              *)
(***************************************************************************)
LEMMA TickedType ==
  ASSUME NEW counters, AreCounters(counters), NEW hl, IsHostList(hl), NEW self
  PROVE  AreCounters(Ticked(counters, hl, self))
<1> DEFINE kept  == DOMAIN counters \ DeadEps(counters)
           at(e) == {i \in DOMAIN hl \ {self} : hl[i].ep = e}
           eps   == {hl[i].ep : i \in DOMAIN hl \ {self}}
           before(e) == IF e \in kept THEN counters[e] ELSE 0
           ticked == Ticked(counters, hl, self)
<1>1. ticked = [e \in kept \cup eps |-> before(e) + Cardinality(at(e))]
  BY DEF Ticked
<1>2. kept \subseteq Endpoint /\ eps \subseteq Endpoint
  BY DEF AreCounters, IsHostList, Info
<1>3. ASSUME NEW e \in kept \cup eps
      PROVE  before(e) + Cardinality(at(e)) \in Nat \ {0}
  <2>1. at(e) \in SUBSET ID
    BY DEF IsHostList
  <2>2. Cardinality(at(e)) \in Nat /\ (at(e) # {} => Cardinality(at(e)) # 0)
    BY <2>1, SomeIDs
  <2>3. CASE e \in kept
    <3>1. counters[e] \in Nat \ {0}
      BY <2>3 DEF AreCounters
    <3> QED
      BY <2>2, <2>3, <3>1
  <2>4. CASE e \notin kept
    <3>1. at(e) # {}
      BY <2>4
    <3> QED
      BY <2>2, <2>4, <3>1
  <2> QED
    BY <2>3, <2>4
<1> HIDE DEF kept, at, eps, before
<1> QED
  BY <1>1, <1>2, <1>3 DEF AreCounters

LEMMA CheckedType ==
  ASSUME TypeOK, NEW n \in Node, status[n] = "up"
  PROVE  IsHostList(Checked(n)) /\ DOMAIN Checked(n) \subseteq DOMAIN hostList[n]
<1> DEFINE ids == {p.id : p \in Expired(fCkTimeMap[n])}
           hl  == SetFiltering(hostList[n], ids, "isFilter")
<1>1. IsHostList(hl)
  BY ReaderRuns, SetFilteringType DEF Filtering
<1>2. DOMAIN hl = DOMAIN hostList[n]
  BY DEF SetFiltering
<1> HIDE DEF hl
<1>3. Checked(n) = EraseAt(hl, DeadEps(tickerNum[n]))
  BY DEF Checked, hl
<1> QED
  BY <1>1, <1>2, <1>3, EraseDomain, EraseAtType

LEMMA OlderType ==
  ASSUME NEW probes \in SUBSET Probe
  PROVE  Older(probes \ Expired(probes)) \in SUBSET Probe
<1>1. ASSUME NEW p \in probes \ Expired(probes)
      PROVE  [p EXCEPT !.age = @ + 1] \in Probe
  BY NumberAssumption DEF Expired, Probe
<1> QED
  BY <1>1 DEF Older

LEMMA TimerRoundType ==
  ASSUME TypeOK, NEW n \in Node, TimerRound(n)
  PROVE  TypeOK'
<1> DEFINE hl      == Checked(n)
           tickers == ToAll(hl, nodeID[n], InfoMsg("ticker", nodeID[n], localEpInfo[n]))
           updates == IF NeedNotify(n) THEN RouteInfo(n, hl) ELSE Silence
           detect  == IF Alone(n, hl) >= DetectRounds
                      THEN To(RemoteServer[n], DetectMsg(nodeID[n], LocalEp[n]))
                      ELSE Silence
<1>1. status[n] = "up"
  BY DEF TimerRound
<1>2. IsHostList(hl)
  BY <1>1, CheckedType
<1>3. AreQueues(tickers, Endpoint)
  BY <1>1, <1>2, ReaderRuns, MsgTypes, ToAllType
<1>4. AreQueues(updates, Endpoint)
  BY <1>1, <1>2, RouteInfoType, SilenceType
<1>5. AreQueues(detect, Endpoint)
  <2>1. RemoteServer[n] \in Endpoint
    BY ConfigAssumption
  <2>2. IsMsg(DetectMsg(nodeID[n], LocalEp[n]))
    BY <1>1, ReaderRuns, MsgTypes
  <2> QED
    BY <2>1, <2>2, ToType, SilenceType
<1>6. AreQueues(AndThen(AndThen(tickers, updates), detect), Endpoint)
  BY <1>3, <1>4, <1>5, AndThenType
<1>7. NetworkOK'
  <2>1. AreQueues(net', Channel) /\ perm' \in [Node -> SUBSET Endpoint]
    BY <1>6, TransmitType DEF TimerRound, TypeOK, NetworkOK
  <2> QED
    BY <2>1 DEF TimerRound, TypeOK, NetworkOK
<1>8. ProcessOK'
  <2>1. AreCounters(Ticked(tickerNum[n], hl, nodeID[n]))
    BY <1>1, <1>2, ReaderRuns, TickedType
  <2>2. Older(fCkTimeMap[n] \ Expired(fCkTimeMap[n])) \in SUBSET Probe
    BY OlderType DEF TypeOK, ProcessOK
  <2>3. Alone(n, hl) \in Nat
    <3>1. count[n] \in Nat
      BY NumberAssumption DEF TypeOK, ProcessOK
    <3> QED
      BY <3>1 DEF Alone
  <2>4. count' \in [Node -> 0 .. DetectRounds - 1]
    BY <2>3, NumberAssumption DEF TimerRound, TypeOK, ProcessOK
  <2> HIDE DEF hl
  <2> QED
    BY <1>2, <2>1, <2>2, <2>4 DEF TimerRound, TypeOK, ProcessOK, hl
<1>9. LifeOK'
  BY <1>1 DEF TimerRound, TypeOK, ProcessOK, LifeOK
<1> QED
  BY <1>7, <1>8, <1>9 DEF TypeOK

(***************************************************************************)
(* The environment.                                                        *)
(***************************************************************************)
LEMMA BindType ==
  ASSUME TypeOK, NEW ch \in BindChannels, Bind(ch)
  PROVE  TypeOK'
<1>1. ch \in Channel /\ ch.src \in Endpoint
  BY ConfigAssumption DEF Channel
<1>2. AreQueues(To(ch, DetectMsg(Null, ch.src)), Channel)
  <2>1. IsMsg(DetectMsg(Null, ch.src))
    BY <1>1 DEF IsMsg, DetectMsg
  <2> QED
    BY <1>1, <2>1, ToType
<1>3. AreQueues(net', Channel)
  BY <1>2, AndThenType DEF Bind, TypeOK, NetworkOK
<1>4. budget' \in [loss : Nat, dup : Nat, crash : Nat, rounds : Nat,
                   bind : SUBSET BindChannels]
  BY DEF Bind, TypeOK, NetworkOK
<1> QED
  BY <1>3, <1>4 DEF Bind, process, TypeOK, ProcessOK, NetworkOK, LifeOK

LEMMA CrashType ==
  ASSUME TypeOK, NEW n \in Node, Crash(n)
  PROVE  TypeOK'
<1>1. NetworkOK'
  BY DEF Crash, TypeOK, NetworkOK
<1> QED
  BY <1>1, StopType DEF Crash, TypeOK

LEMMA NetworkStepType ==
  ASSUME TypeOK, NEW ch \in DOMAIN net, NEW k \in Deliverable(ch),
         Lose(ch, k) \/ Duplicate(ch, k) \/ Undeliverable(ch, k)
  PROVE  TypeOK'
<1>1. AreQueues(net, Channel)
  BY DEF TypeOK, NetworkOK
<1>2. AreQueues(Without(ch, k), Channel)
  BY <1>1, WithoutType
<1>3. AreQueues(AndThen(net, To(ch, net[ch][k])), Channel)
  BY <1>1, DeliverableIsThere, ToType, AndThenType
<1>4. NetworkOK'
  BY <1>2, <1>3 DEF Lose, Duplicate, Undeliverable, TypeOK, NetworkOK
<1> QED
  BY <1>4 DEF Lose, Duplicate, Undeliverable, process, TypeOK, ProcessOK, LifeOK

(***************************************************************************)
(* Every step.                                                             *)
(***************************************************************************)
LEMMA HandleReceiveType ==
  ASSUME TypeOK, NEW n \in Node, NEW ch \in DOMAIN net, NEW k \in Deliverable(ch),
         HandleReceive(n, ch, k)
  PROVE  TypeOK'
<1>1. CASE Detecting(n, ch, k)
  BY <1>1, AbortType, RcvDetectPublicType, RcvDetectMappedType
     DEF Detecting, RcvDetectNoID, RcvDetectNoProber
<1>2. CASE Updating(n, ch, k)
  BY <1>2, AbortType, RcvUpdateType, RcvTruncatedType DEF Updating, RcvUpdateFatal
<1>3. CASE Punching(n, ch, k)
  BY <1>3, AbortType, RcvProxyconnectType, RcvHelpconnectType, RcvOpenconnectType
     DEF Punching, RcvOpenconnectNull
<1>4. CASE Probing(n, ch, k)
  BY <1>4, RcvFilteringcheckType, RcvCallclientType, RcvCallclientResType DEF Probing
<1>5. CASE Ticking(n, ch, k)
  BY <1>5, RcvTickerType, RcvTickerResType DEF Ticking
<1> QED
  BY <1>1, <1>2, <1>3, <1>4, <1>5 DEF HandleReceive

LEMMA NextType == TypeOK /\ [Next]_vars => TypeOK'
<1> SUFFICES ASSUME TypeOK, [Next]_vars PROVE TypeOK'
  OBVIOUS
<1>1. CASE \E n \in Node : Start(n) \/ UpdateLoop(n) \/ TimerRound(n)
  BY <1>1, BootType, UpdateLoopType, TimerRoundType DEF Start
<1>2. CASE \E ch \in BindChannels : Bind(ch)
  BY <1>2, BindType
<1>3. CASE Arrival
  BY <1>3, HandleReceiveType, NetworkStepType DEF Arrival
<1>4. CASE Fault
  BY <1>4, CrashType, NetworkStepType DEF Fault
<1>5. CASE UNCHANGED vars
  BY <1>5 DEF vars, process, TypeOK, ProcessOK, NetworkOK, LifeOK
<1> QED
  BY <1>1, <1>2, <1>3, <1>4, <1>5 DEF Next

(* The state of every node and of the network keeps its types, whatever is *)
(* lost, repeated, reordered or killed; TypeOK is inductive as it stands.  *)
THEOREM TypeInvariant == Spec => []TypeOK
BY InitType, NextType, PTL DEF Spec

(***************************************************************************)
(* Who is listed.  An openconnect, a ticker or a detect lists its sender,  *)
(* whose datagram is being handled; the loop of an update lists the sender *)
(* of that update, handled when the loop began.                            *)
(***************************************************************************)
HeardFrom == \A n \in Node : rcv[n] # Null => rcv[n].from \in heard[n]

HeardInv == TypeOK /\ OnlyHeardPeers /\ HeardFrom

(* A handler that adds at most the sender and the node itself to the list. *)
LEMMA HandlerLists ==
  ASSUME HeardInv, NEW n \in Node, NEW ch, NEW k, NEW out, NEW hl,
         Handle(n, ch, k, out),
         DOMAIN hl \subseteq DOMAIN hostList[n] \cup {nodeID[n], net[ch][k].id},
         hostList' = [hostList EXCEPT ![n] = hl],
         UNCHANGED <<nodeID, rcv>>
  PROVE  OnlyHeardPeers' /\ HeardFrom'
<1>1. heard' = [heard EXCEPT ![n] = @ \cup {net[ch][k].id}]
  BY DEF Handle
<1>2. DOMAIN heard = Node /\ DOMAIN hostList = Node
  BY DEF HeardInv, TypeOK, ProcessOK
<1>3. OnlyHeardPeers'
  BY <1>1, <1>2 DEF HeardInv, OnlyHeardPeers
<1>4. HeardFrom'
  BY <1>1, <1>2 DEF HeardInv, HeardFrom
<1> QED
  BY <1>3, <1>4

(* A handler that leaves the list alone. *)
LEMMA HandlerOnlySends ==
  ASSUME HeardInv, NEW n \in Node, NEW ch, NEW k, NEW out,
         Handle(n, ch, k, out), UNCHANGED <<nodeID, hostList, rcv>>
  PROVE  OnlyHeardPeers' /\ HeardFrom'
BY DEF Handle, HeardInv, TypeOK, ProcessOK, OnlyHeardPeers, HeardFrom

LEMMA AbortLists ==
  ASSUME HeardInv, NEW n \in Node, NEW how, Stop(n, how)
  PROVE  OnlyHeardPeers' /\ HeardFrom'
BY DEF Stop, HeardInv, TypeOK, ProcessOK, OnlyHeardPeers, HeardFrom, EmptyMap

LEMMA DetectLists ==
  ASSUME HeardInv, NEW n \in Node, NEW ch, NEW k, Detecting(n, ch, k)
  PROVE  OnlyHeardPeers' /\ HeardFrom'
<1> DEFINE m == net[ch][k]
<1>1. \A info : DOMAIN ListSender(n, m.id, info) = DOMAIN hostList[n] \cup {m.id, nodeID[n]}
  BY DEF ListSender, AddNewNode, PutNode
<1>2. CASE RcvDetectPublic(n, ch, k)
  <2> DEFINE hl == ListSender(n, m.id, PublicInfo(ch.src))
  <2>1. DOMAIN hl \subseteq DOMAIN hostList[n] \cup {nodeID[n], m.id}
    BY <1>1
  <2> QED
    BY <1>2, <2>1, HandlerLists DEF RcvDetectPublic
<1>3. CASE RcvDetectMapped(n, ch, k)
  <2> DEFINE hl == MappedList(n, ch, m.id)
  <2>1. DOMAIN hl \subseteq DOMAIN hostList[n] \cup {nodeID[n], m.id}
    BY <1>1 DEF MappedList
  <2> QED
    BY <1>3, <2>1, HandlerLists DEF RcvDetectMapped
<1>4. CASE RcvDetectNoID(n, ch, k) \/ RcvDetectNoProber(n, ch, k)
  BY <1>4, AbortLists DEF RcvDetectNoID, RcvDetectNoProber, Abort
<1> QED
  BY <1>2, <1>3, <1>4 DEF Detecting

LEMMA UpdateLists ==
  ASSUME HeardInv, NEW n \in Node, NEW ch, NEW k, Updating(n, ch, k)
  PROVE  OnlyHeardPeers' /\ HeardFrom'
<1>1. CASE RcvUpdateFatal(n, ch, k)
  BY <1>1, AbortLists DEF RcvUpdateFatal, Abort
<1>2. CASE RcvUpdate(n, ch, k)
  <2>1. heard' = [heard EXCEPT ![n] = @ \cup {net[ch][k].id}]
    BY <1>2 DEF RcvUpdate, Handle
  <2>2. OnlyHeardPeers'
    BY <1>2, <2>1 DEF RcvUpdate, HeardInv, TypeOK, ProcessOK, OnlyHeardPeers
  <2>3. HeardFrom'
    BY <1>2, <2>1 DEF RcvUpdate, HeardInv, TypeOK, ProcessOK, HeardFrom
  <2> QED
    BY <2>2, <2>3
<1>3. CASE RcvTruncated(n, ch, k)
  BY <1>3 DEF RcvTruncated, process, HeardInv, OnlyHeardPeers, HeardFrom
<1> QED
  BY <1>1, <1>2, <1>3 DEF Updating

LEMMA PunchingLists ==
  ASSUME HeardInv, NEW n \in Node, NEW ch, NEW k, Punching(n, ch, k)
  PROVE  OnlyHeardPeers' /\ HeardFrom'
<1> DEFINE m == net[ch][k]
<1>1. CASE RcvProxyconnect(n, ch, k)
  BY <1>1, HandlerOnlySends DEF RcvProxyconnect
<1>2. CASE RcvHelpconnect(n, ch, k)
  BY <1>2, HandlerOnlySends DEF RcvHelpconnect
<1>3. CASE RcvOpenconnect(n, ch, k)
  <2> DEFINE hl == Opened(hostList[n], m.id, m.info, ch.src)
  <2>1. DOMAIN hl \subseteq DOMAIN hostList[n] \cup {nodeID[n], m.id}
    BY DEF Opened, AddNewNode, PutNode
  <2>2. hostList' = [hostList EXCEPT ![n] = hl]
    BY <1>3 DEF RcvOpenconnect
  <2> HIDE DEF hl
  <2> QED
    BY <1>3, <2>1, <2>2, HandlerLists DEF RcvOpenconnect
<1>4. CASE RcvOpenconnectNull(n, ch, k)
  BY <1>4, AbortLists DEF RcvOpenconnectNull, Abort
<1> QED
  BY <1>1, <1>2, <1>3, <1>4 DEF Punching

LEMMA ProbingLists ==
  ASSUME HeardInv, NEW n \in Node, NEW ch, NEW k, Probing(n, ch, k)
  PROVE  OnlyHeardPeers' /\ HeardFrom'
<1>1. CASE RcvFilteringcheck(n, ch, k)
  BY <1>1, HandlerOnlySends DEF RcvFilteringcheck
<1>2. CASE RcvCallclient(n, ch, k)
  BY <1>2, HandlerOnlySends DEF RcvCallclient
<1>3. CASE RcvCallclientRes(n, ch, k)
  <2> DEFINE hl == SetFiltering(hostList[n], {net[ch][k].id}, "Nonfilter")
  <2>1. DOMAIN hl \subseteq DOMAIN hostList[n] \cup {nodeID[n], net[ch][k].id}
    BY FilteringDomain
  <2>2. /\ hostList' = [hostList EXCEPT ![n] = hl]
        /\ Handle(n, ch, k, RouteInfo(n, hl))
        /\ UNCHANGED <<nodeID, rcv>>
    BY <1>3 DEF RcvCallclientRes
  <2> HIDE DEF hl
  <2> QED
    BY <2>1, <2>2, HandlerLists
<1> QED
  BY <1>1, <1>2, <1>3 DEF Probing

LEMMA TickingLists ==
  ASSUME HeardInv, NEW n \in Node, NEW ch, NEW k, Ticking(n, ch, k)
  PROVE  OnlyHeardPeers' /\ HeardFrom'
<1> DEFINE m == net[ch][k]
<1>1. CASE RcvTicker(n, ch, k)
  <2> DEFINE hl == IF m.info = Null THEN hostList[n] ELSE PutNode(hostList[n], m.id, m.info)
  <2>1. DOMAIN hl \subseteq DOMAIN hostList[n] \cup {nodeID[n], m.id}
    BY DEF PutNode
  <2>2. hostList' = [hostList EXCEPT ![n] = hl]
    BY <1>1 DEF RcvTicker
  <2> HIDE DEF hl
  <2> QED
    BY <1>1, <2>1, <2>2, HandlerLists DEF RcvTicker
<1>2. CASE RcvTickerRes(n, ch, k)
  BY <1>2, HandlerOnlySends DEF RcvTickerRes
<1> QED
  BY <1>1, <1>2 DEF Ticking

LEMMA UpdateLoopLists ==
  ASSUME HeardInv, NEW n \in Node, UpdateLoop(n)
  PROVE  OnlyHeardPeers' /\ HeardFrom'
<1>1. Looping(n) /\ TypeOK
  BY DEF UpdateLoop, UpdateSelf, UpdateSender, UpdatePublic, UpdateProxy, HeardInv
<1>2. rcv[n].remote \in Endpoint /\ Helper(n) \in Endpoint
  BY <1>1, LoopType, HelperType DEF IsLoop
<1>3. \A x \in Node : rcv'[x] # Null => rcv[x] # Null /\ rcv'[x].from = rcv[x].from
  BY <1>1, <1>2, NextItemType
     DEF UpdateLoop, UpdateSelf, UpdateSender, UpdatePublic, UpdateProxy, FileItem, Connect
<1>4. UNCHANGED <<heard, nodeID>>
  BY DEF UpdateLoop, UpdateSelf, UpdateSender, UpdatePublic, UpdateProxy, FileItem, Connect
<1>5. HeardFrom'
  BY <1>3, <1>4 DEF HeardInv, HeardFrom
<1>6. OnlyHeardPeers'
  <2>1. ASSUME NEW id \in {nodeID[n], rcv[n].from}, FileItem(n, id)
        PROVE  OnlyHeardPeers'
    <3>1. DOMAIN AddNewNode(hostList[n], id, ItemObj(n)) = DOMAIN hostList[n] \cup {id}
      BY DEF AddNewNode, PutNode
    <3>2. id \in {nodeID[n]} \cup heard[n]
      BY <1>1 DEF Looping, HeardInv, HeardFrom
    <3>3. hostList' = [hostList EXCEPT ![n] = AddNewNode(hostList[n], id, ItemObj(n))]
      BY <2>1 DEF FileItem
    <3> QED
      BY <1>1, <1>4, <3>1, <3>2, <3>3 DEF HeardInv, OnlyHeardPeers, TypeOK, ProcessOK
  <2>2. CASE UpdateSelf(n) \/ UpdateSender(n)
    BY <2>1, <2>2 DEF UpdateSelf, UpdateSender
  <2>3. CASE UpdatePublic(n) \/ UpdateProxy(n)
    BY <2>3, <1>4 DEF UpdatePublic, UpdateProxy, Connect, HeardInv, OnlyHeardPeers
  <2> QED
    BY <2>2, <2>3 DEF UpdateLoop
<1> QED
  BY <1>5, <1>6

LEMMA NextLists == HeardInv /\ [Next]_vars => HeardInv'
<1> SUFFICES ASSUME HeardInv, [Next]_vars PROVE OnlyHeardPeers' /\ HeardFrom'
  BY NextType DEF HeardInv
<1>1. ASSUME NEW n \in Node, Start(n) PROVE OnlyHeardPeers' /\ HeardFrom'
  <2>1. \E id \in IDsOf[n] : Boot(n, id)
    BY <1>1 DEF Start
  <2>2. DOMAIN hostList[n] = {} /\ UNCHANGED <<hostList, rcv, heard>>
    BY <2>1 DEF Boot, HeardInv, TypeOK, LifeOK
  <2>3. \A x \in Node \ {n} : nodeID'[x] = nodeID[x]
    BY <2>1 DEF Boot, HeardInv, TypeOK, ProcessOK
  <2> QED
    BY <2>2, <2>3 DEF HeardInv, OnlyHeardPeers, HeardFrom
<1>2. ASSUME NEW n \in Node, TimerRound(n) PROVE OnlyHeardPeers' /\ HeardFrom'
  <2>1. DOMAIN Checked(n) \subseteq DOMAIN hostList[n]
    BY <1>2, CheckedType DEF TimerRound, HeardInv
  <2>2. /\ hostList' = [hostList EXCEPT ![n] = Checked(n)]
        /\ UNCHANGED <<nodeID, rcv, heard>>
    BY <1>2 DEF TimerRound
  <2> QED
    BY <2>1, <2>2 DEF HeardInv, TypeOK, ProcessOK, OnlyHeardPeers, HeardFrom
<1>3. ASSUME UNCHANGED <<nodeID, hostList, rcv, heard>> PROVE OnlyHeardPeers' /\ HeardFrom'
  BY <1>3 DEF HeardInv, OnlyHeardPeers, HeardFrom
<1>4. ASSUME NEW n \in Node, NEW ch, NEW k, HandleReceive(n, ch, k)
      PROVE  OnlyHeardPeers' /\ HeardFrom'
  BY <1>4, DetectLists, UpdateLists, PunchingLists, ProbingLists, TickingLists
     DEF HandleReceive
<1>5. CASE \E n \in Node : Start(n) \/ UpdateLoop(n) \/ TimerRound(n)
  BY <1>1, <1>2, <1>5, UpdateLoopLists
<1>6. CASE \E ch \in BindChannels : Bind(ch)
  BY <1>3, <1>6 DEF Bind, process
<1>7. CASE Arrival
  BY <1>3, <1>4, <1>7 DEF Arrival, Undeliverable, process
<1>8. CASE Fault
  BY <1>3, <1>8, AbortLists DEF Fault, Crash, Lose, Duplicate, process
<1>9. CASE UNCHANGED vars
  BY <1>3, <1>9 DEF vars, process
<1> QED
  BY <1>5, <1>6, <1>7, <1>8, <1>9 DEF Next

(* A process lists nobody it has not heard from.  HeardInv is inductive:   *)
(* it adds that the sender of an update in the loop is one heard from, and *)
(* (in TypeOK) that who starts lists nobody yet.                           *)
THEOREM OnlyHeard == Spec => []OnlyHeardPeers
<1>1. Init => HeardInv
  <2>1. Init => OnlyHeardPeers /\ HeardFrom
    BY DEF Init, OnlyHeardPeers, HeardFrom, EmptyMap
  <2> QED
    BY <2>1, InitType DEF HeardInv
<1>2. HeardInv => OnlyHeardPeers
  BY DEF HeardInv
<1> QED
  BY <1>1, <1>2, NextLists, PTL DEF Spec
=============================================================================
