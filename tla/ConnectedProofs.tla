--------------------------- MODULE ConnectedProofs ---------------------------
(***************************************************************************)
(* Whoever is listed is listed at the endpoint that leads to it, in an     *)
(* overlay with one public node, the server of all others.  Every entry,   *)
(* in a table, a loop or a datagram, then comes from what the server saw   *)
(* of a node, or from what that node was told in the server's updates.     *)
(***************************************************************************)
EXTENDS HolesProofs

CONSTANT Server \* the node that every node was given for its server

ServerEp == LocalEp[Server]

(* Where a node behind a cone NAT is seen by all. *)
Seen(n) == MapEp[n][LocalEp[n]]

(***************************************************************************)
(* All nodes but the server are behind cone NATs, each of them behind its  *)
(* own, and none takes itself for public.                                  *)
(***************************************************************************)
OneServer ==
  /\ Server \in Node
  /\ \A n \in Node : /\ RemoteServer[n] = ServerEp
                     /\ Seen(n) = LocalEp[n] <=> n = Server
                     /\ \A e \in Endpoint : MapEp[n][e] = Seen(n)
                     /\ \A m \in Node \ {n} : Seen(n).ip \notin {Seen(m).ip, LocalEp[m].ip}
  /\ \A n \in Node \ {Server} : n \notin MainNodes /\ TRUE \notin Garbage[n]

(***************************************************************************)
(* e is where a node is seen that may have drawn the ID i, and leads to    *)
(* the process with that ID, if it still runs.                             *)
(***************************************************************************)
DrawnAt(i, e) == \E x \in Node : e = Seen(x) /\ i \in IDsOf[x]

Leads(i, e) ==
  /\ i \in used /\ DrawnAt(i, e)
  /\ \A x \in Node : nodeID[x] = i => e = Seen(x)

OnlyServerUnmapped(info) == info.mapping = "Nonmap" => info.ep = ServerEp

AllLead(hl) ==
  \A i \in DOMAIN hl : Leads(i, hl[i].ep) /\ OnlyServerUnmapped(hl[i])

(* What a node may know of itself, and write in its messages. *)
TrueOf(e, info) == info # Null => info.ep = e /\ OnlyServerUnmapped(info)

LoopLeads(loop) ==
  loop # Null => AllLead(loop.hosts) /\ loop.remote = ServerEp /\ Leads(loop.from, ServerEp)

(***************************************************************************)
(* The state of n, with what may become of its variables.                  *)
(***************************************************************************)
Straight(n, hl, info, loop, probes) ==
  /\ AllLead(hl)
  /\ TrueOf(Seen(n), info)
  /\ LoopLeads(loop)
  /\ probes # {} => n = Server

(***************************************************************************)
(* A datagram of a node.  Only the server sends updates and reads detects; *)
(* it asks nobody to try a NAT, having itself for the one public node.     *)
(***************************************************************************)
Honest(ch, m) ==
  m.id # Null =>
    /\ DrawnAt(m.id, ch.src)
    /\ m.type \notin {"filteringcheck", "callclient", "callclientRes"}
    /\ m.type = "detect" => ch.dst = ServerEp /\ ch.src # m.local
    /\ m.type = "update" => ch.src = ServerEp /\ AllLead(m.hosts)
    /\ m.type \in {"openconnect", "ticker"} => TrueOf(ch.src, m.info)

AllHonest(q) == \A ch \in DOMAIN q : \A m \in Range(q[ch]) : Honest(ch, m)

AllStraight ==
  \A n \in Node : Straight(n, hostList[n], localEpInfo[n], rcv[n], fCkTimeMap[n])

OwnIDs == \A n \in Node : nodeID[n] \in IDsOf[n] \cup {Null}

ServerInv == HolesInv /\ OwnIDs /\ AllStraight /\ AllHonest(net)

(***************************************************************************)
(* What the hypothesis on the overlay gives.                               *)
(***************************************************************************)
From(n, e) == [src |-> Seen(n), dst |-> e]

LEMMA SeenType == ASSUME NEW n \in Node PROVE Seen(n) \in Endpoint
BY ConfigAssumption DEF Seen

LEMMA ServerSeen ==
  ASSUME OneServer
  PROVE  ServerEp = Seen(Server) /\ ServerEp \in Endpoint
BY SeenType DEF OneServer, ServerEp

LEMMA SeenAlike ==
  ASSUME OneServer, NEW n \in Node, NEW m \in Node, Seen(n).ip = Seen(m).ip
  PROVE  n = m
BY DEF OneServer

LEMMA ServerAnswers == ASSUME OneServer PROVE Answerable
<1>1. ASSUME NEW n \in Node, NEW m \in Node \ {n}, NEW d \in Endpoint, NEW e \in Endpoint
      PROVE  MapEp[n][d].ip # LocalEp[m].ip /\ MapEp[n][d].ip # MapEp[m][e].ip
  <2>1. MapEp[n][d] = Seen(n) /\ MapEp[m][e] = Seen(m)
    BY DEF OneServer
  <2> QED
    BY <2>1 DEF OneServer
<1>2. ASSUME NEW n \in Node, NEW d \in Endpoint, NEW e \in Endpoint
      PROVE  MapEp[n][d] = MapEp[n][e]
  BY DEF OneServer
<1> QED
  BY <1>1, <1>2 DEF Answerable

(* The owner of an endpoint that a node is seen at is that node. *)
LEMMA ReaderIsSeen ==
  ASSUME OneServer, NEW n \in Node, NEW ch, Readable(n, ch)
  PROVE  ch.dst = Seen(n) /\ ch.src.ip # LocalEp[n].ip
BY DEF OneServer, Readable, Owns

(* The server's datagrams to itself are not sent. *)
LEMMA NotToItself ==
  ASSUME OneServer, NEW n \in Node, Readable(n, From(Server, ServerEp))
  PROVE  FALSE
<1>1. ServerEp = Seen(n) /\ Seen(Server).ip # LocalEp[n].ip
  BY ReaderIsSeen DEF From
<1>2. n = Server
  BY <1>1, ServerSeen, SeenAlike DEF OneServer
<1> QED
  BY <1>1, <1>2, ServerSeen DEF ServerEp

(***************************************************************************)
(* What a queue of messages carries, and to or on what.                    *)
(***************************************************************************)
Carries(q, x, m) == x \in DOMAIN q /\ m \in Range(q[x])

LEMMA SequenceOf ==
  ASSUME NEW sq, sq = <<>> \/ IsQueue(sq)
  PROVE  sq \in Seq(Range(sq))
<1>1. CASE sq = <<>>
  <2>1. <<>> \in Seq(Range(<<>>))
    OBVIOUS
  <2> QED
    BY <1>1, <2>1
<1>2. CASE IsQueue(sq)
  BY <1>2 DEF IsQueue
<1> QED
  BY <1>1, <1>2

LEMMA ConcatCarries ==
  ASSUME NEW sq, NEW tq, sq = <<>> \/ IsQueue(sq), tq = <<>> \/ IsQueue(tq)
  PROVE  Range(sq \o tq) \subseteq Range(sq) \cup Range(tq)
<1> DEFINE A == Range(sq)
           B == Range(tq)
           S == A \cup B
<1>1. sq \in Seq(S) /\ tq \in Seq(S)
  <2>1. sq \in Seq(A) /\ tq \in Seq(B)
    BY SequenceOf
  <2> HIDE DEF A, B
  <2> QED
    BY <2>1
<1> HIDE DEF S
<1>2. sq \o tq \in Seq(S)
  BY <1>1
<1>3. Range(sq \o tq) \subseteq S
  BY <1>2 DEF Range
<1> QED
  BY <1>3 DEF S

LEMMA AndThenCarries ==
  ASSUME NEW D, NEW q, NEW r, AreQueues(q, D), AreQueues(r, D), NEW x, NEW m,
         Carries(AndThen(q, r), x, m)
  PROVE  Carries(q, x, m) \/ Carries(r, x, m)
<1>1. x \in DOMAIN AndThen(q, r) /\ m \in Range(AndThen(q, r)[x])
  BY DEF Carries
<1>2. AndThen(q, r)[x] = SentTo(q, x) \o SentTo(r, x)
  BY <1>1 DEF AndThen
<1>3. /\ SentTo(q, x) = <<>> \/ IsQueue(SentTo(q, x))
      /\ SentTo(r, x) = <<>> \/ IsQueue(SentTo(r, x))
  BY DEF AreQueues, SentTo
<1>4. m \in Range(SentTo(q, x)) \/ m \in Range(SentTo(r, x))
  BY <1>1, <1>2, <1>3, ConcatCarries
<1>5. \A y : y \notin Range(<<>>)
  BY DEF Range
<1> QED
  BY <1>4, <1>5 DEF Carries, SentTo

LEMMA WithoutCarries ==
  ASSUME AreQueues(net, Channel), NEW ch \in DOMAIN net, NEW k \in Deliverable(ch),
         NEW x, NEW m, Carries(Without(ch, k), x, m)
  PROVE  Carries(net, x, m)
<1> DEFINE rest == RemoveAt(net[ch], k)
<1>1. x \in DOMAIN Without(ch, k) /\ m \in Range(Without(ch, k)[x])
  BY DEF Carries
<1>2. Range(rest) \subseteq Range(net[ch])
  <2>1. net[ch] \in Seq(Range(net[ch])) /\ k \in DOMAIN net[ch]
    BY DeliverableIsThere DEF AreQueues, IsQueue
  <2> DEFINE S == Range(net[ch])
  <2>2. net[ch] \in Seq(S) /\ k \in 1 .. Len(net[ch])
    BY <2>1
  <2> HIDE DEF S
  <2>3. rest \in Seq(S)
    BY <2>2 DEF RemoveAt
  <2>4. Range(rest) \subseteq S
    BY <2>3 DEF Range
  <2> QED
    BY <2>4 DEF S
<1> HIDE DEF rest
<1>3. CASE rest = <<>>
  BY <1>1, <1>3 DEF Without, Restrict, Carries, rest
<1>4. CASE rest # <<>>
  <2>1. Without(ch, k) = [net EXCEPT ![ch] = rest]
    BY <1>4 DEF Without, rest
  <2> QED
    BY <1>1, <1>2, <2>1 DEF Carries
<1> QED
  BY <1>3, <1>4

LEMMA MessagesCarry ==
  ASSUME NEW e, NEW m, NEW x, NEW y
  PROVE  /\ ~ Carries(Silence, x, y)
         /\ Carries(To(e, m), x, y) \/ Carries(Repeatedly(e, m), x, y) => x = e /\ y = m
<1>1. \A z : z \in Range(<<m>>) => z = m
  BY DEF Range
<1>2. \A z : z \in Range([k \in 1 .. Repeats |-> m]) => z = m
  BY DEF Range
<1> QED
  BY <1>1, <1>2 DEF Carries, Silence, To, Repeatedly

LEMMA ToAllCarries ==
  ASSUME NEW hl, NEW self, NEW m, NEW x, NEW y, Carries(ToAll(hl, self, m), x, y)
  PROVE  y = m
BY DEF Carries, ToAll, Range

LEMMA RouteCarries ==
  ASSUME OneServer, NEW n \in Node, NEW out, DOMAIN out \subseteq Endpoint,
         NEW ch, NEW m, Carries(Route(n, out), ch, m)
  PROVE  /\ ch = From(n, ch.dst) /\ Carries(out, ch.dst, m)
         /\ \E r \in Node : Readable(r, ch)
<1>1. /\ \E e \in DOMAIN out : ch = [src |-> MapEp[n][e], dst |-> e]
      /\ \E r \in Node : Readable(r, ch)
      /\ m \in Range(out[ch.dst])
  BY DEF Carries, Route
<1> QED
  BY <1>1 DEF From, OneServer, Carries

(***************************************************************************)
(* Host lists whose entries lead to their processes.                       *)
(***************************************************************************)
LEMMA AddLeads ==
  ASSUME NEW hl, AllLead(hl), NEW id, NEW info,
         Leads(id, info.ep), OnlyServerUnmapped(info)
  PROVE  AllLead(AddNewNode(hl, id, info)) /\ AllLead(PutNode(hl, id, info))
<1>1. AllLead(PutNode(hl, id, info))
  BY DEF AllLead, PutNode
<1> QED
  BY <1>1 DEF AddNewNode

LEMMA FilteringLeads ==
  ASSUME NEW hl, IsHostList(hl), AllLead(hl), NEW ids, NEW verdict
  PROVE  AllLead(SetFiltering(hl, ids, verdict))
<1>1. \A i \in DOMAIN hl :
        LET v == [hl[i] EXCEPT !.filtering = verdict]
        IN  v.ep = hl[i].ep /\ v.mapping = hl[i].mapping
  BY DEF IsHostList, Info
<1> QED
  BY <1>1 DEF AllLead, SetFiltering, OnlyServerUnmapped

LEMMA EraseLeads ==
  ASSUME NEW hl, AllLead(hl), NEW eps
  PROVE  AllLead(EraseAt(hl, eps))
BY DEF AllLead, EraseAt, Restrict

LEMMA EmptyLeads == AllLead(EmptyMap)
BY DEF AllLead, EmptyMap

LEMMA PublicIsServer ==
  ASSUME NEW hl, AllLead(hl), NEW i \in PublicIDs(hl)
  PROVE  hl[i].ep = ServerEp
BY DEF AllLead, PublicIDs, IsPublic, OnlyServerUnmapped

(***************************************************************************)
(* Processes keep their IDs, and no other gets them.                       *)
(***************************************************************************)
LEMMA LeadsStays ==
  ASSUME TypeOK, Advances
  PROVE  \A i, e : Leads(i, e) => Leads(i, e)'
<1> SUFFICES ASSUME NEW i, NEW e, Leads(i, e), NEW x \in Node, nodeID'[x] = i
             PROVE  e = Seen(x)
  BY DEF Leads, Advances
<1>1. i \in used /\ i # Null
  BY ConfigAssumption DEF Leads, TypeOK, NetworkOK
<1>2. nodeID[x] = i
  BY <1>1 DEF Advances
<1> QED
  BY <1>2 DEF Leads

LEMMA AllLeadStays ==
  ASSUME TypeOK, Advances
  PROVE  \A hl : AllLead(hl) => AllLead(hl)'
BY LeadsStays DEF AllLead

LEMMA StraightStays ==
  ASSUME TypeOK, Advances
  PROVE  \A n, hl, info, loop, probes :
           Straight(n, hl, info, loop, probes) => Straight(n, hl, info, loop, probes)'
BY LeadsStays, AllLeadStays DEF Straight, LoopLeads

LEMMA HonestStays ==
  ASSUME TypeOK, Advances
  PROVE  \A ch, m : Honest(ch, m) => Honest(ch, m)'
BY AllLeadStays DEF Honest

(* The ID of a node leads to it. *)
LEMMA OwnLeads ==
  ASSUME HolesInv, OwnIDs, NEW n \in Node, status[n] = "up"
  PROVE  nodeID[n] \in IDsOf[n] /\ Leads(nodeID[n], Seen(n))
<1>1. nodeID[n] \in used /\ nodeID[n] # Null
  BY RunnerDrew
<1>2. \A x \in Node : nodeID[x] = nodeID[n] => x = n
  BY <1>1 DEF HolesInv, OneEach
<1> QED
  BY <1>1, <1>2 DEF Leads, DrawnAt, OwnIDs

(* And the ID in a datagram to where it came from. *)
LEMMA SenderLeads ==
  ASSUME OneServer, ServerInv, NEW ch \in DOMAIN net, NEW k \in Deliverable(ch)
  PROVE  /\ Honest(ch, net[ch][k])
         /\ net[ch][k].id # Null => Leads(net[ch][k].id, ch.src)
<1> DEFINE m == net[ch][k]
<1>1. ch \in Channel /\ k \in DOMAIN net[ch]
  BY DeliverableIsThere DEF ServerInv, HolesInv, MemberInv, HeardInv, TypeOK, NetworkOK
<1>2. Honest(ch, m)
  BY <1>1 DEF ServerInv, AllHonest, Range
<1>3. ASSUME m.id # Null PROVE Leads(m.id, ch.src)
  <2>1. m.id \in OpenedBy(ch)
    <3>1. Signed(net[ch], OpenedBy(ch) \cup {Null})
      BY DEF ServerInv, HolesInv, AllOpened
    <3>2. m.id \in OpenedBy(ch) \cup {Null}
      BY <1>1, <3>1, SignedMember
    <3> QED
      BY <1>3, <3>2
  <2>2. \A x \in Node : MapEp[x][ch.dst] = Seen(x)
    BY <1>1 DEF OneServer, Channel
  <2> QED
    BY <1>2, <1>3, <2>1, <2>2 DEF OpenedBy, Leads, Honest
<1> QED
  BY <1>2, <1>3

(***************************************************************************)
(* A step changes the tables of one node at most, and sends at most from   *)
(* one node.                                                               *)
(***************************************************************************)
Elsewhere(n) ==
  \A x \in Node \ {n} :
    /\ hostList'[x] = hostList[x] /\ localEpInfo'[x] = localEpInfo[x]
    /\ rcv'[x] = rcv[x] /\ fCkTimeMap'[x] = fCkTimeMap[x]

LEMMA TablesStraight ==
  ASSUME ServerInv, Advances, NEW n \in Node, Elsewhere(n),
         \A x \in Node : nodeID'[x] \in {nodeID[x], Null} \cup IDsOf[x],
         Straight(n, hostList'[n], localEpInfo'[n], rcv'[n], fCkTimeMap'[n])
  PROVE  OwnIDs' /\ AllStraight'
<1>1. TypeOK
  BY DEF ServerInv, HolesInv, MemberInv, HeardInv
<1>2. OwnIDs'
  BY DEF ServerInv, OwnIDs
<1> SUFFICES ASSUME NEW x \in Node
             PROVE  Straight(x, hostList[x], localEpInfo[x], rcv[x], fCkTimeMap[x])'
  BY <1>2 DEF AllStraight
<1>3. Straight(x, hostList'[x], localEpInfo'[x], rcv'[x], fCkTimeMap'[x])
  <2>1. CASE x = n
    BY <2>1
  <2>2. CASE x # n
    BY <2>2 DEF Elsewhere, ServerInv, AllStraight
  <2> QED
    BY <2>1, <2>2
<1> QED
  BY <1>1, <1>3, StraightStays

LEMMA LeftHonest ==
  ASSUME TypeOK, Advances, NEW q, AllHonest(q), net' = q
  PROVE  AllHonest(net)'
BY HonestStays DEF AllHonest

(* What n is about to send is honest; nobody reads what the server sends   *)
(* itself.                                                                 *)
Truthful(n, out) ==
  /\ AreQueues(out, Endpoint)
  /\ \A e, m : Carries(out, e, m) =>
       Honest(From(n, e), m) \/ From(n, e) = From(Server, ServerEp)

LEMMA SentHonest ==
  ASSUME OneServer, TypeOK, Advances, NEW n \in Node, NEW out, Truthful(n, out),
         NEW left, AreQueues(left, Channel), AllHonest(left),
         Transmit(n, out, left)
  PROVE  AllHonest(net)'
<1>1. net' = AndThen(left, Route(n, out))
  BY DEF Transmit
<1>2. AreQueues(Route(n, out), Channel)
  BY RouteType DEF Truthful
<1> SUFFICES ASSUME NEW ch, NEW m, Carries(net', ch, m)
             PROVE  Honest(ch, m)
  BY HonestStays DEF AllHonest, Carries
<1>3. CASE Carries(left, ch, m)
  BY <1>3 DEF AllHonest, Carries
<1>4. CASE Carries(Route(n, out), ch, m)
  <2>1. /\ ch = From(n, ch.dst) /\ Carries(out, ch.dst, m)
        /\ \E r \in Node : Readable(r, ch)
    BY <1>4, RouteCarries DEF AreQueues, Truthful
  <2> QED
    BY <2>1, NotToItself DEF Truthful
<1> QED
  BY <1>1, <1>2, <1>3, <1>4, AndThenCarries

(***************************************************************************)
(* What a node writes.                                                     *)
(***************************************************************************)
LEMMA SilenceTruthful == \A n : Truthful(n, Silence)
BY SilenceType, MessagesCarry DEF Truthful

LEMMA MessageTruthful ==
  ASSUME NEW n, NEW e \in Endpoint, NEW m, IsMsg(m),
         Honest(From(n, e), m) \/ From(n, e) = From(Server, ServerEp)
  PROVE  Truthful(n, To(e, m)) /\ Truthful(n, Repeatedly(e, m))
BY ToType, MessagesCarry DEF Truthful

LEMMA AndThenTruthful ==
  ASSUME NEW n, NEW out, NEW more, Truthful(n, out), Truthful(n, more)
  PROVE  Truthful(n, AndThen(out, more))
<1>1. AreQueues(AndThen(out, more), Endpoint)
  BY AndThenType DEF Truthful
<1> QED
  BY <1>1, AndThenCarries DEF Truthful

LEMMA ToAllTruthful ==
  ASSUME NEW n, NEW hl, IsHostList(hl), NEW self, NEW m, IsMsg(m),
         \A e : Honest(From(n, e), m)
  PROVE  Truthful(n, ToAll(hl, self, m))
BY ToAllType, ToAllCarries DEF Truthful

(* The messages of the program, but for those of the probe. *)
LEMMA NodeWrites ==
  ASSUME OneServer, ServerInv, NEW n \in Node, NEW e
  PROVE  \A i \in IDsOf[n] :
           /\ \A info : /\ Honest(From(n, e), InfoMsg("proxyconnect", i, info))
                       /\ Honest(From(n, e), InfoMsg("helpconnect", i, info))
           /\ Honest(From(n, e), InfoMsg("openconnect", i, localEpInfo[n]))
           /\ Honest(From(n, e), InfoMsg("ticker", i, localEpInfo[n]))
           /\ Honest(From(n, e), TickerRes(i))
           /\ Honest(From(n, ServerEp), DetectMsg(i, LocalEp[n])) \/ n = Server
           /\ \A hl : n = Server /\ AllLead(hl) => Honest(From(n, e), UpdateMsg(i, hl))
<1>1. TrueOf(Seen(n), localEpInfo[n])
  BY DEF ServerInv, AllStraight, Straight
<1>2. n # Server => Seen(n) # LocalEp[n]
  BY DEF OneServer
<1>3. Seen(Server) = ServerEp
  BY ServerSeen
<1> QED
  BY <1>1, <1>2, <1>3 DEF Honest, DrawnAt, From, InfoMsg, TickerRes, DetectMsg, UpdateMsg
LEMMA UpdatesTruthful ==
  ASSUME OneServer, ServerInv, status[Server] = "up", NEW hl, IsHostList(hl), AllLead(hl)
  PROVE  Truthful(Server, RouteInfo(Server, hl))
<1>1. IsMsg(UpdateMsg(nodeID[Server], hl))
  BY ReaderRuns, MsgTypes DEF OneServer, ServerInv, HolesInv, MemberInv, HeardInv
<1>2. \A e : Honest(From(Server, e), UpdateMsg(nodeID[Server], hl))
  BY OwnLeads, NodeWrites DEF OneServer, ServerInv
<1> QED
  BY <1>1, <1>2, ToAllTruthful DEF RouteInfo

(***************************************************************************)
(* The steps.                                                              *)
(***************************************************************************)
KeepsServing == OwnIDs' /\ AllStraight' /\ AllHonest(net)'

LEMMA SentAdvances ==
  ASSUME TypeOK, NEW n \in Node, NEW out, NEW left, Transmit(n, out, left),
         UNCHANGED <<nodeID, used>>
  PROVE  Advances
BY DEF Transmit, TypeOK, NetworkOK, Advances

LEMMA WithoutHonest ==
  ASSUME ServerInv, NEW ch \in DOMAIN net, NEW k \in Deliverable(ch)
  PROVE  AreQueues(Without(ch, k), Channel) /\ AllHonest(Without(ch, k))
<1>1. AreQueues(net, Channel)
  BY DEF ServerInv, HolesInv, MemberInv, HeardInv, TypeOK, NetworkOK
<1> QED
  BY <1>1, WithoutType, WithoutCarries DEF ServerInv, AllHonest, Carries

LEMMA HandlerServes ==
  ASSUME OneServer, ServerInv, NEW n \in Node,
         NEW ch \in DOMAIN net, NEW k \in Deliverable(ch),
         NEW out, Truthful(n, out), Handle(n, ch, k, out), UNCHANGED nodeID,
         Elsewhere(n),
         Straight(n, hostList'[n], localEpInfo'[n], rcv'[n], fCkTimeMap'[n])
  PROVE  KeepsServing
<1>1. TypeOK
  BY DEF ServerInv, HolesInv, MemberInv, HeardInv
<1>2. Advances
  BY <1>1, SentAdvances DEF Handle
<1>3. OwnIDs' /\ AllStraight'
  BY <1>2, TablesStraight
<1>4. AllHonest(net)'
  BY <1>1, <1>2, WithoutHonest, SentHonest DEF Handle
<1> QED
  BY <1>3, <1>4 DEF KeepsServing

LEMMA StopServes ==
  ASSUME ServerInv, NEW n \in Node, NEW how, Stop(n, how), UNCHANGED <<perm, used>>,
         NEW q, AllHonest(q), net' = q
  PROVE  KeepsServing
<1>1. TypeOK
  BY DEF ServerInv, HolesInv, MemberInv, HeardInv
<1>2. Advances
  BY <1>1 DEF Stop, Advances, TypeOK, ProcessOK
<1>3. /\ hostList'[n] = EmptyMap /\ localEpInfo'[n] = Null
      /\ rcv'[n] = Null /\ fCkTimeMap'[n] = {}
      /\ Elsewhere(n) /\ \A x \in Node : nodeID'[x] \in {nodeID[x], Null}
  BY <1>1 DEF Stop, Elsewhere, TypeOK, ProcessOK
<1>4. Straight(n, EmptyMap, Null, Null, {})
  BY EmptyLeads DEF Straight, TrueOf, LoopLeads
<1> QED
  BY <1>1, <1>2, <1>3, <1>4, TablesStraight, LeftHonest DEF KeepsServing

(* Of a handler that changes no table but, maybe, the host list. *)
LEMMA ListServes ==
  ASSUME OneServer, ServerInv, NEW n \in Node,
         NEW ch \in DOMAIN net, NEW k \in Deliverable(ch),
         NEW out, Truthful(n, out), Handle(n, ch, k, out),
         NEW hl, AllLead(hl), hostList' = [hostList EXCEPT ![n] = hl],
         UNCHANGED <<nodeID, localEpInfo, fCkTimeMap, rcv>>
  PROVE  KeepsServing
<1>1. Elsewhere(n) /\ hostList'[n] = hl
  BY DEF Elsewhere, ServerInv, HolesInv, MemberInv, HeardInv, TypeOK, ProcessOK
<1>2. Straight(n, hl, localEpInfo[n], rcv[n], fCkTimeMap[n])
  BY DEF ServerInv, AllStraight, Straight
<1> QED
  BY <1>1, <1>2, HandlerServes

LEMMA AnswerServes ==
  ASSUME OneServer, ServerInv, NEW n \in Node,
         NEW ch \in DOMAIN net, NEW k \in Deliverable(ch),
         NEW out, Truthful(n, out), Handle(n, ch, k, out),
         UNCHANGED <<nodeID, hostList, localEpInfo, fCkTimeMap, rcv>>
  PROVE  KeepsServing
<1>1. Elsewhere(n)
  BY DEF Elsewhere
<1>2. Straight(n, hostList[n], localEpInfo[n], rcv[n], fCkTimeMap[n])
  BY DEF ServerInv, AllStraight
<1> QED
  BY <1>1, <1>2, HandlerServes
(* What any handler finds that reads a datagram of a node. *)
LEMMA ReadsHonest ==
  ASSUME OneServer, ServerInv, NEW n \in Node,
         NEW ch \in DOMAIN net, NEW k \in Deliverable(ch), NEW type, Receive(n, ch, k, type)
  PROVE  /\ TypeOK /\ status[n] = "up" /\ rcv[n] = Null /\ ch.src \in Endpoint
         /\ IsMsg(net[ch][k]) /\ net[ch][k].type = type
         /\ ch.dst = Seen(n)
         /\ type # "detect" => net[ch][k].id \in ID /\ net[ch][k].id # Null
         /\ net[ch][k].id # Null =>
              Honest(ch, net[ch][k]) /\ Leads(net[ch][k].id, ch.src)
         /\ AllLead(hostList[n])
         /\ localEpInfo[n] # Null => localEpInfo[n].ep = Seen(n)
         /\ nodeID[n] \in IDsOf[n] /\ Leads(nodeID[n], Seen(n))
<1>1. TypeOK /\ HolesInv /\ OwnIDs
  BY DEF ServerInv, HolesInv, MemberInv, HeardInv
<1>2. /\ status[n] = "up" /\ rcv[n] = Null /\ ch.src \in Endpoint
      /\ IsMsg(net[ch][k]) /\ net[ch][k].type = type
  BY <1>1, ReceiveType
<1>3. ch.dst = Seen(n)
  BY ReaderIsSeen DEF Receive, CanRead
<1>4. AllLead(hostList[n]) /\ (localEpInfo[n] # Null => localEpInfo[n].ep = Seen(n))
  BY DEF ServerInv, AllStraight, Straight, TrueOf
<1> QED
  BY <1>1, <1>2, <1>3, <1>4, SenderLeads, OwnLeads, MsgFields, ConfigAssumption

(* A detect is read by the server, which makes a list that leads. *)
LEMMA DetectFinds ==
  ASSUME OneServer, ServerInv, NEW n \in Node,
         NEW ch \in DOMAIN net, NEW k \in Deliverable(ch),
         Receive(n, ch, k, "detect"), net[ch][k].id # Null
  PROVE  /\ n = Server /\ Seen(n) = ServerEp /\ ServerEp \in Endpoint
         /\ AllLead(MappedList(n, ch, net[ch][k].id))
         /\ IsHostList(MappedList(n, ch, net[ch][k].id))
<1> DEFINE m     == net[ch][k]
           hl    == MappedList(n, ch, m.id)
           first == AddNewNode(hostList[n], m.id, MakeInfo("mapping", "", ch.src))
<1>1. /\ TypeOK /\ status[n] = "up" /\ ch.src \in Endpoint
      /\ IsMsg(m) /\ m.type = "detect" /\ ch.dst = Seen(n)
      /\ Honest(ch, m) /\ Leads(m.id, ch.src)
      /\ AllLead(hostList[n]) /\ Leads(nodeID[n], Seen(n))
  BY ReadsHonest
<1>2. n = Server /\ Seen(n) = ServerEp /\ ServerEp \in Endpoint
  <2>1. Seen(n) = ServerEp
    BY <1>1 DEF Honest
  <2>2. Server \in Node /\ Seen(Server) = ServerEp /\ ServerEp \in Endpoint
    BY ServerSeen DEF OneServer
  <2> QED
    BY <2>1, <2>2, SeenAlike
<1>3. m.id \in ID /\ nodeID[n] \in ID /\ IsHostList(hostList[n])
  BY <1>1, MsgFields, ReaderRuns
<1>4. AllLead(first)
  BY <1>1, AddLeads DEF MakeInfo, OnlyServerUnmapped
<1>5. IsHostList(first)
  BY <1>1, <1>3, PublicInfoType, AddTypes
<1> HIDE DEF first
<1>6. hl = AddNewNode(first, nodeID[n], PublicInfo(ServerEp))
  BY <1>2 DEF MappedList, ListSender, first, ServerEp
<1>7. AllLead(hl)
  BY <1>1, <1>2, <1>4, <1>6, AddLeads DEF PublicInfo, MakeInfo, OnlyServerUnmapped
<1>8. IsHostList(hl)
  BY <1>2, <1>3, <1>5, <1>6, PublicInfoType, AddTypes
<1> QED
  BY <1>2, <1>7, <1>8

(* It would ask itself to try a NAT. *)
LEMMA ProberIsServer ==
  ASSUME OneServer, ServerInv, NEW n \in Node,
         NEW ch \in DOMAIN net, NEW k \in Deliverable(ch),
         Receive(n, ch, k, "detect"), net[ch][k].id # Null,
         Prober(n, MappedList(n, ch, net[ch][k].id)) # Null
  PROVE  Prober(n, MappedList(n, ch, net[ch][k].id)).ep = ServerEp
<1> DEFINE hl     == MappedList(n, ch, net[ch][k].id)
           others == PublicIDs(hl) \ {nodeID[n]}
<1>1. Seen(n) = ServerEp /\ AllLead(hl) /\ IsHostList(hl)
  BY DetectFinds
<1>2. localEpInfo[n] # Null => localEpInfo[n].ep = Seen(n)
  BY ReadsHonest
<1> HIDE DEF hl
<1>3. CASE others = {}
  BY <1>1, <1>2, <1>3 DEF Prober, GetPublicNode, hl
<1>4. CASE others # {}
  <2>1. others \in SUBSET ID /\ others \subseteq PublicIDs(hl)
    BY <1>1 DEF PublicIDs, IsHostList
  <2>2. Min(others) \in PublicIDs(hl)
    BY <1>4, <2>1, FirstAndLast
  <2>3. hl[Min(others)].ep = ServerEp /\ hl[Min(others)] # Null
    BY <1>1, <2>2, PublicIsServer, ConfigAssumption DEF PublicIDs, IsHostList
  <2> QED
    BY <1>4, <2>3 DEF Prober, GetPublicNode, hl
<1> QED
  BY <1>3, <1>4

LEMMA DetectServes ==
  ASSUME OneServer, ServerInv, NEW n \in Node,
         NEW ch \in DOMAIN net, NEW k \in Deliverable(ch), RcvDetectMapped(n, ch, k)
  PROVE  KeepsServing
<1> DEFINE m     == net[ch][k]
           hl    == MappedList(n, ch, m.id)
           check == CheckMsg("filteringcheck", nodeID[n], ch.src, MsgUuid(m.id))
           out   == AndThen(To(Prober(n, hl).ep, check), RouteInfo(n, hl))
<1>1. /\ TypeOK /\ status[n] = "up" /\ rcv[n] = Null /\ ch.src \in Endpoint
      /\ IsMsg(m) /\ m.type = "detect" /\ m.id # Null
      /\ localEpInfo[n] # Null => localEpInfo[n].ep = Seen(n)
  BY ReadsHonest DEF RcvDetectMapped
<1>2. n = Server /\ Seen(n) = ServerEp /\ ServerEp \in Endpoint
  BY DetectFinds DEF RcvDetectMapped
<1>3. m.id \in ID /\ nodeID[n] \in ID
  BY <1>1, MsgFields, ReaderRuns
<1>4. AllLead(hl) /\ IsHostList(hl)
  BY DetectFinds DEF RcvDetectMapped
<1> HIDE DEF hl
<1>5. Prober(n, hl).ep = ServerEp
  BY ProberIsServer DEF RcvDetectMapped, hl
<1>6. Truthful(n, out)
  <2>1. IsMsg(check)
    BY <1>1, <1>3, MsgTypes DEF MsgUuid, Uuid
  <2>2. Truthful(n, To(ServerEp, check))
    BY <1>2, <2>1, MessageTruthful
  <2>3. Truthful(n, RouteInfo(n, hl))
    BY <1>1, <1>2, <1>4, UpdatesTruthful
  <2> QED
    BY <1>5, <2>2, <2>3, AndThenTruthful
<1>7. /\ hostList' = [hostList EXCEPT ![n] = hl]
      /\ \E probes : fCkTimeMap' = [fCkTimeMap EXCEPT ![n] = probes]
      /\ Handle(n, ch, k, out)
      /\ UNCHANGED <<nodeID, localEpInfo, rcv>>
  BY DEF RcvDetectMapped, hl
<1>8. hostList'[n] = hl /\ Elsewhere(n)
  BY <1>1, <1>7 DEF Elsewhere, TypeOK, ProcessOK
<1>9. Straight(n, hl, localEpInfo'[n], rcv'[n], fCkTimeMap'[n])
  BY <1>2, <1>4, <1>7 DEF ServerInv, AllStraight, Straight
<1> HIDE DEF out
<1> QED
  BY <1>6, <1>7, <1>8, <1>9, HandlerServes

LEMMA UpdateServes ==
  ASSUME OneServer, ServerInv, NEW n \in Node,
         NEW ch \in DOMAIN net, NEW k \in Deliverable(ch), RcvUpdate(n, ch, k)
  PROVE  KeepsServing
<1> DEFINE m    == net[ch][k]
           loop == [from |-> m.id, remote |-> ch.src, hosts |-> m.hosts,
                    items |-> DOMAIN m.hosts]
<1>1. /\ TypeOK /\ status[n] = "up" /\ m.type = "update" /\ m.id # Null
      /\ Honest(ch, m) /\ Leads(m.id, ch.src)
      /\ AllLead(hostList[n])
  BY ReadsHonest DEF RcvUpdate
<1>2. ch.src = ServerEp /\ AllLead(m.hosts)
  BY <1>1 DEF Honest
<1>3. nodeID[n] \in DOMAIN m.hosts
  BY DEF RcvUpdate, Usable
<1>4. /\ hostList'[n] = hostList[n] /\ localEpInfo'[n] = m.hosts[nodeID[n]]
      /\ rcv'[n] = loop /\ fCkTimeMap'[n] = fCkTimeMap[n]
      /\ Elsewhere(n)
  BY <1>1 DEF RcvUpdate, Elsewhere, TypeOK, ProcessOK
<1>5. TrueOf(Seen(n), m.hosts[nodeID[n]])
  BY <1>2, <1>3 DEF AllLead, Leads, TrueOf
<1>6. LoopLeads(loop)
  BY <1>1, <1>2 DEF LoopLeads
<1>7. Straight(n, hostList[n], m.hosts[nodeID[n]], loop, fCkTimeMap[n])
  BY <1>5, <1>6 DEF ServerInv, AllStraight, Straight
<1>8. Handle(n, ch, k, Silence) /\ UNCHANGED nodeID
  BY DEF RcvUpdate
<1> HIDE DEF loop
<1> QED
  BY <1>4, <1>7, <1>8, SilenceTruthful, HandlerServes
LEMMA OpenconnectServes ==
  ASSUME OneServer, ServerInv, NEW n \in Node,
         NEW ch \in DOMAIN net, NEW k \in Deliverable(ch), RcvOpenconnect(n, ch, k)
  PROVE  KeepsServing
<1> DEFINE m  == net[ch][k]
           hl == Opened(hostList[n], m.id, m.info, ch.src)
<1>1. /\ m.type = "openconnect" /\ m.id # Null
      /\ Honest(ch, m) /\ Leads(m.id, ch.src)
      /\ AllLead(hostList[n])
  BY ReadsHonest DEF RcvOpenconnect
<1>2. m.info.ep = ch.src /\ OnlyServerUnmapped(m.info)
  BY <1>1 DEF Honest, TrueOf, RcvOpenconnect
<1>3. AllLead(hl)
  BY <1>1, <1>2, AddLeads DEF Opened
<1>4. /\ hostList' = [hostList EXCEPT ![n] = hl]
      /\ Handle(n, ch, k, Silence)
      /\ UNCHANGED <<nodeID, localEpInfo, fCkTimeMap, rcv>>
  BY DEF RcvOpenconnect
<1> HIDE DEF hl
<1> QED
  BY <1>3, <1>4, SilenceTruthful, ListServes

LEMMA PunchingServes ==
  ASSUME OneServer, ServerInv, NEW n \in Node,
         NEW ch \in DOMAIN net, NEW k \in Deliverable(ch),
         RcvProxyconnect(n, ch, k) \/ RcvHelpconnect(n, ch, k)
  PROVE  KeepsServing
<1> DEFINE m    == net[ch][k]
           help == InfoMsg("helpconnect", nodeID[n], [m.info EXCEPT !.ep = ch.src])
           open == InfoMsg("openconnect", nodeID[n], localEpInfo[n])
<1>1. /\ status[n] = "up" /\ TypeOK /\ m.type \in {"proxyconnect", "helpconnect"}
      /\ IsMsg(m) /\ ch.src \in Endpoint /\ nodeID[n] \in IDsOf[n]
  BY ReadsHonest DEF RcvProxyconnect, RcvHelpconnect
<1>2. m.info \in Info /\ m.info.ep \in Endpoint /\ [m.info EXCEPT !.ep = ch.src] \in Info
  BY <1>1, MsgFields DEF Info
<1>3. IsMsg(help) /\ IsMsg(open)
  BY <1>1, <1>2, ReaderRuns, MsgTypes
<1>4. Truthful(n, To(m.info.ep, help)) /\ Truthful(n, Repeatedly(m.info.ep, open))
  BY <1>1, <1>2, <1>3, NodeWrites, MessageTruthful
<1>5. CASE RcvProxyconnect(n, ch, k)
  <2>1. /\ Handle(n, ch, k, To(m.info.ep, help))
        /\ UNCHANGED <<nodeID, hostList, localEpInfo, fCkTimeMap, rcv>>
    BY <1>5 DEF RcvProxyconnect
  <2> QED
    BY <1>4, <2>1, AnswerServes
<1>6. CASE RcvHelpconnect(n, ch, k)
  <2>1. /\ Handle(n, ch, k, Repeatedly(m.info.ep, open))
        /\ UNCHANGED <<nodeID, hostList, localEpInfo, fCkTimeMap, rcv>>
    BY <1>6 DEF RcvHelpconnect
  <2> QED
    BY <1>4, <2>1, AnswerServes
<1> QED
  BY <1>5, <1>6

LEMMA TickingServes ==
  ASSUME OneServer, ServerInv, NEW n \in Node,
         NEW ch \in DOMAIN net, NEW k \in Deliverable(ch), Ticking(n, ch, k)
  PROVE  KeepsServing
<1> DEFINE m  == net[ch][k]
           hl == IF m.info = Null THEN hostList[n] ELSE PutNode(hostList[n], m.id, m.info)
<1>1. CASE RcvTicker(n, ch, k)
  <2>1. /\ status[n] = "up" /\ TypeOK /\ ch.src \in Endpoint
        /\ m.type = "ticker" /\ m.id # Null /\ nodeID[n] \in IDsOf[n]
        /\ Honest(ch, m) /\ Leads(m.id, ch.src)
        /\ AllLead(hostList[n])
    BY <1>1, ReadsHonest DEF RcvTicker
  <2>2. AllLead(hl)
    BY <2>1, AddLeads DEF Honest, TrueOf
  <2>3. Truthful(n, To(ch.src, TickerRes(nodeID[n])))
    BY <2>1, ReaderRuns, MsgTypes, NodeWrites, MessageTruthful
  <2>4. /\ hostList' = [hostList EXCEPT ![n] = hl]
        /\ Handle(n, ch, k, To(ch.src, TickerRes(nodeID[n])))
        /\ UNCHANGED <<nodeID, localEpInfo, fCkTimeMap, rcv>>
    BY <1>1 DEF RcvTicker
  <2> HIDE DEF hl
  <2> QED
    BY <2>2, <2>3, <2>4, ListServes
<1>2. CASE RcvTickerRes(n, ch, k)
  <2>1. /\ Handle(n, ch, k, Silence)
        /\ UNCHANGED <<nodeID, hostList, localEpInfo, fCkTimeMap, rcv>>
    BY <1>2 DEF RcvTickerRes
  <2> QED
    BY <2>1, SilenceTruthful, AnswerServes
<1> QED
  BY <1>1, <1>2 DEF Ticking

(* The server's probes are not sent, and detects are not from it. *)
LEMMA NeverRead ==
  ASSUME OneServer, ServerInv, NEW n \in Node,
         NEW ch \in DOMAIN net, NEW k \in Deliverable(ch)
  PROVE  ~ RcvDetectPublic(n, ch, k) /\ ~ Probing(n, ch, k)
<1>1. ~ RcvDetectPublic(n, ch, k)
  BY ReadsHonest DEF RcvDetectPublic, Honest
<1>2. ~ RcvFilteringcheck(n, ch, k)
  BY ReadsHonest DEF RcvFilteringcheck, Honest
<1>3. ~ RcvCallclient(n, ch, k)
  BY ReadsHonest DEF RcvCallclient, Honest
<1>4. ~ RcvCallclientRes(n, ch, k)
  BY ReadsHonest DEF RcvCallclientRes, Honest
<1> QED
  BY <1>1, <1>2, <1>3, <1>4 DEF Probing
(***************************************************************************)
(* The loop of an update stays with the server, whoever is asked for help. *)
(***************************************************************************)
LEMMA LoopIsServers ==
  ASSUME OneServer, ServerInv, NEW n \in Node, Looping(n)
  PROVE  /\ TypeOK /\ status[n] = "up" /\ IsLoop(rcv[n]) /\ nodeID[n] \in IDsOf[n]
         /\ ItemObj(n) \in Info /\ localEpInfo[n] \in Info
         /\ AllLead(hostList[n]) /\ AllLead(rcv[n].hosts)
         /\ rcv[n].remote = ServerEp /\ Leads(rcv[n].from, ServerEp)
         /\ Leads(Item(n), ItemObj(n).ep) /\ OnlyServerUnmapped(ItemObj(n))
<1>1. TypeOK
  BY DEF ServerInv, HolesInv, MemberInv, HeardInv
<1>2. AllLead(hostList[n]) /\ LoopLeads(rcv[n])
  BY DEF ServerInv, AllStraight, Straight
<1>3. Item(n) \in DOMAIN rcv[n].hosts
  BY <1>1, LoopType DEF IsLoop
<1>4. status[n] = "up" /\ nodeID[n] \in IDsOf[n]
  BY <1>1, LoopType, OwnLeads DEF ServerInv
<1> QED
  BY <1>1, <1>2, <1>3, <1>4, LoopType DEF LoopLeads, Looping, AllLead, ItemObj

LEMMA HelperIsServer ==
  ASSUME OneServer, ServerInv, NEW n \in Node, Looping(n)
  PROVE  Helper(n) = ServerEp
<1> DEFINE public == PublicIDs(hostList[n])
<1>1. CASE public = {}
  BY <1>1, LoopIsServers DEF Helper
<1>2. CASE public # {}
  <2>1. public \in SUBSET ID
    BY LoopIsServers, ReaderRuns DEF PublicIDs, IsHostList
  <2>2. Max(public) \in public
    BY <1>2, <2>1, FirstAndLast
  <2> QED
    BY <1>2, <2>2, LoopIsServers, PublicIsServer DEF Helper
<1> QED
  BY <1>1, <1>2

LEMMA NextItemLeads ==
  ASSUME OneServer, ServerInv, NEW n \in Node, Looping(n), NextItem(n, ServerEp)
  PROVE  LoopLeads(rcv'[n]) /\ \A x \in Node \ {n} : rcv'[x] = rcv[x]
<1> DEFINE rest == rcv[n].items \ {Item(n)}
           loop == [rcv[n] EXCEPT !.items = rest, !.remote = ServerEp]
<1>1. rcv' = [rcv EXCEPT ![n] = IF rest = {} THEN Null ELSE loop]
  BY DEF NextItem
<1>2. DOMAIN rcv = Node
  BY LoopIsServers DEF TypeOK, ProcessOK
<1>3. loop.hosts = rcv[n].hosts /\ loop.remote = ServerEp /\ loop.from = rcv[n].from
  BY LoopIsServers DEF IsLoop
<1>4. LoopLeads(loop) /\ LoopLeads(Null)
  BY <1>3, LoopIsServers DEF LoopLeads
<1> HIDE DEF loop, rest
<1> QED
  BY <1>1, <1>2, <1>4

LEMMA FileServes ==
  ASSUME OneServer, ServerInv, NEW n \in Node, Looping(n),
         UpdateSelf(n) \/ UpdateSender(n)
  PROVE  KeepsServing
<1>1. PICK id : FileItem(n, id) /\ Leads(id, ItemObj(n).ep)
  <2>1. CASE UpdateSelf(n)
    BY <2>1, LoopIsServers DEF UpdateSelf
  <2>2. CASE UpdateSender(n)
    <3>1. PICK x \in Node : ItemObj(n).ep = Seen(x)
      BY LoopIsServers DEF Leads, DrawnAt
    <3>2. Seen(x).ip = Seen(Server).ip
      BY <2>2, <3>1, LoopIsServers, ServerSeen DEF UpdateSender, IsFromSender
    <3>3. ItemObj(n).ep = ServerEp
      BY <3>1, <3>2, ServerSeen, SeenAlike DEF OneServer
    <3> QED
      BY <2>2, <3>3, LoopIsServers DEF UpdateSender
  <2> QED
    BY <2>1, <2>2
<1> DEFINE hl == AddNewNode(hostList[n], id, ItemObj(n))
<1>2. AllLead(hl)
  BY <1>1, LoopIsServers, AddLeads
<1>3. /\ hostList' = [hostList EXCEPT ![n] = hl]
      /\ NextItem(n, ServerEp)
      /\ UNCHANGED <<nodeID, localEpInfo, fCkTimeMap, net, perm, used>>
  BY <1>1, LoopIsServers DEF FileItem
<1> HIDE DEF hl
<1>4. hostList'[n] = hl /\ Elsewhere(n) /\ LoopLeads(rcv'[n])
  BY <1>3, LoopIsServers, NextItemLeads DEF Elsewhere, TypeOK, ProcessOK
<1>5. Straight(n, hl, localEpInfo'[n], rcv'[n], fCkTimeMap'[n])
  BY <1>2, <1>3, <1>4 DEF ServerInv, AllStraight, Straight
<1>6. TypeOK /\ Advances
  BY <1>3, LoopIsServers DEF Advances
<1> QED
  BY <1>3, <1>4, <1>5, <1>6, TablesStraight, LeftHonest DEF KeepsServing, ServerInv

LEMMA ConnectServes ==
  ASSUME OneServer, ServerInv, NEW n \in Node, Looping(n),
         UpdatePublic(n) \/ UpdateProxy(n)
  PROVE  KeepsServing
<1> DEFINE help == To(ServerEp, InfoMsg("proxyconnect", nodeID[n], ItemObj(n)))
<1>1. /\ TypeOK /\ status[n] = "up" /\ nodeID[n] \in IDsOf[n]
      /\ ItemObj(n).ep \in Endpoint
  BY LoopIsServers DEF Info
<1>2. Truthful(n, OpenItem(n))
  BY <1>1, ReaderRuns, MsgTypes, NodeWrites, MessageTruthful DEF OpenItem
<1>3. Truthful(n, help)
  BY <1>1, LoopIsServers, ServerSeen, ReaderRuns, MsgTypes, NodeWrites, MessageTruthful
<1>4. Truthful(n, AndThen(help, OpenItem(n)))
  BY <1>2, <1>3, AndThenTruthful
<1> HIDE DEF help
<1>5. PICK out : Truthful(n, out) /\ Connect(n, out, ServerEp)
  <2>1. CASE UpdatePublic(n)
    BY <1>2, <2>1, LoopIsServers DEF UpdatePublic
  <2>2. CASE UpdateProxy(n)
    BY <1>3, <1>4, <2>2, HelperIsServer DEF UpdateProxy, help
  <2> QED
    BY <2>1, <2>2
<1>6. /\ NextItem(n, ServerEp) /\ Transmit(n, out, net)
      /\ UNCHANGED <<nodeID, hostList, localEpInfo, fCkTimeMap, used>>
  BY <1>5 DEF Connect
<1>7. Elsewhere(n) /\ LoopLeads(rcv'[n])
  BY <1>6, NextItemLeads DEF Elsewhere
<1>8. Straight(n, hostList'[n], localEpInfo'[n], rcv'[n], fCkTimeMap'[n])
  BY <1>6, <1>7 DEF ServerInv, AllStraight, Straight
<1>9. Advances
  BY <1>1, <1>6, SentAdvances
<1>10. AllHonest(net)'
  BY <1>1, <1>5, <1>6, <1>9, SentHonest DEF ServerInv, TypeOK, NetworkOK
<1> QED
  BY <1>6, <1>7, <1>8, <1>9, <1>10, TablesStraight DEF KeepsServing
(***************************************************************************)
(* No node but the server finds an endpoint dead: it would tell the others *)
(* so, in an update that is not the server's.                              *)
(***************************************************************************)
NobodyDead == \A n \in Node \ {Server} : DeadEps(tickerNum[n]) = {}

LEMMA RoundServes ==
  ASSUME OneServer, ServerInv, NobodyDead, NEW n \in Node, TimerRound(n)
  PROVE  KeepsServing
<1> DEFINE hl      == Checked(n)
           tickers == ToAll(hl, nodeID[n], InfoMsg("ticker", nodeID[n], localEpInfo[n]))
           updates == IF NeedNotify(n) THEN RouteInfo(n, hl) ELSE Silence
           detect  == IF Alone(n, hl) >= DetectRounds
                      THEN To(RemoteServer[n], DetectMsg(nodeID[n], LocalEp[n]))
                      ELSE Silence
           out     == AndThen(AndThen(tickers, updates), detect)
<1>1. /\ TypeOK /\ status[n] = "up"
      /\ hostList' = [hostList EXCEPT ![n] = hl]
      /\ fCkTimeMap' = [fCkTimeMap EXCEPT ![n] = Older(@ \ Expired(@))]
      /\ Transmit(n, out, net)
      /\ UNCHANGED <<nodeID, localEpInfo, rcv, used>>
  BY DEF TimerRound, ServerInv, HolesInv, MemberInv, HeardInv
<1>2. /\ nodeID[n] \in ID /\ nodeID[n] \in IDsOf[n]
      /\ IsHostList(hostList[n]) /\ localEpInfo[n] \in InfoOrNull
  BY <1>1, ReaderRuns, OwnLeads DEF ServerInv
<1>3. IsHostList(hl) /\ AllLead(hl)
  <2>1. AllLead(hostList[n])
    BY DEF ServerInv, AllStraight, Straight
  <2> QED
    BY <1>1, <1>2, <2>1, CheckedType, FilteringLeads, EraseLeads DEF Checked
<1>4. fCkTimeMap[n] # {} => n = Server
  BY DEF ServerInv, AllStraight, Straight
<1> HIDE DEF hl
<1>5. Truthful(n, tickers)
  BY <1>2, <1>3, MsgTypes, NodeWrites, ToAllTruthful
<1>6. Truthful(n, updates)
  <2>1. NeedNotify(n) => n = Server
    BY <1>4 DEF NeedNotify, Expired, NobodyDead
  <2> QED
    BY <1>1, <1>3, <2>1, UpdatesTruthful, SilenceTruthful
<1>7. Truthful(n, detect)
  <2>1. RemoteServer[n] = ServerEp /\ ServerEp \in Endpoint
    BY ServerSeen DEF OneServer
  <2>2. IsMsg(DetectMsg(nodeID[n], LocalEp[n]))
    BY <1>1, ReaderRuns, MsgTypes
  <2> QED
    BY <1>2, <2>1, <2>2, NodeWrites, MessageTruthful, SilenceTruthful
<1>8. Truthful(n, out)
  BY <1>5, <1>6, <1>7, AndThenTruthful
<1> HIDE DEF out
<1>9. hostList'[n] = hl /\ Elsewhere(n)
  BY <1>1 DEF Elsewhere, TypeOK, ProcessOK
<1>10. fCkTimeMap'[n] # {} => fCkTimeMap[n] # {}
  BY <1>1 DEF Older, TypeOK, ProcessOK
<1>11. Straight(n, hl, localEpInfo'[n], rcv'[n], fCkTimeMap'[n])
  BY <1>1, <1>3, <1>4, <1>10 DEF ServerInv, AllStraight, Straight
<1>12. Advances
  BY <1>1, SentAdvances
<1>13. AllHonest(net)'
  BY <1>1, <1>8, <1>12, SentHonest DEF ServerInv, TypeOK, NetworkOK
<1> QED
  BY <1>1, <1>9, <1>11, <1>12, <1>13, TablesStraight DEF KeepsServing

LEMMA BootServes ==
  ASSUME OneServer, ServerInv, NEW n \in Node, NEW id \in IDsOf[n], Boot(n, id)
  PROVE  KeepsServing
<1> DEFINE out == To(ServerEp, DetectMsg(id, LocalEp[n]))
<1>1. TypeOK /\ id \in ID
  BY ConfigAssumption DEF ServerInv, HolesInv, MemberInv, HeardInv
<1>2. /\ id \notin used /\ used' = used \cup {id}
      /\ nodeID' = [nodeID EXCEPT ![n] = id]
      /\ Transmit(n, out, net)
      /\ UNCHANGED <<hostList, rcv, fCkTimeMap>>
  BY DEF Boot, NewID, OneServer
<1>3. Advances
  BY <1>1, <1>2 DEF Advances, Transmit, TypeOK, ProcessOK, NetworkOK
<1>4. Truthful(n, out)
  <2>1. IsMsg(DetectMsg(id, LocalEp[n])) /\ ServerEp \in Endpoint
    BY <1>1, ServerSeen, MsgTypes, ConfigAssumption
  <2> QED
    BY <2>1, NodeWrites, MessageTruthful
<1>5. Elsewhere(n) /\ localEpInfo'[n] \in {Null} \cup (IF n = Server THEN {PublicInfo(ServerEp)} ELSE {})
  <2>1. PICK flag \in IF n \in MainNodes THEN {TRUE} ELSE Garbage[n] :
          localEpInfo' = [localEpInfo EXCEPT
                            ![n] = IF flag THEN PublicInfo(LocalEp[n]) ELSE Null]
    BY DEF Boot
  <2>2. flag = TRUE => n = Server
    BY <2>1 DEF OneServer
  <2>3. flag \in BOOLEAN
    BY <2>1, ConfigAssumption
  <2> QED
    BY <1>1, <1>2, <2>1, <2>2, <2>3 DEF Elsewhere, TypeOK, ProcessOK, ServerEp
<1>6. Straight(n, hostList'[n], localEpInfo'[n], rcv'[n], fCkTimeMap'[n])
  <2>1. TrueOf(Seen(n), localEpInfo'[n])
    BY <1>5, ServerSeen DEF TrueOf, OnlyServerUnmapped, PublicInfo, MakeInfo
  <2> QED
    BY <1>2, <2>1 DEF ServerInv, AllStraight, Straight
<1> HIDE DEF out
<1>7. AllHonest(net)'
  BY <1>1, <1>2, <1>3, <1>4, SentHonest DEF ServerInv, TypeOK, NetworkOK
<1>8. \A x \in Node : nodeID'[x] \in {nodeID[x]} \cup IDsOf[x]
  BY <1>1, <1>2 DEF TypeOK, ProcessOK
<1> QED
  BY <1>3, <1>5, <1>6, <1>7, <1>8, TablesStraight DEF KeepsServing

LEMMA NetworkServes ==
  ASSUME OneServer, ServerInv,
         \/ \E ch \in BindChannels : Bind(ch)
         \/ \E ch \in DOMAIN net : \E k \in Deliverable(ch) :
              \/ Lose(ch, k) \/ Duplicate(ch, k) \/ Undeliverable(ch, k)
              \/ \E n \in Node : RcvTruncated(n, ch, k)
  PROVE  KeepsServing
<1>1. UNCHANGED <<process, used, perm>>
  BY DEF Bind, Lose, Duplicate, Undeliverable, RcvTruncated
<1>2. TypeOK /\ AreQueues(net, Channel) /\ AllHonest(net)
  BY DEF ServerInv, HolesInv, MemberInv, HeardInv, TypeOK, NetworkOK
<1>3. Advances
  BY <1>1 DEF Advances, process
<1>4. OwnIDs' /\ AllStraight'
  <2>1. Server \in Node /\ Elsewhere(Server)
    BY <1>1 DEF OneServer, Elsewhere, process
  <2>2. Straight(Server, hostList'[Server], localEpInfo'[Server], rcv'[Server],
                 fCkTimeMap'[Server])
    BY <1>1, <2>1 DEF process, ServerInv, AllStraight
  <2> QED
    BY <1>1, <1>3, <2>1, <2>2, TablesStraight DEF process
<1>5. ASSUME NEW ch \in Channel, NEW m, IsMsg(m), Honest(ch, m),
             net' = AndThen(net, To(ch, m))
      PROVE  AllHonest(net)'
  <2>1. AreQueues(To(ch, m), Channel)
    BY <1>5, ToType
  <2>2. AllHonest(AndThen(net, To(ch, m)))
    BY <1>2, <1>5, <2>1, AndThenCarries, MessagesCarry DEF AllHonest, Carries
  <2> QED
    BY <1>2, <1>3, <1>5, <2>2, LeftHonest
<1>6. ASSUME NEW ch \in BindChannels, Bind(ch) PROVE AllHonest(net)'
  <2>1. ch \in Channel /\ ch.src \in Endpoint
    BY ConfigAssumption DEF Channel
  <2>2. Honest(ch, DetectMsg(Null, ch.src)) /\ IsMsg(DetectMsg(Null, ch.src))
    BY <2>1 DEF Honest, DetectMsg, IsMsg
  <2> QED
    BY <1>5, <1>6, <2>1, <2>2 DEF Bind
<1>7. ASSUME NEW ch \in DOMAIN net, NEW k \in Deliverable(ch), Duplicate(ch, k)
      PROVE  AllHonest(net)'
  <2>1. ch \in Channel /\ IsMsg(net[ch][k]) /\ Honest(ch, net[ch][k])
    BY <1>2, DeliverableIsThere, SenderLeads
  <2> QED
    BY <1>5, <1>7, <2>1 DEF Duplicate
<1>8. ASSUME NEW ch \in DOMAIN net, NEW k \in Deliverable(ch), net' = Without(ch, k)
      PROVE  AllHonest(net)'
  BY <1>2, <1>3, <1>8, WithoutHonest, LeftHonest
<1>9. AllHonest(net)'
  BY <1>6, <1>7, <1>8 DEF Lose, Undeliverable, RcvTruncated
<1> QED
  BY <1>4, <1>9 DEF KeepsServing

LEMMA NextServes ==
  ASSUME OneServer, ServerInv, NobodyDead, [Next]_vars
  PROVE  ServerInv'
<1> SUFFICES KeepsServing
  BY NextKeepsHoles DEF ServerInv, KeepsServing
<1>1. HolesInv /\ TypeOK
  BY DEF ServerInv, HolesInv, MemberInv, HeardInv
<1>2. ASSUME NEW n \in Node, Start(n) PROVE KeepsServing
  BY <1>2, BootServes DEF Start
<1>3. ASSUME NEW n \in Node, UpdateLoop(n) PROVE KeepsServing
  <2>1. Looping(n)
    BY <1>3 DEF UpdateLoop, UpdateSelf, UpdateSender, UpdatePublic, UpdateProxy
  <2> QED
    BY <1>3, <2>1, FileServes, ConnectServes DEF UpdateLoop
<1>4. ASSUME NEW n \in Node, Crash(n) PROVE KeepsServing
  BY <1>4, StopServes DEF Crash, ServerInv
<1>5. ASSUME NEW n \in Node, NEW ch \in DOMAIN net, NEW k \in Deliverable(ch),
             HandleReceive(n, ch, k)
      PROVE  KeepsServing
  <2>1. CASE Abort(n, ch, k)
    BY <2>1, WithoutHonest, StopServes DEF Abort
  <2>2. CASE Detecting(n, ch, k) /\ ~ Abort(n, ch, k)
    BY <2>2, NeverRead, DetectServes DEF Detecting, RcvDetectNoID, RcvDetectNoProber
  <2>3. CASE Updating(n, ch, k) /\ ~ Abort(n, ch, k)
    BY <2>3, UpdateServes, NetworkServes DEF Updating, RcvUpdateFatal
  <2>4. CASE Punching(n, ch, k) /\ ~ Abort(n, ch, k)
    BY <2>4, PunchingServes, OpenconnectServes DEF Punching, RcvOpenconnectNull
  <2>5. CASE Probing(n, ch, k)
    BY <2>5, NeverRead
  <2>6. CASE Ticking(n, ch, k)
    BY <2>6, TickingServes
  <2> QED
    BY <1>5, <2>1, <2>2, <2>3, <2>4, <2>5, <2>6 DEF HandleReceive
<1>6. CASE UNCHANGED vars
  BY <1>6 DEF vars, process, ServerInv, KeepsServing, AllStraight, Straight, LoopLeads,
              AllLead, Leads, AllHonest, Honest, OwnIDs
<1>7. CASE \E n \in Node : Start(n) \/ UpdateLoop(n) \/ TimerRound(n)
  BY <1>2, <1>3, <1>7, RoundServes
<1>8. CASE \E ch \in BindChannels : Bind(ch)
  BY <1>8, NetworkServes
<1>9. CASE Arrival
  BY <1>5, <1>9, NetworkServes DEF Arrival
<1>10. CASE Fault
  BY <1>4, <1>10, NetworkServes DEF Fault
<1> QED
  BY <1>6, <1>7, <1>8, <1>9, <1>10 DEF Next

(***************************************************************************)
(* What it is for.                                                         *)
(***************************************************************************)
LEMMA ServerConnects ==
  ASSUME OneServer, ServerInv
  PROVE  ListedIsConnected
<1>1. TypeOK /\ HolesOpen
  BY ServerAnswers, InvOpensHoles DEF ServerInv, HolesInv, MemberInv, HeardInv
<1> SUFFICES ASSUME NEW n \in Node, NEW m \in Node \ {n}, Lists(n, m)
             PROVE  Connected(n, m)
  BY DEF ListedIsConnected
<1>2. PICK ep \in Endpoint : OpenBetween(n, m, ep)
  BY <1>1 DEF HolesOpen
<1>3. MapEp[n][ep] \in Endpoint
  BY ConfigAssumption
<1>4. ep = Seen(m)
  BY <1>2, <1>3 DEF OpenBetween, OneServer
<1>5. hostList[n][nodeID[m]].ep = Seen(m)
  BY DEF Lists, ServerInv, AllStraight, Straight, AllLead, Leads
<1> QED
  BY <1>2, <1>4, <1>5 DEF Connected

LEMMA InitServes == Init => ServerInv
<1> SUFFICES ASSUME Init PROVE OwnIDs /\ AllStraight /\ AllHonest(net) /\ HolesInv
  BY DEF ServerInv
<1>1. HolesInv
  BY InitIsMembership DEF HolesInv, Init, AllOpened, EmptyMap, HeardThrough, OneEach
<1>2. AllStraight
  BY EmptyLeads DEF Init, AllStraight, Straight, TrueOf, LoopLeads
<1> QED
  BY <1>1, <1>2 DEF Init, OwnIDs, AllHonest, EmptyMap

(* Whatever is lost, repeated, reordered or killed: with cone NATs and one *)
(* server, a process is listed, while it lives, at the endpoint that leads *)
(* to it and through open NATs, as long as no node but the server drops a  *)
(* peer.  One that does sends an update of its own, and once a helper has  *)
(* replaced the sender in its loop (server.cpp:308), the server's entry    *)
(* may be filed under that node's ID.                                      *)
THEOREM ListedWhereItIs ==
  ASSUME OneServer
  PROVE  Spec /\ []NobodyDead => []ListedIsConnected
<1>1. Init => ServerInv
  BY InitServes
<1>2. ServerInv /\ NobodyDead /\ [Next]_vars => ServerInv'
  BY NextServes
<1>3. ServerInv => ListedIsConnected
  BY ServerConnects
<1> QED
  BY <1>1, <1>2, <1>3, PTL DEF Spec
(***************************************************************************)
(* Before the first round of a timer nobody has found anything dead.       *)
(***************************************************************************)
Untimed == budget.rounds = 0 /\ \A n \in Node : DOMAIN tickerNum[n] = {}

LEMMA NextUntimed ==
  ASSUME ~ Synchronous, TypeOK, Untimed, [Next]_vars
  PROVE  Untimed'
<1>1. DOMAIN tickerNum = Node
  BY DEF TypeOK, ProcessOK
<1>2. ASSUME NEW n \in Node, NEW how, Stop(n, how), UNCHANGED budget PROVE Untimed'
  BY <1>1, <1>2 DEF Stop, Untimed, EmptyMap
<1>3. \A n \in Node : ~ TimerRound(n)
  BY DEF TimerRound, Untimed
<1>4. ASSUME NEW n \in Node, Start(n) \/ UpdateLoop(n) PROVE Untimed'
  BY <1>4 DEF Start, Boot, UpdateLoop, UpdateSelf, UpdateSender, UpdatePublic, UpdateProxy,
              FileItem, Connect, Untimed
<1>5. ASSUME NEW n \in Node, NEW ch, NEW k, HandleReceive(n, ch, k) PROVE Untimed'
  <2>1. CASE Abort(n, ch, k)
    BY <1>2, <2>1 DEF Abort
  <2>2. CASE Ticking(n, ch, k)
    BY <1>1, <2>2 DEF Ticking, RcvTicker, RcvTickerRes, Handle, Reset, Restrict, Untimed
  <2>3. CASE Detecting(n, ch, k) \/ Updating(n, ch, k)
    BY <2>1, <2>3 DEF Detecting, RcvDetectNoID, RcvDetectPublic, RcvDetectMapped,
                      RcvDetectNoProber, Updating, RcvUpdateFatal, RcvUpdate,
                      RcvTruncated, process, Handle, Untimed
  <2>4. CASE Punching(n, ch, k) \/ Probing(n, ch, k)
    BY <2>1, <2>4 DEF Punching, RcvProxyconnect, RcvHelpconnect, RcvOpenconnect,
                      RcvOpenconnectNull, Probing, RcvFilteringcheck, RcvCallclient,
                      RcvCallclientRes, Handle, Untimed
  <2> QED
    BY <1>5, <2>2, <2>3, <2>4 DEF HandleReceive
<1>6. ASSUME NEW n \in Node, Crash(n) PROVE Untimed'
  <2>1. budget'.rounds = budget.rounds /\ DOMAIN tickerNum'[n] = {}
    BY <1>1, <1>6 DEF Crash, Stop, EmptyMap, TypeOK, NetworkOK
  <2> QED
    BY <1>1, <1>6, <2>1 DEF Crash, Stop, Untimed
<1>7. CASE \/ UNCHANGED vars
           \/ \E ch \in BindChannels : Bind(ch)
           \/ \E ch \in DOMAIN net : \E k \in Deliverable(ch) :
                Undeliverable(ch, k) \/ Lose(ch, k) \/ Duplicate(ch, k)
  BY <1>7 DEF vars, process, Bind, Undeliverable, Lose, Duplicate, Untimed, TypeOK,
              NetworkOK
<1> QED
  BY <1>3, <1>4, <1>5, <1>6, <1>7 DEF Next, Arrival, Fault

LEMMA UntimedAlive == Untimed => NobodyDead
BY DEF Untimed, NobodyDead, DeadEps

(* So until timers tick the entries need no such proviso: what the start   *)
(* of an overlay and the punching of its holes make of the lists is right. *)
THEOREM PunchedWhereItIs ==
  ASSUME OneServer, ~ Synchronous, MaxRounds = 0
  PROVE  Spec => []ListedIsConnected
<1>1. Init => TypeOK /\ Untimed
  BY InitType DEF Init, Untimed, EmptyMap
<1>2. TypeOK /\ Untimed /\ [Next]_vars => (TypeOK /\ Untimed)'
  BY NextType, NextUntimed
<1>3. Untimed => NobodyDead
  BY UntimedAlive
<1> QED
  BY <1>1, <1>2, <1>3, ListedWhereItIs, PTL DEF Spec

(***************************************************************************)
(* The counters of unanswered tickers.  genUuid gives no two nodes one ID, *)
(* so that a listed ID is always at one endpoint, and no datagram moves    *)
(* its entry away from the counter that goes with it.                      *)
(***************************************************************************)
NoSharedID == \A n \in Node : \A m \in Node \ {n} : IDsOf[n] \cap IDsOf[m] = {}

PeerEps(hl, self) == {hl[i].ep : i \in DOMAIN hl \ {self}}

LEMMA OneSeen ==
  ASSUME NoSharedID, NEW i, NEW d, NEW e, Leads(i, d), Leads(i, e)
  PROVE  d = e
BY DEF NoSharedID, Leads, DrawnAt

(* A list that has all the entries of hl, where they were. *)
HasAll(more, hl) ==
  DOMAIN hl \subseteq DOMAIN more /\ \A i \in DOMAIN hl : more[i].ep = hl[i].ep

LEMMA MoreEps ==
  ASSUME NEW hl, NEW more, HasAll(more, hl)
  PROVE  \A self : PeerEps(hl, self) \subseteq PeerEps(more, self)
BY DEF HasAll, PeerEps

LEMMA AddHasAll ==
  ASSUME NEW hl, NEW id, NEW info
  PROVE  HasAll(AddNewNode(hl, id, info), hl)
BY DEF HasAll, AddNewNode, PutNode

LEMMA AddTwoHasAll ==
  ASSUME NEW hl, NEW id, NEW info, NEW jd, NEW more
  PROVE  HasAll(AddNewNode(AddNewNode(hl, id, info), jd, more), hl)
BY AddHasAll DEF HasAll

LEMMA PutHasAll ==
  ASSUME NoSharedID, NEW hl, AllLead(hl), NEW id, NEW info, Leads(id, info.ep)
  PROVE  HasAll(PutNode(hl, id, info), hl)
<1>1. id \in DOMAIN hl => hl[id].ep = info.ep
  BY OneSeen DEF AllLead
<1> QED
  BY <1>1 DEF HasAll, PutNode

(* A round keeps every entry but those at dead endpoints, where it was.    *)
LEMMA CheckedEps ==
  ASSUME TypeOK, NEW n \in Node
  PROVE  /\ HasAll(hostList[n], Checked(n))
         /\ \A self : PeerEps(hostList[n], self) \ DeadEps(tickerNum[n])
                        \subseteq PeerEps(Checked(n), self)
<1> DEFINE hl   == hostList[n]
           more == SetFiltering(hl, {p.id : p \in Expired(fCkTimeMap[n])}, "isFilter")
           dead == DeadEps(tickerNum[n])
<1>1. IsHostList(hl)
  BY DEF TypeOK, ProcessOK
<1>2. DOMAIN more = DOMAIN hl /\ \A i \in DOMAIN hl : more[i].ep = hl[i].ep
  BY <1>1 DEF SetFiltering, IsHostList, Info
<1>3. /\ DOMAIN Checked(n) = {i \in DOMAIN more : more[i].ep \notin dead}
      /\ \A i \in DOMAIN Checked(n) : Checked(n)[i] = more[i]
  BY DEF Checked, EraseAt, Restrict
<1> HIDE DEF hl, more, dead
<1>4. HasAll(hl, Checked(n))
  BY <1>2, <1>3 DEF HasAll
<1>5. \A self : PeerEps(hl, self) \ dead \subseteq PeerEps(Checked(n), self)
  BY <1>2, <1>3 DEF PeerEps
<1> QED
  BY <1>4, <1>5 DEF hl, dead

(***************************************************************************)
(* What a handler does to a list and its counters: entries stay where they *)
(* are, and counters are only reset.                                       *)
(***************************************************************************)
Grows ==
  /\ UNCHANGED <<status, nodeID>>
  /\ \A x \in Node :
       /\ HasAll(hostList'[x], hostList[x])
       /\ DOMAIN tickerNum'[x] \subseteq DOMAIN tickerNum[x]
       /\ \A e \in DOMAIN tickerNum'[x] : tickerNum'[x][e] = tickerNum[x][e]

LEMMA CountersStay ==
  ASSUME CountersOfPeers, Grows
  PROVE  CountersOfPeers'
<1> SUFFICES ASSUME NEW x \in Node
             PROVE  DOMAIN tickerNum'[x] \subseteq PeerEps(hostList'[x], nodeID'[x])
  BY DEF CountersOfPeers, PeerEps
<1>1. DOMAIN tickerNum[x] \subseteq PeerEps(hostList[x], nodeID[x])
  BY DEF CountersOfPeers, PeerEps
<1>2. PeerEps(hostList[x], nodeID[x]) \subseteq PeerEps(hostList'[x], nodeID[x])
  BY MoreEps DEF Grows
<1> QED
  BY <1>1, <1>2 DEF Grows

LEMMA ListGrows ==
  ASSUME ServerInv, NEW n \in Node, NEW hl, HasAll(hl, hostList[n]),
         hostList' = [hostList EXCEPT ![n] = hl], UNCHANGED <<status, nodeID, tickerNum>>
  PROVE  Grows
<1>1. DOMAIN hostList = Node
  BY DEF ServerInv, HolesInv, MemberInv, HeardInv, TypeOK, ProcessOK
<1> QED
  BY <1>1 DEF Grows, HasAll

LEMMA SameGrows == ASSUME UNCHANGED <<status, nodeID, hostList, tickerNum>> PROVE Grows
BY DEF Grows, HasAll

LEMMA StopKeepsCounters ==
  ASSUME ServerInv, CountersOfPeers, NEW n \in Node, NEW how, Stop(n, how)
  PROVE  CountersOfPeers'
<1>1. /\ DOMAIN hostList = Node /\ DOMAIN tickerNum = Node
      /\ nodeID \in [Node -> ID \cup {Null}]
  BY DEF ServerInv, HolesInv, MemberInv, HeardInv, TypeOK, ProcessOK
<1>2. DOMAIN tickerNum'[n] = {}
  BY <1>1 DEF Stop, EmptyMap
<1>3. \A x \in Node \ {n} : /\ tickerNum'[x] = tickerNum[x] /\ hostList'[x] = hostList[x]
                            /\ nodeID'[x] = nodeID[x]
  BY <1>1 DEF Stop
<1> QED
  BY <1>2, <1>3 DEF CountersOfPeers

LEMMA RoundKeepsCounters ==
  ASSUME ServerInv, CountersOfPeers, NEW n \in Node, TimerRound(n)
  PROVE  CountersOfPeers'
<1> DEFINE hl   == Checked(n)
           dead == DeadEps(tickerNum[n])
           eps  == PeerEps(hl, nodeID[n])
<1>1. TypeOK
  BY DEF ServerInv, HolesInv, MemberInv, HeardInv
<1>2. /\ hostList'[n] = hl
      /\ tickerNum'[n] = Ticked(tickerNum[n], hl, nodeID[n])
      /\ \A x \in Node \ {n} : hostList'[x] = hostList[x] /\ tickerNum'[x] = tickerNum[x]
      /\ nodeID' = nodeID
  BY <1>1 DEF TimerRound, TypeOK, ProcessOK
<1>3. DOMAIN tickerNum'[n] = (DOMAIN tickerNum[n] \ dead) \cup eps
  BY <1>2 DEF Ticked, PeerEps
<1>4. DOMAIN tickerNum[n] \subseteq PeerEps(hostList[n], nodeID[n])
  BY DEF CountersOfPeers, PeerEps
<1>5. PeerEps(hostList[n], nodeID[n]) \ dead \subseteq eps
  BY <1>1, CheckedEps
<1>6. DOMAIN tickerNum'[n] \subseteq PeerEps(hostList'[n], nodeID'[n])
  BY <1>2, <1>3, <1>4, <1>5
<1> QED
  BY <1>2, <1>6 DEF CountersOfPeers, PeerEps

LEMMA TickingGrows ==
  ASSUME OneServer, NoSharedID, ServerInv, NEW n \in Node,
         NEW ch \in DOMAIN net, NEW k \in Deliverable(ch), Ticking(n, ch, k)
  PROVE  Grows
<1> DEFINE m    == net[ch][k]
           hl   == hostList[n]
           more == IF m.info = Null THEN hl ELSE PutNode(hl, m.id, m.info)
<1>1. DOMAIN hostList = Node /\ DOMAIN tickerNum = Node
  BY DEF ServerInv, HolesInv, MemberInv, HeardInv, TypeOK, ProcessOK
<1>2. /\ tickerNum' = [tickerNum EXCEPT ![n] = Reset(@, ch.src)]
      /\ UNCHANGED <<status, nodeID>>
  BY DEF Ticking, RcvTicker, RcvTickerRes
<1>3. \A x \in Node :
        /\ DOMAIN tickerNum'[x] \subseteq DOMAIN tickerNum[x]
        /\ \A e \in DOMAIN tickerNum'[x] : tickerNum'[x][e] = tickerNum[x][e]
  BY <1>1, <1>2 DEF Reset, Restrict
<1>4. \A x : HasAll(x, x)
  BY DEF HasAll
<1>5. CASE RcvTicker(n, ch, k)
  <2>1. AllLead(hl) /\ TrueOf(ch.src, m.info) /\ Leads(m.id, ch.src)
    BY <1>5, ReadsHonest DEF RcvTicker, Honest
  <2>2. HasAll(more, hl)
    BY <1>4, <2>1, PutHasAll DEF TrueOf
  <2>3. hostList' = [hostList EXCEPT ![n] = more]
    BY <1>5 DEF RcvTicker
  <2>4. \A x \in Node : HasAll(hostList'[x], hostList[x])
    BY <1>1, <1>4, <2>2, <2>3
  <2> QED
    BY <1>2, <1>3, <2>4 DEF Grows
<1>6. CASE RcvTickerRes(n, ch, k)
  BY <1>2, <1>3, <1>4, <1>6 DEF RcvTickerRes, Grows
<1> QED
  BY <1>5, <1>6 DEF Ticking

LEMMA ReceiveGrows ==
  ASSUME OneServer, NoSharedID, ServerInv, NEW n \in Node,
         NEW ch \in DOMAIN net, NEW k \in Deliverable(ch),
         HandleReceive(n, ch, k), ~ Abort(n, ch, k)
  PROVE  Grows
<1> DEFINE m  == net[ch][k]
           hl == hostList[n]
<1>1. CASE UNCHANGED <<status, nodeID, hostList, tickerNum>>
  BY <1>1, SameGrows
<1>2. CASE RcvDetectMapped(n, ch, k)
  <2>1. HasAll(MappedList(n, ch, m.id), hl)
    BY AddTwoHasAll DEF MappedList, ListSender
  <2>2. /\ hostList' = [hostList EXCEPT ![n] = MappedList(n, ch, m.id)]
        /\ UNCHANGED <<status, nodeID, tickerNum>>
    BY <1>2 DEF RcvDetectMapped
  <2> QED
    BY <2>1, <2>2, ListGrows
<1>3. CASE RcvOpenconnect(n, ch, k)
  <2>1. AllLead(hl) /\ m.info.ep = ch.src /\ Leads(m.id, ch.src)
    BY <1>3, ReadsHonest DEF RcvOpenconnect, Honest, TrueOf
  <2>2. HasAll(Opened(hl, m.id, m.info, ch.src), hl)
    BY <2>1, AddHasAll DEF Opened
  <2>3. /\ hostList' = [hostList EXCEPT ![n] = Opened(hl, m.id, m.info, ch.src)]
        /\ UNCHANGED <<status, nodeID, tickerNum>>
    BY <1>3 DEF RcvOpenconnect
  <2> QED
    BY <2>2, <2>3, ListGrows
<1>4. ~ RcvDetectPublic(n, ch, k) /\ ~ Probing(n, ch, k)
  BY NeverRead
<1> QED
  BY <1>1, <1>2, <1>3, <1>4, TickingGrows
     DEF HandleReceive, Detecting, Updating, Punching, RcvDetectNoID, RcvDetectNoProber,
         RcvUpdateFatal, RcvUpdate, RcvTruncated, process, RcvProxyconnect, RcvHelpconnect,
         RcvOpenconnectNull

LEMMA LoopGrows ==
  ASSUME ServerInv, NEW n \in Node, UpdateLoop(n)
  PROVE  Grows
<1>1. CASE UpdateSelf(n) \/ UpdateSender(n)
  <2>1. PICK id : FileItem(n, id)
    BY <1>1 DEF UpdateSelf, UpdateSender
  <2>2. /\ hostList' = [hostList EXCEPT ![n] = AddNewNode(hostList[n], id, ItemObj(n))]
        /\ UNCHANGED <<status, nodeID, tickerNum>>
    BY <2>1 DEF FileItem
  <2> QED
    BY <2>2, AddHasAll, ListGrows
<1>2. CASE UpdatePublic(n) \/ UpdateProxy(n)
  BY <1>2, SameGrows DEF UpdatePublic, UpdateProxy, Connect
<1> QED
  BY <1>1, <1>2 DEF UpdateLoop

LEMMA NetworkGrows ==
  ASSUME \/ UNCHANGED vars
         \/ \E ch \in BindChannels : Bind(ch)
         \/ \E ch \in DOMAIN net : \E k \in Deliverable(ch) :
              Undeliverable(ch, k) \/ Lose(ch, k) \/ Duplicate(ch, k)
  PROVE  Grows
<1>1. UNCHANGED process
  BY DEF vars, Bind, Undeliverable, Lose, Duplicate
<1> QED
  BY <1>1, SameGrows DEF process

LEMMA NextKeepsCounters ==
  ASSUME OneServer, NoSharedID, ServerInv, CountersOfPeers, [Next]_vars
  PROVE  CountersOfPeers'
<1>1. /\ DOMAIN hostList = Node /\ DOMAIN tickerNum = Node /\ LifeOK
      /\ nodeID \in [Node -> ID \cup {Null}]
  BY DEF ServerInv, HolesInv, MemberInv, HeardInv, TypeOK, ProcessOK
<1>2. ASSUME NEW n \in Node, NEW id, Boot(n, id) PROVE CountersOfPeers'
  <2>1. DOMAIN tickerNum[n] = {}
    BY <1>1, <1>2 DEF Boot, LifeOK, CountersOfPeers
  <2>2. /\ \A x \in Node \ {n} : nodeID'[x] = nodeID[x]
        /\ UNCHANGED <<hostList, tickerNum>>
    BY <1>1, <1>2 DEF Boot
  <2> QED
    BY <2>1, <2>2 DEF CountersOfPeers
<1>3. ASSUME NEW n \in Node, NEW ch \in DOMAIN net, NEW k \in Deliverable(ch),
             HandleReceive(n, ch, k)
      PROVE  CountersOfPeers'
  BY <1>3, ReceiveGrows, CountersStay, StopKeepsCounters DEF Abort
<1>4. ASSUME NEW n \in Node, UpdateLoop(n) \/ Crash(n) PROVE CountersOfPeers'
  BY <1>4, LoopGrows, CountersStay, StopKeepsCounters DEF Crash
<1>5. CASE \/ UNCHANGED vars
           \/ \E ch \in BindChannels : Bind(ch)
           \/ \E ch \in DOMAIN net : \E k \in Deliverable(ch) :
                Undeliverable(ch, k) \/ Lose(ch, k) \/ Duplicate(ch, k)
  BY <1>5, NetworkGrows, CountersStay
<1> QED
  BY <1>2, <1>3, <1>4, <1>5, RoundKeepsCounters DEF Next, Start, Arrival, Fault

(* In such an overlay a counter of unanswered tickers is always that of a  *)
(* listed peer: no process is dropped on the count of another.             *)
THEOREM CountedWhileListed ==
  ASSUME OneServer, NoSharedID
  PROVE  Spec /\ []NobodyDead => []CountersOfPeers
<1>1. Init => ServerInv /\ CountersOfPeers
  BY InitServes DEF Init, CountersOfPeers, EmptyMap
<1>2. ServerInv /\ CountersOfPeers /\ NobodyDead /\ [Next]_vars => (ServerInv /\ CountersOfPeers)'
  BY NextServes, NextKeepsCounters
<1> QED
  BY <1>1, <1>2, PTL DEF Spec
=============================================================================
