--------------------------- MODULE DeliveredProofs ---------------------------
(***************************************************************************)
(* What becomes of an overlay when datagrams arrive, each channel in order.*)
(* The first that a node hears of its server is an update, so whoever is   *)
(* named to others knows of itself before it is asked to open its NAT.     *)
(***************************************************************************)
EXTENDS ConnectedProofs

(***************************************************************************)
(* One server, started with -m; nothing is lost or reordered, no update is *)
(* too long with an entry for each node, no killed process is started      *)
(* again, and no program runs in "bind" mode.  So it is in the run punch.  *)
(***************************************************************************)
Delivered ==
  /\ OneServer /\ NoSharedID
  /\ Server \in MainNodes /\ BindChannels = {}
  /\ InOrder /\ MaxLoss = 0 /\ ~ Restarts
  /\ IsFiniteSet(Node) /\ Cardinality(Node) <= MaxHosts

(***************************************************************************)
(* x has heard from its server, or will.                                   *)
(***************************************************************************)
FromServer(x) == From(Server, Seen(x))

Unaware(x) == status[x] = "up" /\ localEpInfo[x] = Null
Greeted(x) == FromServer(x) \in DOMAIN net
Told(x)    == status[x] # "off" /\ (Unaware(x) => Greeted(x))

FirstWord(x) ==
  Greeted(x) => /\ status[x] # "off"
                /\ Unaware(x) => net[FromServer(x)][1].type = "update"

FirstWords == \A x \in Node \ {Server} : FirstWord(x)

(* Nobody is named before it has been told. *)
Introduced(e) == \A x \in Node : e = Seen(x) => Told(x)

AllTold(hl) == \A i \in DOMAIN hl : Introduced(hl[i].ep)

Mannered(n, hl, loop) ==
  /\ AllTold(hl)
  /\ loop # Null => AllTold(loop.hosts)
  /\ (\E i \in DOMAIN hl : hl[i].ep = ServerEp) => Told(n)

Polite(ch, m) ==
  /\ m.id # Null
  /\ m.type = "update" =>
       AllTold(m.hosts) /\ \E i \in DOMAIN m.hosts : m.hosts[i].ep = ch.dst
  /\ m.type = "proxyconnect" => ch.dst = ServerEp /\ Introduced(m.info.ep)
  /\ m.type = "helpconnect" => ch.src = ServerEp
  /\ m.type = "openconnect" => m.info # Null /\ Introduced(ch.src)
  /\ m.type = "ticker" /\ (m.info # Null \/ ch.dst = ServerEp) => Introduced(ch.src)

AllPolite(q) == \A ch \in DOMAIN q : \A m \in Range(q[ch]) : Polite(ch, m)

(* A node draws one ID in all. *)
OneLife ==
  \A n \in Node : \A i \in IDsOf[n] \cap used :
    /\ status[n] # "off" /\ (status[n] = "up" => nodeID[n] = i)
    /\ \A j \in IDsOf[n] \cap used : i = j

Orderly ==
  /\ budget.loss = 0
  /\ ~ Unaware(Server)
  /\ NobodyAborts
  /\ \A n \in Node \cap Filters : status[n] # "off" => ServerEp \in perm[n]

AllMannered == \A n \in Node : Mannered(n, hostList[n], rcv[n])

TalkInv ==
  ServerInv /\ OneLife /\ Orderly /\ FirstWords /\ AllPolite(net) /\ AllMannered

(***************************************************************************)
(* The server's datagrams, and where the others are.                       *)
(***************************************************************************)
LEMMA TypedTalk ==
  ASSUME TalkInv
  PROVE  TypeOK /\ HolesInv /\ AreQueues(net, Channel)
BY DEF TalkInv, ServerInv, HolesInv, MemberInv, HeardInv, TypeOK, NetworkOK

LEMMA ServerReaches ==
  ASSUME OneServer, NEW x \in Node \ {Server}
  PROVE  /\ Readable(x, FromServer(x))
         /\ FromServer(x).src = ServerEp /\ FromServer(x).dst = Seen(x)
         /\ MapEp[x][ServerEp] = Seen(x) /\ Seen(x) # ServerEp
<1>1. LocalEp[x] \in Endpoint /\ ServerEp \in Endpoint /\ Seen(Server) = ServerEp
  BY ServerSeen, ConfigAssumption DEF OneServer
<1>2. MapEp[x][ServerEp] = Seen(x) /\ MapEp[x][LocalEp[x]] = Seen(x)
  BY <1>1 DEF OneServer
<1>3. ServerEp.ip # Seen(x).ip /\ ServerEp.ip # LocalEp[x].ip
  BY <1>1 DEF OneServer
<1>4. FromServer(x).src = ServerEp /\ FromServer(x).dst = Seen(x)
  BY <1>1 DEF FromServer, From
<1> QED
  BY <1>1, <1>2, <1>3, <1>4 DEF Readable, Owns

LEMMA ServerChannels ==
  ASSUME OneServer, NEW n \in Node, NEW ch \in Channel, Readable(n, ch), ch.src = ServerEp
  PROVE  n # Server /\ ch = FromServer(n)
<1>1. ch.dst = Seen(n) /\ ch.src.ip # LocalEp[n].ip
  BY ReaderIsSeen
<1>2. n # Server
  BY <1>1 DEF ServerEp
<1>3. ch = [src |-> ch.src, dst |-> ch.dst]
  BY DEF Channel
<1> QED
  BY <1>1, <1>2, <1>3, ServerSeen DEF FromServer, From

LEMMA OneReader ==
  ASSUME OneServer, NEW x \in Node, NEW y \in Node, Seen(x) = Seen(y)
  PROVE  x = y
BY SeenAlike

LEMMA IntroducedIs ==
  ASSUME OneServer, NEW x \in Node
  PROVE  Introduced(Seen(x)) <=> Told(x)
BY OneReader DEF Introduced

(* What is listed where x is seen is its process, started once. *)
LEMMA ListedStarted ==
  ASSUME OneServer, OneLife, NEW x \in Node, NEW i, Leads(i, Seen(x))
  PROVE  /\ i \in IDsOf[x] \cap used
         /\ status[x] # "off" /\ (status[x] = "up" => nodeID[x] = i)
<1>1. i \in IDsOf[x] \cap used
  BY OneReader DEF Leads, DrawnAt
<1> QED
  BY <1>1 DEF OneLife

(***************************************************************************)
(* Queues: the first message stays first until it is taken.                *)
(***************************************************************************)
LEMMA FirstOf ==
  ASSUME NEW sq, IsQueue(sq)
  PROVE  /\ 1 \in DOMAIN sq /\ sq[1] \in Range(sq)
         /\ \A tq : tq = <<>> \/ IsQueue(tq) => (sq \o tq)[1] = sq[1]
         /\ <<>> \o sq = sq
<1>1. sq \in Seq(Range(sq)) /\ sq # <<>>
  BY DEF IsQueue
<1> DEFINE S == Range(sq)
<1>2. sq \in Seq(S)
  BY <1>1
<1>3. 1 \in DOMAIN sq /\ sq[1] \in Range(sq)
  BY <1>1 DEF Range
<1>4. ASSUME NEW tq, tq = <<>> \/ IsQueue(tq) PROVE (sq \o tq)[1] = sq[1]
  <2>1. tq \in Seq(Range(tq))
    BY <1>4, SequenceOf
  <2> DEFINE B == S \cup Range(tq)
  <2>2. sq \in Seq(B) /\ tq \in Seq(B)
    BY <1>2, <2>1
  <2> HIDE DEF B
  <2>3. Len(sq) >= 1
    BY <1>1, <2>2
  <2> QED
    BY <2>2, <2>3
<1> HIDE DEF S
<1>5. <<>> \o sq = sq
  BY <1>2
<1> QED
  BY <1>3, <1>4, <1>5

LEMMA AndThenFirst ==
  ASSUME NEW D, NEW q, NEW r, AreQueues(q, D), AreQueues(r, D), NEW x
  PROVE  /\ x \in DOMAIN AndThen(q, r) <=> x \in DOMAIN q \/ x \in DOMAIN r
         /\ x \in DOMAIN q => AndThen(q, r)[x][1] = q[x][1]
         /\ x \notin DOMAIN q /\ x \in DOMAIN r => AndThen(q, r)[x] = r[x]
<1>1. DOMAIN AndThen(q, r) = DOMAIN q \cup DOMAIN r
  BY DEF AndThen
<1>2. CASE x \in DOMAIN q
  <2>1. IsQueue(q[x]) /\ (SentTo(r, x) = <<>> \/ IsQueue(SentTo(r, x)))
    BY <1>2 DEF AreQueues, SentTo
  <2>2. AndThen(q, r)[x] = q[x] \o SentTo(r, x)
    BY <1>1, <1>2 DEF AndThen, SentTo
  <2> QED
    BY <1>1, <1>2, <2>1, <2>2, FirstOf
<1>3. CASE x \notin DOMAIN q /\ x \in DOMAIN r
  <2>1. AndThen(q, r)[x] = <<>> \o r[x]
    BY <1>1, <1>3 DEF AndThen, SentTo
  <2> QED
    BY <1>1, <1>3, <2>1, FirstOf DEF AreQueues
<1> QED
  BY <1>1, <1>2, <1>3

LEMMA WithoutElsewhere ==
  ASSUME NEW ch \in DOMAIN net, NEW k
  PROVE  /\ DOMAIN Without(ch, k) \subseteq DOMAIN net
         /\ \A x \in DOMAIN net \ {ch} :
              x \in DOMAIN Without(ch, k) /\ Without(ch, k)[x] = net[x]
<1> DEFINE rest == RemoveAt(net[ch], k)
<1>1. CASE rest = <<>>
  BY <1>1 DEF Without, Restrict
<1>2. CASE rest # <<>>
  <2>1. Without(ch, k) = [net EXCEPT ![ch] = rest]
    BY <1>2 DEF Without
  <2> QED
    BY <2>1
<1> QED
  BY <1>1, <1>2

(***************************************************************************)
(* What a step must leave as it is for all to stay told.                   *)
(***************************************************************************)
HeadKept(x) ==
  Greeted(x) => Greeted(x)' /\ net'[FromServer(x)][1] = net[FromServer(x)][1]

Persists ==
  \A x \in Node :
    /\ status[x] # "off" => status'[x] # "off"
    /\ Unaware(x)' => status[x] = "off" \/ (Unaware(x) /\ HeadKept(x))

LEMMA ToldStays == ASSUME Persists, NEW x \in Node, Told(x) PROVE Told(x)'
BY DEF Persists, Told, HeadKept

LEMMA IntroducedStays == ASSUME Persists PROVE \A e : Introduced(e) => Introduced(e)'
BY ToldStays DEF Introduced

LEMMA MannersStay ==
  ASSUME Persists
  PROVE  /\ \A hl : AllTold(hl) => AllTold(hl)'
         /\ \A ch, m : Polite(ch, m) => Polite(ch, m)'
         /\ \A n \in Node : \A hl, loop : Mannered(n, hl, loop) => Mannered(n, hl, loop)'
<1>1. \A hl : AllTold(hl) => AllTold(hl)'
  BY IntroducedStays DEF AllTold
<1>2. \A ch, m : Polite(ch, m) => Polite(ch, m)'
  BY <1>1, IntroducedStays DEF Polite
<1>3. \A n \in Node : \A hl, loop : Mannered(n, hl, loop) => Mannered(n, hl, loop)'
  BY <1>1, ToldStays DEF Mannered
<1> QED
  BY <1>1, <1>2, <1>3

LEMMA FirstWordStays ==
  ASSUME Persists, NEW x \in Node, FirstWord(x),
         Greeted(x)' => \/ Greeted(x) \/ Told(x)
                        \/ status[x] # "off" /\ net'[FromServer(x)][1].type = "update"
  PROVE  FirstWord(x)'
BY DEF Persists, FirstWord, HeadKept, Told, Greeted, FromServer, From, Seen

(***************************************************************************)
(* Sending.  The server speaks to none it has not told, except to tell.    *)
(***************************************************************************)
Says(n, out) ==
  n = Server => \A e \in DOMAIN out : \A x \in Node \ {Server} :
    e = Seen(x) => Told(x) \/ (status[x] # "off" /\ out[e][1].type = "update")

LEMMA RouteFirst ==
  ASSUME OneServer, NEW n \in Node, NEW out, DOMAIN out \subseteq Endpoint,
         NEW x \in Node \ {Server}, FromServer(x) \in DOMAIN Route(n, out)
  PROVE  /\ n = Server /\ Seen(x) \in DOMAIN out
         /\ Route(n, out)[FromServer(x)] = out[Seen(x)]
<1>1. PICK e \in DOMAIN out : FromServer(x) = [src |-> MapEp[n][e], dst |-> e]
  BY DEF Route
<1>2. MapEp[n][e] = Seen(n)
  BY DEF OneServer
<1>3. FromServer(x).src = Seen(n) /\ FromServer(x).dst = e
  BY <1>1, <1>2
<1>4. e = Seen(x) /\ Seen(n) = Seen(Server)
  BY <1>3, ServerReaches, ServerSeen
<1>5. n = Server
  BY <1>4, OneReader DEF OneServer
<1>6. Route(n, out)[FromServer(x)] = out[FromServer(x).dst]
  BY DEF Route
<1> QED
  BY <1>3, <1>4, <1>5, <1>6

LEMMA SentWords ==
  ASSUME Delivered, TalkInv, Persists, NEW n \in Node,
         NEW out, AreQueues(out, Endpoint), Says(n, out),
         NEW left, AreQueues(left, Channel), DOMAIN left \subseteq DOMAIN net,
         Transmit(n, out, left)
  PROVE  FirstWords'
<1> SUFFICES ASSUME NEW x \in Node \ {Server} PROVE FirstWord(x)'
  BY DEF FirstWords
<1> DEFINE ch == FromServer(x)
<1>1. AreQueues(Route(n, out), Channel) /\ OneServer /\ DOMAIN out \subseteq Endpoint
  BY RouteType DEF Delivered, AreQueues
<1>2. net' = AndThen(left, Route(n, out))
  BY DEF Transmit
<1>3. CASE ch \in DOMAIN left
  BY <1>3, FirstWordStays DEF TalkInv, FirstWords, Greeted
<1>4. CASE ch \notin DOMAIN left /\ ch \in DOMAIN Route(n, out)
  <2>1. n = Server /\ Seen(x) \in DOMAIN out /\ net'[ch] = out[Seen(x)]
    BY <1>1, <1>2, <1>4, RouteFirst, AndThenFirst
  <2> QED
    BY <2>1, FirstWordStays DEF TalkInv, FirstWords, Says
<1>5. CASE ch \notin DOMAIN net'
  BY <1>5, FirstWordStays DEF TalkInv, FirstWords, Greeted
<1> QED
  BY <1>1, <1>2, <1>3, <1>4, <1>5, AndThenFirst

LEMMA SentPolite ==
  ASSUME Delivered, Persists, NEW n \in Node, NEW out, AreQueues(out, Endpoint),
         \A e, m : Carries(out, e, m) => Polite(From(n, e), m)',
         NEW left, AreQueues(left, Channel), AllPolite(left), Transmit(n, out, left)
  PROVE  AllPolite(net)'
<1>1. net' = AndThen(left, Route(n, out)) /\ AreQueues(Route(n, out), Channel)
  BY RouteType DEF Transmit
<1> SUFFICES ASSUME NEW ch, NEW m, Carries(net', ch, m)
             PROVE  Polite(ch, m)'
  BY DEF AllPolite, Carries
<1>2. CASE Carries(left, ch, m)
  BY <1>2, MannersStay DEF AllPolite, Carries
<1>3. CASE Carries(Route(n, out), ch, m)
  <2>1. ch = From(n, ch.dst) /\ Carries(out, ch.dst, m)
    BY <1>3, RouteCarries DEF AreQueues, Delivered
  <2>2. Polite(From(n, ch.dst), m)'
    BY <2>1
  <2> QED
    BY <2>1, <2>2
<1> QED
  BY <1>1, <1>2, <1>3, AndThenCarries

LEMMA WithoutPolite ==
  ASSUME TalkInv, NEW ch \in DOMAIN net, NEW k \in Deliverable(ch)
  PROVE  /\ AreQueues(Without(ch, k), Channel) /\ AllPolite(Without(ch, k))
         /\ DOMAIN Without(ch, k) \subseteq DOMAIN net
BY TypedTalk, WithoutType, WithoutCarries, WithoutElsewhere
   DEF TalkInv, AllPolite, Carries

(* The rest of the invariant, when processes neither start nor end. *)
LEMMA StillOrderly ==
  ASSUME TalkInv, Persists, UNCHANGED <<status, nodeID, used>>, budget'.loss = 0,
         NEW n \in Node, \A x \in Node : perm[x] \subseteq perm'[x],
         \A x \in Node \ {n} : hostList'[x] = hostList[x] /\ rcv'[x] = rcv[x],
         Mannered(n, hostList[n], rcv[n])', Server \in Node
  PROVE  OneLife' /\ Orderly' /\ AllMannered'
<1>1. OneLife'
  BY DEF TalkInv, OneLife
<1>2. Orderly'
  <2>1. ~ Unaware(Server)'
    BY DEF Persists, TalkInv, Orderly, Unaware
  <2> QED
    BY <2>1 DEF TalkInv, Orderly, NobodyAborts
<1>3. AllMannered'
  <2> SUFFICES ASSUME NEW x \in Node PROVE Mannered(x, hostList[x], rcv[x])'
    BY DEF AllMannered
  <2>1. CASE x = n
    BY <2>1
  <2>2. CASE x # n
    BY <2>2, MannersStay DEF AllMannered, TalkInv
  <2> QED
    BY <2>1, <2>2
<1> QED
  BY <1>1, <1>2, <1>3

KeepsTalking == OneLife' /\ Orderly' /\ FirstWords' /\ AllPolite(net)' /\ AllMannered'

LEMMA SenderTalks ==
  ASSUME Delivered, TalkInv, Persists, NEW n \in Node,
         NEW out, AreQueues(out, Endpoint), Says(n, out),
         \A e, m : Carries(out, e, m) => Polite(From(n, e), m)',
         NEW left, AreQueues(left, Channel), DOMAIN left \subseteq DOMAIN net,
         AllPolite(left), Transmit(n, out, left),
         UNCHANGED <<status, nodeID, used>>, budget'.loss = 0,
         \A x \in Node \ {n} : hostList'[x] = hostList[x] /\ rcv'[x] = rcv[x],
         Mannered(n, hostList[n], rcv[n])'
  PROVE  KeepsTalking
<1>1. \A x \in Node : perm[x] \subseteq perm'[x]
  BY TypedTalk DEF Transmit, TypeOK, NetworkOK
<1>2. OneLife' /\ Orderly' /\ AllMannered'
  BY <1>1, StillOrderly DEF Delivered, OneServer
<1> QED
  BY <1>2, SentWords, SentPolite DEF KeepsTalking

LEMMA HeadStays ==
  ASSUME NEW x \in Node, NEW left, AreQueues(left, Channel), NEW r, AreQueues(r, Channel),
         Greeted(x) => FromServer(x) \in DOMAIN left
                       /\ left[FromServer(x)] = net[FromServer(x)],
         net' = AndThen(left, r) \/ net' = left
  PROVE  HeadKept(x)
BY AndThenFirst DEF HeadKept, Greeted

LEMMA SendPersists ==
  ASSUME TypeOK, NEW n \in Node, NEW out, AreQueues(out, Endpoint),
         Transmit(n, out, net), UNCHANGED <<status, localEpInfo>>
  PROVE  Persists
<1>1. net' = AndThen(net, Route(n, out)) /\ AreQueues(Route(n, out), Channel)
  BY RouteType DEF Transmit
<1>2. \A x \in Node : HeadKept(x)
  BY <1>1, HeadStays DEF TypeOK, NetworkOK, Greeted
<1> QED
  BY <1>2 DEF Persists, Unaware

(***************************************************************************)
(* Receiving.  What n reads on the server's channel is the first there: so *)
(* an update, as long as n is unaware.                                     *)
(***************************************************************************)
LEMMA ReadsTalk ==
  ASSUME Delivered, TalkInv, NEW n \in Node,
         NEW ch \in DOMAIN net, NEW k \in Deliverable(ch), NEW type, Receive(n, ch, k, type)
  PROVE  /\ Polite(ch, net[ch][k]) /\ net[ch][k].id # Null
         /\ ch.src = ServerEp => n # Server /\ (type # "update" => ~ Unaware(n))
         /\ Mannered(n, hostList[n], rcv[n])
<1>1. OneServer /\ ServerInv /\ k = 1
  BY DEF Delivered, TalkInv, Deliverable
<1>2. ch \in Channel /\ k \in DOMAIN net[ch] /\ net[ch][k].type = type
  BY TypedTalk, DeliverableIsThere DEF Receive
<1>3. Polite(ch, net[ch][k])
  BY <1>2 DEF TalkInv, AllPolite, Range
<1>4. Mannered(n, hostList[n], rcv[n])
  BY DEF TalkInv, AllMannered
<1>5. ASSUME ch.src = ServerEp PROVE n # Server /\ (type # "update" => ~ Unaware(n))
  <2>1. n # Server /\ ch = FromServer(n)
    BY <1>1, <1>2, <1>5, ServerChannels DEF Receive, CanRead
  <2>2. FirstWord(n) /\ Greeted(n)
    BY <2>1 DEF TalkInv, FirstWords, Greeted
  <2> QED
    BY <1>1, <1>2, <2>1, <2>2 DEF FirstWord
<1> QED
  BY <1>3, <1>4, <1>5 DEF Polite

LEMMA ReadPersists ==
  ASSUME Delivered, TalkInv, NEW n \in Node,
         NEW ch \in DOMAIN net, NEW k \in Deliverable(ch),
         NEW type, type # "update", Receive(n, ch, k, type),
         NEW out, AreQueues(out, Endpoint), Handle(n, ch, k, out),
         UNCHANGED <<status, localEpInfo>>
  PROVE  Persists
<1>1. /\ net' = AndThen(Without(ch, k), Route(n, out))
      /\ AreQueues(Route(n, out), Channel) /\ AreQueues(Without(ch, k), Channel)
  BY RouteType, WithoutPolite DEF Handle, Transmit
<1>2. OneServer /\ ch.dst = Seen(n)
  BY ReaderIsSeen DEF Delivered, Receive, CanRead
<1>3. ASSUME NEW x \in Node, Unaware(x) PROVE HeadKept(x)
  <2>1. ch # FromServer(x)
    <3> SUFFICES ASSUME ch = FromServer(x) PROVE FALSE
      OBVIOUS
    <3>1. ch.src = ServerEp /\ Seen(x) = Seen(n)
      BY <1>2, ServerSeen DEF FromServer, From
    <3> QED
      BY <1>2, <1>3, <3>1, OneReader, ReadsTalk
  <2> QED
    BY <1>1, <2>1, WithoutElsewhere, HeadStays DEF Greeted
<1> QED
  BY <1>3 DEF Persists, Unaware

LEMMA HandlerTalks ==
  ASSUME Delivered, TalkInv, Persists, NEW n \in Node,
         NEW ch \in DOMAIN net, NEW k \in Deliverable(ch),
         NEW out, AreQueues(out, Endpoint), Says(n, out),
         \A e, m : Carries(out, e, m) => Polite(From(n, e), m)',
         Handle(n, ch, k, out), UNCHANGED <<status, nodeID>>,
         \A x \in Node \ {n} : hostList'[x] = hostList[x] /\ rcv'[x] = rcv[x],
         Mannered(n, hostList[n], rcv[n])'
  PROVE  KeepsTalking
BY SenderTalks, WithoutPolite DEF Handle, TalkInv, Orderly

LEMMA RouteGoes ==
  ASSUME OneServer, NEW x \in Node \ {Server}, NEW out, DOMAIN out \subseteq Endpoint,
         Seen(x) \in DOMAIN out
  PROVE  FromServer(x) \in DOMAIN Route(Server, out)
<1>1. MapEp[Server][Seen(x)] = Seen(Server) /\ Server \in Node
  BY DEF OneServer
<1>2. FromServer(x) = [src |-> MapEp[Server][Seen(x)], dst |-> Seen(x)]
  BY <1>1 DEF FromServer, From
<1> QED
  BY <1>2, ServerReaches DEF Route

(***************************************************************************)
(* What a node may write.                                                  *)
(***************************************************************************)
LEMMA RouteInfoPolite ==
  ASSUME TalkInv, NEW n \in Node, status[n] = "up", NEW hl, AllTold(hl)'
  PROVE  \A e, m : Carries(RouteInfo(n, hl), e, m) => Polite(From(n, e), m)'
<1> SUFFICES ASSUME NEW e, NEW m, Carries(RouteInfo(n, hl), e, m)
             PROVE  Polite(From(n, e), m)'
  OBVIOUS
<1>1. m = UpdateMsg(nodeID[n], hl)
  BY ToAllCarries DEF RouteInfo
<1>2. \E i \in DOMAIN hl : hl[i].ep = e
  BY DEF Carries, RouteInfo, ToAll
<1>3. nodeID[n] # Null
  BY TypedTalk DEF TypeOK, LifeOK
<1> QED
  BY <1>1, <1>2, <1>3 DEF Polite, UpdateMsg, From

LEMMA RouteInfoIsPolite ==
  ASSUME TypeOK, NEW n \in Node, status[n] = "up", NEW hl, AllTold(hl)
  PROVE  \A e, m : Carries(RouteInfo(n, hl), e, m) => Polite(From(n, e), m)
<1> SUFFICES ASSUME NEW e, NEW m, Carries(RouteInfo(n, hl), e, m)
             PROVE  Polite(From(n, e), m)
  OBVIOUS
<1>1. m = UpdateMsg(nodeID[n], hl)
  BY ToAllCarries DEF RouteInfo
<1>2. \E i \in DOMAIN hl : hl[i].ep = e
  BY DEF Carries, RouteInfo, ToAll
<1>3. nodeID[n] # Null
  BY DEF LifeOK, TypeOK
<1> QED
  BY <1>1, <1>2, <1>3 DEF Polite, UpdateMsg, From

LEMMA SelfTold ==
  ASSUME OneServer, NEW n \in Node, status[n] = "up", localEpInfo[n] # Null
  PROVE  Told(n) /\ Introduced(Seen(n))
BY IntroducedIs DEF Told, Unaware

LEMMA InfoPolite ==
  ASSUME OneServer, TalkInv, NEW n \in Node, status[n] = "up"
  PROVE  /\ localEpInfo[n] # Null =>
              \A e : Polite(From(n, e), InfoMsg("openconnect", nodeID[n], localEpInfo[n]))
         /\ \A info : Introduced(info.ep) =>
              Polite(From(n, ServerEp), InfoMsg("proxyconnect", nodeID[n], info))
         /\ n = Server => \A e, info :
              Polite(From(n, e), InfoMsg("helpconnect", nodeID[n], info))
         /\ \A e : localEpInfo[n] # Null \/ (e = ServerEp => Told(n)) =>
              Polite(From(n, e), InfoMsg("ticker", nodeID[n], localEpInfo[n]))
         /\ \A e : Polite(From(n, e), TickerRes(nodeID[n]))
<1>1. nodeID[n] # Null
  BY TypedTalk DEF TypeOK, LifeOK
<1>2. Introduced(Seen(n)) <=> Told(n)
  BY IntroducedIs
<1>3. localEpInfo[n] # Null => Told(n)
  BY SelfTold
<1>4. Seen(Server) = ServerEp
  BY ServerSeen
<1> QED
  BY <1>1, <1>2, <1>3, <1>4 DEF Polite, InfoMsg, TickerRes, From

(***************************************************************************)
(* The handlers.                                                           *)
(***************************************************************************)
(* The server tells everybody it lists, the sender of the detect first of  *)
(* all: to be listed there, by a detect, is to be told.                    *)
LEMMA DetectTalks ==
  ASSUME Delivered, TalkInv, NEW n \in Node,
         NEW ch \in DOMAIN net, NEW k \in Deliverable(ch), RcvDetectMapped(n, ch, k)
  PROVE  KeepsTalking
<1> DEFINE m == net[ch][k]
<1> PICK hl : hl = MappedList(n, ch, m.id)
  OBVIOUS
<1> PICK check : check = CheckMsg("filteringcheck", nodeID[n], ch.src, MsgUuid(m.id))
  OBVIOUS
<1> DEFINE out == AndThen(To(ServerEp, check), RouteInfo(n, hl))
<1>1. OneServer /\ NoSharedID /\ ServerInv /\ TypeOK /\ OneLife
  BY TypedTalk DEF Delivered, TalkInv
<1>2. /\ Receive(n, ch, k, "detect") /\ m.id # Null
      /\ Handle(n, ch, k, out) /\ hostList' = [hostList EXCEPT ![n] = hl]
      /\ UNCHANGED <<status, nodeID, localEpInfo, rcv>>
  BY <1>1, ProberIsServer DEF RcvDetectMapped
<1>3. n = Server /\ ServerEp \in Endpoint /\ AllLead(hl) /\ IsHostList(hl)
  BY <1>1, <1>2, DetectFinds
<1>4. /\ status[n] = "up" /\ nodeID[n] \in ID /\ nodeID[n] # Null /\ m.id \in ID
      /\ ch.src \in Endpoint /\ Leads(nodeID[n], ServerEp)
  BY <1>1, <1>2, <1>3, ReadsHonest, MsgFields, ReaderRuns, ServerSeen DEF TypeOK, LifeOK
<1>5. /\ AreQueues(To(ServerEp, check), Endpoint) /\ AreQueues(RouteInfo(n, hl), Endpoint)
      /\ AreQueues(out, Endpoint)
  <2>1. IsMsg(check)
    BY <1>4, MsgTypes DEF MsgUuid, Uuid
  <2> QED
    BY <1>1, <1>3, <1>4, <2>1, ToType, RouteInfoType, AndThenType
<1>6. Persists
  BY <1>2, <1>5, ReadPersists
<1>7. ASSUME NEW x \in Node \ {Server}, Seen(x) \in DOMAIN out
      PROVE  /\ Seen(x) \in DOMAIN RouteInfo(n, hl) /\ out[Seen(x)] = RouteInfo(n, hl)[Seen(x)]
             /\ status[x] # "off" /\ out[Seen(x)][1].type = "update"
  <2>1. DOMAIN To(ServerEp, check) = {ServerEp} /\ Seen(x) # ServerEp
    BY <1>1, ServerReaches DEF To
  <2>2. /\ Seen(x) \in DOMAIN RouteInfo(n, hl)
        /\ out[Seen(x)] = RouteInfo(n, hl)[Seen(x)]
    BY <1>5, <1>7, <2>1, AndThenFirst
  <2>3. PICK i \in DOMAIN hl : hl[i].ep = Seen(x)
    BY <2>2 DEF RouteInfo, ToAll
  <2>4. status[x] # "off"
    BY <1>1, <1>3, <2>3, ListedStarted DEF AllLead
  <2>5. IsQueue(RouteInfo(n, hl)[Seen(x)])
    BY <1>5, <2>2 DEF AreQueues
  <2>6. Carries(RouteInfo(n, hl), Seen(x), RouteInfo(n, hl)[Seen(x)][1])
    BY <2>2, <2>5, FirstOf DEF Carries
  <2>7. RouteInfo(n, hl)[Seen(x)][1] = UpdateMsg(nodeID[n], hl)
    BY <2>6, ToAllCarries DEF RouteInfo
  <2> QED
    BY <2>2, <2>4, <2>7 DEF UpdateMsg
<1>8. Says(n, out)
  BY <1>7 DEF Says
<1>9. Told(Server) /\ Told(Server)'
  BY <1>1, <1>3, <1>4, <1>6, ToldStays DEF Told, TalkInv, Orderly, OneServer
<1>10. AllTold(hl)'
  <2> SUFFICES ASSUME NEW i \in DOMAIN hl, NEW x \in Node, hl[i].ep = Seen(x)
               PROVE  Told(x)'
    BY DEF AllTold, Introduced
  <2>1. CASE x = Server
    BY <1>9, <2>1
  <2>2. CASE x # Server
    <3>1. Leads(i, Seen(x))
      BY <1>3 DEF AllLead
    <3>2. i # nodeID[n]
      BY <1>1, <1>4, <2>2, <3>1, OneSeen, ServerReaches
    <3>3. Seen(x) \in DOMAIN RouteInfo(n, hl)
      BY <3>2 DEF RouteInfo, ToAll
    <3>4. Seen(x) \in DOMAIN out
      BY <1>5, <3>3, AndThenFirst
    <3>5. FromServer(x) \in DOMAIN Route(Server, out)
      BY <1>1, <1>5, <2>2, <3>4, RouteGoes DEF AreQueues
    <3>6. Greeted(x)'
      BY <1>2, <1>3, <3>5 DEF Greeted, Handle, Transmit, AndThen
    <3>7. status[x] # "off"
      BY <1>7, <2>2, <3>4
    <3> QED
      BY <1>6, <3>6, <3>7 DEF Told, Persists
  <2> QED
    BY <2>1, <2>2
<1>11. \A e, msg : Carries(out, e, msg) => Polite(From(n, e), msg)'
  <2>1. \A e : Polite(From(n, e), check)'
    BY <1>4 DEF Polite, CheckMsg
  <2>2. \A e, msg : Carries(To(ServerEp, check), e, msg) => msg = check
    BY MessagesCarry
  <2>3. \A e, msg : Carries(RouteInfo(n, hl), e, msg) => Polite(From(n, e), msg)'
    BY <1>4, <1>10, RouteInfoPolite
  <2> SUFFICES ASSUME NEW e, NEW msg, Carries(out, e, msg)
               PROVE  Polite(From(n, e), msg)'
    OBVIOUS
  <2>4. Carries(To(ServerEp, check), e, msg) \/ Carries(RouteInfo(n, hl), e, msg)
    BY <1>5, AndThenCarries
  <2> QED
    BY <2>1, <2>2, <2>3, <2>4
<1>12. /\ hostList'[n] = hl /\ rcv'[n] = Null
       /\ \A x \in Node \ {n} : hostList'[x] = hostList[x] /\ rcv'[x] = rcv[x]
  BY <1>1, <1>2 DEF Receive, TypeOK, ProcessOK
<1>13. Mannered(n, hostList[n], rcv[n])'
  BY <1>3, <1>9, <1>10, <1>12 DEF Mannered
<1> HIDE DEF out
<1> QED
  BY <1>2, <1>5, <1>6, <1>8, <1>11, <1>12, <1>13, HandlerTalks

(* An update has an entry for each node at most, so it fits in the buffer; *)
(* its reader is listed in it, and it is not its sender.                   *)
LEMMA UpdateFits ==
  ASSUME Delivered, TalkInv, NEW ch \in DOMAIN net, NEW k \in Deliverable(ch)
  PROVE  Fits(net[ch][k])
<1> DEFINE hl == net[ch][k].hosts
           D  == DOMAIN hl
<1> SUFFICES ASSUME net[ch][k].type = "update" PROVE Cardinality(D) <= MaxHosts
  BY DEF Fits
<1>1. OneServer /\ ServerInv /\ OneLife /\ IsFiniteSet(Node) /\ Cardinality(Node) <= MaxHosts
  BY DEF Delivered, TalkInv
<1>2. IsMsg(net[ch][k]) /\ Honest(ch, net[ch][k]) /\ net[ch][k].id # Null
  BY <1>1, TypedTalk, DeliverableIsThere, SenderLeads, MsgFields, ConfigAssumption
<1>3. AllLead(hl) /\ IsHostList(hl)
  BY <1>2, MsgFields DEF Honest
<1>4. IsFiniteSet(D)
  BY <1>3, IDAssumption, FS_Subset DEF IsHostList
<1> DEFINE f == [i \in D |-> CHOOSE x \in Node : i \in IDsOf[x]]
<1>5. \A i \in D : i \in used /\ f[i] \in Node /\ i \in IDsOf[f[i]]
  BY <1>3 DEF AllLead, Leads, DrawnAt
<1>6. \A i, j \in D : f[i] = f[j] => i = j
  BY <1>1, <1>5 DEF OneLife
<1>7. f \in [D -> Node]
  BY <1>5
<1> HIDE DEF f, D
<1>8. Cardinality(D) \in Nat /\ Cardinality(Node) \in Nat /\ MaxHosts \in Nat
  BY <1>1, <1>4, FS_CardinalityType, NumberAssumption
<1>9. ~ Cardinality(Node) < Cardinality(D)
  BY <1>1, <1>4, <1>6, <1>7, FS_PigeonHole
<1> QED
  BY <1>1, <1>8, <1>9

LEMMA UpdateUsable ==
  ASSUME Delivered, TalkInv, NEW n \in Node,
         NEW ch \in DOMAIN net, NEW k \in Deliverable(ch), Receive(n, ch, k, "update")
  PROVE  n # Server /\ Usable(n, net[ch][k])
<1> DEFINE m == net[ch][k]
<1>1. OneServer /\ NoSharedID /\ ServerInv /\ OneLife
  BY DEF Delivered, TalkInv
<1>2. /\ status[n] = "up" /\ m.type = "update" /\ ch.dst = Seen(n)
      /\ Honest(ch, m) /\ Leads(m.id, ch.src) /\ Leads(nodeID[n], Seen(n))
      /\ Polite(ch, m) /\ m.id # Null
      /\ ch.src = ServerEp => n # Server
  BY <1>1, ReadsHonest, ReadsTalk
<1>3. ch.src = ServerEp /\ AllLead(m.hosts) /\ n # Server
  BY <1>2 DEF Honest
<1>4. m.id # nodeID[n]
  BY <1>1, <1>2, <1>3, OneSeen, ServerReaches
<1>5. PICK i \in DOMAIN m.hosts : m.hosts[i].ep = Seen(n)
  BY <1>2 DEF Polite
<1>6. nodeID[n] = i
  BY <1>1, <1>2, <1>3, <1>5, ListedStarted DEF AllLead
<1> QED
  BY <1>3, <1>4, <1>5, <1>6 DEF Usable

(* Nothing is read that ends a process. *)
LEMMA NoneFatal ==
  ASSUME Delivered, TalkInv, NEW n \in Node, NEW ch \in DOMAIN net, NEW k \in Deliverable(ch)
  PROVE  /\ ~ RcvDetectNoID(n, ch, k) /\ ~ RcvDetectNoProber(n, ch, k)
         /\ ~ RcvUpdateFatal(n, ch, k) /\ ~ RcvOpenconnectNull(n, ch, k)
         /\ ~ RcvTruncated(n, ch, k)
<1>1. OneServer /\ ServerInv
  BY DEF Delivered, TalkInv
<1>2. ~ RcvDetectNoID(n, ch, k)
  BY ReadsTalk DEF RcvDetectNoID
<1>3. ~ RcvDetectNoProber(n, ch, k)
  <2> SUFFICES ASSUME RcvDetectNoProber(n, ch, k) PROVE FALSE
    OBVIOUS
  <2> DEFINE hl     == MappedList(n, ch, net[ch][k].id)
             others == PublicIDs(hl) \ {nodeID[n]}
  <2>1. /\ Receive(n, ch, k, "detect") /\ net[ch][k].id # Null /\ Prober(n, hl) = Null
    BY DEF RcvDetectNoProber
  <2>2. n = Server /\ IsHostList(hl) /\ status[n] = "up"
    BY <1>1, <2>1, DetectFinds, ReadsHonest
  <2>3. localEpInfo[n] # Null
    BY <2>2 DEF TalkInv, Orderly, Unaware
  <2> HIDE DEF hl
  <2>4. CASE others = {}
    BY <2>1, <2>3, <2>4 DEF Prober, GetPublicNode
  <2>5. CASE others # {}
    <3>1. others \in SUBSET ID /\ others \subseteq DOMAIN hl
      BY <2>2 DEF PublicIDs, IsHostList
    <3>2. Min(others) \in others
      BY <2>5, <3>1, FirstAndLast
    <3>3. hl[Min(others)] # Null
      BY <2>2, <3>1, <3>2, ConfigAssumption DEF IsHostList
    <3> QED
      BY <2>1, <2>5, <3>3 DEF Prober, GetPublicNode
  <2> QED
    BY <2>4, <2>5
<1>4. ~ RcvUpdateFatal(n, ch, k)
  BY UpdateUsable DEF RcvUpdateFatal
<1>5. ~ RcvOpenconnectNull(n, ch, k)
  <2> SUFFICES ASSUME RcvOpenconnectNull(n, ch, k) PROVE FALSE
    OBVIOUS
  <2>1. Receive(n, ch, k, "openconnect") /\ net[ch][k].info = Null
    BY DEF RcvOpenconnectNull
  <2> QED
    BY <2>1, ReadsTalk DEF Polite, Receive
<1>6. ~ RcvTruncated(n, ch, k)
  BY UpdateFits DEF RcvTruncated
<1> QED
  BY <1>2, <1>3, <1>4, <1>5, <1>6

LEMMA UpdateTalks ==
  ASSUME Delivered, TalkInv, NEW n \in Node,
         NEW ch \in DOMAIN net, NEW k \in Deliverable(ch), RcvUpdate(n, ch, k)
  PROVE  KeepsTalking
<1> PICK m : m = net[ch][k]
  OBVIOUS
<1>1. OneServer /\ TypeOK /\ Receive(n, ch, k, "update") /\ nodeID[n] \in DOMAIN m.hosts
  BY TypedTalk DEF Delivered, RcvUpdate, Usable
<1>2. /\ n # Server /\ ch.dst = Seen(n) /\ Polite(ch, m) /\ m.type = "update"
      /\ Mannered(n, hostList[n], rcv[n]) /\ status[n] = "up"
  BY <1>1, UpdateUsable, ReadsTalk, ReaderIsSeen DEF Receive, CanRead
<1>3. m.hosts[nodeID[n]] # Null
  <2>1. IsMsg(m)
    BY <1>1, ReceiveType
  <2> QED
    BY <1>1, <1>2, <2>1, MsgFields, ConfigAssumption DEF IsHostList
<1>4. /\ localEpInfo' = [localEpInfo EXCEPT ![n] = m.hosts[nodeID[n]]]
      /\ rcv' = [rcv EXCEPT ![n] = [from |-> m.id, remote |-> ch.src,
                                     hosts |-> m.hosts, items |-> DOMAIN m.hosts]]
      /\ Handle(n, ch, k, Silence) /\ UNCHANGED <<status, nodeID, hostList>>
  BY DEF RcvUpdate
<1>5. /\ localEpInfo'[n] # Null /\ rcv'[n].hosts = m.hosts
      /\ \A x \in Node \ {n} : localEpInfo'[x] = localEpInfo[x] /\ rcv'[x] = rcv[x]
  BY <1>1, <1>3, <1>4 DEF TypeOK, ProcessOK
<1>6. Persists
  <2>1. /\ net' = AndThen(Without(ch, k), Route(n, Silence))
        /\ AreQueues(Route(n, Silence), Channel) /\ AreQueues(Without(ch, k), Channel)
    BY <1>4, SilenceType, RouteType, WithoutPolite DEF Handle, Transmit
  <2>2. ASSUME NEW x \in Node \ {n} PROVE HeadKept(x)
    <3>1. ch # FromServer(x)
      BY <1>1, <1>2, OneReader DEF FromServer, From
    <3> QED
      BY <2>1, <3>1, WithoutElsewhere, HeadStays DEF Greeted
  <2>3. ~ Unaware(n)'
    BY <1>5 DEF Unaware
  <2>4. \A x \in Node \ {n} : Unaware(x)' => Unaware(x)
    BY <1>4, <1>5 DEF Unaware
  <2> QED
    BY <1>4, <2>2, <2>3, <2>4 DEF Persists
<1>7. Told(n)'
  BY <1>2, <1>4, <1>5 DEF Told, Unaware
<1>8. AllTold(m.hosts)' /\ AllTold(hostList[n])'
  <2>1. AllTold(m.hosts) /\ AllTold(hostList[n])
    BY <1>2 DEF Polite, Mannered
  <2> QED
    BY <1>4, <1>6, <2>1, MannersStay DEF AllTold
<1>9. Mannered(n, hostList[n], rcv[n])'
  BY <1>5, <1>7, <1>8 DEF Mannered, AllTold
<1>10. Says(n, Silence)
  BY <1>2 DEF Says
<1>11. \A e, msg : ~ Carries(Silence, e, msg)
  BY MessagesCarry
<1> QED
  BY <1>4, <1>5, <1>6, <1>9, <1>10, <1>11, SilenceType, HandlerTalks

(***************************************************************************)
(* A handler that answers, and lists whom it may.                          *)
(***************************************************************************)
LEMMA AnswerTalks ==
  ASSUME Delivered, TalkInv, NEW n \in Node,
         NEW ch \in DOMAIN net, NEW k \in Deliverable(ch),
         NEW type, type # "update", Receive(n, ch, k, type),
         NEW out, AreQueues(out, Endpoint), Says(n, out), Handle(n, ch, k, out),
         \A e, m : Carries(out, e, m) => Polite(From(n, e), m),
         NEW hl, Mannered(n, hl, Null), hostList'[n] = hl,
         \A x \in Node \ {n} : hostList'[x] = hostList[x],
         UNCHANGED <<status, nodeID, localEpInfo, rcv>>
  PROVE  KeepsTalking
<1>1. Persists
  BY ReadPersists
<1>2. rcv'[n] = Null
  BY DEF Receive
<1>3. Mannered(n, hl, Null)'
  BY <1>1, MannersStay
<1>4. Mannered(n, hostList[n], rcv[n])'
  BY <1>2, <1>3 DEF Mannered, AllTold
<1>5. \A e, m : Carries(out, e, m) => Polite(From(n, e), m)'
  BY <1>1, MannersStay
<1> QED
  BY <1>1, <1>4, <1>5, HandlerTalks

LEMMA PutTold ==
  ASSUME NEW hl, AllTold(hl), NEW id, NEW info, Introduced(info.ep)
  PROVE  AllTold(AddNewNode(hl, id, info)) /\ AllTold(PutNode(hl, id, info))
<1>1. AllTold(PutNode(hl, id, info))
  BY DEF AllTold, PutNode
<1> QED
  BY <1>1 DEF AddNewNode

(* Who tells its NAT type is listed where it is seen, and has been told.   *)
LEMMA ListsMannered ==
  ASSUME OneServer, NEW n \in Node, NEW hl, Mannered(n, hl, Null), NEW id, NEW info,
         Introduced(info.ep), info.ep = ServerEp => Told(n)
  PROVE  /\ Mannered(n, AddNewNode(hl, id, info), Null)
         /\ Mannered(n, PutNode(hl, id, info), Null)
<1>1. AllTold(AddNewNode(hl, id, info)) /\ AllTold(PutNode(hl, id, info))
  BY PutTold DEF Mannered
<1>2. (\E i \in DOMAIN PutNode(hl, id, info) : PutNode(hl, id, info)[i].ep = ServerEp)
        => Told(n)
  BY DEF Mannered, PutNode
<1> QED
  BY <1>1, <1>2 DEF Mannered, AddNewNode

LEMMA PunchingTalks ==
  ASSUME Delivered, TalkInv, NEW n \in Node,
         NEW ch \in DOMAIN net, NEW k \in Deliverable(ch),
         RcvProxyconnect(n, ch, k) \/ RcvHelpconnect(n, ch, k)
  PROVE  KeepsTalking
<1> DEFINE m    == net[ch][k]
           help == InfoMsg("helpconnect", nodeID[n], [m.info EXCEPT !.ep = ch.src])
           open == InfoMsg("openconnect", nodeID[n], localEpInfo[n])
<1>1. OneServer /\ ServerInv /\ m.type \in {"proxyconnect", "helpconnect"}
      /\ Receive(n, ch, k, m.type)
  BY DEF Delivered, TalkInv, RcvProxyconnect, RcvHelpconnect, Receive
<1>2. /\ status[n] = "up" /\ TypeOK /\ rcv[n] = Null /\ ch.dst = Seen(n)
      /\ IsMsg(m) /\ ch.src \in Endpoint /\ nodeID[n] \in ID
  BY <1>1, ReadsHonest, ReaderRuns
<1>3. Polite(ch, m) /\ Mannered(n, hostList[n], Null)
      /\ (ch.src = ServerEp => n # Server /\ ~ Unaware(n))
  BY <1>1, <1>2, ReadsTalk
<1>4. m.info \in Info /\ m.info.ep \in Endpoint /\ [m.info EXCEPT !.ep = ch.src] \in Info
  BY <1>1, <1>2, MsgFields DEF Info
<1>5. /\ IsMsg(help) /\ IsMsg(open)
      /\ AreQueues(To(m.info.ep, help), Endpoint)
      /\ AreQueues(Repeatedly(m.info.ep, open), Endpoint)
  BY <1>2, <1>4, ReaderRuns, MsgTypes, ToType
<1>6. CASE RcvProxyconnect(n, ch, k)
  <2> DEFINE out == To(m.info.ep, help)
  <2>1. m.type = "proxyconnect" /\ Handle(n, ch, k, out)
        /\ UNCHANGED <<status, nodeID, hostList, localEpInfo, rcv>>
    BY <1>6 DEF RcvProxyconnect, Receive
  <2>2. Introduced(m.info.ep) /\ n = Server
    <3>1. Introduced(m.info.ep) /\ ch.dst = ServerEp
      BY <1>3, <2>1 DEF Polite
    <3>2. Seen(n) = Seen(Server) /\ Server \in Node
      BY <1>1, <1>2, <3>1, ServerSeen DEF OneServer
    <3> QED
      BY <1>1, <3>1, <3>2, OneReader
  <2>3. Says(n, out)
    BY <2>2 DEF Says, To, Introduced
  <2>4. \A e, msg : Carries(out, e, msg) => Polite(From(n, e), msg)
    <3>1. \A e : Polite(From(n, e), help)
      BY <1>1, <1>2, <2>2, InfoPolite
    <3> QED
      BY <3>1, MessagesCarry
  <2> HIDE DEF out, m
  <2> QED
    BY <1>1, <1>3, <1>5, <2>1, <2>3, <2>4, AnswerTalks DEF out, m
<1>7. CASE RcvHelpconnect(n, ch, k)
  <2> DEFINE out == Repeatedly(m.info.ep, open)
  <2>1. m.type = "helpconnect" /\ Handle(n, ch, k, out)
        /\ UNCHANGED <<status, nodeID, hostList, localEpInfo, rcv>>
    BY <1>7 DEF RcvHelpconnect, Receive
  <2>2. n # Server /\ localEpInfo[n] # Null
    BY <1>2, <1>3, <2>1 DEF Polite, Unaware
  <2>3. Says(n, out)
    BY <2>2 DEF Says
  <2>4. \A e, msg : Carries(out, e, msg) => Polite(From(n, e), msg)
    BY <1>1, <1>2, <2>2, MessagesCarry, InfoPolite
  <2> HIDE DEF out, m
  <2> QED
    BY <1>1, <1>3, <1>5, <2>1, <2>3, <2>4, AnswerTalks DEF out, m
<1> QED
  BY <1>6, <1>7

LEMMA OpenconnectTalks ==
  ASSUME Delivered, TalkInv, NEW n \in Node,
         NEW ch \in DOMAIN net, NEW k \in Deliverable(ch), RcvOpenconnect(n, ch, k)
  PROVE  KeepsTalking
<1> DEFINE m == net[ch][k]
<1> PICK hl : hl = Opened(hostList[n], m.id, m.info, ch.src)
  OBVIOUS
<1>1. OneServer /\ ServerInv /\ Receive(n, ch, k, "openconnect") /\ m.info # Null
  BY DEF Delivered, TalkInv, RcvOpenconnect
<1>2. /\ status[n] = "up" /\ TypeOK /\ rcv[n] = Null /\ m.type = "openconnect"
      /\ Honest(ch, m) /\ m.id # Null
  BY <1>1, ReadsHonest
<1>3. Polite(ch, m) /\ Mannered(n, hostList[n], Null)
      /\ (ch.src = ServerEp => n # Server /\ ~ Unaware(n))
  BY <1>1, <1>2, ReadsTalk
<1>4. m.info.ep = ch.src /\ Introduced(ch.src) /\ (ch.src = ServerEp => Told(n))
  BY <1>1, <1>2, <1>3 DEF Honest, TrueOf, Polite, Told
<1>5. Mannered(n, hl, Null)
  BY <1>1, <1>3, <1>4, ListsMannered DEF Opened
<1>6. /\ hostList'[n] = hl /\ \A x \in Node \ {n} : hostList'[x] = hostList[x]
      /\ Handle(n, ch, k, Silence) /\ UNCHANGED <<status, nodeID, localEpInfo, rcv>>
  BY <1>2 DEF RcvOpenconnect, TypeOK, ProcessOK
<1>7. Says(n, Silence) /\ AreQueues(Silence, Endpoint)
      /\ \A e, msg : Carries(Silence, e, msg) => Polite(From(n, e), msg)
  BY SilenceType, MessagesCarry DEF Says, Silence
<1> QED
  BY <1>1, <1>5, <1>6, <1>7, AnswerTalks

LEMMA TickingTalks ==
  ASSUME Delivered, TalkInv, NEW n \in Node,
         NEW ch \in DOMAIN net, NEW k \in Deliverable(ch), Ticking(n, ch, k)
  PROVE  KeepsTalking
<1> DEFINE m  == net[ch][k]
<1>1. OneServer /\ ServerInv /\ m.type \in {"ticker", "tickerRes"}
      /\ Receive(n, ch, k, m.type)
  BY DEF Delivered, TalkInv, Ticking, RcvTicker, RcvTickerRes, Receive
<1>2. /\ status[n] = "up" /\ TypeOK /\ rcv[n] = Null /\ ch.dst = Seen(n)
      /\ ch.src \in Endpoint /\ Honest(ch, m) /\ m.id # Null /\ nodeID[n] \in ID
  BY <1>1, ReadsHonest, ReaderRuns
<1>3. Polite(ch, m) /\ Mannered(n, hostList[n], Null)
      /\ (ch.src = ServerEp => n # Server /\ ~ Unaware(n))
  BY <1>1, <1>2, ReadsTalk
<1>4. CASE RcvTicker(n, ch, k)
  <2> DEFINE out == To(ch.src, TickerRes(nodeID[n]))
  <2> PICK hl : hl = IF m.info = Null THEN hostList[n]
                                      ELSE PutNode(hostList[n], m.id, m.info)
    OBVIOUS
  <2>1. /\ m.type = "ticker" /\ Handle(n, ch, k, out)
        /\ hostList'[n] = hl /\ \A x \in Node \ {n} : hostList'[x] = hostList[x]
        /\ UNCHANGED <<status, nodeID, localEpInfo, rcv>>
    BY <1>2, <1>4 DEF RcvTicker, Receive, TypeOK, ProcessOK
  <2>2. m.info # Null => m.info.ep = ch.src /\ Introduced(ch.src)
    BY <1>2, <1>3, <2>1 DEF Honest, TrueOf, Polite
  <2>3. ch.src = ServerEp => Told(n)
    BY <1>2, <1>3 DEF Told
  <2>4. Mannered(n, hl, Null)
    BY <1>1, <1>3, <2>2, <2>3, ListsMannered
  <2>5. Says(n, out)
    <3>1. n = Server => ch.dst = ServerEp
      BY <1>1, <1>2, ServerSeen
    <3>2. n = Server => Introduced(ch.src)
      BY <1>3, <2>1, <3>1 DEF Polite
    <3> QED
      BY <3>2 DEF Says, To, Introduced
  <2>6. AreQueues(out, Endpoint) /\ \A e, msg : Carries(out, e, msg) => Polite(From(n, e), msg)
    BY <1>1, <1>2, ReaderRuns, MsgTypes, ToType, MessagesCarry, InfoPolite
  <2>7. Receive(n, ch, k, "ticker")
    BY <1>1, <2>1
  <2> HIDE DEF out, m
  <2> QED
    BY <2>1, <2>4, <2>5, <2>6, <2>7, AnswerTalks
<1>5. CASE RcvTickerRes(n, ch, k)
  <2>1. Handle(n, ch, k, Silence) /\ UNCHANGED <<status, nodeID, hostList, localEpInfo, rcv>>
    BY <1>5 DEF RcvTickerRes
  <2>2. Says(n, Silence) /\ AreQueues(Silence, Endpoint)
        /\ \A e, msg : Carries(Silence, e, msg) => Polite(From(n, e), msg)
    BY SilenceType, MessagesCarry DEF Says, Silence
  <2> QED
    BY <1>1, <1>3, <2>1, <2>2, AnswerTalks
<1> QED
  BY <1>4, <1>5 DEF Ticking

(***************************************************************************)
(* A step of a process that sends of its own.                              *)
(***************************************************************************)
Courteous(n, out) ==
  /\ AreQueues(out, Endpoint) /\ Says(n, out)
  /\ \A e, m : Carries(out, e, m) => Polite(From(n, e), m)

LEMMA AndThenCourteous ==
  ASSUME NEW n, NEW out, NEW more, Courteous(n, out), Courteous(n, more)
  PROVE  Courteous(n, AndThen(out, more))
<1>1. AreQueues(AndThen(out, more), Endpoint)
  BY AndThenType DEF Courteous
<1>2. \A e, m : Carries(AndThen(out, more), e, m) => Polite(From(n, e), m)
  BY AndThenCarries DEF Courteous
<1>3. Says(n, AndThen(out, more))
  <2> SUFFICES ASSUME n = Server, NEW e \in DOMAIN AndThen(out, more),
                      NEW x \in Node \ {Server}, e = Seen(x)
               PROVE  \/ Told(x)
                      \/ status[x] # "off" /\ AndThen(out, more)[e][1].type = "update"
    BY DEF Says
  <2>1. CASE e \in DOMAIN out
    BY <2>1, AndThenFirst DEF Courteous, Says
  <2>2. CASE e \notin DOMAIN out
    BY <2>2, AndThenFirst DEF Courteous, Says
  <2> QED
    BY <2>1, <2>2
<1> QED
  BY <1>1, <1>2, <1>3 DEF Courteous

LEMMA SilenceCourteous == \A n : Courteous(n, Silence)
BY SilenceType, MessagesCarry DEF Courteous, Says, Silence

LEMMA ToCourteous ==
  ASSUME NEW n, NEW e \in Endpoint, NEW m, IsMsg(m), Polite(From(n, e), m),
         n = Server => \A x \in Node \ {Server} : e = Seen(x) => Told(x)
  PROVE  Courteous(n, To(e, m))
<1>1. AreQueues(To(e, m), Endpoint)
  BY ToType
<1>2. Says(n, To(e, m))
  BY DEF Says, To
<1>3. \A x, y : Carries(To(e, m), x, y) => x = e /\ y = m
  BY MessagesCarry
<1> QED
  BY <1>1, <1>2, <1>3 DEF Courteous

LEMMA SendTalks ==
  ASSUME Delivered, TalkInv, NEW n \in Node, NEW out, Courteous(n, out),
         Transmit(n, out, net), UNCHANGED <<status, nodeID, localEpInfo, used>>,
         budget'.loss = 0,
         \A x \in Node \ {n} : hostList'[x] = hostList[x] /\ rcv'[x] = rcv[x],
         NEW hl, NEW loop, Mannered(n, hl, loop), hostList'[n] = hl, rcv'[n] = loop
  PROVE  KeepsTalking
<1>1. Persists
  BY TypedTalk, SendPersists DEF Courteous
<1>2. Mannered(n, hl, loop)'
  BY <1>1, MannersStay
<1>3. Mannered(n, hostList[n], rcv[n])'
  BY <1>2 DEF Mannered, AllTold
<1>4. \A e, m : Carries(out, e, m) => Polite(From(n, e), m)'
  BY <1>1, MannersStay DEF Courteous
<1> QED
  BY <1>1, <1>3, <1>4, TypedTalk, SenderTalks DEF Courteous, TalkInv

(* What reads nothing, or takes away what no process can read. *)
LEMMA UnsentTalks ==
  ASSUME Delivered, TalkInv, Persists, UNCHANGED <<status, nodeID, used, perm>>,
         budget'.loss = 0,
         AllPolite(net)', \A x \in Node : Greeted(x)' => Greeted(x),
         NEW n \in Node,
         \A x \in Node \ {n} : hostList'[x] = hostList[x] /\ rcv'[x] = rcv[x],
         Mannered(n, hostList[n], rcv[n])'
  PROVE  KeepsTalking
<1>1. FirstWords'
  BY FirstWordStays DEF TalkInv, FirstWords
<1>2. OneLife' /\ Orderly' /\ AllMannered'
  BY StillOrderly DEF Delivered, OneServer
<1> QED
  BY <1>1, <1>2 DEF KeepsTalking

(***************************************************************************)
(* The loop of an update.  Who walks one knows of itself.                  *)
(***************************************************************************)
LEMMA LoopManners ==
  ASSUME Delivered, TalkInv, NEW n \in Node, Looping(n)
  PROVE  /\ Told(n) /\ Introduced(ItemObj(n).ep) /\ Mannered(n, hostList[n], rcv[n])
         /\ \A remote : NextItem(n, remote) =>
              /\ rcv'[n] = Null \/ rcv'[n].hosts = rcv[n].hosts
              /\ \A x \in Node \ {n} : rcv'[x] = rcv[x]
<1>1. OneServer /\ ServerInv
  BY DEF Delivered, TalkInv
<1>2. /\ TypeOK /\ status[n] = "up" /\ IsLoop(rcv[n]) /\ localEpInfo[n] \in Info
      /\ Item(n) \in DOMAIN rcv[n].hosts /\ rcv[n] # Null
  BY <1>1, LoopIsServers, LoopType DEF IsLoop, Looping
<1>3. localEpInfo[n] # Null
  BY <1>2, ConfigAssumption
<1>4. Mannered(n, hostList[n], rcv[n])
  BY DEF TalkInv, AllMannered
<1>5. Introduced(ItemObj(n).ep)
  BY <1>2, <1>4 DEF Mannered, AllTold, ItemObj
<1>6. ASSUME NEW remote, NextItem(n, remote)
      PROVE  /\ rcv'[n] = Null \/ rcv'[n].hosts = rcv[n].hosts
             /\ \A x \in Node \ {n} : rcv'[x] = rcv[x]
  <2> DEFINE rest == rcv[n].items \ {Item(n)}
             loop == [rcv[n] EXCEPT !.items = rest, !.remote = remote]
  <2>1. rcv' = [rcv EXCEPT ![n] = IF rest = {} THEN Null ELSE loop] /\ DOMAIN rcv = Node
    BY <1>2, <1>6 DEF NextItem, TypeOK, ProcessOK
  <2>2. loop.hosts = rcv[n].hosts
    BY <1>2 DEF IsLoop
  <2> HIDE DEF rest, loop
  <2> QED
    BY <2>1, <2>2
<1> QED
  BY <1>1, <1>2, <1>3, <1>4, <1>5, <1>6, SelfTold

LEMMA FileTalks ==
  ASSUME Delivered, TalkInv, NEW n \in Node, UpdateSelf(n) \/ UpdateSender(n)
  PROVE  KeepsTalking
<1>1. PICK id : Looping(n) /\ FileItem(n, id)
  BY DEF UpdateSelf, UpdateSender
<1> PICK hl : hl = AddNewNode(hostList[n], id, ItemObj(n))
  OBVIOUS
<1> PICK loop : loop = rcv'[n]
  OBVIOUS
<1>2. /\ OneServer /\ TypeOK /\ Told(n) /\ Introduced(ItemObj(n).ep)
      /\ Mannered(n, hostList[n], rcv[n])
      /\ loop = Null \/ loop.hosts = rcv[n].hosts
      /\ \A x \in Node \ {n} : rcv'[x] = rcv[x]
  BY <1>1, LoopManners, TypedTalk DEF FileItem, Delivered
<1>3. /\ hostList'[n] = hl /\ \A x \in Node \ {n} : hostList'[x] = hostList[x]
      /\ UNCHANGED <<status, nodeID, localEpInfo, net, perm, used, budget>>
  BY <1>1, <1>2 DEF FileItem, TypeOK, ProcessOK
<1>4. Mannered(n, hl, loop)
  <2>1. Mannered(n, hostList[n], Null)
    BY <1>2 DEF Mannered
  <2>2. Mannered(n, hl, Null)
    BY <1>2, <2>1, ListsMannered
  <2>3. Looping(n)
    BY <1>1
  <2> QED
    BY <1>2, <2>2, <2>3 DEF Mannered, Looping
<1>5. Persists
  BY <1>3 DEF Persists, Unaware, HeadKept, Greeted, FromServer, From, Seen, ServerEp
<1>6. Mannered(n, hl, loop)'
  BY <1>4, <1>5, MannersStay
<1>7. Mannered(n, hostList[n], rcv[n])'
  BY <1>3, <1>6 DEF Mannered, AllTold
<1>8. AllPolite(net)'
  BY <1>3, <1>5, MannersStay DEF AllPolite, TalkInv
<1>9. \A x \in Node : Greeted(x)' => Greeted(x)
  BY <1>3 DEF Greeted, FromServer, From, Seen
<1> QED
  BY <1>2, <1>3, <1>5, <1>7, <1>8, <1>9, UnsentTalks DEF TalkInv, Orderly

LEMMA ConnectTalks ==
  ASSUME Delivered, TalkInv, NEW n \in Node, UpdatePublic(n) \/ UpdateProxy(n)
  PROVE  KeepsTalking
<1> DEFINE help == To(ServerEp, InfoMsg("proxyconnect", nodeID[n], ItemObj(n)))
<1>1. OneServer /\ ServerInv /\ Looping(n)
  BY DEF Delivered, TalkInv, UpdatePublic, UpdateProxy
<1>2. /\ TypeOK /\ status[n] = "up" /\ ItemObj(n) \in Info /\ localEpInfo[n] \in Info
      /\ nodeID[n] \in ID /\ ItemObj(n).ep \in Endpoint /\ ServerEp \in Endpoint
  BY <1>1, LoopIsServers, ReaderRuns, ServerSeen DEF Info
<1>3. Introduced(ItemObj(n).ep) /\ Mannered(n, hostList[n], rcv[n])
  BY <1>1, LoopManners
<1>4. Courteous(n, OpenItem(n))
  <2>1. IsMsg(InfoMsg("openconnect", nodeID[n], localEpInfo[n]))
    BY <1>2, MsgTypes DEF InfoOrNull
  <2>2. Polite(From(n, ItemObj(n).ep), InfoMsg("openconnect", nodeID[n], localEpInfo[n]))
    BY <1>1, <1>2, InfoPolite, ConfigAssumption
  <2> QED
    BY <1>2, <1>3, <2>1, <2>2, ToCourteous DEF OpenItem, Introduced
<1>5. Courteous(n, help)
  <2>1. IsMsg(InfoMsg("proxyconnect", nodeID[n], ItemObj(n)))
    BY <1>2, MsgTypes
  <2>2. Polite(From(n, ServerEp), InfoMsg("proxyconnect", nodeID[n], ItemObj(n)))
    BY <1>1, <1>2, <1>3, InfoPolite
  <2>3. \A x \in Node \ {Server} : ServerEp # Seen(x)
    BY <1>1, ServerReaches
  <2> QED
    BY <1>2, <2>1, <2>2, <2>3, ToCourteous
<1>6. Courteous(n, AndThen(help, OpenItem(n)))
  BY <1>4, <1>5, AndThenCourteous
<1> HIDE DEF help
<1>7. PICK out, remote : Courteous(n, out) /\ Connect(n, out, remote)
  <2>1. CASE UpdatePublic(n)
    BY <1>4, <2>1 DEF UpdatePublic
  <2>2. CASE UpdateProxy(n)
    BY <1>1, <1>5, <1>6, <2>2, HelperIsServer DEF UpdateProxy, help
  <2> QED
    BY <2>1, <2>2
<1>8. /\ Transmit(n, out, net) /\ NextItem(n, remote)
      /\ UNCHANGED <<status, nodeID, hostList, localEpInfo, used, budget>>
  BY <1>7 DEF Connect
<1> PICK loop : loop = rcv'[n]
  OBVIOUS
<1>9. /\ loop = Null \/ loop.hosts = rcv[n].hosts
      /\ \A x \in Node \ {n} : rcv'[x] = rcv[x]
  BY <1>1, <1>8, LoopManners
<1>10. Mannered(n, hostList[n], loop)
  BY <1>1, <1>3, <1>9 DEF Mannered, Looping
<1> QED
  BY <1>7, <1>8, <1>9, <1>10, SendTalks DEF TalkInv, Orderly

(***************************************************************************)
(* The timer.  Whoever is sent a ticker, or an update, is listed.          *)
(***************************************************************************)
LEMMA RoundTalks ==
  ASSUME Delivered, TalkInv, NEW n \in Node, TimerRound(n)
  PROVE  KeepsTalking
<1> PICK hl : hl = Checked(n)
  OBVIOUS
<1> DEFINE tickers == ToAll(hl, nodeID[n], InfoMsg("ticker", nodeID[n], localEpInfo[n]))
           updates == IF NeedNotify(n) THEN RouteInfo(n, hl) ELSE Silence
           detect  == IF Alone(n, hl) >= DetectRounds
                      THEN To(RemoteServer[n], DetectMsg(nodeID[n], LocalEp[n]))
                      ELSE Silence
           out     == AndThen(AndThen(tickers, updates), detect)
<1>1. /\ OneServer /\ TypeOK /\ status[n] = "up" /\ Server \in Node
      /\ RemoteServer[n] = ServerEp /\ ServerEp \in Endpoint
  BY TypedTalk, ServerSeen DEF TimerRound, Delivered, OneServer
<1>2. /\ hostList'[n] = hl
      /\ \A x \in Node \ {n} : hostList'[x] = hostList[x]
      /\ Transmit(n, out, net)
      /\ UNCHANGED <<status, nodeID, localEpInfo, rcv, used>>
      /\ budget'.loss = budget.loss
  BY <1>1 DEF TimerRound, TypeOK, ProcessOK, NetworkOK
<1>3. /\ nodeID[n] \in ID /\ nodeID[n] # Null /\ localEpInfo[n] \in InfoOrNull
      /\ IsHostList(hl) /\ LocalEp[n] \in Endpoint /\ IsHostList(hostList[n])
  BY <1>1, ReaderRuns, CheckedType, ConfigAssumption
<1>4. \A i \in DOMAIN hl : i \in DOMAIN hostList[n] /\ hl[i].ep = hostList[n][i].ep
  BY <1>1, CheckedEps DEF HasAll
<1>5. Mannered(n, hl, rcv[n])
  BY <1>4 DEF TalkInv, AllMannered, Mannered, AllTold
<1>6. \A e : e \in DOMAIN tickers => Introduced(e) /\ (e = ServerEp => Told(n))
  BY <1>5 DEF ToAll, Mannered, AllTold
<1>7. Courteous(n, tickers)
  <2>1. AreQueues(tickers, Endpoint)
    BY <1>3, MsgTypes, ToAllType
  <2>2. Says(n, tickers)
    BY <1>6 DEF Says, Introduced
  <2>3. ASSUME NEW e, NEW m, Carries(tickers, e, m) PROVE Polite(From(n, e), m)
    <3>1. e \in DOMAIN tickers /\ m = InfoMsg("ticker", nodeID[n], localEpInfo[n])
      BY <2>3, ToAllCarries DEF Carries
    <3>2. e = ServerEp => Told(n)
      BY <1>6, <3>1
    <3> QED
      BY <1>1, <3>1, <3>2, InfoPolite
  <2> QED
    BY <2>1, <2>2, <2>3 DEF Courteous
<1>8. Courteous(n, updates)
  <2>1. AreQueues(RouteInfo(n, hl), Endpoint)
    BY <1>1, <1>3, RouteInfoType
  <2>2. Says(n, RouteInfo(n, hl))
    BY <1>6 DEF Says, Introduced, RouteInfo, ToAll
  <2>3. \A e, m : Carries(RouteInfo(n, hl), e, m) => Polite(From(n, e), m)
    BY <1>1, <1>5, RouteInfoIsPolite DEF Mannered
  <2> QED
    BY <2>1, <2>2, <2>3, SilenceCourteous DEF Courteous
<1>9. Courteous(n, detect)
  <2>1. IsMsg(DetectMsg(nodeID[n], LocalEp[n]))
    BY <1>3, MsgTypes
  <2>2. Polite(From(n, ServerEp), DetectMsg(nodeID[n], LocalEp[n]))
    BY <1>3 DEF Polite, DetectMsg
  <2>3. \A x \in Node \ {Server} : ServerEp # Seen(x)
    BY <1>1, ServerReaches
  <2> QED
    BY <1>1, <2>1, <2>2, <2>3, ToCourteous, SilenceCourteous
<1> HIDE DEF tickers, updates, detect
<1>10. Courteous(n, out)
  BY <1>7, <1>8, <1>9, AndThenCourteous
<1> HIDE DEF out
<1>11. /\ \A x \in Node \ {n} : hostList'[x] = hostList[x] /\ rcv'[x] = rcv[x]
       /\ rcv'[n] = rcv[n] /\ budget'.loss = 0
  BY <1>2 DEF TalkInv, Orderly
<1> QED
  BY <1>2, <1>5, <1>10, <1>11, SendTalks

(***************************************************************************)
(* Starting: once, and a main node knows of itself.                        *)
(***************************************************************************)
LEMMA BootTalks ==
  ASSUME Delivered, TalkInv, NEW n \in Node, NEW id \in IDsOf[n], Boot(n, id)
  PROVE  KeepsTalking
<1> DEFINE out == To(ServerEp, DetectMsg(id, LocalEp[n]))
<1>1. /\ OneServer /\ NoSharedID /\ TypeOK /\ OneLife /\ id \in ID /\ id # Null
      /\ ServerEp \in Endpoint /\ LocalEp[n] \in Endpoint
  BY TypedTalk, ServerSeen, ConfigAssumption DEF Delivered, TalkInv
<1>2. /\ status[n] = "off" /\ status' = [status EXCEPT ![n] = "up"]
      /\ nodeID' = [nodeID EXCEPT ![n] = id]
      /\ id \notin used /\ used' = used \cup {id}
      /\ Transmit(n, out, net) /\ UNCHANGED <<hostList, rcv, budget>>
  BY <1>1 DEF Boot, NewID, OneServer, Delivered
<1>3. /\ \A x \in Node \ {n} : localEpInfo'[x] = localEpInfo[x]
      /\ n = Server => localEpInfo'[n] # Null
  <2>1. PICK flag \in IF n \in MainNodes THEN {TRUE} ELSE Garbage[n] :
          localEpInfo' = [localEpInfo EXCEPT
                            ![n] = IF flag THEN PublicInfo(LocalEp[n]) ELSE Null]
    BY DEF Boot
  <2>2. n = Server => flag = TRUE
    BY <2>1 DEF Delivered
  <2>3. PublicInfo(LocalEp[n]) # Null
    BY <1>1, PublicInfoType, ConfigAssumption
  <2> QED
    BY <1>1, <2>1, <2>2, <2>3 DEF TypeOK, ProcessOK
<1>4. /\ status'[n] = "up" /\ nodeID'[n] = id
      /\ \A x \in Node \ {n} : status'[x] = status[x] /\ nodeID'[x] = nodeID[x]
  BY <1>1, <1>2 DEF TypeOK, ProcessOK
<1>5. AreQueues(out, Endpoint)
  BY <1>1, MsgTypes, ToType
<1>6. Persists
  <2>1. net' = AndThen(net, Route(n, out)) /\ AreQueues(Route(n, out), Channel)
    BY <1>2, <1>5, RouteType DEF Transmit
  <2>2. \A x \in Node : HeadKept(x)
    BY <1>1, <2>1, HeadStays DEF TypeOK, NetworkOK, Greeted
  <2> QED
    BY <1>2, <1>3, <1>4, <2>2 DEF Persists, Unaware
<1>7. Courteous(n, out)
  <2>1. Polite(From(n, ServerEp), DetectMsg(id, LocalEp[n]))
    BY <1>1 DEF Polite, DetectMsg
  <2>2. \A x \in Node \ {Server} : ServerEp # Seen(x)
    BY <1>1, ServerReaches
  <2>3. IsMsg(DetectMsg(id, LocalEp[n]))
    BY <1>1, MsgTypes
  <2> QED
    BY <1>1, <2>1, <2>2, <2>3, ToCourteous
<1> HIDE DEF out
<1>8. FirstWords'
  BY <1>1, <1>2, <1>6, <1>7, TypedTalk, SentWords DEF Courteous
<1>9. AllPolite(net)'
  <2>1. \A e, m : Carries(out, e, m) => Polite(From(n, e), m)'
    BY <1>6, <1>7, MannersStay DEF Courteous
  <2> QED
    BY <1>2, <1>5, <1>6, <2>1, TypedTalk, SentPolite DEF TalkInv
<1>10. OneLife'
  <2>1. \A i \in IDsOf[n] : i \notin used
    BY <1>1, <1>2 DEF OneLife
  <2>2. \A x \in Node \ {n} : id \notin IDsOf[x]
    BY <1>1 DEF NoSharedID
  <2> QED
    BY <1>1, <1>2, <1>4, <2>1, <2>2 DEF OneLife
<1>11. Orderly'
  <2>1. ~ Unaware(Server)'
    BY <1>1, <1>3, <1>4 DEF TalkInv, Orderly, Unaware, OneServer
  <2>2. NobodyAborts'
    BY <1>4 DEF TalkInv, Orderly, NobodyAborts
  <2>3. ASSUME NEW x \in Node \cap Filters, status'[x] # "off"
        PROVE  ServerEp \in perm'[x]
    <3>1. perm' = IF n \in Filters THEN [perm EXCEPT ![n] = @ \cup DOMAIN out] ELSE perm
      BY <1>2 DEF Transmit
    <3>2. ServerEp \in DOMAIN out
      BY DEF out, To
    <3>3. perm \in [Node -> SUBSET Endpoint]
      BY <1>1 DEF TypeOK, NetworkOK
    <3>4. x # n => ServerEp \in perm[x]
      BY <1>4, <2>3 DEF TalkInv, Orderly
    <3> QED
      BY <2>3, <3>1, <3>2, <3>3, <3>4
  <2> QED
    BY <1>2, <2>1, <2>2, <2>3 DEF TalkInv, Orderly
<1>12. AllMannered'
  <2> SUFFICES ASSUME NEW x \in Node PROVE Mannered(x, hostList[x], rcv[x])'
    BY DEF AllMannered
  <2>1. Mannered(x, hostList[x], rcv[x])
    BY DEF TalkInv, AllMannered
  <2> PICK hl, loop : hl = hostList[x] /\ loop = rcv[x]
    OBVIOUS
  <2>2. Mannered(x, hl, loop)'
    BY <1>6, <2>1, MannersStay
  <2> QED
    BY <1>2, <2>2 DEF Mannered, AllTold
<1> QED
  BY <1>8, <1>9, <1>10, <1>11, <1>12 DEF KeepsTalking

LEMMA CrashTalks ==
  ASSUME Delivered, TalkInv, NEW n \in Node, Crash(n)
  PROVE  KeepsTalking
<1>1. /\ OneServer /\ TypeOK /\ status[n] = "up" /\ Stop(n, "crashed")
      /\ UNCHANGED <<net, perm, used>> /\ budget'.loss = budget.loss
  BY TypedTalk DEF Crash, Delivered, TypeOK, NetworkOK
<1>2. /\ status'[n] = "crashed" /\ hostList'[n] = EmptyMap /\ rcv'[n] = Null
      /\ \A x \in Node \ {n} :
           /\ status'[x] = status[x] /\ nodeID'[x] = nodeID[x]
           /\ hostList'[x] = hostList[x] /\ rcv'[x] = rcv[x]
           /\ localEpInfo'[x] = localEpInfo[x]
  BY <1>1 DEF Stop, TypeOK, ProcessOK
<1>3. Persists
  <2>1. \A x \in Node : HeadKept(x)
    BY <1>1 DEF HeadKept, Greeted, FromServer, From, Seen
  <2> QED
    BY <1>1, <1>2, <2>1 DEF Persists, Unaware
<1>4. FirstWords'
  <2>1. \A x \in Node : Greeted(x)' => Greeted(x)
    BY <1>1 DEF Greeted, FromServer, From, Seen
  <2> QED
    BY <1>3, <2>1, FirstWordStays DEF TalkInv, FirstWords
<1>5. AllPolite(net)'
  BY <1>1, <1>3, MannersStay DEF AllPolite, TalkInv
<1>6. OneLife'
  BY <1>1, <1>2 DEF TalkInv, OneLife
<1>7. Orderly'
  <2>1. ~ Unaware(Server)'
    BY <1>1, <1>2 DEF TalkInv, Orderly, Unaware, OneServer
  <2>2. NobodyAborts'
    BY <1>2 DEF TalkInv, Orderly, NobodyAborts
  <2> QED
    BY <1>1, <1>2, <2>1, <2>2 DEF TalkInv, Orderly
<1>8. AllMannered'
  <2> SUFFICES ASSUME NEW x \in Node PROVE Mannered(x, hostList[x], rcv[x])'
    BY DEF AllMannered
  <2>1. CASE x = n
    BY <1>2, <2>1 DEF Mannered, AllTold, EmptyMap
  <2>2. CASE x # n
    <3>1. Mannered(x, hostList[x], rcv[x])
      BY DEF TalkInv, AllMannered
    <3> PICK hl, loop : hl = hostList[x] /\ loop = rcv[x]
      OBVIOUS
    <3>2. Mannered(x, hl, loop)'
      BY <1>3, <3>1, MannersStay
    <3> QED
      BY <1>2, <2>2, <3>2 DEF Mannered, AllTold
  <2> QED
    BY <2>1, <2>2
<1> QED
  BY <1>4, <1>5, <1>6, <1>7, <1>8 DEF KeepsTalking

(***************************************************************************)
(* The network: what no process reads was not sent to one that is unaware. *)
(***************************************************************************)
LEMMA NetworkTalks ==
  ASSUME Delivered, TalkInv, NEW ch \in DOMAIN net, NEW k \in Deliverable(ch),
         Duplicate(ch, k) \/ Undeliverable(ch, k)
  PROVE  KeepsTalking
<1>1. OneServer /\ ServerInv /\ TypeOK /\ AreQueues(net, Channel) /\ Server \in Node
  BY TypedTalk DEF Delivered, TalkInv, OneServer
<1>2. UNCHANGED <<process, perm, used>> /\ budget'.loss = budget.loss
  BY <1>1 DEF Duplicate, Undeliverable, TypeOK, NetworkOK
<1>3. ASSUME Persists, AllPolite(net)', \A x \in Node : Greeted(x)' => Greeted(x)
      PROVE  KeepsTalking
  <2> PICK hl, loop : hl = hostList[Server] /\ loop = rcv[Server]
    OBVIOUS
  <2>1. Mannered(Server, hl, loop)
    BY <1>1 DEF TalkInv, AllMannered
  <2>2. Mannered(Server, hl, loop)'
    BY <1>1, <1>3, <2>1, MannersStay
  <2>3. Mannered(Server, hostList[Server], rcv[Server])'
    BY <1>2, <2>2 DEF Mannered, AllTold, process
  <2>4. budget'.loss = 0
    BY <1>2 DEF TalkInv, Orderly
  <2> QED
    BY <1>1, <1>2, <1>3, <2>3, <2>4, UnsentTalks DEF process
<1>4. CASE Duplicate(ch, k)
  <2> PICK m : m = net[ch][k]
    OBVIOUS
  <2>1. ch \in Channel /\ k \in DOMAIN net[ch] /\ IsMsg(m)
    BY <1>1, DeliverableIsThere
  <2>2. net' = AndThen(net, To(ch, m)) /\ AreQueues(To(ch, m), Channel)
    BY <1>4, <2>1, ToType DEF Duplicate
  <2>3. \A x : x \in DOMAIN net' <=> x \in DOMAIN net
    BY <2>2 DEF AndThen, To
  <2>4. \A x \in Node : HeadKept(x)
    BY <1>1, <2>2, HeadStays DEF Greeted
  <2>5. Persists
    BY <1>2, <2>4 DEF Persists, Unaware, process
  <2>6. Polite(ch, m)
    BY <2>1 DEF TalkInv, AllPolite, Range
  <2>7. AllPolite(AndThen(net, To(ch, m)))
    BY <1>1, <2>2, <2>6, AndThenCarries, MessagesCarry DEF AllPolite, Carries, TalkInv
  <2>8. AllPolite(net)'
    BY <2>2, <2>5, <2>7, MannersStay DEF AllPolite
  <2>9. \A x \in Node : Greeted(x)' => Greeted(x)
    BY <2>3 DEF Greeted, FromServer, From, Seen
  <2> QED
    BY <1>3, <2>5, <2>8, <2>9
<1>5. CASE Undeliverable(ch, k)
  <2>1. net' = Without(ch, k) /\ AllPolite(Without(ch, k))
        /\ AreQueues(Without(ch, k), Channel) /\ DOMAIN Without(ch, k) \subseteq DOMAIN net
    BY <1>5, WithoutPolite DEF Undeliverable
  <2>2. ASSUME NEW x \in Node, Unaware(x) PROVE ch # FromServer(x)
    <3>1. x # Server /\ status[x] = "up"
      BY <2>2 DEF TalkInv, Orderly, Unaware
    <3>2. Readable(x, FromServer(x)) /\ FromServer(x).src = ServerEp
          /\ FromServer(x).dst = Seen(x) /\ MapEp[x][ServerEp] = Seen(x)
      BY <1>1, <3>1, ServerReaches
    <3>3. Admits(x, FromServer(x))
      BY <3>1, <3>2 DEF Admits, TalkInv, Orderly
    <3> QED
      BY <1>5, <3>1, <3>2, <3>3 DEF Undeliverable, CanRead
  <2>3. ASSUME NEW x \in Node, Unaware(x) PROVE HeadKept(x)
    <3>1. ch # FromServer(x)
      BY <2>2, <2>3
    <3> QED
      BY <2>1, <3>1, SilenceType, WithoutElsewhere, HeadStays DEF Greeted
  <2>4. Persists
    BY <1>2, <2>3 DEF Persists, Unaware, process
  <2>5. AllPolite(net)'
    BY <2>1, <2>4, MannersStay DEF AllPolite
  <2>6. \A x \in Node : Greeted(x)' => Greeted(x)
    BY <2>1 DEF Greeted, FromServer, From, Seen
  <2> QED
    BY <1>3, <2>4, <2>5, <2>6
<1> QED
  BY <1>4, <1>5

LEMMA NextTalks ==
  ASSUME Delivered, TalkInv, NobodyDead, [Next]_vars
  PROVE  TalkInv'
<1> SUFFICES KeepsTalking
  BY NextServes DEF TalkInv, KeepsTalking, Delivered
<1>1. ASSUME NEW n \in Node, NEW ch \in DOMAIN net, NEW k \in Deliverable(ch),
             HandleReceive(n, ch, k)
      PROVE  KeepsTalking
  <2>1. CASE Detecting(n, ch, k)
    BY <2>1, NeverRead, NoneFatal, DetectTalks DEF Detecting, Delivered, TalkInv
  <2>2. CASE Updating(n, ch, k)
    BY <2>2, NoneFatal, UpdateTalks DEF Updating
  <2>3. CASE Punching(n, ch, k)
    BY <2>3, NoneFatal, PunchingTalks, OpenconnectTalks DEF Punching
  <2>4. CASE Probing(n, ch, k)
    BY <2>4, NeverRead DEF Delivered, TalkInv
  <2>5. CASE Ticking(n, ch, k)
    BY <2>5, TickingTalks
  <2> QED
    BY <1>1, <2>1, <2>2, <2>3, <2>4, <2>5 DEF HandleReceive
<1>2. CASE \E n \in Node : Start(n) \/ UpdateLoop(n) \/ TimerRound(n)
  BY <1>2, BootTalks, FileTalks, ConnectTalks, RoundTalks DEF Start, UpdateLoop
<1>3. CASE \E ch \in BindChannels : Bind(ch)
  BY <1>3 DEF Delivered
<1>4. CASE Arrival
  BY <1>1, <1>4, NetworkTalks DEF Arrival
<1>5. CASE Fault
  <2>1. \A ch, k : ~ Lose(ch, k)
    BY DEF Lose, TalkInv, Orderly
  <2> QED
    BY <1>5, <2>1, CrashTalks, NetworkTalks DEF Fault
<1>6. CASE UNCHANGED vars
  BY <1>6 DEF vars, process, KeepsTalking, TalkInv, OneLife, Orderly, Unaware, NobodyAborts,
              FirstWords, FirstWord, Greeted, FromServer, From, Seen, ServerEp, AllPolite,
              Polite, AllMannered, Mannered, AllTold, Introduced, Told
<1> QED
  BY <1>2, <1>3, <1>4, <1>5, <1>6 DEF Next

LEMMA InitTalks == Delivered /\ Init => TalkInv
<1> SUFFICES ASSUME Delivered, Init
             PROVE  OneLife /\ Orderly /\ FirstWords /\ AllPolite(net) /\ AllMannered
  BY InitServes DEF TalkInv
<1>1. OneLife /\ AllPolite(net) /\ AllMannered
  BY DEF Init, EmptyMap, OneLife, AllPolite, AllMannered, Mannered, AllTold
<1>2. FirstWords
  BY DEF Init, EmptyMap, FirstWords, FirstWord, Greeted
<1>3. Orderly
  BY DEF Delivered, OneServer, Init, Orderly, Unaware, NobodyAborts
<1> QED
  BY <1>1, <1>2, <1>3

(***************************************************************************)
(* No message ends the process that reads it, as long as the nodes other   *)
(* than the server evict nobody: each hears from the server first, and     *)
(* what it hears lists it.  (The handlers of "detect", of "update" and of  *)
(* "openconnect" in handleReceive.)                                        *)
(***************************************************************************)
THEOREM ReadsToTheEnd ==
  ASSUME Delivered
  PROVE  Spec /\ []NobodyDead => []NobodyAborts
<1>1. Init => TalkInv
  BY InitTalks
<1>2. TalkInv /\ NobodyDead /\ [Next]_vars => TalkInv'
  BY NextTalks
<1>3. TalkInv => NobodyAborts
  BY DEF TalkInv, Orderly
<1> QED
  BY <1>1, <1>2, <1>3, PTL DEF Spec

(* Before a timer wakes up nobody is evicted: so the proviso is not needed *)
(* for the start of an overlay and the punching of its holes.              *)
THEOREM PunchedToTheEnd ==
  ASSUME Delivered, ~ Synchronous, MaxRounds = 0
  PROVE  Spec => []NobodyAborts
<1>1. Init => TypeOK /\ Untimed
  BY InitType DEF Init, Untimed, EmptyMap
<1>2. TypeOK /\ Untimed /\ [Next]_vars => (TypeOK /\ Untimed)'
  BY NextType, NextUntimed
<1>3. Untimed => NobodyDead
  BY UntimedAlive
<1> QED
  BY <1>1, <1>2, <1>3, ReadsToTheEnd, PTL DEF Spec

(***************************************************************************)
(* A counter only counts tickers that are without an answer: for each of   *)
(* them a ticker, or an answer, is under way to a process that reads it.   *)
(* So who lives is evicted while answers are late, and only then, whenever *)
(* the rounds fall.                                                        *)
(***************************************************************************)
(* What n and x send each other where they are seen arrives. *)
OpenWays(n, x) == CanRead(x, From(n, Seen(x))) /\ CanRead(n, From(x, Seen(n)))

(* c tickers of n to whoever is seen at e, unless it was killed. *)
Counted(n, e, c) ==
  \E x \in Node : /\ e = Seen(x) /\ status[x] # "off"
                  /\ status[x] = "up" => OpenWays(n, x) /\ c <= Unanswered(n, e)

CountedUnanswered ==
  \A n \in Node : \A e \in DOMAIN tickerNum[n] : Counted(n, e, tickerNum[n][e])

NobodyKilled == \A n \in Node : status[n] # "crashed"

CountInv == TalkInv /\ CountedUnanswered

(***************************************************************************)
(* How many messages of a type a queue holds.                              *)
(***************************************************************************)
Kind(sq, type) == {k \in DOMAIN sq : sq[k].type = type}

LEMMA KindType ==
  ASSUME NEW S, NEW sq \in Seq(S), NEW type
  PROVE  /\ IsFiniteSet(Kind(sq, type)) /\ Cardinality(Kind(sq, type)) \in Nat
         /\ Kind(sq, type) \subseteq 1 .. Len(sq) /\ Len(sq) \in Nat
<1>1. Len(sq) \in Nat /\ Kind(sq, type) \subseteq 1 .. Len(sq)
  BY DEF Kind
<1>2. IsFiniteSet(1 .. Len(sq))
  BY <1>1, FS_Interval
<1> HIDE DEF Kind
<1>3. IsFiniteSet(Kind(sq, type))
  BY <1>1, <1>2, FS_Subset
<1> QED
  BY <1>1, <1>3, FS_CardinalityType

LEMMA KindConcat ==
  ASSUME NEW S, NEW sq \in Seq(S), NEW tq \in Seq(S), NEW type
  PROVE  Cardinality(Kind(sq \o tq, type)) = Cardinality(Kind(sq, type)) + Cardinality(Kind(tq, type))
<1> DEFINE A == Kind(sq, type)
           B == Kind(tq, type)
           C == {Len(sq) + k : k \in B}
           f == [k \in B |-> Len(sq) + k]
<1>1. /\ IsFiniteSet(A) /\ Cardinality(A) \in Nat /\ A \subseteq 1 .. Len(sq) /\ Len(sq) \in Nat
      /\ IsFiniteSet(B) /\ Cardinality(B) \in Nat /\ B \subseteq 1 .. Len(tq) /\ Len(tq) \in Nat
  BY KindType
<1>2. Kind(sq \o tq, type) = A \cup C
  <2>1. /\ Len(sq \o tq) = Len(sq) + Len(tq) /\ DOMAIN (sq \o tq) = 1 .. Len(sq) + Len(tq)
        /\ \A i \in 1 .. Len(sq) : (sq \o tq)[i] = sq[i]
        /\ \A i \in 1 .. Len(tq) : (sq \o tq)[Len(sq) + i] = tq[i]
        /\ DOMAIN sq = 1 .. Len(sq) /\ DOMAIN tq = 1 .. Len(tq)
    OBVIOUS
  <2>2. A \cup C \subseteq Kind(sq \o tq, type)
    BY <1>1, <2>1 DEF Kind
  <2>3. ASSUME NEW k \in Kind(sq \o tq, type) PROVE k \in A \cup C
    <3>1. k \in 1 .. Len(sq) + Len(tq) /\ (sq \o tq)[k].type = type
      BY <2>1 DEF Kind
    <3>2. CASE k <= Len(sq)
      BY <1>1, <2>1, <3>1, <3>2 DEF Kind
    <3>3. CASE k > Len(sq)
      <4>1. k - Len(sq) \in 1 .. Len(tq) /\ Len(sq) + (k - Len(sq)) = k
        BY <1>1, <3>1, <3>3
      <4>2. k - Len(sq) \in B
        BY <2>1, <3>1, <4>1 DEF Kind
      <4> QED
        BY <4>1, <4>2
    <3> QED
      BY <1>1, <3>1, <3>2, <3>3
  <2> QED
    BY <2>2, <2>3
<1> HIDE DEF A, B
<1>3. f \in Bijection(B, C)
  BY <1>1 DEF Bijection, Injection, Surjection, IsInjective
<1>4. IsFiniteSet(C) /\ Cardinality(C) = Cardinality(B)
  BY <1>1, <1>3, FS_Bijection DEF ExistsBijection
<1>5. A \cap C = {}
  BY <1>1
<1> HIDE DEF C, f
<1>6. Cardinality(A \cup C) = Cardinality(A) + Cardinality(B) - Cardinality({})
  BY <1>1, <1>4, <1>5, FS_Union
<1>7. Cardinality(A \cup C) = Cardinality(A) + Cardinality(B)
  BY <1>1, <1>4, <1>6, FS_EmptySet
<1> QED
  BY <1>2, <1>7 DEF A, B

LEMMA KindOfOne ==
  ASSUME NEW m, NEW type
  PROVE  Cardinality(Kind(<<m>>, type)) = IF m.type = type THEN 1 ELSE 0
<1> DEFINE sq == <<m>>
<1>1. DOMAIN sq = {1} /\ sq[1] = m
  <2>1. sq \in Seq({m}) /\ Len(sq) = 1 /\ sq[1] = m
    OBVIOUS
  <2> QED
    BY <2>1
<1> HIDE DEF sq
<1>2. Kind(sq, type) = IF m.type = type THEN {1} ELSE {}
  <2>1. CASE m.type = type
    BY <1>1, <2>1 DEF Kind
  <2>2. CASE m.type # type
    BY <1>1, <2>2 DEF Kind
  <2> QED
    BY <2>1, <2>2
<1>3. Cardinality({1}) = 1 /\ Cardinality({}) = 0
  BY FS_Singleton, FS_EmptySet
<1> QED
  BY <1>2, <1>3 DEF sq

LEMMA CarriedKind ==
  ASSUME NEW D, NEW q, AreQueues(q, D), NEW x, NEW type
  PROVE  /\ SentTo(q, x) \in Seq(Range(SentTo(q, x)))
         /\ Carried(q, x, type) = Cardinality(Kind(SentTo(q, x), type))
         /\ Carried(q, x, type) \in Nat
<1>1. SentTo(q, x) \in Seq(Range(SentTo(q, x)))
  <2>1. SentTo(q, x) = <<>> \/ IsQueue(SentTo(q, x))
    BY DEF AreQueues, SentTo
  <2> QED
    BY <2>1, SequenceOf
<1>2. Carried(q, x, type) = Cardinality(Kind(SentTo(q, x), type))
  BY DEF Carried, Kind
<1> QED
  BY <1>1, <1>2, KindType

LEMMA CarriedBoth ==
  ASSUME NEW D, NEW q, NEW r, AreQueues(q, D), AreQueues(r, D), NEW x, NEW type
  PROVE  Carried(AndThen(q, r), x, type) = Carried(q, x, type) + Carried(r, x, type)
<1> DEFINE sq == SentTo(q, x)
           tq == SentTo(r, x)
           A  == Range(sq)
           B  == Range(tq)
           S  == A \cup B
<1>1. sq \in Seq(A) /\ tq \in Seq(B)
  BY CarriedKind
<1>2. SentTo(AndThen(q, r), x) = sq \o tq
  <2>1. CASE x \in DOMAIN q \cup DOMAIN r
    BY <2>1 DEF AndThen, SentTo
  <2>2. CASE x \notin DOMAIN q \cup DOMAIN r
    <3>1. sq = <<>> /\ tq = <<>> /\ SentTo(AndThen(q, r), x) = <<>>
      BY <2>2 DEF AndThen, SentTo
    <3>2. <<>> \o <<>> = <<>>
      OBVIOUS
    <3> QED
      BY <3>1, <3>2
  <2> QED
    BY <2>1, <2>2
<1>3. AreQueues(AndThen(q, r), D)
  BY AndThenType
<1> HIDE DEF sq, tq, A, B
<1>4. sq \in Seq(S) /\ tq \in Seq(S)
  BY <1>1
<1> HIDE DEF S
<1>5. Cardinality(Kind(sq \o tq, type)) = Cardinality(Kind(sq, type)) + Cardinality(Kind(tq, type))
  BY <1>4, KindConcat
<1> QED
  BY <1>2, <1>3, <1>5, CarriedKind DEF sq, tq

LEMMA CarriedWithout ==
  ASSUME AreQueues(net, Channel), InOrder, NEW ch \in DOMAIN net, NEW k \in Deliverable(ch),
         NEW x, NEW type
  PROVE  Carried(net, x, type) = Carried(Without(ch, k), x, type)
                                   + IF x = ch /\ net[ch][k].type = type THEN 1 ELSE 0
<1>1. /\ AreQueues(Without(ch, k), Channel)
      /\ Carried(Without(ch, k), x, type) \in Nat
  BY WithoutType, CarriedKind
<1> DEFINE sq   == net[ch]
           S    == Range(sq)
           rest == RemoveAt(sq, k)
<1>2. SentTo(Without(ch, k), x) = IF x = ch THEN rest ELSE SentTo(net, x)
  <2>1. CASE rest = <<>>
    BY <2>1 DEF Without, Restrict, SentTo
  <2>2. CASE rest # <<>>
    <3>1. Without(ch, k) = [net EXCEPT ![ch] = rest]
      BY <2>2 DEF Without
    <3> QED
      BY <3>1 DEF SentTo
  <2> QED
    BY <2>1, <2>2
<1>3. CASE x # ch
  BY <1>1, <1>2, <1>3 DEF Carried
<1>4. CASE x = ch
  <2>1. sq \in Seq(S) /\ sq # <<>> /\ k = 1
    BY DEF AreQueues, IsQueue, Deliverable
  <2> HIDE DEF S, sq
  <2> DEFINE tail == SubSeq(sq, 2, Len(sq))
  <2>2. /\ Len(sq) \in Nat /\ Len(sq) >= 1 /\ sq[1] \in S
        /\ SubSeq(sq, 1, 0) = <<>>
        /\ tail \in Seq(S)
    BY <2>1
  <2>3. rest = <<>> \o tail
    BY <2>1, <2>2 DEF RemoveAt
  <2>4. rest = tail
    BY <2>2, <2>3
  <2>5. sq = <<sq[1]>> \o tail
    BY <2>1, <2>2
  <2>6. <<sq[1]>> \in Seq(S)
    BY <2>2
  <2> HIDE DEF tail, rest
  <2>7. Cardinality(Kind(<<sq[1]>> \o tail, type))
          = Cardinality(Kind(<<sq[1]>>, type)) + Cardinality(Kind(tail, type))
    BY <2>2, <2>6, KindConcat
  <2>8. /\ Carried(net, x, type) = Cardinality(Kind(sq, type))
        /\ Carried(Without(ch, k), x, type) = Cardinality(Kind(tail, type))
    BY <1>1, <1>2, <1>4, <2>4, CarriedKind DEF SentTo, sq
  <2>9. Cardinality(Kind(<<sq[1]>>, type)) = IF sq[1].type = type THEN 1 ELSE 0
    BY KindOfOne
  <2>10. net[ch][k] = sq[1]
    BY <2>1 DEF sq
  <2>11. Carried(net, x, type)
           = (IF sq[1].type = type THEN 1 ELSE 0) + Carried(Without(ch, k), x, type)
    BY <2>5, <2>7, <2>8, <2>9
  <2> QED
    BY <1>1, <1>4, <2>10, <2>11
<1> QED
  BY <1>3, <1>4

LEMMA CarriedSome ==
  ASSUME NEW D, NEW q, AreQueues(q, D), NEW x, NEW m, Carries(q, x, m)
  PROVE  Carried(q, x, m.type) >= 1
<1>1. PICK j \in DOMAIN q[x] : m = q[x][j]
  BY DEF Carries, Range
<1>2. /\ SentTo(q, x) \in Seq(Range(SentTo(q, x)))
      /\ Carried(q, x, m.type) = Cardinality(Kind(SentTo(q, x), m.type))
      /\ Carried(q, x, m.type) \in Nat
  BY CarriedKind
<1>3. j \in Kind(SentTo(q, x), m.type)
  BY <1>1 DEF Kind, SentTo, Carries
<1>4. IsFiniteSet(Kind(SentTo(q, x), m.type))
  BY <1>2, KindType
<1>5. Cardinality(Kind(SentTo(q, x), m.type)) # 0
  BY <1>3, <1>4, FS_EmptySet
<1> QED
  BY <1>2, <1>5

LEMMA CarriedRoute ==
  ASSUME OneServer, NEW n \in Node, NEW out, NEW e \in DOMAIN out \cap Endpoint,
         NEW x \in Node, Readable(x, From(n, e)), NEW type
  PROVE  Carried(Route(n, out), From(n, e), type) = Carried(out, e, type)
<1>1. From(n, e) = [src |-> MapEp[n][e], dst |-> e]
  BY DEF From, OneServer
<1>2. From(n, e) \in DOMAIN Route(n, out) /\ From(n, e).dst = e
  BY <1>1 DEF Route
<1>3. Route(n, out)[From(n, e)] = out[e]
  BY <1>2 DEF Route
<1> QED
  BY <1>2, <1>3 DEF Carried, SentTo

LEMMA UnansweredIs ==
  ASSUME OneServer, NEW n \in Node, NEW x \in Node
  PROVE  /\ Unanswered(n, Seen(x)) = Carried(net, From(n, Seen(x)), "ticker")
                                       + Carried(net, From(x, Seen(n)), "tickerRes")
         /\ Unanswered(n, Seen(x))' = Carried(net', From(n, Seen(x)), "ticker")
                                       + Carried(net', From(x, Seen(n)), "tickerRes")
<1>1. Seen(x) \in Endpoint
  BY SeenType
<1>2. MapEp[n][Seen(x)] = Seen(n)
  BY <1>1 DEF OneServer
<1>3. MapEp[n][Seen(x)] = MapEp[n][LocalEp[n]] /\ MapEp[x][LocalEp[x]] = Seen(x)
  BY <1>2 DEF Seen
<1> QED
  BY <1>2, <1>3 DEF Unanswered, Carried, SentTo, From, Seen

(***************************************************************************)
(* Steps that count no ticker.                                             *)
(***************************************************************************)
OnlyResets ==
  \A x \in Node : /\ DOMAIN tickerNum'[x] \subseteq DOMAIN tickerNum[x]
                  /\ \A e \in DOMAIN tickerNum'[x] : tickerNum'[x][e] = tickerNum[x][e]

StaysOpen ==
  \A x \in Node : /\ status[x] # "off" => status'[x] = status[x]
                  /\ perm[x] \subseteq perm'[x]

NothingTaken ==
  \A ch, type : /\ Carried(net, ch, type) \in Nat /\ Carried(net', ch, type) \in Nat
                /\ Carried(net, ch, type) <= Carried(net', ch, type)

LEMMA WaysStay ==
  ASSUME StaysOpen, NEW n \in Node, NEW x \in Node, OpenWays(n, x)
  PROVE  OpenWays(n, x)'
BY DEF StaysOpen, OpenWays, CanRead, Admits, Readable, Owns, From, Seen

LEMMA CountersAre ==
  ASSUME TypeOK, CountedUnanswered, NEW n \in Node, NEW e \in DOMAIN tickerNum[n]
  PROVE  tickerNum[n][e] \in Nat /\ Counted(n, e, tickerNum[n][e])
BY DEF TypeOK, ProcessOK, AreCounters, CountedUnanswered

LEMMA CountedOn ==
  ASSUME OneServer, StaysOpen, NothingTaken, NEW n \in Node, NEW e, NEW c \in Nat,
         Counted(n, e, c)
  PROVE  Counted(n, e, c)'
<1>1. PICK x \in Node : /\ e = Seen(x) /\ status[x] # "off"
                        /\ status[x] = "up" => OpenWays(n, x) /\ c <= Unanswered(n, e)
  BY DEF Counted
<1>2. status'[x] = status[x] /\ e = Seen(x)'
  BY <1>1 DEF StaysOpen, Seen
<1>3. CASE status[x] # "up"
  BY <1>1, <1>2, <1>3 DEF Counted
<1>4. CASE status[x] = "up"
  <2>1. OpenWays(n, x)'
    BY <1>1, <1>4, WaysStay
  <2>2. Unanswered(n, e) \in Nat /\ Unanswered(n, e)' \in Nat
        /\ Unanswered(n, e) <= Unanswered(n, e)'
    <3> PICK there : there = From(n, Seen(x))
      OBVIOUS
    <3> PICK back : back = From(x, Seen(n))
      OBVIOUS
    <3>1. /\ Unanswered(n, e) = Carried(net, there, "ticker") + Carried(net, back, "tickerRes")
          /\ Unanswered(n, e)' = Carried(net', there, "ticker") + Carried(net', back, "tickerRes")
      BY <1>1, UnansweredIs
    <3> QED
      BY <3>1 DEF NothingTaken
  <2>3. c <= Unanswered(n, e)'
    BY <1>1, <1>4, <2>2
  <2> QED
    BY <1>1, <1>2, <2>1, <2>3 DEF Counted
<1> QED
  BY <1>3, <1>4

LEMMA SendCounts ==
  ASSUME OneServer, TypeOK, CountedUnanswered, StaysOpen, OnlyResets, NothingTaken
  PROVE  CountedUnanswered'
<1> SUFFICES ASSUME NEW n \in Node, NEW e \in DOMAIN tickerNum'[n]
             PROVE  Counted(n, e, tickerNum[n][e])'
  BY DEF CountedUnanswered
<1>1. e \in DOMAIN tickerNum[n] /\ tickerNum'[n][e] = tickerNum[n][e]
  BY DEF OnlyResets
<1> PICK c : c = tickerNum[n][e]
  OBVIOUS
<1>2. c \in Nat /\ Counted(n, e, c)
  BY <1>1, CountersAre
<1>3. Counted(n, e, c)'
  BY <1>2, CountedOn
<1> QED
  BY <1>1, <1>3 DEF Counted

(* A datagram is read: the reader of a ticker answers, and the reader of   *)
(* an answer forgets its counter.                                          *)
LEMMA ReadCounts ==
  ASSUME Delivered, TypeOK, CountedUnanswered, NEW y \in Node,
         NEW ch \in DOMAIN net, NEW k \in Deliverable(ch), NEW type, Receive(y, ch, k, type),
         NEW out, AreQueues(out, Endpoint), Handle(y, ch, k, out),
         OnlyResets, UNCHANGED status,
         type = "ticker" => Carried(out, ch.src, "tickerRes") >= 1
                              /\ ch.src \in DOMAIN out \cap Endpoint,
         type = "tickerRes" => ch.src \notin DOMAIN tickerNum'[y]
  PROVE  CountedUnanswered'
<1> SUFFICES ASSUME NEW n \in Node, NEW e \in DOMAIN tickerNum'[n]
             PROVE  Counted(n, e, tickerNum[n][e])'
  BY DEF CountedUnanswered
<1>1. e \in DOMAIN tickerNum[n] /\ tickerNum'[n][e] = tickerNum[n][e]
  BY DEF OnlyResets
<1> PICK c : c = tickerNum[n][e]
  OBVIOUS
<1>2. c \in Nat /\ Counted(n, e, c)
  BY <1>1, CountersAre
<1>3. PICK x \in Node : /\ e = Seen(x) /\ status[x] # "off"
                        /\ status[x] = "up" => OpenWays(n, x) /\ c <= Unanswered(n, e)
  BY <1>2 DEF Counted
<1>4. status'[x] = status[x] /\ e = Seen(x)'
  BY <1>3 DEF Seen
<1>5. CASE status[x] # "up"
  BY <1>1, <1>3, <1>4, <1>5 DEF Counted
<1>6. CASE status[x] = "up"
  <2> PICK there : there = From(n, Seen(x))
    OBVIOUS
  <2> PICK back : back = From(x, Seen(n))
    OBVIOUS
  <2> PICK left : left = Without(ch, k)
    OBVIOUS
  <2> PICK sent : sent = Route(y, out)
    OBVIOUS
  <2>1. /\ OneServer /\ InOrder /\ AreQueues(net, Channel)
        /\ net[ch][k].type = type /\ ch.dst = Seen(y)
        /\ net' = AndThen(left, sent)
        /\ AreQueues(left, Channel) /\ AreQueues(sent, Channel)
    BY ReaderIsSeen, WithoutType, RouteType
       DEF Delivered, Receive, CanRead, Handle, Transmit, TypeOK, NetworkOK
  <2>2. OpenWays(n, x)'
    <3>1. StaysOpen
      BY DEF Handle, Transmit, StaysOpen, TypeOK, NetworkOK
    <3> QED
      BY <1>3, <1>6, <3>1, WaysStay
  <2>3. \A q, t : /\ Carried(left, q, t) \in Nat /\ Carried(sent, q, t) \in Nat
                  /\ Carried(net', q, t) = Carried(left, q, t) + Carried(sent, q, t)
    BY <2>1, CarriedKind, CarriedBoth
  <2>4. \A q, t : Carried(net, q, t)
                    = Carried(left, q, t) + IF q = ch /\ type = t THEN 1 ELSE 0
    BY <2>1, CarriedWithout
  <2>5. /\ Unanswered(n, e) = Carried(net, there, "ticker") + Carried(net, back, "tickerRes")
        /\ Unanswered(n, e)' = Carried(net', there, "ticker") + Carried(net', back, "tickerRes")
    BY <1>3, <2>1, UnansweredIs
  <2>6. Unanswered(n, e) \in Nat /\ Unanswered(n, e)' \in Nat
        /\ Unanswered(n, e) <= Unanswered(n, e)'
    <3>1. CASE there = ch /\ type = "ticker"
      <4>1. y = x /\ ch.src = Seen(n)
        BY <2>1, <3>1, OneReader DEF From
      <4>2. Readable(n, back)
        BY <1>3, <1>6 DEF OpenWays, CanRead
      <4>3. Carried(sent, back, "tickerRes") = Carried(out, ch.src, "tickerRes")
        BY <2>1, <3>1, <4>1, <4>2, CarriedRoute
      <4>4. Carried(sent, back, "tickerRes") >= 1
        BY <3>1, <4>3
      <4>5. /\ Carried(net, there, "ticker") = Carried(left, there, "ticker") + 1
            /\ Carried(net, back, "tickerRes") = Carried(left, back, "tickerRes")
        BY <2>3, <2>4, <3>1
      <4> QED
        BY <2>3, <2>5, <4>4, <4>5
    <3>2. CASE back = ch /\ type = "tickerRes"
      <4>1. y = n /\ ch.src = e
        BY <1>3, <2>1, <3>2, OneReader DEF From
      <4> QED
        BY <3>2, <4>1
    <3>3. CASE ~ (there = ch /\ type = "ticker") /\ ~ (back = ch /\ type = "tickerRes")
      <4>1. /\ Carried(net, there, "ticker") = Carried(left, there, "ticker")
            /\ Carried(net, back, "tickerRes") = Carried(left, back, "tickerRes")
        BY <2>3, <2>4, <3>3
      <4> QED
        BY <2>3, <2>5, <4>1
    <3> QED
      BY <3>1, <3>2, <3>3
  <2>7. tickerNum'[n][e] <= Unanswered(n, e)'
    BY <1>1, <1>2, <1>3, <1>6, <2>6
  <2> QED
    BY <1>3, <1>4, <2>2, <2>7 DEF Counted
<1> QED
  BY <1>5, <1>6

(***************************************************************************)
(* A round: whoever is listed is connected, so that the ticker it is sent  *)
(* arrives; it is the only one, for the only entry there.                  *)
(***************************************************************************)
LEMMA ConnectedWays ==
  ASSUME OneServer, NEW n \in Node, NEW x \in Node, OpenBetween(n, x, Seen(x)),
         status[n] = "up", status[x] = "up"
  PROVE  OpenWays(n, x)
<1>1. Seen(x) \in Endpoint /\ Seen(n) \in Endpoint
  BY SeenType
<1>2. MapEp[n][Seen(x)] = Seen(n) /\ MapEp[x][Seen(n)] = Seen(x)
  BY <1>1 DEF OneServer
<1> QED
  BY <1>2 DEF OpenBetween, Reaches, OpenWays, CanRead, From

LEMMA TickersAre ==
  ASSUME NEW hl, IsHostList(hl), NEW self, NEW m, IsMsg(m), NEW i \in DOMAIN hl \ {self}
  PROVE  Carries(ToAll(hl, self, m), hl[i].ep, m)
<1> PICK e : e = hl[i].ep
  OBVIOUS
<1>1. e \in DOMAIN ToAll(hl, self, m)
  BY DEF ToAll
<1>2. IsQueue(ToAll(hl, self, m)[e])
  BY <1>1, ToAllType DEF AreQueues
<1>3. Carries(ToAll(hl, self, m), e, ToAll(hl, self, m)[e][1])
  BY <1>1, <1>2, FirstOf DEF Carries
<1> QED
  BY <1>3, ToAllCarries

LEMMA SendingTakesNothing ==
  ASSUME TypeOK, NEW n \in Node, NEW out, AreQueues(out, Endpoint), Transmit(n, out, net)
  PROVE  /\ NothingTaken
         /\ \A x \in Node : perm[x] \subseteq perm'[x]
         /\ \A ch, type : /\ Carried(Route(n, out), ch, type) \in Nat
                          /\ Carried(net', ch, type)
                               = Carried(net, ch, type) + Carried(Route(n, out), ch, type)
<1>1. /\ AreQueues(net, Channel) /\ AreQueues(Route(n, out), Channel)
      /\ net' = AndThen(net, Route(n, out))
  BY RouteType DEF TypeOK, NetworkOK, Transmit
<1>2. \A ch, type : /\ Carried(net, ch, type) \in Nat
                    /\ Carried(Route(n, out), ch, type) \in Nat
                    /\ Carried(net', ch, type)
                         = Carried(net, ch, type) + Carried(Route(n, out), ch, type)
  BY <1>1, CarriedKind, CarriedBoth
<1>3. NothingTaken
  BY <1>2 DEF NothingTaken
<1> QED
  BY <1>2, <1>3 DEF Transmit, TypeOK, NetworkOK

LEMMA RoundCounts ==
  ASSUME Delivered, CountInv, NEW n \in Node, TimerRound(n)
  PROVE  CountedUnanswered'
<1> PICK hl : hl = Checked(n)
  OBVIOUS
<1> PICK tick : tick = InfoMsg("ticker", nodeID[n], localEpInfo[n])
  OBVIOUS
<1> DEFINE tickers == ToAll(hl, nodeID[n], tick)
           updates == IF NeedNotify(n) THEN RouteInfo(n, hl) ELSE Silence
           detect  == IF Alone(n, hl) >= DetectRounds
                      THEN To(RemoteServer[n], DetectMsg(nodeID[n], LocalEp[n]))
                      ELSE Silence
           out     == AndThen(AndThen(tickers, updates), detect)
<1>1. /\ OneServer /\ ServerInv /\ OneLife /\ TypeOK /\ CountedUnanswered
      /\ status[n] = "up"
  BY TypedTalk DEF Delivered, CountInv, TalkInv, TimerRound
<1>2. /\ tickerNum'[n] = Ticked(tickerNum[n], hl, nodeID[n])
      /\ \A x \in Node \ {n} : tickerNum'[x] = tickerNum[x]
      /\ Transmit(n, out, net) /\ UNCHANGED status
  BY <1>1 DEF TimerRound, TypeOK, ProcessOK
<1>3. /\ nodeID[n] \in ID /\ localEpInfo[n] \in InfoOrNull /\ RemoteServer[n] \in Endpoint
      /\ IsHostList(hl) /\ LocalEp[n] \in Endpoint
  BY <1>1, ReaderRuns, CheckedType, ConfigAssumption
<1>4. AreQueues(tickers, Endpoint) /\ AreQueues(updates, Endpoint) /\ AreQueues(detect, Endpoint)
      /\ IsMsg(tick)
  BY <1>1, <1>3, MsgTypes, ToAllType, RouteInfoType, ToType, SilenceType
<1>5. tick.type = "ticker"
  BY DEF InfoMsg
<1>6. ASSUME NEW i \in DOMAIN hl \ {nodeID[n]} PROVE Carries(tickers, hl[i].ep, tick)
  BY <1>3, <1>4, <1>6, TickersAre
<1> HIDE DEF tickers, updates, detect
<1>7. AreQueues(AndThen(tickers, updates), Endpoint) /\ AreQueues(out, Endpoint)
  BY <1>4, AndThenType
<1>8. ASSUME NEW i \in DOMAIN hl \ {nodeID[n]}
      PROVE  hl[i].ep \in DOMAIN out /\ Carried(out, hl[i].ep, "ticker") >= 1
  <2> PICK e : e = hl[i].ep
    OBVIOUS
  <2>1. /\ Carried(tickers, e, "ticker") \in Nat /\ Carried(updates, e, "ticker") \in Nat
        /\ Carried(detect, e, "ticker") \in Nat
    BY <1>4, CarriedKind
  <2>2. Carries(tickers, e, tick)
    BY <1>6
  <2>3. Carried(tickers, e, "ticker") >= 1
    BY <1>4, <1>5, <2>2, CarriedSome
  <2>4. Carried(out, e, "ticker") = Carried(AndThen(tickers, updates), e, "ticker")
                                      + Carried(detect, e, "ticker")
    BY <1>4, <1>7, CarriedBoth
  <2>5. Carried(AndThen(tickers, updates), e, "ticker")
          = Carried(tickers, e, "ticker") + Carried(updates, e, "ticker")
    BY <1>4, CarriedBoth
  <2>6. e \in DOMAIN out
    BY <2>2 DEF Carries, AndThen
  <2> QED
    BY <2>1, <2>3, <2>4, <2>5, <2>6
<1> HIDE DEF out
<1>9. /\ NothingTaken
      /\ \A ch, type : /\ Carried(Route(n, out), ch, type) \in Nat
                       /\ Carried(net', ch, type)
                            = Carried(net, ch, type) + Carried(Route(n, out), ch, type)
      /\ StaysOpen
  BY <1>1, <1>2, <1>7, SendingTakesNothing DEF StaysOpen
<1> SUFFICES ASSUME NEW y \in Node, NEW e \in DOMAIN tickerNum'[y]
             PROVE  Counted(y, e, tickerNum[y][e])'
  BY DEF CountedUnanswered
<1>10. ASSUME e \in DOMAIN tickerNum[y], tickerNum'[y][e] = tickerNum[y][e]
       PROVE  Counted(y, e, tickerNum[y][e])'
  <2> PICK c : c = tickerNum[y][e]
    OBVIOUS
  <2>1. c \in Nat /\ Counted(y, e, c)
    BY <1>1, <1>10, CountersAre
  <2>2. Counted(y, e, c)'
    BY <1>1, <1>9, <2>1, CountedOn
  <2> QED
    BY <1>10, <2>2 DEF Counted
<1>11. CASE y # n
  BY <1>2, <1>10, <1>11
<1> DEFINE at   == {j \in DOMAIN hl \ {nodeID[n]} : hl[j].ep = e}
           kept == DOMAIN tickerNum[n] \ DeadEps(tickerNum[n])
           base == IF e \in kept THEN tickerNum[n][e] ELSE 0
<1>12. CASE y = n /\ at = {}
  <2>1. e \in kept \cup {hl[j].ep : j \in DOMAIN hl \ {nodeID[n]}}
        /\ tickerNum'[n][e] = base + Cardinality(at)
    BY <1>2, <1>12 DEF Ticked
  <2>2. e \in kept
    BY <1>12, <2>1
  <2>3. tickerNum[n][e] \in Nat
    BY <1>1, <2>2, CountersAre
  <2>4. Cardinality({}) = 0
    BY FS_EmptySet
  <2> HIDE DEF at
  <2>5. tickerNum'[n][e] = tickerNum[n][e]
    BY <1>12, <2>1, <2>2, <2>3, <2>4
  <2> QED
    BY <1>10, <1>12, <2>2, <2>5
<1>13. CASE y = n /\ at # {}
  <2>1. tickerNum'[n][e] = base + Cardinality(at)
    BY <1>2, <1>13 DEF Ticked
  <2>2. PICK i \in DOMAIN hl \ {nodeID[n]} : hl[i].ep = e
    BY <1>13
  <2>3. \A j \in DOMAIN hl : /\ j \in DOMAIN hostList[n] /\ hl[j].ep = hostList[n][j].ep
                             /\ Leads(j, hl[j].ep)
    BY <1>1, CheckedEps DEF HasAll, ServerInv, AllStraight, Straight, AllLead
  <2>4. PICK x \in Node : e = Seen(x)
    BY <2>2, <2>3 DEF Leads, DrawnAt
  <2>5. \A j \in at : status[x] # "off" /\ (status[x] = "up" => nodeID[x] = j)
    BY <1>1, <2>3, <2>4, ListedStarted
  <2>6. status[x] # "off" /\ status'[x] = status[x] /\ e = Seen(x)'
    BY <1>2, <2>2, <2>4, <2>5 DEF Seen
  <2>7. CASE status[x] # "up"
    BY <1>13, <2>4, <2>6, <2>7 DEF Counted
  <2>8. CASE status[x] = "up"
    <3>1. nodeID[x] = i /\ at = {i} /\ x # n
      BY <2>2, <2>5, <2>8
    <3>2. OpenWays(n, x)
      <4>1. Connected(n, x) /\ hostList[n][nodeID[x]].ep = Seen(x)
        BY <1>1, <2>2, <2>3, <2>4, <2>8, <3>1, ServerConnects DEF ListedIsConnected, Lists
      <4> QED
        BY <1>1, <2>8, <4>1, ConnectedWays DEF Connected
    <3>3. OpenWays(n, x)'
      BY <1>9, <3>2, WaysStay
    <3> PICK there : there = From(n, Seen(x))
      OBVIOUS
    <3> PICK back : back = From(x, Seen(n))
      OBVIOUS
    <3>4. /\ Unanswered(n, e) = Carried(net, there, "ticker") + Carried(net, back, "tickerRes")
          /\ Unanswered(n, e)' = Carried(net', there, "ticker") + Carried(net', back, "tickerRes")
      BY <1>1, <2>4, UnansweredIs
    <3>5. Carried(Route(n, out), there, "ticker") >= 1
      <4>1. e \in DOMAIN out \cap Endpoint /\ Carried(out, e, "ticker") >= 1
        BY <1>8, <2>2, <2>4, SeenType
      <4>2. Readable(x, there)
        BY <3>2 DEF OpenWays, CanRead
      <4>3. Carried(Route(n, out), there, "ticker") = Carried(out, e, "ticker")
        BY <1>1, <2>4, <4>1, <4>2, CarriedRoute
      <4> QED
        BY <4>1, <4>3
    <3>6. /\ Unanswered(n, e) \in Nat /\ Unanswered(n, e)' \in Nat
          /\ Unanswered(n, e)' >= Unanswered(n, e) + 1
      BY <1>9, <3>4, <3>5 DEF NothingTaken
    <3>7. base \in Nat /\ base <= Unanswered(n, e)
      <4>1. CASE e \in kept
        <5> PICK c : c = tickerNum[n][e]
          OBVIOUS
        <5>1. c \in Nat /\ Counted(n, e, c)
          BY <1>1, <4>1, CountersAre
        <5>2. c <= Unanswered(n, e)
          BY <1>1, <2>4, <2>8, <5>1, OneReader DEF Counted
        <5> QED
          BY <4>1, <5>1, <5>2
      <4>2. CASE e \notin kept
        BY <3>6, <4>2
      <4> QED
        BY <4>1, <4>2
    <3>8. Cardinality({i}) = 1
      BY FS_Singleton
    <3> HIDE DEF at, base
    <3>9. tickerNum'[n][e] = base + 1
      BY <2>1, <3>1, <3>8
    <3>10. tickerNum'[n][e] <= Unanswered(n, e)'
      BY <3>6, <3>7, <3>9
    <3> QED
      BY <1>13, <2>4, <2>6, <3>3, <3>10 DEF Counted
  <2> QED
    BY <2>7, <2>8
<1> QED
  BY <1>11, <1>12, <1>13

(***************************************************************************)
(* Handlers: the one of a ticker answers it, and the one of its answer     *)
(* forgets the counter.                                                    *)
(***************************************************************************)
LEMMA ReadsOn ==
  ASSUME Delivered, TalkInv, NEW n \in Node,
         NEW ch \in DOMAIN net, NEW k \in Deliverable(ch), HandleReceive(n, ch, k)
  PROVE  /\ \/ RcvDetectMapped(n, ch, k) \/ RcvUpdate(n, ch, k)
            \/ RcvProxyconnect(n, ch, k) \/ RcvHelpconnect(n, ch, k)
            \/ RcvOpenconnect(n, ch, k) \/ Ticking(n, ch, k)
         /\ Grows
<1>1. \/ RcvDetectMapped(n, ch, k) \/ RcvUpdate(n, ch, k)
      \/ RcvProxyconnect(n, ch, k) \/ RcvHelpconnect(n, ch, k)
      \/ RcvOpenconnect(n, ch, k) \/ Ticking(n, ch, k)
  BY NeverRead, NoneFatal
     DEF HandleReceive, Detecting, Updating, Punching, Delivered, TalkInv
<1>2. UNCHANGED status
  BY <1>1 DEF RcvDetectMapped, RcvUpdate, RcvProxyconnect, RcvHelpconnect, RcvOpenconnect,
              Ticking, RcvTicker, RcvTickerRes
<1>3. ~ Abort(n, ch, k)
  <2>1. TypeOK /\ status[n] = "up"
    BY <1>1, TypedTalk
       DEF Delivered, RcvDetectMapped, RcvUpdate, RcvProxyconnect, RcvHelpconnect,
           RcvOpenconnect, Ticking, RcvTicker, RcvTickerRes, Receive, CanRead
  <2> QED
    BY <1>2, <2>1 DEF Abort, Stop, TypeOK, ProcessOK
<1> QED
  BY <1>1, <1>3, ReceiveGrows DEF Delivered, TalkInv

LEMMA ReceiveCounts ==
  ASSUME Delivered, CountInv, NEW n \in Node,
         NEW ch \in DOMAIN net, NEW k \in Deliverable(ch), HandleReceive(n, ch, k)
  PROVE  CountedUnanswered'
<1> PICK m : m = net[ch][k]
  OBVIOUS
<1>1. TalkInv /\ OneServer /\ ServerInv /\ TypeOK /\ CountedUnanswered
  BY TypedTalk DEF Delivered, CountInv, TalkInv
<1>2. Grows /\ OnlyResets /\ UNCHANGED status
  BY <1>1, ReadsOn DEF Grows, OnlyResets
<1>3. ASSUME NEW out, AreQueues(out, Endpoint), Handle(n, ch, k, out),
             NEW type \in {"detect", "update", "proxyconnect", "helpconnect", "openconnect"},
             Receive(n, ch, k, type)
      PROVE  CountedUnanswered'
  BY <1>1, <1>2, <1>3, ReadCounts
<1>4. CASE RcvDetectMapped(n, ch, k)
  <2> PICK hl : hl = MappedList(n, ch, m.id)
    OBVIOUS
  <2> PICK check : check = CheckMsg("filteringcheck", nodeID[n], ch.src, MsgUuid(m.id))
    OBVIOUS
  <2> DEFINE out == AndThen(To(ServerEp, check), RouteInfo(n, hl))
  <2>1. Receive(n, ch, k, "detect") /\ m.id # Null /\ Handle(n, ch, k, out)
    BY <1>1, <1>4, ProberIsServer DEF RcvDetectMapped
  <2>2. ServerEp \in Endpoint /\ IsHostList(hl)
    BY <1>1, <2>1, DetectFinds
  <2>3. status[n] = "up" /\ nodeID[n] \in ID /\ m.id \in ID /\ ch.src \in Endpoint
    BY <1>1, <2>1, ReadsHonest, MsgFields, ReaderRuns
  <2>4. IsMsg(check)
    BY <2>3, MsgTypes DEF MsgUuid, Uuid
  <2>5. AreQueues(out, Endpoint)
    BY <1>1, <2>2, <2>3, <2>4, ToType, RouteInfoType, AndThenType
  <2> HIDE DEF out
  <2> QED
    BY <1>3, <2>1, <2>5
<1>5. CASE RcvUpdate(n, ch, k)
  BY <1>3, <1>5, SilenceType DEF RcvUpdate
<1>6. CASE RcvOpenconnect(n, ch, k)
  BY <1>3, <1>6, SilenceType DEF RcvOpenconnect
<1>7. CASE RcvProxyconnect(n, ch, k) \/ RcvHelpconnect(n, ch, k)
  <2> DEFINE help == InfoMsg("helpconnect", nodeID[n], [m.info EXCEPT !.ep = ch.src])
             open == InfoMsg("openconnect", nodeID[n], localEpInfo[n])
  <2>1. m.type \in {"proxyconnect", "helpconnect"} /\ Receive(n, ch, k, m.type)
    BY <1>7 DEF RcvProxyconnect, RcvHelpconnect, Receive
  <2>2. status[n] = "up" /\ IsMsg(m) /\ ch.src \in Endpoint /\ nodeID[n] \in ID
    BY <1>1, <2>1, ReadsHonest, ReaderRuns
  <2>3. m.info \in Info /\ m.info.ep \in Endpoint /\ [m.info EXCEPT !.ep = ch.src] \in Info
    BY <2>1, <2>2, MsgFields DEF Info
  <2>4. IsMsg(help) /\ IsMsg(open)
    BY <1>1, <2>2, <2>3, ReaderRuns, MsgTypes
  <2> HIDE DEF help, open
  <2>5. AreQueues(To(m.info.ep, help), Endpoint)
        /\ AreQueues(Repeatedly(m.info.ep, open), Endpoint)
    BY <2>3, <2>4, ToType
  <2>6. PICK out : AreQueues(out, Endpoint) /\ Handle(n, ch, k, out)
    BY <1>7, <2>5 DEF RcvProxyconnect, RcvHelpconnect, help, open
  <2> QED
    BY <1>3, <2>1, <2>6
<1>8. CASE RcvTicker(n, ch, k)
  <2> PICK out : out = To(ch.src, TickerRes(nodeID[n]))
    OBVIOUS
  <2>1. Receive(n, ch, k, "ticker") /\ Handle(n, ch, k, out)
    BY <1>8 DEF RcvTicker
  <2>2. ch.src \in Endpoint /\ nodeID[n] \in ID
    BY <1>1, <2>1, ReadsHonest, ReaderRuns
  <2>3. AreQueues(out, Endpoint)
    BY <2>2, MsgTypes, ToType
  <2>4. Carried(out, ch.src, "tickerRes") >= 1 /\ ch.src \in DOMAIN out
    <3>1. TickerRes(nodeID[n]) \in Range(<<TickerRes(nodeID[n])>>)
      BY DEF Range
    <3>2. Carries(out, ch.src, TickerRes(nodeID[n]))
      BY <3>1 DEF Carries, To
    <3>3. TickerRes(nodeID[n]).type = "tickerRes"
      BY DEF TickerRes
    <3> QED
      BY <2>3, <3>2, <3>3, CarriedSome DEF Carries
  <2> QED
    BY <1>1, <1>2, <2>1, <2>2, <2>3, <2>4, ReadCounts
<1>9. CASE RcvTickerRes(n, ch, k)
  <2>1. Receive(n, ch, k, "tickerRes") /\ Handle(n, ch, k, Silence)
        /\ tickerNum' = [tickerNum EXCEPT ![n] = Reset(@, ch.src)]
    BY <1>9 DEF RcvTickerRes
  <2>2. ch.src \notin DOMAIN tickerNum'[n]
    BY <1>1, <2>1 DEF Reset, Restrict, TypeOK, ProcessOK
  <2> QED
    BY <1>1, <1>2, <2>1, <2>2, SilenceType, ReadCounts
<1> QED
  BY <1>1, <1>4, <1>5, <1>6, <1>7, <1>8, <1>9, ReadsOn DEF Ticking

(***************************************************************************)
(* The other steps: what is sent joins what is under way, and what cannot  *)
(* be read is no ticker that is waited for.                                *)
(***************************************************************************)
LEMMA UntouchedTakesNothing ==
  ASSUME TypeOK, UNCHANGED net
  PROVE  NothingTaken
<1>1. \A ch, type : Carried(net, ch, type) \in Nat
  BY CarriedKind DEF TypeOK, NetworkOK
<1>2. \A ch, type : Carried(net', ch, type) = Carried(net, ch, type)
  OBVIOUS
<1> QED
  BY <1>1, <1>2 DEF NothingTaken

LEMMA BootCounts ==
  ASSUME Delivered, CountInv, NEW n \in Node, NEW id \in IDsOf[n], Boot(n, id)
  PROVE  CountedUnanswered'
<1> PICK out : out = To(RemoteServer[n], DetectMsg(id, LocalEp[n]))
  OBVIOUS
<1>1. TypeOK /\ CountedUnanswered /\ OneServer
  BY TypedTalk DEF CountInv, Delivered
<1>2. /\ Transmit(n, out, net) /\ status' = [status EXCEPT ![n] = "up"]
      /\ status[n] = "off" /\ UNCHANGED tickerNum
  BY DEF Boot, Delivered
<1>3. AreQueues(out, Endpoint)
  <2>1. id \in ID /\ LocalEp[n] \in Endpoint /\ RemoteServer[n] \in Endpoint
    BY ConfigAssumption
  <2> QED
    BY <2>1, MsgTypes, ToType
<1>4. StaysOpen /\ OnlyResets
  BY <1>1, <1>2, <1>3, SendingTakesNothing DEF StaysOpen, OnlyResets, TypeOK, ProcessOK
<1> QED
  BY <1>1, <1>2, <1>3, <1>4, SendingTakesNothing, SendCounts

LEMMA CrashCounts ==
  ASSUME Delivered, CountInv, NEW n \in Node, Crash(n)
  PROVE  CountedUnanswered'
<1>1. TypeOK /\ CountedUnanswered
  BY TypedTalk DEF CountInv
<1>2. /\ status' = [status EXCEPT ![n] = "crashed"]
      /\ tickerNum' = [tickerNum EXCEPT ![n] = EmptyMap]
      /\ UNCHANGED <<net, perm>>
  BY DEF Crash, Stop
<1> SUFFICES ASSUME NEW y \in Node, NEW e \in DOMAIN tickerNum'[y]
             PROVE  Counted(y, e, tickerNum[y][e])'
  BY DEF CountedUnanswered
<1>3. y # n /\ tickerNum'[y] = tickerNum[y]
  BY <1>1, <1>2 DEF EmptyMap, TypeOK, ProcessOK
<1>4. PICK x \in Node : /\ e = Seen(x) /\ status[x] # "off"
                        /\ status[x] = "up" => OpenWays(y, x)
                                                 /\ tickerNum[y][e] <= Unanswered(y, e)
  BY <1>1, <1>3, CountersAre DEF Counted
<1>5. CASE x = n
  BY <1>1, <1>2, <1>4, <1>5 DEF Counted, Seen, TypeOK, ProcessOK
<1>6. CASE x # n
  <2>1. status'[x] = status[x] /\ status'[y] = status[y] /\ e = Seen(x)'
    BY <1>1, <1>2, <1>3, <1>4, <1>6 DEF Seen, TypeOK, ProcessOK
  <2>2. status[x] = "up" => OpenWays(y, x)' /\ tickerNum'[y][e] <= Unanswered(y, e)'
    BY <1>2, <1>3, <1>4, <2>1 DEF OpenWays, CanRead, Admits, Readable, Owns, From, Seen,
                                  Unanswered, Carried
  <2> QED
    BY <1>4, <2>1, <2>2 DEF Counted
<1> QED
  BY <1>5, <1>6

LEMMA LoopCounts ==
  ASSUME Delivered, CountInv, NEW n \in Node, UpdateLoop(n)
  PROVE  CountedUnanswered'
<1>1. TypeOK /\ CountedUnanswered /\ ServerInv /\ OneServer
  BY TypedTalk DEF CountInv, TalkInv, Delivered
<1>2. UNCHANGED <<status, tickerNum>> /\ Looping(n)
  BY DEF UpdateLoop, UpdateSelf, UpdateSender, FileItem, UpdatePublic, UpdateProxy, Connect
<1>3. OnlyResets
  BY <1>2 DEF OnlyResets
<1>4. CASE UpdateSelf(n) \/ UpdateSender(n)
  <2>1. UNCHANGED <<net, perm>>
    BY <1>4 DEF UpdateSelf, UpdateSender, FileItem
  <2>2. StaysOpen /\ NothingTaken
    BY <1>1, <1>2, <2>1, UntouchedTakesNothing DEF StaysOpen
  <2> QED
    BY <1>1, <1>3, <2>2, SendCounts
<1>5. CASE UpdatePublic(n) \/ UpdateProxy(n)
  <2> DEFINE help == To(ServerEp, InfoMsg("proxyconnect", nodeID[n], ItemObj(n)))
  <2>1. /\ ItemObj(n) \in Info /\ localEpInfo[n] \in Info /\ nodeID[n] \in ID
        /\ ItemObj(n).ep \in Endpoint /\ ServerEp \in Endpoint
    BY <1>1, <1>2, LoopIsServers, ReaderRuns, ServerSeen DEF Info
  <2>2. /\ IsMsg(InfoMsg("openconnect", nodeID[n], localEpInfo[n]))
        /\ IsMsg(InfoMsg("proxyconnect", nodeID[n], ItemObj(n)))
    BY <2>1, MsgTypes DEF InfoOrNull
  <2>3. AreQueues(OpenItem(n), Endpoint) /\ AreQueues(help, Endpoint)
    BY <2>1, <2>2, ToType DEF OpenItem
  <2>4. AreQueues(AndThen(help, OpenItem(n)), Endpoint)
    BY <2>3, AndThenType
  <2> HIDE DEF help
  <2>5. PICK out : AreQueues(out, Endpoint) /\ Transmit(n, out, net)
    <3>1. CASE UpdatePublic(n)
      BY <2>3, <3>1 DEF UpdatePublic, Connect
    <3>2. CASE UpdateProxy(n)
      BY <1>1, <1>2, <2>3, <2>4, <3>2, HelperIsServer DEF UpdateProxy, Connect, help
    <3> QED
      BY <1>5, <3>1, <3>2
  <2>6. StaysOpen
    BY <1>1, <1>2, <2>5, SendingTakesNothing DEF StaysOpen
  <2> QED
    BY <1>1, <1>3, <2>5, <2>6, SendingTakesNothing, SendCounts
<1> QED
  BY <1>4, <1>5 DEF UpdateLoop

LEMMA NetworkCounts ==
  ASSUME Delivered, CountInv, NEW ch \in DOMAIN net, NEW k \in Deliverable(ch),
         Duplicate(ch, k) \/ Undeliverable(ch, k)
  PROVE  CountedUnanswered'
<1> PICK gone : gone = net[ch][k]
  OBVIOUS
<1>1. /\ TypeOK /\ CountedUnanswered /\ InOrder /\ OneServer
      /\ ch \in Channel /\ IsMsg(gone) /\ AreQueues(net, Channel)
  BY TypedTalk, DeliverableIsThere DEF Delivered, CountInv
<1>2. UNCHANGED <<status, tickerNum, perm>>
  BY DEF Duplicate, Undeliverable, process
<1>3. StaysOpen /\ OnlyResets
  BY <1>2 DEF StaysOpen, OnlyResets
<1>4. CASE Duplicate(ch, k)
  <2> PICK copy : copy = To(ch, gone)
    OBVIOUS
  <2>1. net' = AndThen(net, copy) /\ AreQueues(copy, Channel)
    BY <1>1, <1>4, ToType DEF Duplicate
  <2>2. \A c, t : /\ Carried(net, c, t) \in Nat /\ Carried(copy, c, t) \in Nat
                  /\ Carried(net', c, t) = Carried(net, c, t) + Carried(copy, c, t)
    BY <1>1, <2>1, CarriedKind, CarriedBoth
  <2>3. NothingTaken
    BY <2>2 DEF NothingTaken
  <2> QED
    BY <1>1, <1>3, <2>3, SendCounts
<1>5. CASE Undeliverable(ch, k)
  <2> SUFFICES ASSUME NEW n \in Node, NEW e \in DOMAIN tickerNum'[n]
               PROVE  Counted(n, e, tickerNum[n][e])'
    BY DEF CountedUnanswered
  <2>1. PICK x \in Node : /\ e = Seen(x) /\ status[x] # "off"
                          /\ status[x] = "up" => OpenWays(n, x)
                                                   /\ tickerNum[n][e] <= Unanswered(n, e)
    BY <1>1, <1>2, CountersAre DEF Counted
  <2>2. e = Seen(x)' /\ status'[x] = status[x] /\ tickerNum'[n][e] = tickerNum[n][e]
    BY <1>2, <2>1 DEF Seen
  <2>3. CASE status[x] # "up"
    BY <2>1, <2>2, <2>3 DEF Counted
  <2>4. CASE status[x] = "up"
    <3> PICK there : there = From(n, Seen(x))
      OBVIOUS
    <3> PICK back : back = From(x, Seen(n))
      OBVIOUS
    <3>1. net' = Without(ch, k) /\ ch # there /\ ch # back
      BY <1>5, <2>1, <2>4 DEF Undeliverable, OpenWays
    <3>2. /\ Carried(net', there, "ticker") = Carried(net, there, "ticker")
          /\ Carried(net', back, "tickerRes") = Carried(net, back, "tickerRes")
      <4>1. \A c, t : /\ Carried(net', c, t) \in Nat
                      /\ Carried(net, c, t) = Carried(net', c, t)
                           + IF c = ch /\ gone.type = t THEN 1 ELSE 0
        BY <1>1, <3>1, CarriedWithout, WithoutType, CarriedKind
      <4> QED
        BY <3>1, <4>1
    <3>3. /\ Unanswered(n, e) = Carried(net, there, "ticker") + Carried(net, back, "tickerRes")
          /\ Unanswered(n, e)' = Carried(net', there, "ticker") + Carried(net', back, "tickerRes")
      BY <1>1, <2>1, UnansweredIs
    <3>4. OpenWays(n, x)'
      BY <1>3, <2>1, <2>4, WaysStay
    <3> QED
      BY <2>1, <2>2, <2>4, <3>2, <3>3, <3>4 DEF Counted
  <2> QED
    BY <2>3, <2>4
<1> QED
  BY <1>4, <1>5

LEMMA NextCounts ==
  ASSUME Delivered, CountInv, NobodyDead, [Next]_vars
  PROVE  CountInv'
<1>1. OneServer /\ TalkInv /\ TypeOK /\ CountedUnanswered
  BY TypedTalk DEF Delivered, CountInv
<1>2. TalkInv'
  BY <1>1, NextTalks
<1> SUFFICES CountedUnanswered'
  BY <1>2 DEF CountInv
<1>3. ASSUME NEW n \in Node, Start(n) PROVE CountedUnanswered'
  BY <1>3, BootCounts DEF Start
<1>4. \A ch, k : ~ Lose(ch, k)
  BY <1>1 DEF Lose, TalkInv, Orderly
<1>5. CASE UNCHANGED vars
  <2>1. UNCHANGED <<net, tickerNum, status, perm>>
    BY <1>5 DEF vars, process
  <2>2. OnlyResets /\ StaysOpen /\ NothingTaken
    BY <1>1, <2>1, UntouchedTakesNothing DEF OnlyResets, StaysOpen
  <2> QED
    BY <1>1, <2>2, SendCounts
<1>6. CASE \E n \in Node : Start(n) \/ UpdateLoop(n) \/ TimerRound(n)
  BY <1>3, <1>6, LoopCounts, RoundCounts
<1>7. CASE Arrival
  BY <1>7, ReceiveCounts, NetworkCounts DEF Arrival
<1>8. CASE Fault
  BY <1>4, <1>8, CrashCounts, NetworkCounts DEF Fault
<1> QED
  BY <1>5, <1>6, <1>7, <1>8 DEF Next, Delivered

LEMMA InitCounts == Delivered /\ Init => CountInv
<1> SUFFICES ASSUME Delivered, Init PROVE CountedUnanswered
  BY InitTalks DEF CountInv
<1> QED
  BY DEF Init, CountedUnanswered, EmptyMap

(***************************************************************************)
(* What a list loses while its process runs.                               *)
(***************************************************************************)
LEMMA UnansweredType ==
  ASSUME TypeOK, NEW n, NEW e
  PROVE  Unanswered(n, e) \in Nat
<1>1. \A ch, type : Carried(net, ch, type) \in Nat
  BY CarriedKind DEF TypeOK, NetworkOK
<1> QED
  BY <1>1 DEF Unanswered

LEMMA ListedSeen ==
  ASSUME Delivered, CountInv, NEW n \in Node, NEW m \in Node, Lists(n, m)
  PROVE  hostList[n][nodeID[m]].ep = Seen(m)
<1>1. OneServer /\ NoSharedID /\ ServerInv /\ TypeOK
  BY TypedTalk DEF Delivered, CountInv, TalkInv
<1>2. nodeID[m] \in IDsOf[m]
  BY <1>1 DEF Lists, ServerInv, OwnIDs, TypeOK, LifeOK
<1>3. Leads(nodeID[m], hostList[n][nodeID[m]].ep)
  BY <1>1 DEF Lists, ServerInv, AllStraight, Straight, AllLead
<1>4. PICK x \in Node : hostList[n][nodeID[m]].ep = Seen(x) /\ nodeID[m] \in IDsOf[x]
  BY <1>3 DEF Leads, DrawnAt
<1> QED
  BY <1>1, <1>2, <1>4 DEF NoSharedID

LEMMA NextKeepsPeers ==
  ASSUME Delivered, CountInv, [Next]_vars, NEW n \in Node, NEW m \in Node \ {n}, Lists(n, m),
         status'[n] = "up", status'[m] = "up"
  PROVE  Lists(n, m)' \/ Unanswered(n, hostList[n][nodeID[m]].ep) >= PACKAGENUM
<1>1. /\ OneServer /\ NoSharedID /\ TalkInv /\ ServerInv /\ TypeOK /\ CountedUnanswered
  BY TypedTalk DEF Delivered, CountInv, TalkInv
<1>2. ASSUME Grows PROVE Lists(n, m)'
  BY <1>2 DEF Grows, HasAll, Lists
<1>3. ASSUME NEW x \in Node, NEW ch \in DOMAIN net, NEW k \in Deliverable(ch),
             HandleReceive(x, ch, k)
      PROVE  Lists(n, m)'
  BY <1>1, <1>2, <1>3, ReadsOn
<1>4. ASSUME NEW x \in Node, UpdateLoop(x) PROVE Lists(n, m)'
  BY <1>1, <1>2, <1>4, LoopGrows
<1>5. ASSUME NEW x \in Node, NEW id, Boot(x, id) PROVE Lists(n, m)'
  <2>1. x # m
    BY <1>5 DEF Boot, Lists
  <2> QED
    BY <1>1, <1>5, <2>1 DEF Boot, Lists, TypeOK, ProcessOK
<1>6. ASSUME NEW x \in Node, TimerRound(x)
      PROVE  Lists(n, m)' \/ Unanswered(n, hostList[n][nodeID[m]].ep) >= PACKAGENUM
  <2> PICK e : e = hostList[n][nodeID[m]].ep
    OBVIOUS
  <2>1. UNCHANGED <<status, nodeID>> /\ hostList' = [hostList EXCEPT ![x] = Checked(x)]
    BY <1>6 DEF TimerRound
  <2>2. CASE x # n
    BY <1>1, <2>1, <2>2 DEF Lists, TypeOK, ProcessOK
  <2>3. CASE e \notin DeadEps(tickerNum[n])
    <3>1. nodeID[m] \in DOMAIN hostList[n]
      BY DEF Lists
    <3>2. nodeID[m] \in DOMAIN Checked(n)
      BY <2>3, <3>1 DEF Checked, EraseAt, SetFiltering, Restrict
    <3> QED
      BY <1>1, <2>1, <3>2 DEF Lists, TypeOK, ProcessOK
  <2>4. CASE x = n /\ e \in DeadEps(tickerNum[n])
    <3> PICK c : c = tickerNum[n][e]
      OBVIOUS
    <3>1. c >= PACKAGENUM /\ c \in Nat /\ Counted(n, e, c)
      BY <1>1, <2>4, CountersAre DEF DeadEps
    <3>2. e = Seen(m)
      BY ListedSeen
    <3>3. status[m] = "up" /\ Unanswered(n, e) >= c
      BY <1>1, <3>1, <3>2, OneReader DEF Counted, Lists
    <3>4. Unanswered(n, e) \in Nat
      BY <1>1, UnansweredType
    <3> QED
      BY <3>1, <3>3, <3>4, NumberAssumption
  <2> QED
    BY <2>2, <2>3, <2>4
<1>7. CASE \/ UNCHANGED vars
           \/ \E ch \in BindChannels : Bind(ch)
           \/ \E ch \in DOMAIN net : \E k \in Deliverable(ch) :
                Undeliverable(ch, k) \/ Lose(ch, k) \/ Duplicate(ch, k)
  BY <1>2, <1>7, NetworkGrows
<1>8. ASSUME NEW x \in Node, Crash(x) PROVE Lists(n, m)'
  <2>1. x # n /\ x # m
    BY <1>1, <1>8 DEF Crash, Stop, TypeOK, ProcessOK
  <2> QED
    BY <1>1, <1>8, <2>1 DEF Crash, Stop, Lists, TypeOK, ProcessOK
<1> QED
  BY <1>3, <1>4, <1>5, <1>6, <1>7, <1>8 DEF Next, Start, Arrival, Fault

(***************************************************************************)
(* The counters are right, and so are the evictions.  The proviso, that    *)
(* only the server evicts, is that of the theorems above.                  *)
(***************************************************************************)
(* A counter never exceeds the tickers to a living process of which no     *)
(* answer was handled, at any node and after any kill (the counters of     *)
(* threadhandle, server.cpp:841, and of the handlers of "ticker").         *)
THEOREM CountsUnanswered ==
  ASSUME Delivered
  PROVE  Spec /\ []NobodyDead => []CountedUnanswered
<1>1. Init => CountInv
  BY InitCounts
<1>2. CountInv /\ NobodyDead /\ [Next]_vars => CountInv'
  BY NextCounts
<1>3. CountInv => CountedUnanswered
  BY DEF CountInv
<1> QED
  BY <1>1, <1>2, <1>3, PTL DEF Spec

(* Who lives is only dropped by a round (server.cpp:775) that finds        *)
(* PACKAGENUM tickers to it without a handled answer.                      *)
THEOREM NoneIsEvictedEarly ==
  ASSUME Delivered
  PROVE  Spec /\ []NobodyDead => EvictedWhenOverdue
<1>1. Init => CountInv
  BY InitCounts
<1>2. CountInv /\ NobodyDead /\ [Next]_vars => CountInv'
  BY NextCounts
<1>3. CountInv /\ [Next]_vars =>
        [\A n \in Node : \A m \in Node \ {n} :
           Lists(n, m) /\ status'[m] = "up" /\ status'[n] = "up" =>
             \/ Lists(n, m)'
             \/ Unanswered(n, hostList[n][nodeID[m]].ep) >= PACKAGENUM]_vars
  BY NextKeepsPeers
<1> QED
  BY <1>1, <1>2, <1>3, PTL DEF Spec, EvictedWhenOverdue

(***************************************************************************)
(* What the proviso takes: nobody is killed, and between a node other than *)
(* the server and any other, fewer than PACKAGENUM of its tickers and of   *)
(* the answers to them are under way, copies included.  A round comes      *)
(* every 5 s and PACKAGENUM is 60: without copies, each is answered within *)
(* five minutes.  The handlers of "helpconnect" and "callclient" sleep 3 s *)
(* each on the thread that would answer, so this is a bound on how many of *)
(* them queue up and nothing the code ensures.                             *)
(***************************************************************************)
TimelyAt(n) == \A x \in Node : Unanswered(n, Seen(x)) < PACKAGENUM

Timely == \A n \in Node \ {Server} : TimelyAt(n)
Prompt == \A n \in Node : TimelyAt(n)

LEMMA TimelyAlive ==
  ASSUME Delivered, CountInv, NobodyKilled, NEW n \in Node, TimelyAt(n)
  PROVE  DeadEps(tickerNum[n]) = {}
<1> SUFFICES ASSUME NEW e \in DeadEps(tickerNum[n]) PROVE FALSE
  OBVIOUS
<1>1. TypeOK /\ CountedUnanswered /\ NobodyAborts
  BY TypedTalk DEF CountInv, TalkInv, Orderly
<1> PICK c : c = tickerNum[n][e]
  OBVIOUS
<1>2. c \in Nat /\ c >= PACKAGENUM /\ Counted(n, e, c)
  BY <1>1, CountersAre DEF DeadEps
<1>3. PICK x \in Node : /\ e = Seen(x) /\ status[x] # "off"
                        /\ status[x] = "up" => OpenWays(n, x) /\ c <= Unanswered(n, e)
  BY <1>2 DEF Counted
<1>4. status[x] = "up"
  BY <1>1, <1>3 DEF NobodyKilled, NobodyAborts, TypeOK, ProcessOK
<1>5. c <= Unanswered(n, e) /\ Unanswered(n, e) < PACKAGENUM
  BY <1>3, <1>4 DEF TimelyAt
<1>6. Unanswered(n, e) \in Nat
  BY <1>1, UnansweredType
<1> QED
  BY <1>2, <1>5, <1>6, NumberAssumption

(* As long as nobody is killed and answers come in time to all but the     *)
(* server, no node but the server evicts, no handler ends its process,     *)
(* whoever is listed is connected, and no counter outlives its entry, for  *)
(* as many rounds as the timers run.                                       *)
THEOREM TickingGoesWell ==
  ASSUME Delivered
  PROVE  Spec /\ []NobodyKilled /\ []Timely =>
           [](NobodyDead /\ NobodyAborts /\ ListedIsConnected /\ CountersOfPeers)
<1>1. Init => CountInv
  BY InitCounts
<1>2. CountInv /\ NobodyKilled /\ Timely => NobodyDead
  BY TimelyAlive DEF Timely, NobodyDead
<1>3. CountInv /\ NobodyDead /\ [Next]_vars => CountInv'
  BY NextCounts
<1>4. Spec /\ []NobodyKilled /\ []Timely => []NobodyDead
  BY <1>1, <1>2, <1>3, PTL DEF Spec
<1>5. OneServer /\ NoSharedID
  BY DEF Delivered
<1> QED
  BY <1>4, <1>5, ReadsToTheEnd, ListedWhereItIs, CountedWhileListed, PTL

(* When they come in time to the server too, no round of a timer drops a   *)
(* peer that lives (server.cpp:775): it stays listed wherever it is, and   *)
(* answers need not come, as in the run punch, before the next round.      *)
THEOREM NobodyLosesAPeer ==
  ASSUME Delivered
  PROVE  Spec /\ []NobodyKilled /\ []Prompt => NoFalseEviction
<1>1. Init => CountInv
  BY InitCounts
<1>2. CountInv /\ NobodyKilled /\ Prompt => NobodyDead
  BY TimelyAlive DEF Prompt, NobodyDead
<1>3. CountInv /\ NobodyDead /\ [Next]_vars => CountInv'
  BY NextCounts
<1>4. CountInv /\ Prompt /\ [Next]_vars =>
        [\A n \in Node : \A m \in Node \ {n} :
           Lists(n, m) /\ status'[m] = "up" /\ status'[n] = "up" => Lists(n, m)']_vars
  <2> SUFFICES ASSUME CountInv, Prompt, [Next]_vars, NEW n \in Node, NEW m \in Node \ {n},
                      Lists(n, m), status'[m] = "up", status'[n] = "up"
               PROVE  Lists(n, m)'
    OBVIOUS
  <2>1. Unanswered(n, hostList[n][nodeID[m]].ep) < PACKAGENUM
    BY ListedSeen DEF Prompt, TimelyAt
  <2>2. Unanswered(n, hostList[n][nodeID[m]].ep) \in Nat
    BY TypedTalk, UnansweredType DEF CountInv
  <2> QED
    BY <2>1, <2>2, NextKeepsPeers, NumberAssumption
<1> QED
  BY <1>1, <1>2, <1>3, <1>4, PTL DEF Spec, NoFalseEviction
=============================================================================
