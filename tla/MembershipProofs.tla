-------------------------- MODULE MembershipProofs --------------------------
(***************************************************************************)
(* The overlay implements Membership: each step of UdpServer is one of a   *)
(* process that joins, hears, lists, forgets or leaves, or changes nothing *)
(* of that.  The argument is where IDs come from: whatever a node sends    *)
(* carries the ID it has drawn, so whatever is in flight carries an ID     *)
(* somebody has drawn, or none.                                            *)
(***************************************************************************)
EXTENDS UdpServerProofs

(***************************************************************************)
(* Messages that carry an ID of a set S, alone and by destination.         *)
(***************************************************************************)
Signed(sq, S) == sq \in Seq({m \in Range(sq) : m.id \in S})

AllSigned(q, S) == \A x \in DOMAIN q : Signed(q[x], S)

LEMMA SignedOf ==
  ASSUME NEW S, NEW M, \A m \in M : m.id \in S, NEW sq \in Seq(M)
  PROVE  Signed(sq, S)
<1>1. \A j \in 1 .. Len(sq) : sq[j] \in {m \in Range(sq) : m.id \in S}
  BY DEF Range
<1> QED
  BY <1>1 DEF Signed

LEMMA SignedConcat ==
  ASSUME NEW S, NEW sq, NEW tq, Signed(sq, S), Signed(tq, S)
  PROVE  Signed(sq \o tq, S)
<1> DEFINE A == {m \in Range(sq) : m.id \in S}
           B == {m \in Range(tq) : m.id \in S}
<1>1. sq \in Seq(A \cup B) /\ tq \in Seq(A \cup B)
  <2>1. sq \in Seq(A) /\ tq \in Seq(B)
    BY DEF Signed
  <2> HIDE DEF A, B
  <2> QED
    BY <2>1
<1>2. sq \o tq \in Seq(A \cup B)
  BY <1>1
<1>3. \A m \in A \cup B : m.id \in S
  OBVIOUS
<1> HIDE DEF A, B
<1> QED
  BY <1>2, <1>3, SignedOf

LEMMA NothingSigned == \A S : Signed(<<>>, S)
<1> TAKE S
<1>1. <<>> \in Seq({})
  OBVIOUS
<1> QED
  BY <1>1, SignedOf

LEMMA SignedWidens ==
  ASSUME NEW S, NEW T, S \subseteq T, NEW q, AllSigned(q, S)
  PROVE  AllSigned(q, T)
<1>1. ASSUME NEW x \in DOMAIN q PROVE Signed(q[x], T)
  <2> DEFINE M == {m \in Range(q[x]) : m.id \in S}
  <2>1. q[x] \in Seq(M) /\ \A m \in M : m.id \in T
    BY DEF AllSigned, Signed
  <2> HIDE DEF M
  <2> QED
    BY <2>1, SignedOf
<1> QED
  BY <1>1 DEF AllSigned

LEMMA SignedMember ==
  ASSUME NEW S, NEW sq, Signed(sq, S), NEW k \in DOMAIN sq
  PROVE  sq[k].id \in S
BY DEF Signed

(***************************************************************************)
(* What handlers send is signed by the node they run at.                   *)
(***************************************************************************)
LEMMA CopiesSigned ==
  ASSUME NEW S, NEW m, m.id \in S, NEW k \in Nat
  PROVE  Signed([j \in 1 .. k |-> m], S) /\ Signed(<<m>>, S)
<1>1. [j \in 1 .. k |-> m] \in Seq({m}) /\ <<m>> \in Seq({m})
  OBVIOUS
<1> QED
  BY <1>1, SignedOf

LEMMA MessagesSigned ==
  ASSUME NEW S, NEW m, m.id \in S
  PROVE  /\ AllSigned(Silence, S)
         /\ \A e : AllSigned(To(e, m), S) /\ AllSigned(Repeatedly(e, m), S)
<1>1. Repeats \in Nat
  BY NumberAssumption
<1> QED
  BY <1>1, CopiesSigned DEF AllSigned, Silence, To, Repeatedly

LEMMA ToAllSigned ==
  ASSUME NEW S, NEW m, m.id \in S, NEW hl, IsHostList(hl), NEW self
  PROVE  AllSigned(ToAll(hl, self, m), S)
<1> DEFINE at(e) == {i \in DOMAIN hl \ {self} : hl[i].ep = e}
<1>1. ASSUME NEW e \in DOMAIN ToAll(hl, self, m) PROVE Signed(ToAll(hl, self, m)[e], S)
  <2>1. Cardinality(at(e)) \in Nat
    <3>1. at(e) \in SUBSET ID
      BY DEF IsHostList
    <3> QED
      BY <3>1, SomeIDs
  <2>2. ToAll(hl, self, m)[e] = [k \in 1 .. Cardinality(at(e)) |-> m]
    BY <1>1 DEF ToAll
  <2> QED
    BY <2>1, <2>2, CopiesSigned
<1> QED
  BY <1>1 DEF AllSigned

LEMMA AndThenSigned ==
  ASSUME NEW S, NEW out, NEW more, AllSigned(out, S), AllSigned(more, S)
  PROVE  AllSigned(AndThen(out, more), S)
<1>1. \A e : Signed(SentTo(out, e), S) /\ Signed(SentTo(more, e), S)
  BY NothingSigned DEF AllSigned, SentTo
<1> QED
  BY <1>1, SignedConcat DEF AllSigned, AndThen

LEMMA RouteInfoSigned ==
  ASSUME NEW n, NEW hl, IsHostList(hl)
  PROVE  AllSigned(RouteInfo(n, hl), {nodeID[n]})
<1>1. UpdateMsg(nodeID[n], hl).id \in {nodeID[n]}
  BY DEF UpdateMsg
<1> QED
  BY <1>1, ToAllSigned DEF RouteInfo

(***************************************************************************)
(* The network carries IDs that were drawn.                                *)
(***************************************************************************)
Known == used \cup {Null}

Drawn == AllSigned(net, Known) /\ \A n \in Node : nodeID[n] \in Known

MemberInv == HeardInv /\ Drawn

LEMMA TransmitSigned ==
  ASSUME NEW S, NEW n, NEW out, AllSigned(out, S), NEW left, AllSigned(left, S),
         Transmit(n, out, left)
  PROVE  AllSigned(net', S)
<1>1. AllSigned(Route(n, out), S)
  BY DEF AllSigned, Route
<1> QED
  BY <1>1, AndThenSigned DEF Transmit

LEMMA WithoutSigned ==
  ASSUME NEW S, AllSigned(net, S), AreQueues(net, Channel),
         NEW ch \in DOMAIN net, NEW k \in Deliverable(ch)
  PROVE  AllSigned(Without(ch, k), S)
<1> DEFINE M    == {m \in Range(net[ch]) : m.id \in S}
           rest == RemoveAt(net[ch], k)
<1>1. net[ch] \in Seq(M) /\ \A m \in M : m.id \in S
  BY DEF AllSigned, Signed
<1>2. k \in 1 .. Len(net[ch])
  <2>1. k \in DOMAIN net[ch]
    BY DeliverableIsThere
  <2> HIDE DEF M
  <2> QED
    BY <1>1, <2>1
<1> HIDE DEF M
<1>3. rest \in Seq(M)
  BY <1>1, <1>2 DEF RemoveAt
<1>4. Signed(rest, S)
  BY <1>1, <1>3, SignedOf
<1> HIDE DEF rest
<1>5. CASE rest = <<>>
  BY <1>5 DEF Without, Restrict, AllSigned, rest
<1>6. CASE rest # <<>>
  <2>1. Without(ch, k) = [net EXCEPT ![ch] = rest]
    BY <1>6 DEF Without, rest
  <2> QED
    BY <1>4, <2>1 DEF AllSigned
<1> QED
  BY <1>5, <1>6

(***************************************************************************)
(* What a node that runs has been given, and what it reads.                *)
(***************************************************************************)
LEMMA ReadIsDrawn ==
  ASSUME MemberInv, NEW n \in Node, NEW ch \in DOMAIN net, NEW k \in Deliverable(ch),
         CanRead(n, ch)
  PROVE  /\ nodeID[n] \in used /\ nodeID[n] # Null
         /\ net[ch][k].id \in Known
         /\ IsHostList(hostList[n])
         /\ AllSigned(Without(ch, k), Known)
<1>1. TypeOK /\ AreQueues(net, Channel)
  BY DEF MemberInv, HeardInv, TypeOK, NetworkOK
<1>2. k \in DOMAIN net[ch]
  BY <1>1, DeliverableIsThere
<1>3. net[ch][k].id \in Known
  BY <1>2, SignedMember DEF MemberInv, Drawn, AllSigned
<1>4. status[n] = "up" /\ IsHostList(hostList[n]) /\ nodeID[n] \in ID
  BY <1>1, ReaderRuns DEF CanRead
<1>5. nodeID[n] # Null /\ nodeID[n] \in used
  BY <1>4, ConfigAssumption DEF MemberInv, Drawn, Known
<1>6. AllSigned(Without(ch, k), Known)
  BY <1>1, WithoutSigned DEF MemberInv, Drawn
<1> QED
  BY <1>3, <1>4, <1>5, <1>6

(***************************************************************************)
(* A handler hears of the ID in its message and adds at most it and its    *)
(* own to the list.                                                        *)
(***************************************************************************)
Hears(n) == \E i \in ID : Overlay!Hear(n, i)

(* n, whose ID is id, adds messages of its own to what is left in flight.  *)
Sends(n, id, left) == \E out : AllSigned(out, {id}) /\ Transmit(n, out, left)

(* What any handler that returns does beside changing its tables.          *)
Answers(n, ch, k) ==
  /\ Sends(n, nodeID[n], Without(ch, k))
  /\ heard' = [heard EXCEPT ![n] = @ \cup {net[ch][k].id}]
  /\ UNCHANGED <<nodeID, used>>

LEMMA HandlerHears ==
  ASSUME MemberInv, NEW n \in Node, NEW ch \in DOMAIN net, NEW k \in Deliverable(ch),
         CanRead(n, ch), net[ch][k].id \in ID,
         NEW out, AllSigned(out, {nodeID[n]}), Handle(n, ch, k, out),
         UNCHANGED nodeID,
         \A x \in Node \ {n} : DOMAIN hostList'[x] = DOMAIN hostList[x],
         DOMAIN hostList[n] \subseteq DOMAIN hostList'[n],
         DOMAIN hostList'[n] \subseteq DOMAIN hostList[n] \cup {nodeID[n], net[ch][k].id}
  PROVE  Drawn' /\ Hears(n) /\ Answers(n, ch, k)
<1> PICK i \in ID : i = net[ch][k].id
  OBVIOUS
<1> DEFINE S == DOMAIN hostList'[n] \cap {i, nodeID[n]}
<1>1. /\ nodeID[n] \in used /\ nodeID[n] # Null
      /\ i \in used
      /\ AllSigned(Without(ch, k), Known)
  BY ReadIsDrawn, ConfigAssumption DEF Known
<1>2. /\ Transmit(n, out, Without(ch, k))
      /\ heard' = [heard EXCEPT ![n] = @ \cup {i}]
      /\ UNCHANGED used
  BY DEF Handle
<1>3. Drawn'
  <2>1. AllSigned(out, Known)
    BY <1>1, SignedWidens DEF Known
  <2>2. AllSigned(net', Known)
    BY <1>1, <1>2, <2>1, TransmitSigned
  <2> QED
    BY <1>2, <2>2 DEF MemberInv, Drawn, Known
<1>4. DOMAIN hostList'[n] = DOMAIN hostList[n] \cup S
  OBVIOUS
<1>5. [x \in Node |-> DOMAIN hostList'[x]]
        = [[x \in Node |-> DOMAIN hostList[x]] EXCEPT ![n] = @ \cup S]
  BY <1>4
<1>6. S \in SUBSET {i, nodeID[n]}
  OBVIOUS
<1> HIDE DEF S
<1>7. Overlay!Hear(n, i)
  BY <1>1, <1>2, <1>5, <1>6 DEF Overlay!Hear
<1>8. Answers(n, ch, k)
  BY DEF Answers, Sends, Handle
<1> QED
  BY <1>3, <1>7, <1>8 DEF Hears

(* The same, of a handler that gives its new list. *)
LEMMA HandlerKeepsList ==
  ASSUME MemberInv, NEW n \in Node, NEW ch \in DOMAIN net, NEW k \in Deliverable(ch),
         CanRead(n, ch), net[ch][k].id \in ID,
         NEW out, AllSigned(out, {nodeID[n]}), Handle(n, ch, k, out),
         UNCHANGED nodeID,
         NEW hl, hostList' = [hostList EXCEPT ![n] = hl],
         DOMAIN hostList[n] \subseteq DOMAIN hl,
         DOMAIN hl \subseteq DOMAIN hostList[n] \cup {nodeID[n], net[ch][k].id}
  PROVE  Drawn' /\ Hears(n) /\ Answers(n, ch, k)
<1>1. DOMAIN hostList = Node
  BY DEF MemberInv, HeardInv, TypeOK, ProcessOK
<1>2. hostList'[n] = hl /\ \A x \in Node \ {n} : hostList'[x] = hostList[x]
  BY <1>1
<1> QED
  BY <1>2, HandlerHears

(* And of one that sends a single message, maybe repeated, at most. *)
LEMMA HandlerAnswers ==
  ASSUME MemberInv, NEW n \in Node, NEW ch \in DOMAIN net, NEW k \in Deliverable(ch),
         CanRead(n, ch), net[ch][k].id \in ID,
         NEW m, m.id = nodeID[n], NEW e,
         \/ Handle(n, ch, k, To(e, m))
         \/ Handle(n, ch, k, Repeatedly(e, m))
         \/ Handle(n, ch, k, Silence),
         UNCHANGED <<nodeID, hostList>>
  PROVE  Drawn' /\ Hears(n) /\ Answers(n, ch, k)
<1>1. /\ AllSigned(To(e, m), {nodeID[n]})
      /\ AllSigned(Repeatedly(e, m), {nodeID[n]})
      /\ AllSigned(Silence, {nodeID[n]})
  BY MessagesSigned
<1> QED
  BY <1>1, HandlerHears

(* A handler that fails ends its process. *)
LEMMA AbortLeaves ==
  ASSUME MemberInv, NEW n \in Node, NEW ch \in DOMAIN net, NEW k \in Deliverable(ch),
         CanRead(n, ch), Abort(n, ch, k)
  PROVE  Drawn' /\ Overlay!Leave(n)
<1>1. /\ nodeID[n] # Null
      /\ AllSigned(Without(ch, k), Known)
  BY ReadIsDrawn
<1>2. /\ nodeID' = [nodeID EXCEPT ![n] = Null]
      /\ heard' = [heard EXCEPT ![n] = {}]
      /\ hostList' = [hostList EXCEPT ![n] = EmptyMap]
      /\ net' = Without(ch, k)
      /\ UNCHANGED used
  BY DEF Abort, Stop
<1>3. Drawn'
  BY <1>1, <1>2 DEF MemberInv, HeardInv, TypeOK, ProcessOK, Drawn, Known
<1>4. [x \in Node |-> DOMAIN hostList'[x]]
        = [[x \in Node |-> DOMAIN hostList[x]] EXCEPT ![n] = {}]
  BY <1>2 DEF MemberInv, HeardInv, TypeOK, ProcessOK, EmptyMap
<1>5. Overlay!Leave(n)
  BY <1>1, <1>2, <1>4 DEF Overlay!Leave
<1> QED
  BY <1>3, <1>5

(***************************************************************************)
(* The handlers, by kind.                                                  *)
(***************************************************************************)
HearsOrLeaves(n, ch, k) ==
  /\ Drawn'
  /\ \/ Hears(n) /\ Answers(n, ch, k)
     \/ Overlay!Leave(n) /\ Abort(n, ch, k)

LEMMA ReceivedID ==
  ASSUME MemberInv, NEW n \in Node, NEW ch \in DOMAIN net, NEW k \in Deliverable(ch),
         NEW type, Receive(n, ch, k, type)
  PROVE  /\ CanRead(n, ch)
         /\ type # "detect" => net[ch][k].id \in ID
         /\ type = "detect" /\ net[ch][k].id # Null => net[ch][k].id \in ID
<1>1. IsMsg(net[ch][k]) /\ net[ch][k].type = type
  BY ReceiveType DEF MemberInv, HeardInv
<1> QED
  BY <1>1, MsgFields DEF Receive

LEMMA DetectHears ==
  ASSUME MemberInv, NEW n \in Node, NEW ch \in DOMAIN net, NEW k \in Deliverable(ch),
         Detecting(n, ch, k)
  PROVE  HearsOrLeaves(n, ch, k)
<1> DEFINE m == net[ch][k]
<1>1. \A info : DOMAIN ListSender(n, m.id, info) = DOMAIN hostList[n] \cup {m.id, nodeID[n]}
  BY DEF ListSender, AddNewNode, PutNode
<1>2. ASSUME Receive(n, ch, k, "detect"), m.id # Null
      PROVE  /\ CanRead(n, ch) /\ m.id \in ID
             /\ \A info \in Info : IsHostList(ListSender(n, m.id, info))
             /\ ch.src \in Endpoint
  <2>1. CanRead(n, ch) /\ m.id \in ID
    BY <1>2, ReceivedID
  <2>2. TypeOK /\ status[n] = "up" /\ ch.src \in Endpoint
    BY <1>2, ReceiveType DEF MemberInv, HeardInv
  <2>3. IsHostList(hostList[n]) /\ nodeID[n] \in ID /\ PublicInfo(LocalEp[n]) \in Info
    BY <2>2, ReaderRuns, PublicInfoType
  <2> QED
    BY <2>1, <2>2, <2>3, AddTypes DEF ListSender
<1>3. CASE RcvDetectPublic(n, ch, k)
  <2> DEFINE hl == ListSender(n, m.id, PublicInfo(ch.src))
  <2>1. /\ Receive(n, ch, k, "detect") /\ m.id # Null
        /\ hostList' = [hostList EXCEPT ![n] = hl]
        /\ Handle(n, ch, k, RouteInfo(n, hl))
        /\ UNCHANGED nodeID
    BY <1>3 DEF RcvDetectPublic
  <2>2. AllSigned(RouteInfo(n, hl), {nodeID[n]})
    BY <2>1, <1>2, PublicInfoType, RouteInfoSigned
  <2>3. DOMAIN hl = DOMAIN hostList[n] \cup {m.id, nodeID[n]}
    BY <1>1
  <2> HIDE DEF hl
  <2> QED
    BY <2>1, <2>2, <2>3, <1>2, HandlerKeepsList DEF HearsOrLeaves
<1>4. CASE RcvDetectMapped(n, ch, k)
  <2> DEFINE hl    == MappedList(n, ch, m.id)
             check == CheckMsg("filteringcheck", nodeID[n], ch.src, MsgUuid(m.id))
             out   == AndThen(To(Prober(n, hl).ep, check), RouteInfo(n, hl))
  <2>1. /\ Receive(n, ch, k, "detect") /\ m.id # Null
        /\ hostList' = [hostList EXCEPT ![n] = hl]
        /\ Handle(n, ch, k, out)
        /\ UNCHANGED nodeID
    BY <1>4 DEF RcvDetectMapped
  <2>2. IsHostList(hl)
    BY <2>1, <1>2, PublicInfoType DEF MappedList
  <2>3. check.id \in {nodeID[n]}
    BY DEF CheckMsg
  <2>4. DOMAIN hl = DOMAIN hostList[n] \cup {m.id, nodeID[n]}
    BY <1>1 DEF MappedList
  <2> HIDE DEF hl, check
  <2>5. AllSigned(out, {nodeID[n]})
    BY <2>2, <2>3, RouteInfoSigned, MessagesSigned, AndThenSigned
  <2> HIDE DEF out
  <2> QED
    BY <2>1, <2>4, <2>5, <1>2, HandlerKeepsList DEF HearsOrLeaves
<1>5. CASE RcvDetectNoID(n, ch, k) \/ RcvDetectNoProber(n, ch, k)
  BY <1>5, ReceivedID, AbortLeaves DEF RcvDetectNoID, RcvDetectNoProber, HearsOrLeaves
<1> QED
  BY <1>3, <1>4, <1>5 DEF Detecting

LEMMA UpdateHears ==
  ASSUME MemberInv, NEW n \in Node, NEW ch \in DOMAIN net, NEW k \in Deliverable(ch),
         RcvUpdateFatal(n, ch, k) \/ RcvUpdate(n, ch, k)
  PROVE  HearsOrLeaves(n, ch, k)
<1>1. CASE RcvUpdateFatal(n, ch, k)
  BY <1>1, ReceivedID, AbortLeaves DEF RcvUpdateFatal, HearsOrLeaves
<1>2. CASE RcvUpdate(n, ch, k)
  <2>1. /\ Receive(n, ch, k, "update")
        /\ Handle(n, ch, k, Silence)
        /\ UNCHANGED <<nodeID, hostList>>
    BY <1>2 DEF RcvUpdate
  <2>2. TickerRes(nodeID[n]).id = nodeID[n]
    BY DEF TickerRes
  <2> QED
    BY <2>1, <2>2, ReceivedID, HandlerAnswers DEF HearsOrLeaves
<1> QED
  BY <1>1, <1>2

LEMMA PunchingHears ==
  ASSUME MemberInv, NEW n \in Node, NEW ch \in DOMAIN net, NEW k \in Deliverable(ch),
         Punching(n, ch, k)
  PROVE  HearsOrLeaves(n, ch, k)
<1> DEFINE m == net[ch][k]
<1>1. \A type, info : InfoMsg(type, nodeID[n], info).id = nodeID[n]
  BY DEF InfoMsg
<1>2. CASE RcvProxyconnect(n, ch, k)
  <2> DEFINE help == InfoMsg("helpconnect", nodeID[n], [m.info EXCEPT !.ep = ch.src])
  <2>1. /\ Receive(n, ch, k, "proxyconnect")
        /\ Handle(n, ch, k, To(m.info.ep, help))
        /\ UNCHANGED <<nodeID, hostList>>
    BY <1>2 DEF RcvProxyconnect
  <2>2. help.id = nodeID[n]
    BY <1>1
  <2> HIDE DEF help
  <2> QED
    BY <2>1, <2>2, ReceivedID, HandlerAnswers DEF HearsOrLeaves
<1>3. CASE RcvHelpconnect(n, ch, k)
  <2> DEFINE open == InfoMsg("openconnect", nodeID[n], localEpInfo[n])
  <2>1. /\ Receive(n, ch, k, "helpconnect")
        /\ Handle(n, ch, k, Repeatedly(m.info.ep, open))
        /\ UNCHANGED <<nodeID, hostList>>
    BY <1>3 DEF RcvHelpconnect
  <2>2. open.id = nodeID[n]
    BY <1>1
  <2> HIDE DEF open
  <2> QED
    BY <2>1, <2>2, ReceivedID, HandlerAnswers DEF HearsOrLeaves
<1>4. CASE RcvOpenconnect(n, ch, k)
  <2> DEFINE hl == Opened(hostList[n], m.id, m.info, ch.src)
  <2>1. DOMAIN hl = DOMAIN hostList[n] \cup {m.id}
    BY DEF Opened, AddNewNode, PutNode
  <2>2. /\ Receive(n, ch, k, "openconnect")
        /\ hostList' = [hostList EXCEPT ![n] = hl]
        /\ Handle(n, ch, k, Silence)
        /\ UNCHANGED nodeID
    BY <1>4 DEF RcvOpenconnect
  <2>3. AllSigned(Silence, {nodeID[n]})
    BY <1>1, MessagesSigned
  <2>4. CanRead(n, ch) /\ m.id \in ID
    BY <2>2, ReceivedID
  <2> HIDE DEF hl
  <2> QED
    BY <2>1, <2>2, <2>3, <2>4, HandlerKeepsList DEF HearsOrLeaves
<1>5. CASE RcvOpenconnectNull(n, ch, k)
  BY <1>5, ReceivedID, AbortLeaves DEF RcvOpenconnectNull, HearsOrLeaves
<1> QED
  BY <1>2, <1>3, <1>4, <1>5 DEF Punching

LEMMA ProbingHears ==
  ASSUME MemberInv, NEW n \in Node, NEW ch \in DOMAIN net, NEW k \in Deliverable(ch),
         Probing(n, ch, k)
  PROVE  HearsOrLeaves(n, ch, k)
<1> DEFINE m == net[ch][k]
<1>1. CASE RcvFilteringcheck(n, ch, k)
  <2>1. CheckMsg("callclient", nodeID[n], ch.src, m.msgid).id = nodeID[n]
    BY DEF CheckMsg
  <2> QED
    BY <1>1, <2>1, ReceivedID, HandlerAnswers DEF RcvFilteringcheck, HearsOrLeaves
<1>2. CASE RcvCallclient(n, ch, k)
  <2>1. ResMsg(nodeID[n], m.msgid).id = nodeID[n]
    BY DEF ResMsg
  <2> QED
    BY <1>2, <2>1, ReceivedID, HandlerAnswers DEF RcvCallclient, HearsOrLeaves
<1>3. CASE RcvCallclientRes(n, ch, k)
  <2> DEFINE hl == SetFiltering(hostList[n], {m.id}, "Nonfilter")
  <2>1. /\ Receive(n, ch, k, "callclientRes")
        /\ hostList' = [hostList EXCEPT ![n] = hl]
        /\ Handle(n, ch, k, RouteInfo(n, hl))
        /\ UNCHANGED nodeID
    BY <1>3 DEF RcvCallclientRes
  <2>2. CanRead(n, ch) /\ m.id \in ID
    BY <2>1, ReceivedID
  <2>3. DOMAIN hl = DOMAIN hostList[n] /\ IsHostList(hl)
    BY <2>2, ReadIsDrawn, FilteringDomain, SetFilteringType DEF Filtering
  <2>4. AllSigned(RouteInfo(n, hl), {nodeID[n]})
    BY <2>3, RouteInfoSigned
  <2> HIDE DEF hl
  <2> QED
    BY <2>1, <2>2, <2>3, <2>4, HandlerKeepsList DEF HearsOrLeaves
<1> QED
  BY <1>1, <1>2, <1>3 DEF Probing

LEMMA TickingHears ==
  ASSUME MemberInv, NEW n \in Node, NEW ch \in DOMAIN net, NEW k \in Deliverable(ch),
         Ticking(n, ch, k)
  PROVE  HearsOrLeaves(n, ch, k)
<1> DEFINE m == net[ch][k]
<1>1. TickerRes(nodeID[n]).id = nodeID[n]
  BY DEF TickerRes
<1>2. CASE RcvTicker(n, ch, k)
  <2> DEFINE hl == IF m.info = Null THEN hostList[n] ELSE PutNode(hostList[n], m.id, m.info)
  <2>1. /\ DOMAIN hostList[n] \subseteq DOMAIN hl
        /\ DOMAIN hl \subseteq DOMAIN hostList[n] \cup {nodeID[n], m.id}
    BY DEF PutNode
  <2>2. /\ Receive(n, ch, k, "ticker")
        /\ hostList' = [hostList EXCEPT ![n] = hl]
        /\ Handle(n, ch, k, To(ch.src, TickerRes(nodeID[n])))
        /\ UNCHANGED nodeID
    BY <1>2 DEF RcvTicker
  <2>3. AllSigned(To(ch.src, TickerRes(nodeID[n])), {nodeID[n]})
    BY <1>1, MessagesSigned
  <2>4. CanRead(n, ch) /\ m.id \in ID
    BY <2>2, ReceivedID
  <2> DEFINE out == To(ch.src, TickerRes(nodeID[n]))
  <2> HIDE DEF hl, out
  <2> QED
    BY <2>1, <2>2, <2>3, <2>4, HandlerKeepsList DEF HearsOrLeaves, out
<1>3. CASE RcvTickerRes(n, ch, k)
  BY <1>1, <1>3, ReceivedID, HandlerAnswers DEF RcvTickerRes, HearsOrLeaves
<1> QED
  BY <1>2, <1>3 DEF Ticking

(***************************************************************************)
(* The other steps.                                                        *)
(***************************************************************************)
LEMMA BootJoins ==
  ASSUME MemberInv, NEW n \in Node, NEW id \in IDsOf[n], Boot(n, id)
  PROVE  Drawn' /\ Overlay!Join(n, id)
<1>1. /\ status[n] # "up" /\ id \notin used
      /\ used' = used \cup {id}
      /\ nodeID' = [nodeID EXCEPT ![n] = id]
      /\ UNCHANGED <<hostList, heard>>
      /\ Transmit(n, To(RemoteServer[n], DetectMsg(id, LocalEp[n])), net)
  BY DEF Boot, NewID
<1>2. nodeID[n] = Null
  BY <1>1 DEF MemberInv, HeardInv, TypeOK, LifeOK
<1>3. Drawn'
  <2>1. DetectMsg(id, LocalEp[n]).id \in Known'
    BY <1>1 DEF DetectMsg, Known
  <2>2. AllSigned(net, Known')
    BY <1>1, SignedWidens DEF MemberInv, Drawn, Known
  <2>3. AllSigned(net', Known')
    BY <1>1, <2>1, <2>2, MessagesSigned, TransmitSigned
  <2> QED
    BY <1>1, <2>3 DEF MemberInv, HeardInv, TypeOK, ProcessOK, Drawn, Known
<1>4. Overlay!Join(n, id)
  BY <1>1, <1>2 DEF Overlay!Join
<1> QED
  BY <1>3, <1>4

LEMMA LoopLists ==
  ASSUME MemberInv, NEW n \in Node, UpdateLoop(n)
  PROVE  /\ Drawn'
         /\ (\E i \in ID : Overlay!List(n, i)) \/ UNCHANGED Overlay!vars
         /\ UNCHANGED <<net, perm>> \/ Sends(n, nodeID[n], net)
         /\ UNCHANGED <<nodeID, heard, used>>
<1>1. TypeOK /\ Looping(n) /\ status[n] = "up" /\ nodeID[n] \in ID /\ nodeID[n] # Null
  <2>1. TypeOK /\ Looping(n)
    BY DEF UpdateLoop, UpdateSelf, UpdateSender, UpdatePublic, UpdateProxy, MemberInv,
           HeardInv
  <2>2. status[n] = "up"
    BY <2>1, LoopType
  <2> QED
    BY <2>1, <2>2, ReaderRuns, ConfigAssumption
<1>2. rcv[n].from \in heard[n] /\ rcv[n].from \in ID
  BY <1>1, LoopType DEF Looping, MemberInv, HeardInv, HeardFrom, IsLoop
<1>3. ASSUME NEW i \in {nodeID[n], rcv[n].from}, FileItem(n, i)
      PROVE  /\ Drawn' /\ Overlay!List(n, i)
             /\ UNCHANGED <<net, perm, nodeID, heard, used>>
  <2>1. /\ hostList' = [hostList EXCEPT ![n] = AddNewNode(hostList[n], i, ItemObj(n))]
        /\ UNCHANGED <<nodeID, heard, net, perm, used>>
    BY <1>3 DEF FileItem
  <2>2. DOMAIN AddNewNode(hostList[n], i, ItemObj(n)) = DOMAIN hostList[n] \cup {i}
    BY DEF AddNewNode, PutNode
  <2>3. [x \in Node |-> DOMAIN hostList'[x]]
          = [[x \in Node |-> DOMAIN hostList[x]] EXCEPT ![n] = @ \cup {i}]
    BY <1>1, <2>1, <2>2 DEF TypeOK, ProcessOK
  <2>4. Drawn'
    BY <2>1 DEF MemberInv, Drawn, Known
  <2> QED
    BY <1>1, <1>2, <2>1, <2>3, <2>4 DEF Overlay!List
<1>4. ASSUME NEW out, AllSigned(out, {nodeID[n]}), NEW remote, Connect(n, out, remote)
      PROVE  /\ Drawn' /\ UNCHANGED Overlay!vars
             /\ Sends(n, nodeID[n], net)
             /\ UNCHANGED <<nodeID, heard, used>>
  <2>1. Transmit(n, out, net) /\ UNCHANGED <<nodeID, hostList, heard, used>>
    BY <1>4 DEF Connect
  <2>2. AllSigned(out, Known)
    BY <1>4, SignedWidens DEF MemberInv, Drawn, Known
  <2>3. AllSigned(net', Known)
    BY <2>1, <2>2, TransmitSigned DEF MemberInv, Drawn
  <2> QED
    BY <1>4, <2>1, <2>3 DEF MemberInv, Drawn, Known, Overlay!vars, Sends
<1>5. \A type, info : InfoMsg(type, nodeID[n], info).id \in {nodeID[n]}
  BY DEF InfoMsg
<1>6. AllSigned(OpenItem(n), {nodeID[n]})
  BY <1>5, MessagesSigned DEF OpenItem
<1>7. CASE UpdateSelf(n) \/ UpdateSender(n)
  BY <1>1, <1>2, <1>3, <1>7 DEF UpdateSelf, UpdateSender
<1>8. CASE UpdatePublic(n)
  BY <1>4, <1>6, <1>8 DEF UpdatePublic
<1>9. CASE UpdateProxy(n)
  <2> DEFINE help == To(Helper(n), InfoMsg("proxyconnect", nodeID[n], ItemObj(n)))
             out  == IF IsPublic(localEpInfo[n]) THEN help ELSE AndThen(help, OpenItem(n))
  <2>1. AllSigned(help, {nodeID[n]})
    BY <1>5, MessagesSigned
  <2> HIDE DEF help
  <2>2. AllSigned(out, {nodeID[n]})
    BY <1>6, <2>1, AndThenSigned
  <2>3. Connect(n, out, Helper(n))
    BY <1>9 DEF UpdateProxy, help
  <2> QED
    BY <1>4, <2>2, <2>3
<1> QED
  BY <1>7, <1>8, <1>9 DEF UpdateLoop

LEMMA RoundForgets ==
  ASSUME MemberInv, NEW n \in Node, TimerRound(n)
  PROVE  /\ Drawn' /\ Overlay!Forget(n)
         /\ Sends(n, nodeID[n], net)
         /\ UNCHANGED <<nodeID, heard, used>>
<1> DEFINE hl      == Checked(n)
           ticker  == InfoMsg("ticker", nodeID[n], localEpInfo[n])
           tickers == ToAll(hl, nodeID[n], ticker)
           updates == IF NeedNotify(n) THEN RouteInfo(n, hl) ELSE Silence
           detect  == IF Alone(n, hl) >= DetectRounds
                      THEN To(RemoteServer[n], DetectMsg(nodeID[n], LocalEp[n]))
                      ELSE Silence
           out     == AndThen(AndThen(tickers, updates), detect)
<1>1. /\ status[n] = "up"
      /\ hostList' = [hostList EXCEPT ![n] = hl]
      /\ Transmit(n, out, net)
      /\ UNCHANGED <<nodeID, heard, used>>
  BY DEF TimerRound
<1>2. TypeOK /\ DOMAIN hostList = Node
  BY DEF MemberInv, HeardInv, TypeOK, ProcessOK
<1>3. /\ IsHostList(hl) /\ DOMAIN hl \subseteq DOMAIN hostList[n]
      /\ nodeID[n] # Null
  BY <1>1, <1>2, CheckedType, ReaderRuns, ConfigAssumption
<1> HIDE DEF hl
<1>4. ticker.id \in {nodeID[n]} /\ DetectMsg(nodeID[n], LocalEp[n]).id \in {nodeID[n]}
  BY DEF InfoMsg, DetectMsg
<1> HIDE DEF ticker
<1>5. AllSigned(tickers, {nodeID[n]})
  BY <1>3, <1>4, ToAllSigned
<1>6. AllSigned(updates, {nodeID[n]}) /\ AllSigned(detect, {nodeID[n]})
  BY <1>3, <1>4, RouteInfoSigned, MessagesSigned
<1> HIDE DEF tickers, updates, detect
<1>7. AllSigned(out, {nodeID[n]})
  BY <1>5, <1>6, AndThenSigned
<1> HIDE DEF out
<1>8. Drawn'
  <2>1. AllSigned(out, Known)
    BY <1>7, SignedWidens DEF MemberInv, Drawn, Known
  <2>2. AllSigned(net', Known)
    BY <1>1, <2>1, TransmitSigned DEF MemberInv, Drawn
  <2> QED
    BY <1>1, <2>2 DEF MemberInv, Drawn, Known
<1>9. Overlay!Forget(n)
  <2>1. [x \in Node |-> DOMAIN hostList'[x]]
          = [[x \in Node |-> DOMAIN hostList[x]] EXCEPT ![n] = DOMAIN hl]
    BY <1>1, <1>2
  <2> QED
    BY <1>1, <1>3, <2>1 DEF Overlay!Forget
<1>10. Sends(n, nodeID[n], net)
  BY <1>1, <1>7 DEF Sends
<1> QED
  BY <1>1, <1>8, <1>9, <1>10

LEMMA CrashLeaves ==
  ASSUME MemberInv, NEW n \in Node, Crash(n)
  PROVE  Drawn' /\ Overlay!Leave(n)
<1>1. /\ status[n] = "up"
      /\ nodeID' = [nodeID EXCEPT ![n] = Null]
      /\ heard' = [heard EXCEPT ![n] = {}]
      /\ hostList' = [hostList EXCEPT ![n] = EmptyMap]
      /\ UNCHANGED <<net, used>>
  BY DEF Crash, Stop
<1>2. nodeID[n] # Null
  BY <1>1 DEF MemberInv, HeardInv, TypeOK, LifeOK
<1>3. Drawn'
  BY <1>1 DEF MemberInv, HeardInv, TypeOK, ProcessOK, Drawn, Known
<1>4. [x \in Node |-> DOMAIN hostList'[x]]
        = [[x \in Node |-> DOMAIN hostList[x]] EXCEPT ![n] = {}]
  BY <1>1 DEF MemberInv, HeardInv, TypeOK, ProcessOK, EmptyMap
<1> QED
  BY <1>1, <1>2, <1>3, <1>4 DEF Overlay!Leave

(* What only moves datagrams, and those of "bind" mode, which carry none.  *)
LEMMA NetworkHears ==
  ASSUME MemberInv,
         \/ \E ch \in BindChannels : Bind(ch)
         \/ \E ch \in DOMAIN net : \E k \in Deliverable(ch) :
              \/ Lose(ch, k) \/ Duplicate(ch, k) \/ Undeliverable(ch, k)
              \/ \E n \in Node : RcvTruncated(n, ch, k)
  PROVE  Drawn' /\ UNCHANGED Overlay!vars
<1>1. UNCHANGED <<nodeID, hostList, heard, used>>
  BY DEF Bind, Lose, Duplicate, Undeliverable, RcvTruncated, process
<1>2. AreQueues(net, Channel) /\ AllSigned(net, Known)
  BY DEF MemberInv, HeardInv, TypeOK, NetworkOK, Drawn
<1>3. ASSUME NEW ch \in BindChannels, Bind(ch) PROVE AllSigned(net', Known)
  <2>1. DetectMsg(Null, ch.src).id \in Known
    BY DEF DetectMsg, Known
  <2> QED
    BY <1>2, <1>3, <2>1, MessagesSigned, AndThenSigned DEF Bind
<1>4. ASSUME NEW ch \in DOMAIN net, NEW k \in Deliverable(ch)
      PROVE  AllSigned(Without(ch, k), Known) /\ AllSigned(AndThen(net, To(ch, net[ch][k])), Known)
  <2>1. net[ch][k].id \in Known
    BY <1>2, DeliverableIsThere, SignedMember DEF AllSigned
  <2> QED
    BY <1>2, <2>1, WithoutSigned, MessagesSigned, AndThenSigned
<1>5. AllSigned(net', Known)
  BY <1>3, <1>4 DEF Lose, Duplicate, Undeliverable, RcvTruncated
<1> QED
  BY <1>1, <1>5 DEF MemberInv, Drawn, Known, Overlay!vars

(***************************************************************************)
(* Every step.                                                             *)
(***************************************************************************)
LEMMA NextIsMembership ==
  MemberInv /\ [Next]_vars => Drawn' /\ [Overlay!Next]_(Overlay!vars)
<1> SUFFICES ASSUME MemberInv, [Next]_vars
             PROVE  Drawn' /\ (Overlay!Next \/ UNCHANGED Overlay!vars)
  OBVIOUS
<1>1. ASSUME NEW n \in Node, Start(n) PROVE Drawn' /\ Overlay!Next
  <2>1. PICK id \in IDsOf[n] : Boot(n, id)
    BY <1>1 DEF Start
  <2>2. id \in ID
    BY ConfigAssumption
  <2> QED
    BY <2>1, <2>2, BootJoins DEF Overlay!Next
<1>2. ASSUME NEW n \in Node, UpdateLoop(n)
      PROVE  Drawn' /\ (Overlay!Next \/ UNCHANGED Overlay!vars)
  BY <1>2, LoopLists DEF Overlay!Next
<1>3. ASSUME NEW n \in Node, TimerRound(n) \/ Crash(n) PROVE Drawn' /\ Overlay!Next
  BY <1>3, RoundForgets, CrashLeaves DEF Overlay!Next
<1>4. ASSUME NEW n \in Node, NEW ch \in DOMAIN net, NEW k \in Deliverable(ch),
             HandleReceive(n, ch, k)
      PROVE  Drawn' /\ (Overlay!Next \/ UNCHANGED Overlay!vars)
  <2>1. CASE RcvTruncated(n, ch, k)
    BY <2>1, NetworkHears
  <2>2. CASE ~ RcvTruncated(n, ch, k)
    <3>1. HearsOrLeaves(n, ch, k)
      BY <1>4, <2>2, DetectHears, UpdateHears, PunchingHears, ProbingHears, TickingHears
         DEF HandleReceive, Updating
    <3> QED
      BY <3>1 DEF HearsOrLeaves, Hears, Overlay!Next
  <2> QED
    BY <2>1, <2>2
<1>5. CASE UNCHANGED vars
  BY <1>5 DEF vars, process, Overlay!vars, MemberInv, Drawn, Known
<1>6. CASE \E n \in Node : Start(n) \/ UpdateLoop(n) \/ TimerRound(n)
  BY <1>1, <1>2, <1>3, <1>6
<1>7. CASE \E ch \in BindChannels : Bind(ch)
  BY <1>7, NetworkHears
<1>8. CASE Arrival
  BY <1>4, <1>8, NetworkHears DEF Arrival
<1>9. CASE Fault
  BY <1>3, <1>9, NetworkHears DEF Fault
<1> QED
  BY <1>5, <1>6, <1>7, <1>8, <1>9 DEF Next

LEMMA InitIsMembership == Init => MemberInv /\ Overlay!Init
<1> SUFFICES ASSUME Init PROVE MemberInv /\ Overlay!Init
  OBVIOUS
<1>1. HeardInv
  <2>1. OnlyHeardPeers /\ HeardFrom
    BY DEF Init, OnlyHeardPeers, HeardFrom, EmptyMap
  <2> QED
    BY <2>1, InitType DEF HeardInv
<1>2. Drawn
  BY DEF Init, Drawn, AllSigned, EmptyMap, Known
<1>3. Overlay!Init
  BY DEF Init, Overlay!Init, EmptyMap
<1> QED
  BY <1>1, <1>2, <1>3 DEF MemberInv

(* Whatever is lost, repeated, reordered, killed or started again, the     *)
(* processes are members that each have an ID of their own, hear only of   *)
(* IDs that were drawn and list only whom they heard of.  MemberInv is     *)
(* inductive: Drawn says it of all that is in flight.                      *)
THEOREM OverlayIsMembership == Spec => ImplementsMembership
<1>1. MemberInv /\ [Next]_vars => MemberInv'
  BY NextLists, NextIsMembership DEF MemberInv
<1> QED
  BY <1>1, InitIsMembership, NextIsMembership, PTL
     DEF Spec, ImplementsMembership, Overlay!Spec
=============================================================================
