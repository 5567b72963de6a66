----------------------------- MODULE HolesProofs -----------------------------
(***************************************************************************)
(* Whoever is listed can be talked to.  A datagram that was admitted shows *)
(* a pair of open NATs: that of its sender, who sent to the reader, and    *)
(* the reader's.  What is heard, hence what is listed, came in such a      *)
(* datagram, from the process whose ID it carries.                         *)
(***************************************************************************)
EXTENDS MembershipProofs

(***************************************************************************)
(* An answer goes back the way its question came: a node without filtering *)
(* is seen at one endpoint by all, no host has a private ip that is a NAT's*)
(* public one, and the nodes behind one NAT share its hairpinning.         *)
(***************************************************************************)
Answerable ==
  /\ \A n \in Node \ Filters : \A d, e \in Endpoint : MapEp[n][d] = MapEp[n][e]
  /\ \A n \in Node : \A m \in Node \ {n} : \A d, e \in Endpoint :
       /\ MapEp[n][d].ip # LocalEp[m].ip
       /\ MapEp[n][d].ip = MapEp[m][e].ip /\ n \in Hairpin => m \in Hairpin

(***************************************************************************)
(* The IDs that may send on ch: the process of such an ID, if it runs, is  *)
(* seen at the channel's source and has opened its NAT to the destination. *)
(***************************************************************************)
OpenedBy(ch) ==
  {i \in used : \A m \in Node :
     nodeID[m] = i => MapEp[m][ch.dst] = ch.src /\ (m \in Filters => ch.dst \in perm[m])}

AllOpened(q) == \A ch \in DOMAIN q : Signed(q[ch], OpenedBy(ch) \cup {Null})

(* n can read what i sends on some channel. *)
CameThrough(n, i) ==
  \E ch \in Channel : Readable(n, ch) /\ Admits(n, ch) /\ i \in OpenedBy(ch)

HeardThrough == \A n \in Node : \A i \in heard[n] \ {Null} : CameThrough(n, i)

(* No two processes have the same ID. *)
OneEach ==
  \A n \in Node : \A m \in Node \ {n} : nodeID[n] # Null => nodeID[m] # nodeID[n]

HolesInv == MemberInv /\ AllOpened(net) /\ HeardThrough /\ OneEach

(***************************************************************************)
(* It says what is promised.                                               *)
(***************************************************************************)
LEMMA WayBack ==
  ASSUME Answerable, TypeOK, NEW n \in Node, NEW m \in Node \ {n},
         nodeID[m] # Null, CameThrough(n, nodeID[m])
  PROVE  \E ep \in Endpoint : OpenBetween(n, m, ep)
<1>1. PICK ch \in Channel : Readable(n, ch) /\ Admits(n, ch) /\ nodeID[m] \in OpenedBy(ch)
  BY DEF CameThrough
<1>2. MapEp[m][ch.dst] = ch.src /\ (m \in Filters => ch.dst \in perm[m])
  BY <1>1 DEF OpenedBy
<1>3. ch.src \in Endpoint /\ ch.dst \in Endpoint /\ ch = [src |-> ch.src, dst |-> ch.dst]
  BY DEF Channel
<1>4. MapEp[n][ch.src] = ch.dst
  <2>1. CASE n \in Filters
    BY <1>1, <2>1 DEF Admits
  <2>2. CASE n \notin Filters
    <3>1. PICK d \in Endpoint : MapEp[n][d] = ch.dst
      BY <1>1 DEF Readable, Owns
    <3> QED
      BY <1>3, <2>2, <3>1 DEF Answerable
  <2> QED
    BY <2>1, <2>2
<1>5. Reaches(m, n, ch.dst)
  BY <1>1, <1>2, <1>3 DEF Reaches
<1>6. Reaches(n, m, ch.src)
  <2> DEFINE back == [src |-> ch.dst, dst |-> ch.src]
  <2>1. Readable(m, back)
    <3>1. Owns(m, ch.src)
      BY <1>2, <1>3 DEF Owns
    <3>2. ch.dst.ip # LocalEp[m].ip
      BY <1>3, <1>4 DEF Answerable
    <3>3. ch.dst.ip = ch.src.ip => m \in Hairpin
      BY <1>1, <1>2, <1>3, <1>4 DEF Answerable, Readable
    <3> QED
      BY <3>1, <3>2, <3>3 DEF Readable
  <2>2. Admits(m, back)
    BY <1>2 DEF Admits
  <2> QED
    BY <1>4, <2>1, <2>2 DEF Reaches
<1> QED
  BY <1>2, <1>3, <1>4, <1>5, <1>6 DEF OpenBetween

LEMMA InvOpensHoles ==
  ASSUME Answerable, HolesInv
  PROVE  HolesOpen
<1> SUFFICES ASSUME NEW n \in Node, NEW m \in Node \ {n}, Lists(n, m)
             PROVE  \E ep \in Endpoint : OpenBetween(n, m, ep)
  BY DEF HolesOpen
<1>1. TypeOK /\ OnlyHeardPeers
  BY DEF HolesInv, MemberInv, HeardInv
<1>2. nodeID[m] # Null
  BY <1>1 DEF Lists, TypeOK, LifeOK
<1>3. nodeID[m] \in heard[n]
  <2>1. nodeID[m] \in {nodeID[n]} \cup heard[n]
    BY <1>1 DEF Lists, OnlyHeardPeers
  <2> QED
    BY <1>2, <2>1 DEF HolesInv, OneEach
<1>4. CameThrough(n, nodeID[m])
  BY <1>2, <1>3 DEF HolesInv, HeardThrough
<1> QED
  BY <1>1, <1>2, <1>4, WayBack

(***************************************************************************)
(* NATs are opened and never closed, and IDs are never drawn twice.        *)
(***************************************************************************)
Advances ==
  /\ used \subseteq used'
  /\ \A m \in Node : perm[m] \subseteq perm'[m]
  /\ \A m \in Node : nodeID'[m] \in {nodeID[m], Null} \/ nodeID'[m] \notin used

LEMMA OpenedByGrows ==
  ASSUME TypeOK, Advances, NEW ch
  PROVE  OpenedBy(ch) \subseteq OpenedBy(ch)'
<1> SUFFICES ASSUME NEW i \in OpenedBy(ch), NEW m \in Node, nodeID'[m] = i
             PROVE  MapEp[m][ch.dst] = ch.src /\ (m \in Filters => ch.dst \in perm'[m])
  BY DEF OpenedBy, Advances
<1>1. i \in used /\ i # Null
  BY ConfigAssumption DEF OpenedBy, TypeOK, NetworkOK
<1>2. nodeID[m] = i
  BY <1>1 DEF Advances
<1> QED
  BY <1>2 DEF OpenedBy, Advances

LEMMA CameThroughStays ==
  ASSUME TypeOK, Advances, NEW n \in Node, NEW ch \in Channel,
         Readable(n, ch), Admits(n, ch), NEW i \in OpenedBy(ch)
  PROVE  CameThrough(n, i)'
<1>1. i \in OpenedBy(ch)'
  BY OpenedByGrows
<1>2. Admits(n, ch)'
  BY DEF Admits, Advances
<1> QED
  BY <1>1, <1>2 DEF CameThrough

LEMMA HeardThroughStays ==
  ASSUME TypeOK, HeardThrough, Advances, \A n \in Node : heard'[n] \subseteq heard[n]
  PROVE  HeardThrough'
<1> SUFFICES ASSUME NEW n \in Node, NEW i \in heard'[n] \ {Null}
             PROVE  CameThrough(n, i)'
  BY DEF HeardThrough
<1>1. PICK ch \in Channel : Readable(n, ch) /\ Admits(n, ch) /\ i \in OpenedBy(ch)
  BY DEF HeardThrough, CameThrough
<1> QED
  BY <1>1, CameThroughStays

LEMMA OpenedStays ==
  ASSUME TypeOK, Advances, NEW q, AllOpened(q)
  PROVE  \A ch \in DOMAIN q : Signed(q[ch], OpenedBy(ch)' \cup {Null})
<1> SUFFICES ASSUME NEW ch \in DOMAIN q
             PROVE  Signed(q[ch], OpenedBy(ch)' \cup {Null})
  OBVIOUS
<1> DEFINE M == {m \in Range(q[ch]) : m.id \in OpenedBy(ch) \cup {Null}}
           S == OpenedBy(ch)' \cup {Null}
<1>1. q[ch] \in Seq(M)
  BY DEF AllOpened, Signed
<1>2. \A m \in M : m.id \in S
  BY OpenedByGrows
<1> HIDE DEF M, S
<1>3. Signed(q[ch], S)
  BY <1>1, <1>2, SignedOf
<1> QED
  BY <1>3 DEF S

(***************************************************************************)
(* What moves datagrams.                                                   *)
(***************************************************************************)
LEMMA WithoutOpened ==
  ASSUME AreQueues(net, Channel), AllOpened(net),
         NEW ch \in DOMAIN net, NEW k \in Deliverable(ch)
  PROVE  AllOpened(Without(ch, k))
<1> DEFINE S    == OpenedBy(ch) \cup {Null}
           M    == {m \in Range(net[ch]) : m.id \in S}
           rest == RemoveAt(net[ch], k)
<1>1. net[ch] \in Seq(M) /\ \A m \in M : m.id \in S
  BY DEF AllOpened, Signed
<1>2. k \in 1 .. Len(net[ch])
  <2>1. k \in DOMAIN net[ch]
    BY DeliverableIsThere
  <2> HIDE DEF M
  <2> QED
    BY <1>1, <2>1
<1> HIDE DEF M, S
<1>3. rest \in Seq(M)
  BY <1>1, <1>2 DEF RemoveAt
<1>4. Signed(rest, S)
  BY <1>1, <1>3, SignedOf
<1> HIDE DEF rest
<1>5. CASE rest = <<>>
  BY <1>5 DEF Without, Restrict, AllOpened, rest
<1>6. CASE rest # <<>>
  <2>1. Without(ch, k) = [net EXCEPT ![ch] = rest]
    BY <1>6 DEF Without, rest
  <2> QED
    BY <1>4, <2>1 DEF AllOpened, S
<1> QED
  BY <1>5, <1>6

LEMMA AndThenOpened ==
  ASSUME NEW q, NEW r, AllOpened(q), AllOpened(r)
  PROVE  AllOpened(AndThen(q, r))
<1> SUFFICES ASSUME NEW ch \in DOMAIN AndThen(q, r)
             PROVE  Signed(AndThen(q, r)[ch], OpenedBy(ch) \cup {Null})
  BY DEF AllOpened
<1>1. /\ Signed(SentTo(q, ch), OpenedBy(ch) \cup {Null})
      /\ Signed(SentTo(r, ch), OpenedBy(ch) \cup {Null})
  BY NothingSigned DEF AllOpened, SentTo
<1> QED
  BY <1>1, SignedConcat DEF AndThen

(* n's own messages go out by its NAT, which the sending opens. *)
LEMMA SendsOpened ==
  ASSUME TypeOK, Advances, OneEach', NEW n \in Node, NEW id \in used',
         id # Null, nodeID'[n] = id,
         NEW left, AllOpened(left), Sends(n, id, left)
  PROVE  AllOpened(net)'
<1>1. PICK out : AllSigned(out, {id}) /\ Transmit(n, out, left)
  BY DEF Sends
<1> SUFFICES ASSUME NEW ch \in DOMAIN net'
             PROVE  Signed(net'[ch], OpenedBy(ch)' \cup {Null})
  BY DEF AllOpened
<1> DEFINE S == OpenedBy(ch)' \cup {Null}
<1>2. net'[ch] = SentTo(left, ch) \o SentTo(Route(n, out), ch)
  BY <1>1 DEF Transmit, AndThen
<1>3. Signed(SentTo(left, ch), S)
  BY OpenedStays, NothingSigned DEF SentTo
<1>4. Signed(SentTo(Route(n, out), ch), S)
  <2>1. CASE ch \notin DOMAIN Route(n, out)
    BY <2>1, NothingSigned DEF SentTo
  <2>2. CASE ch \in DOMAIN Route(n, out)
    <3>1. /\ MapEp[n][ch.dst] = ch.src /\ ch.dst \in DOMAIN out
          /\ Route(n, out)[ch] = out[ch.dst]
      BY <2>2 DEF Route
    <3>2. n \in Filters => ch.dst \in perm'[n]
      BY <1>1, <3>1 DEF Transmit, TypeOK, NetworkOK
    <3>3. \A m \in Node : nodeID'[m] = id => m = n
      BY DEF OneEach
    <3>4. id \in S
      BY <3>1, <3>2, <3>3 DEF OpenedBy
    <3> DEFINE M == {m \in Range(out[ch.dst]) : m.id \in {id}}
    <3>5. out[ch.dst] \in Seq(M) /\ \A m \in M : m.id \in S
      BY <1>1, <3>1, <3>4 DEF AllSigned, Signed
    <3> HIDE DEF M, S
    <3>6. Signed(out[ch.dst], S)
      BY <3>5, SignedOf
    <3> QED
      BY <2>2, <3>1, <3>6 DEF SentTo
  <2> QED
    BY <2>1, <2>2
<1> HIDE DEF S
<1>5. Signed(net'[ch], S)
  BY <1>2, <1>3, <1>4, SignedConcat
<1> QED
  BY <1>5 DEF S

(* Sending closes no NAT. *)
LEMMA SendingAdvances ==
  ASSUME TypeOK, NEW n \in Node, NEW id, NEW left, Sends(n, id, left)
  PROVE  \A m \in Node : perm[m] \subseteq perm'[m]
BY DEF Sends, Transmit, TypeOK, NetworkOK

(***************************************************************************)
(* The steps.  Each keeps the three conjuncts of HolesInv beside MemberInv.*)
(***************************************************************************)
KeepsHoles == (AllOpened(net) /\ HeardThrough /\ OneEach)'

LEMMA HandlerReads ==
  ASSUME NEW n \in Node, NEW ch, NEW k, HandleReceive(n, ch, k)
  PROVE  CanRead(n, ch)
BY DEF HandleReceive, Detecting, Updating, Punching, Probing, Ticking, RcvDetectNoID,
       RcvDetectPublic, RcvDetectMapped, RcvDetectNoProber, RcvUpdateFatal, RcvUpdate,
       RcvTruncated, RcvProxyconnect, RcvHelpconnect, RcvOpenconnect,
       RcvOpenconnectNull, RcvFilteringcheck, RcvCallclient, RcvCallclientRes,
       RcvTicker, RcvTickerRes, Receive

(* A running node's ID was drawn, and is its own. *)
LEMMA RunnerDrew ==
  ASSUME HolesInv, NEW n \in Node, status[n] = "up"
  PROVE  nodeID[n] \in used /\ nodeID[n] # Null
<1>1. nodeID[n] # Null
  BY DEF HolesInv, MemberInv, HeardInv, TypeOK, LifeOK
<1> QED
  BY <1>1 DEF HolesInv, MemberInv, Drawn, Known

LEMMA AnswerKeeps ==
  ASSUME HolesInv, NEW n \in Node, NEW ch \in DOMAIN net, NEW k \in Deliverable(ch),
         CanRead(n, ch), Answers(n, ch, k)
  PROVE  KeepsHoles
<1>1. TypeOK /\ AreQueues(net, Channel) /\ nodeID[n] \in used /\ nodeID[n] # Null
  BY RunnerDrew DEF HolesInv, MemberInv, HeardInv, TypeOK, NetworkOK, CanRead
<1>2. Advances
  BY <1>1, SendingAdvances DEF Answers, Advances
<1>3. OneEach'
  BY DEF HolesInv, OneEach, Answers
<1>4. AllOpened(Without(ch, k))
  BY <1>1, WithoutOpened DEF HolesInv
<1>5. AllOpened(net)'
  BY <1>1, <1>2, <1>3, <1>4, SendsOpened DEF Answers
<1>6. ASSUME NEW m \in Node, NEW i \in heard'[m] \ {Null} PROVE CameThrough(m, i)'
  <2>1. CASE i \in heard[m]
    <3>1. PICK c \in Channel : Readable(m, c) /\ Admits(m, c) /\ i \in OpenedBy(c)
      BY <1>6, <2>1 DEF HolesInv, HeardThrough, CameThrough
    <3> QED
      BY <1>1, <1>2, <3>1, CameThroughStays
  <2>2. CASE i \notin heard[m]
    <3>1. m = n /\ i = net[ch][k].id
      BY <1>1, <1>6, <2>2 DEF Answers, TypeOK, ProcessOK
    <3>2. ch \in Channel /\ k \in DOMAIN net[ch]
      BY <1>1, DeliverableIsThere
    <3>3. i \in OpenedBy(ch)
      <4>1. net[ch][k].id \in OpenedBy(ch) \cup {Null}
        BY <3>2, SignedMember DEF HolesInv, AllOpened
      <4> QED
        BY <3>1, <4>1
    <3>4. Readable(m, ch) /\ Admits(m, ch)
      BY <3>1 DEF CanRead
    <3> QED
      BY <1>1, <1>2, <3>2, <3>3, <3>4, CameThroughStays
  <2> QED
    BY <2>1, <2>2
<1> QED
  BY <1>3, <1>5, <1>6 DEF KeepsHoles, HeardThrough

(* A process that ends leaves the network to the others. *)
LEMMA StopKeeps ==
  ASSUME HolesInv, NEW n \in Node, NEW how, Stop(n, how), UNCHANGED <<perm, used>>,
         NEW q, AllOpened(q), net' = q
  PROVE  KeepsHoles
<1>1. TypeOK
  BY DEF HolesInv, MemberInv, HeardInv
<1>2. Advances /\ OneEach' /\ \A m \in Node : heard'[m] \subseteq heard[m]
  BY <1>1 DEF Stop, Advances, HolesInv, OneEach, TypeOK, ProcessOK
<1>3. AllOpened(net)'
  BY <1>1, <1>2, OpenedStays DEF AllOpened
<1> QED
  BY <1>1, <1>2, <1>3, HeardThroughStays DEF KeepsHoles, HolesInv

LEMMA BootKeeps ==
  ASSUME HolesInv, NEW n \in Node, NEW id \in IDsOf[n], Boot(n, id)
  PROVE  KeepsHoles
<1>1. /\ id \notin used /\ used' = used \cup {id}
      /\ nodeID' = [nodeID EXCEPT ![n] = id]
      /\ UNCHANGED heard
      /\ Transmit(n, To(RemoteServer[n], DetectMsg(id, LocalEp[n])), net)
  BY DEF Boot, NewID
<1>2. TypeOK /\ id # Null
  BY ConfigAssumption DEF HolesInv, MemberInv, HeardInv
<1>3. Sends(n, id, net)
  <2>1. DetectMsg(id, LocalEp[n]).id \in {id}
    BY DEF DetectMsg
  <2> QED
    BY <1>1, <2>1, MessagesSigned DEF Sends
<1>4. nodeID'[n] = id /\ \A m \in Node \ {n} : nodeID'[m] = nodeID[m]
  BY <1>1, <1>2 DEF TypeOK, ProcessOK
<1>5. Advances
  BY <1>1, <1>2, <1>3, <1>4, SendingAdvances DEF Advances
<1>6. OneEach'
  <2>1. \A m \in Node : nodeID[m] \in used \cup {Null}
    BY DEF HolesInv, MemberInv, Drawn, Known
  <2> QED
    BY <1>1, <1>2, <1>4, <2>1 DEF HolesInv, OneEach
<1>7. AllOpened(net)'
  BY <1>1, <1>2, <1>3, <1>4, <1>5, <1>6, SendsOpened DEF HolesInv
<1> QED
  BY <1>1, <1>2, <1>5, <1>6, <1>7, HeardThroughStays DEF KeepsHoles, HolesInv

(* An update loop and a round only send, if anything. *)
LEMMA SenderKeeps ==
  ASSUME HolesInv, NEW n \in Node, status[n] = "up",
         UNCHANGED <<net, perm>> \/ Sends(n, nodeID[n], net),
         UNCHANGED <<nodeID, heard, used>>
  PROVE  KeepsHoles
<1>1. TypeOK /\ nodeID[n] \in used /\ nodeID[n] # Null
  BY RunnerDrew DEF HolesInv, MemberInv, HeardInv
<1>2. Advances /\ OneEach'
  BY <1>1, SendingAdvances DEF Advances, HolesInv, OneEach
<1>3. AllOpened(net)'
  <2>1. CASE UNCHANGED <<net, perm>>
    BY <1>1, <1>2, <2>1, OpenedStays DEF AllOpened, HolesInv
  <2>2. CASE Sends(n, nodeID[n], net)
    BY <1>1, <1>2, <2>2, SendsOpened DEF HolesInv
  <2> QED
    BY <2>1, <2>2
<1> QED
  BY <1>1, <1>2, <1>3, HeardThroughStays DEF KeepsHoles, HolesInv

LEMMA NetworkKeeps ==
  ASSUME HolesInv,
         \/ \E ch \in BindChannels : Bind(ch)
         \/ \E ch \in DOMAIN net : \E k \in Deliverable(ch) :
              \/ Lose(ch, k) \/ Duplicate(ch, k) \/ Undeliverable(ch, k)
              \/ \E n \in Node : RcvTruncated(n, ch, k)
  PROVE  KeepsHoles
<1>1. UNCHANGED <<nodeID, heard, used, perm>>
  BY DEF Bind, Lose, Duplicate, Undeliverable, RcvTruncated, process
<1>2. TypeOK /\ AreQueues(net, Channel) /\ AllOpened(net)
  BY DEF HolesInv, MemberInv, HeardInv, TypeOK, NetworkOK
<1>3. Advances /\ OneEach'
  BY <1>1 DEF Advances, HolesInv, OneEach
<1>4. ASSUME NEW ch, NEW m, m.id \in OpenedBy(ch) \cup {Null}
      PROVE  AllOpened(AndThen(net, To(ch, m)))
  <2>1. \A c \in DOMAIN To(ch, m) : c = ch
    BY DEF To
  <2>2. AllOpened(To(ch, m))
    BY <1>4, <2>1, MessagesSigned DEF AllOpened, AllSigned
  <2> QED
    BY <1>2, <2>2, AndThenOpened
<1>5. ASSUME NEW q, AllOpened(q), net' = q PROVE AllOpened(net)'
  BY <1>2, <1>3, <1>5, OpenedStays DEF AllOpened
<1>6. ASSUME NEW ch \in BindChannels, Bind(ch) PROVE AllOpened(net)'
  <2>1. DetectMsg(Null, ch.src).id \in OpenedBy(ch) \cup {Null}
    BY DEF DetectMsg
  <2> QED
    BY <1>4, <1>5, <1>6, <2>1 DEF Bind
<1>7. ASSUME NEW ch \in DOMAIN net, NEW k \in Deliverable(ch), Duplicate(ch, k)
      PROVE  AllOpened(net)'
  <2>1. net[ch][k].id \in OpenedBy(ch) \cup {Null}
    BY <1>2, DeliverableIsThere, SignedMember DEF AllOpened
  <2> QED
    BY <1>4, <1>5, <1>7, <2>1 DEF Duplicate
<1>8. ASSUME NEW ch \in DOMAIN net, NEW k \in Deliverable(ch), net' = Without(ch, k)
      PROVE  AllOpened(net)'
  BY <1>2, <1>5, <1>8, WithoutOpened
<1>9. AllOpened(net)'
  BY <1>6, <1>7, <1>8 DEF Lose, Undeliverable, RcvTruncated
<1> QED
  BY <1>1, <1>2, <1>3, <1>9, HeardThroughStays DEF KeepsHoles, HolesInv

(***************************************************************************)
(* Every step.                                                             *)
(***************************************************************************)
LEMMA NextKeepsHoles == HolesInv /\ [Next]_vars => HolesInv'
<1> SUFFICES ASSUME HolesInv, [Next]_vars PROVE KeepsHoles
  BY NextLists, NextIsMembership DEF HolesInv, MemberInv, KeepsHoles
<1>1. MemberInv /\ TypeOK /\ AreQueues(net, Channel) /\ AllOpened(net)
  BY DEF HolesInv, MemberInv, HeardInv, TypeOK, NetworkOK
<1>2. ASSUME NEW n \in Node, Start(n) PROVE KeepsHoles
  BY <1>2, BootKeeps DEF Start
<1>3. ASSUME NEW n \in Node, UpdateLoop(n) PROVE KeepsHoles
  <2>1. status[n] = "up"
    BY <1>1, <1>3, LoopType DEF UpdateLoop, UpdateSelf, UpdateSender, UpdatePublic,
                                UpdateProxy
  <2> QED
    BY <1>1, <1>3, <2>1, LoopLists, SenderKeeps
<1>4. ASSUME NEW n \in Node, TimerRound(n) PROVE KeepsHoles
  <2>1. status[n] = "up"
    BY <1>4 DEF TimerRound
  <2> QED
    BY <1>1, <1>4, <2>1, RoundForgets, SenderKeeps
<1>5. ASSUME NEW n \in Node, Crash(n) PROVE KeepsHoles
  BY <1>1, <1>5, StopKeeps DEF Crash
<1>6. ASSUME NEW n \in Node, NEW ch \in DOMAIN net, NEW k \in Deliverable(ch),
             HandleReceive(n, ch, k)
      PROVE  KeepsHoles
  <2>1. CASE RcvTruncated(n, ch, k)
    BY <2>1, NetworkKeeps
  <2>2. CASE ~ RcvTruncated(n, ch, k)
    <3>1. HearsOrLeaves(n, ch, k)
      BY <1>1, <1>6, <2>2, DetectHears, UpdateHears, PunchingHears, ProbingHears,
         TickingHears DEF HandleReceive, Updating
    <3>2. CASE Answers(n, ch, k)
      BY <1>6, <3>2, HandlerReads, AnswerKeeps
    <3>3. CASE Abort(n, ch, k)
      BY <1>1, <3>3, WithoutOpened, StopKeeps DEF Abort
    <3> QED
      BY <3>1, <3>2, <3>3 DEF HearsOrLeaves
  <2> QED
    BY <2>1, <2>2
<1>7. CASE UNCHANGED vars
  BY <1>7 DEF vars, process, HolesInv, KeepsHoles, AllOpened, OpenedBy, HeardThrough,
              CameThrough, Admits, OneEach
<1>8. CASE \E n \in Node : Start(n) \/ UpdateLoop(n) \/ TimerRound(n)
  BY <1>2, <1>3, <1>4, <1>8
<1>9. CASE \E ch \in BindChannels : Bind(ch)
  BY <1>9, NetworkKeeps
<1>10. CASE Arrival
  BY <1>6, <1>10, NetworkKeeps DEF Arrival
<1>11. CASE Fault
  BY <1>5, <1>11, NetworkKeeps DEF Fault
<1> QED
  BY <1>7, <1>8, <1>9, <1>10, <1>11 DEF Next

(* Whatever is lost, reordered, repeated, killed or started again, and     *)
(* however the NATs map and filter: a process is listed, while it lives,   *)
(* only by those it can talk to and that can talk to it.  HolesInv is      *)
(* inductive: it tells of each datagram in flight whose NAT it left by.    *)
THEOREM ListedIsWithinReach == ASSUME Answerable PROVE Spec => []HolesOpen
<1>1. Init => HolesInv
  <2> SUFFICES ASSUME Init PROVE AllOpened(net) /\ HeardThrough /\ OneEach
    BY InitIsMembership DEF HolesInv
  <2> QED
    BY DEF Init, AllOpened, EmptyMap, HeardThrough, OneEach
<1>2. HolesInv => HolesOpen
  BY InvOpensHoles
<1> QED
  BY <1>1, <1>2, NextKeepsHoles, PTL DEF Spec
=============================================================================
