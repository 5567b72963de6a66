-------------------------- MODULE NodeThreadsProofs --------------------------
(***************************************************************************)
(* What the two threads of a process cannot do to each other's loops.      *)
(***************************************************************************)
EXTENDS NodeThreads, TLAPS

(***************************************************************************)
(* An iterator that is not dangling is at its map's end or at an element.  *)
(***************************************************************************)
OnProbes == {"fit"}

Points(on, m) == \A x \in on \ dangling : it[x] # End => it[x] \in DOMAIN m

IteratorsValid ==
  Points(OnHosts, hostList) /\ Points(OnCounters, tickerNum) /\ Points(OnProbes, probes)

(* The entries a loop has still to come to, from where it stands. *)
Ahead(S) == it.hit # End /\ \A i \in S : i >= it.hit
Beyond(S) == it.hit # End /\ \A i \in S : i > it.hit

(* Where the third loop is, it has ticked all but those ahead of it. *)
Ticking == {"tick", "find", "count"}

TickLoop ==
  /\ pc.timer \in Ticking => due \subseteq DOMAIN hostList \ {Self}
  /\ pc.timer = "tick" /\ due # {} => Ahead(due)
  /\ pc.timer \in {"find", "count"} => Beyond(due)
  /\ pc.timer \notin Ticking => due = {}

(* Where the second loop is in its walk for one dead endpoint, what it has *)
(* not come to is listed there as it was found.                            *)
Left == doomed \cap DOMAIN hostList

Evicting == {"evict", "erase"}

EvictLoop ==
  /\ pc.timer \in Evicting => it.nit \in Ep
  /\ pc.timer \in Evicting => \A i \in Left : hostList[i] = it.nit
  /\ pc.timer \in Evicting /\ Left # {} => Ahead(Left)
  /\ pc.timer = "erase" => it.hit # End

ThreadsInv == TypeOK /\ "hit" \notin dangling /\ IteratorsValid /\ TickLoop /\ EvictLoop

-----------------------------------------------------------------------------
(***************************************************************************)
(* Walking a map in order of its keys.                                     *)
(***************************************************************************)
AnyKey == ID \cup Ep \cup Key

LEMMA FirstOfSet ==
  ASSUME NEW S \in SUBSET AnyKey
  PROVE  /\ S = {} => FromSet(S) = End
         /\ S # {} => FromSet(S) \in S /\ \A y \in S : y >= FromSet(S)
<1>1. CASE S = {}
  BY <1>1 DEF FromSet
<1>2. CASE S # {}
  <2>1. \E x \in S : \A y \in S : x <= y
    BY <1>2, OrderAssumption DEF AnyKey
  <2>2. Min(S) \in S /\ \A y \in S : Min(S) <= y
    BY <2>1 DEF Min
  <2>3. S \subseteq Nat
    BY ThreadsAssumption DEF AnyKey
  <2> QED
    BY <1>2, <2>2, <2>3 DEF FromSet
<1> QED
  BY <1>1, <1>2

LEMMA FirstOfMap ==
  ASSUME NEW m, DOMAIN m \subseteq AnyKey
  PROVE  /\ First(m) = End => DOMAIN m = {}
         /\ First(m) # End => First(m) \in DOMAIN m /\ \A y \in DOMAIN m : y >= First(m)
<1>1. End \notin DOMAIN m
  BY ThreadsAssumption DEF AnyKey
<1> QED
  BY <1>1, FirstOfSet DEF First

LEMMA NextOfMap ==
  ASSUME NEW m, DOMAIN m \subseteq AnyKey, NEW k \in AnyKey \cup {End}
  PROVE  /\ After(m, k) # End => After(m, k) \in DOMAIN m \ {k}
         /\ k # End /\ After(m, k) = End => \A y \in DOMAIN m : ~ (y > k)
         /\ k # End /\ After(m, k) # End => \A y \in DOMAIN m : y > k => y >= After(m, k)
<1> DEFINE S == {x \in DOMAIN m : x > k}
<1>1. S \in SUBSET AnyKey /\ End \notin S
  BY ThreadsAssumption DEF AnyKey
<1>2. After(m, k) = FromSet(S)
  BY DEF After
<1>3. k # End => k \in Nat /\ k \notin S
  BY ThreadsAssumption DEF AnyKey
<1>4. k = End => k \notin DOMAIN m
  BY ThreadsAssumption DEF AnyKey
<1> HIDE DEF S
<1>5. (S = {} => After(m, k) = End)
      /\ (S # {} => After(m, k) \in S /\ \A y \in S : y >= After(m, k))
  BY <1>1, <1>2, FirstOfSet
<1> QED
  BY <1>1, <1>3, <1>4, <1>5 DEF S

LEMMA MapChanges ==
  ASSUME NEW m, NEW K, NEW V, IsMap(m, K, V)
  PROVE  /\ \A k : IsMap(Without(m, k), K, V) /\ DOMAIN Without(m, k) = DOMAIN m \ {k}
         /\ \A k : \A i \in DOMAIN m \ {k} : Without(m, k)[i] = m[i]
         /\ \A k : \A v \in V : /\ IsMap([m EXCEPT ![k] = v], K, V)
                                /\ DOMAIN [m EXCEPT ![k] = v] = DOMAIN m
                                /\ \A i \in DOMAIN m \ {k} : [m EXCEPT ![k] = v][i] = m[i]
<1>1. \A k : DOMAIN Without(m, k) = DOMAIN m \ {k}
             /\ \A i \in DOMAIN m \ {k} : Without(m, k)[i] = m[i]
  BY DEF Without, Restrict
<1>2. \A k : Without(m, k) \in [DOMAIN m \ {k} -> V]
  BY DEF Without, Restrict, IsMap
<1> QED
  BY <1>1, <1>2 DEF IsMap

LEMMA MapGrows ==
  ASSUME NEW m, NEW K, NEW V, IsMap(m, K, V), NEW k \in K, NEW v \in V
  PROVE  /\ IsMap(With(m, k, v), K, V)
         /\ DOMAIN With(m, k, v) = DOMAIN m \cup {k}
         /\ \A i \in DOMAIN m \ {k} : With(m, k, v)[i] = m[i]
<1>1. With(m, k, v) \in [DOMAIN m \cup {k} -> V]
  BY DEF With, IsMap
<1> QED
  BY <1>1 DEF IsMap, With

LEMMA FindInMap ==
  ASSUME NEW m, NEW k
  PROVE  Find(m, k) # End => Find(m, k) \in DOMAIN m
BY DEF Find

-----------------------------------------------------------------------------
(***************************************************************************)
(* What an operation does to the iterators: one is set while no map loses  *)
(* an element, or an element is erased through one of them.                *)
(***************************************************************************)
IteratorsOK == /\ it \in [Iterator -> AnyKey \cup {End}]
               /\ dangling \subseteq Iterator
               /\ "hit" \notin dangling
               /\ IteratorsValid

LEMMA ThreadsIterators == ThreadsInv => IteratorsOK
BY DEF ThreadsInv, IteratorsOK, TypeOK, ThreadsOK, AnyKey

LEMMA SetIterator ==
  ASSUME IteratorsOK, NEW x \in Iterator, NEW k \in AnyKey \cup {End},
         it' = [it EXCEPT ![x] = k],
         dangling' = dangling \ {x},
         DOMAIN hostList \subseteq DOMAIN hostList',
         DOMAIN tickerNum \subseteq DOMAIN tickerNum',
         DOMAIN probes \subseteq DOMAIN probes',
         k # End => /\ x \in OnHosts => k \in DOMAIN hostList'
                    /\ x \in OnCounters => k \in DOMAIN tickerNum'
                    /\ x \in OnProbes => k \in DOMAIN probes'
  PROVE  IteratorsOK'
<1>1. OnHosts \cup OnCounters \cup OnProbes = Iterator
  BY DEF Iterator, OnProbes
<1>2. \A y \in Iterator : it'[y] = IF y = x THEN k ELSE it[y]
  BY DEF IteratorsOK
<1>3. IteratorsValid'
  BY <1>1, <1>2 DEF IteratorsOK, IteratorsValid, Points
<1> QED
  BY <1>3 DEF IteratorsOK

LEMMA KeepIterators ==
  ASSUME IteratorsOK, UNCHANGED <<it, dangling>>,
         DOMAIN hostList \subseteq DOMAIN hostList',
         DOMAIN tickerNum \subseteq DOMAIN tickerNum',
         DOMAIN probes \subseteq DOMAIN probes'
  PROVE  IteratorsOK'
BY DEF IteratorsOK, IteratorsValid, Points

LEMMA EraseIterator ==
  ASSUME IteratorsOK, NEW on \in {OnHosts, OnCounters, OnProbes}, NEW x \in on,
         NEW k, NEW next \in AnyKey \cup {End},
         it' = [it EXCEPT ![x] = next],
         dangling' = (dangling \cup {y \in on : it[y] = k /\ k # End}) \ {x},
         DOMAIN hostList' = DOMAIN hostList \ (IF on = OnHosts THEN {k} ELSE {}),
         DOMAIN tickerNum' = DOMAIN tickerNum \ (IF on = OnCounters THEN {k} ELSE {}),
         DOMAIN probes' = DOMAIN probes \ (IF on = OnProbes THEN {k} ELSE {}),
         next # End => /\ on = OnHosts => next \in DOMAIN hostList'
                       /\ on = OnCounters => next \in DOMAIN tickerNum'
                       /\ on = OnProbes => next \in DOMAIN probes',
         on = OnHosts => x = "hit"
  PROVE  IteratorsOK'
<1>1. /\ \A y \in OnHosts : y \notin OnCounters \cup OnProbes
      /\ \A y \in OnCounters : y \notin OnProbes
      /\ "hit" \in OnHosts /\ on \subseteq Iterator
  BY DEF OnHosts, OnCounters, OnProbes, Iterator
<1>2. \A y \in Iterator : it'[y] = IF y = x THEN next ELSE it[y]
  BY DEF IteratorsOK
<1>3. \A y \in on \ dangling' : y = x \/ (y \notin dangling /\ (it[y] # k \/ k = End))
  OBVIOUS
<1>4. \A y \in Iterator \ on : y \in dangling' <=> y \in dangling
  OBVIOUS
<1>5. CASE on = OnHosts
  BY <1>1, <1>2, <1>3, <1>4, <1>5 DEF IteratorsOK, IteratorsValid, Points
<1>6. CASE on = OnCounters
  BY <1>1, <1>2, <1>3, <1>4, <1>6 DEF IteratorsOK, IteratorsValid, Points, Iterator
<1>7. CASE on = OnProbes
  BY <1>1, <1>2, <1>3, <1>4, <1>7 DEF IteratorsOK, IteratorsValid, Points, Iterator
<1> QED
  BY <1>5, <1>6, <1>7

(* Of each of the maps. *)
LEMMA EraseHost ==
  ASSUME IteratorsOK, NEW k, NEW next \in AnyKey \cup {End},
         it' = [it EXCEPT !["hit"] = next],
         dangling' = (dangling \cup {y \in OnHosts : it[y] = k /\ k # End}) \ {"hit"},
         DOMAIN hostList' = DOMAIN hostList \ {k}, UNCHANGED <<tickerNum, probes>>,
         next # End => next \in DOMAIN hostList'
  PROVE  IteratorsOK'
<1>1. OnHosts # OnCounters /\ OnHosts # OnProbes /\ "hit" \in OnHosts
  BY DEF OnHosts, OnCounters, OnProbes
<1>2. /\ DOMAIN hostList' = DOMAIN hostList \ (IF OnHosts = OnHosts THEN {k} ELSE {})
      /\ DOMAIN tickerNum' = DOMAIN tickerNum \ (IF OnHosts = OnCounters THEN {k} ELSE {})
      /\ DOMAIN probes' = DOMAIN probes \ (IF OnHosts = OnProbes THEN {k} ELSE {})
  BY <1>1
<1>3. OnHosts \in {OnHosts, OnCounters, OnProbes}
  OBVIOUS
<1> QED
  BY <1>1, <1>2, <1>3, EraseIterator

LEMMA EraseCount ==
  ASSUME IteratorsOK, NEW x \in OnCounters, NEW k, NEW next \in AnyKey \cup {End},
         it' = [it EXCEPT ![x] = next],
         dangling' = (dangling \cup {y \in OnCounters : it[y] = k /\ k # End}) \ {x},
         DOMAIN tickerNum' = DOMAIN tickerNum \ {k}, UNCHANGED <<hostList, probes>>,
         next # End => next \in DOMAIN tickerNum'
  PROVE  IteratorsOK'
<1>1. OnCounters # OnHosts /\ OnCounters # OnProbes
  BY DEF OnHosts, OnCounters, OnProbes
<1>2. /\ DOMAIN hostList' = DOMAIN hostList \ (IF OnCounters = OnHosts THEN {k} ELSE {})
      /\ DOMAIN tickerNum' = DOMAIN tickerNum \ (IF OnCounters = OnCounters THEN {k} ELSE {})
      /\ DOMAIN probes' = DOMAIN probes \ (IF OnCounters = OnProbes THEN {k} ELSE {})
  BY <1>1
<1>3. OnCounters \in {OnHosts, OnCounters, OnProbes}
  OBVIOUS
<1> QED
  BY <1>1, <1>2, <1>3, EraseIterator

LEMMA EraseProbe ==
  ASSUME IteratorsOK, NEW x \in OnProbes, NEW k, NEW next \in AnyKey \cup {End},
         it' = [it EXCEPT ![x] = next],
         dangling' = (dangling \cup {y \in OnProbes : it[y] = k /\ k # End}) \ {x},
         DOMAIN probes' = DOMAIN probes \ {k}, UNCHANGED <<hostList, tickerNum>>,
         next # End => next \in DOMAIN probes'
  PROVE  IteratorsOK'
<1>1. OnProbes # OnHosts /\ OnProbes # OnCounters
  BY DEF OnHosts, OnCounters, OnProbes
<1>2. /\ DOMAIN hostList' = DOMAIN hostList \ (IF OnProbes = OnHosts THEN {k} ELSE {})
      /\ DOMAIN tickerNum' = DOMAIN tickerNum \ (IF OnProbes = OnCounters THEN {k} ELSE {})
      /\ DOMAIN probes' = DOMAIN probes \ (IF OnProbes = OnProbes THEN {k} ELSE {})
  BY <1>1
<1>3. OnProbes \in {OnHosts, OnCounters, OnProbes}
  OBVIOUS
<1> QED
  BY <1>1, <1>2, <1>3, EraseIterator

(***************************************************************************)
(* What leaves the timer's loops over the list where they are: entries are *)
(* added or rewritten, and those rewritten are no longer doomed.           *)
(***************************************************************************)
LEMMA LoopsStay ==
  ASSUME TickLoop, EvictLoop,
         pc'.timer = pc.timer, it'.hit = it.hit, it'.nit = it.nit, due' = due,
         DOMAIN hostList \subseteq DOMAIN hostList',
         doomed' \cap DOMAIN hostList' \subseteq Left,
         \A i \in doomed' \cap DOMAIN hostList' : hostList'[i] = hostList[i]
  PROVE  TickLoop' /\ EvictLoop'
<1>1. TickLoop'
  BY DEF TickLoop, Ahead, Beyond, Ticking
<1>2. EvictLoop'
  BY DEF EvictLoop, Ahead, Left, Evicting
<1> QED
  BY <1>1, <1>2

(* What happens outside those loops. *)
LEMMA NoLoop ==
  ASSUME due' = {}, pc'.timer \notin Ticking \cup Evicting
  PROVE  TickLoop' /\ EvictLoop'
BY DEF TickLoop, EvictLoop, Ticking, Evicting

(***************************************************************************)
(* The steps of each loop and of the handlers.                             *)
(***************************************************************************)
RestOK == /\ MapsOK /\ HistoryOK /\ SeenOK
          /\ pc \in [timer : TimerPlace, receive : ReceivePlace]
          /\ fate \in {"running", "aborted", "undefined"}

LEMMA Parts == ThreadsInv <=> RestOK /\ IteratorsOK /\ TickLoop /\ EvictLoop
BY DEF ThreadsInv, RestOK, IteratorsOK, TypeOK, ThreadsOK, AnyKey

LEMMA PartsAfter ==
  RestOK' /\ IteratorsOK' /\ TickLoop' /\ EvictLoop' => ThreadsInv'
BY DEF ThreadsInv, RestOK, IteratorsOK, TypeOK, ThreadsOK, AnyKey

LEMMA KeysOK ==
  ASSUME MapsOK
  PROVE  /\ DOMAIN hostList \subseteq AnyKey
         /\ DOMAIN tickerNum \subseteq AnyKey
         /\ DOMAIN probes \subseteq AnyKey
BY DEF MapsOK, IsMap, AnyKey

(* A thread moves on; what is parsed and written stays typed.              *)
LEMMA TimerMoves ==
  ASSUME RestOK, NEW to \in TimerPlace, pc' = [pc EXCEPT !["timer"] = to], fate' = fate,
         MapsOK', HistoryOK', DOMAIN seen' = {"timer", "receive"},
         seen'.receive = seen.receive,
         to \in {"assign", "find", "count"} => seen'.timer \in Ep
  PROVE  RestOK' /\ pc'.timer = to
<1>1. /\ pc' \in [timer : TimerPlace, receive : ReceivePlace]
      /\ pc'.timer = to /\ pc'.receive = pc.receive
  BY DEF RestOK
<1>2. SeenOK'
  BY <1>1 DEF RestOK, SeenOK
<1> QED
  BY <1>1, <1>2 DEF RestOK

LEMMA ReceiveMoves ==
  ASSUME RestOK, NEW to \in ReceivePlace, pc' = [pc EXCEPT !["receive"] = to], fate' = fate,
         MapsOK', HistoryOK', DOMAIN seen' = {"timer", "receive"},
         seen'.timer = seen.timer,
         to \in {"put", "answer"} => seen'.receive \in ID,
         to = "at" => seen'.receive \in [id : ID, ep : Ep]
  PROVE  RestOK' /\ pc'.timer = pc.timer
<1>1. /\ pc' \in [timer : TimerPlace, receive : ReceivePlace]
      /\ pc'.timer = pc.timer /\ pc'.receive = to
  BY DEF RestOK
<1>2. SeenOK'
  BY <1>1 DEF RestOK, SeenOK
<1> QED
  BY <1>1, <1>2 DEF RestOK

LEMMA UnchangedOK ==
  /\ MapsOK /\ UNCHANGED maps => MapsOK'
  /\ HistoryOK /\ UNCHANGED history => HistoryOK'
BY DEF MapsOK, maps, HistoryOK, history

(* A thread looks through a map, and moves on. *)
LEMMA LooksOK ==
  ASSUME ThreadsInv, NEW x \in Iterator, NEW k \in AnyKey \cup {End},
         it' = [it EXCEPT ![x] = k],
         dangling' = dangling \ {x},
         UNCHANGED maps,
         k # End => /\ x \in OnHosts => k \in DOMAIN hostList
                    /\ x \in OnCounters => k \in DOMAIN tickerNum
                    /\ x \in OnProbes => k \in DOMAIN probes
  PROVE  IteratorsOK'
<1>1. IteratorsOK
  BY Parts
<1> QED
  BY <1>1, SetIterator DEF maps

LEMMA FirstLoopSteps == ThreadsInv /\ FirstLoop => ThreadsInv'
<1> SUFFICES ASSUME ThreadsInv, FirstLoop PROVE ThreadsInv'
  OBVIOUS
<1>1. RestOK /\ IteratorsOK /\ TickLoop /\ EvictLoop
  BY Parts
<1>2. due = {} /\ due' = {} /\ pc'.timer \notin Ticking \cup Evicting
  BY <1>1 DEF FirstLoop, WakeUp, NotExpired, FindProbed, ReadProbed, AssignFilter, Expire,
              Moves, Looks, history, TickLoop, RestOK, Ticking, Evicting
<1>3. TickLoop' /\ EvictLoop'
  BY <1>2, NoLoop
<1>4. CASE WakeUp
  <2>1. First(probes) \in AnyKey \cup {End}
    BY <1>1, KeysOK, FirstOfMap DEF RestOK
  <2>2. IteratorsOK'
    BY <1>1, <1>4, <2>1, KeysOK, FirstOfMap, LooksOK
       DEF WakeUp, Looks, Sets, RestOK, Iterator, OnHosts, OnCounters, OnProbes
  <2>3. RestOK'
    BY <1>1, <1>4, TimerMoves, UnchangedOK
       DEF WakeUp, Moves, Looks, maps, history, TimerPlace, RestOK, SeenOK
  <2> QED
    BY <1>3, <2>2, <2>3, PartsAfter
<1>5. CASE NotExpired
  <2>1. After(probes, it.fit) \in AnyKey \cup {End} /\ it.fit \in AnyKey \cup {End}
    BY <1>1, KeysOK, NextOfMap DEF RestOK, IteratorsOK, Iterator, OnProbes
  <2>2. IteratorsOK'
    BY <1>1, <1>5, <2>1, KeysOK, NextOfMap, LooksOK
       DEF NotExpired, Looks, Sets, RestOK, Iterator, OnHosts, OnCounters, OnProbes
  <2>3. RestOK'
    BY <1>1, <1>5, TimerMoves, UnchangedOK
       DEF NotExpired, Moves, Looks, TimerPlace, RestOK, SeenOK
  <2> QED
    BY <1>3, <2>2, <2>3, PartsAfter
<1>6. CASE FindProbed
  <2> DEFINE h == Find(hostList, probes[it.fit])
  <2>1. (h # End => h \in DOMAIN hostList) /\ h \in AnyKey \cup {End}
    BY <1>1, KeysOK, FindInMap DEF RestOK
  <2>2. it' = [it EXCEPT !["hit"] = h] /\ dangling' = dangling \ {"hit"} /\ UNCHANGED maps
    BY <1>6 DEF FindProbed, Looks, Sets
  <2> HIDE DEF h
  <2>3. IteratorsOK'
    BY <2>1, <2>2, LooksOK DEF Iterator, OnHosts, OnCounters, OnProbes
  <2>4. RestOK'
    BY <1>1, <1>6, TimerMoves, UnchangedOK
       DEF FindProbed, Moves, Looks, TimerPlace, RestOK, SeenOK
  <2> QED
    BY <1>3, <2>3, <2>4, PartsAfter
<1>7. CASE ReadProbed
  <2>1. IteratorsOK'
    BY <1>1, <1>7, KeepIterators DEF ReadProbed, maps
  <2>2. it.hit # End => hostList[it.hit] \in Ep
    BY <1>1 DEF RestOK, MapsOK, IsMap, IteratorsOK, IteratorsValid, Points, OnHosts
  <2>3. /\ DOMAIN seen' = {"timer", "receive"} /\ seen'.receive = seen.receive
        /\ it.hit # End => seen'.timer \in Ep
    BY <1>1, <1>7, <2>2 DEF ReadProbed, RestOK, SeenOK
  <2>4. RestOK'
    <3> DEFINE to == IF it.hit = End THEN "expire" ELSE "assign"
    <3>1. pc' = [pc EXCEPT !["timer"] = to] /\ fate' = fate /\ UNCHANGED <<maps, history>>
      BY <1>7 DEF ReadProbed, Moves
    <3>2. to \in TimerPlace /\ (to \in {"assign", "find", "count"} => it.hit # End)
      BY DEF TimerPlace
    <3> HIDE DEF to
    <3>3. MapsOK' /\ HistoryOK'
      BY <1>1, <3>1, UnchangedOK DEF RestOK
    <3> QED
      BY <1>1, <2>3, <3>1, <3>2, <3>3, TimerMoves
  <2> QED
    BY <1>3, <2>1, <2>4, PartsAfter
<1>8. CASE AssignFilter
  <2>1. seen.timer \in Ep
    BY <1>1, <1>8 DEF AssignFilter, Moves, RestOK, SeenOK
  <2>2. IsMap(hostList', ID, Ep) /\ DOMAIN hostList' = DOMAIN hostList
    BY <1>1, <1>8, <2>1, MapChanges DEF AssignFilter, RestOK, MapsOK
  <2>3. IteratorsOK'
    BY <1>1, <1>8, <2>2, KeepIterators DEF AssignFilter
  <2>4. RestOK'
    <3>1. MapsOK' /\ HistoryOK'
      BY <1>1, <1>8, <2>2, UnchangedOK DEF AssignFilter, RestOK, MapsOK
    <3> QED
      BY <1>1, <1>8, <3>1, TimerMoves DEF AssignFilter, Moves, TimerPlace, RestOK, SeenOK
  <2> QED
    BY <1>3, <2>3, <2>4, PartsAfter
<1>9. CASE Expire
  <2> DEFINE next == After(probes, it.fit)
  <2>1. it.fit \in AnyKey \cup {End}
    BY <1>1 DEF IteratorsOK, Iterator, OnProbes
  <2>2. next \in AnyKey \cup {End} /\ (next # End => next \in DOMAIN probes \ {it.fit})
    BY <1>1, <2>1, KeysOK, NextOfMap DEF RestOK
  <2>3. IsMap(probes', Key, ID) /\ DOMAIN probes' = DOMAIN probes \ {it.fit}
    BY <1>1, <1>9, MapChanges DEF Expire, RestOK, MapsOK
  <2>4. /\ it' = [it EXCEPT !["fit"] = next]
        /\ dangling' = (dangling \cup {y \in OnProbes : it[y] = it.fit /\ it.fit # End})
                          \ {"fit"}
        /\ UNCHANGED <<hostList, tickerNum>>
    BY <1>9 DEF Expire, Sets, OnProbes
  <2> HIDE DEF next
  <2>5. OnProbes # OnHosts /\ OnProbes # OnCounters /\ "fit" \in OnProbes
    BY DEF OnHosts, OnCounters, OnProbes
  <2>6. IteratorsOK'
    BY <1>1, <2>2, <2>3, <2>4, <2>5, EraseProbe
  <2>7. RestOK'
    <3>1. MapsOK' /\ HistoryOK'
      BY <1>1, <1>9, <2>3, UnchangedOK DEF Expire, RestOK, MapsOK
    <3> QED
      BY <1>1, <1>9, <3>1, TimerMoves DEF Expire, Moves, TimerPlace, RestOK, SeenOK
  <2> QED
    BY <1>3, <2>6, <2>7, PartsAfter
<1> QED
  BY <1>4, <1>5, <1>6, <1>7, <1>8, <1>9 DEF FirstLoop

LEMMA SecondLoopSteps == ThreadsInv /\ SecondLoop => ThreadsInv'
<1> SUFFICES ASSUME ThreadsInv, SecondLoop PROVE ThreadsInv'
  OBVIOUS
<1>1. RestOK /\ IteratorsOK /\ TickLoop /\ EvictLoop
  BY Parts
<1>2. /\ it.hit \in AnyKey \cup {End} /\ it.nit \in AnyKey \cup {End}
      /\ it.hit # End => it.hit \in DOMAIN hostList
      /\ "nit" \notin dangling /\ it.nit # End => it.nit \in DOMAIN tickerNum
  BY <1>1 DEF IteratorsOK, IteratorsValid, Points, Iterator, OnHosts, OnCounters
<1>3. /\ DOMAIN hostList \subseteq AnyKey /\ DOMAIN tickerNum \subseteq AnyKey
      /\ DOMAIN probes \subseteq AnyKey
  BY <1>1, KeysOK DEF RestOK
<1>4. due = {} /\ due' = {}
  BY <1>1 DEF SecondLoop, ProbesDone, Alive, Dead, AtDead, Evict, Elsewhere, EraseCounter,
              Moves, Looks, history, TickLoop, RestOK, Ticking
<1>5. CASE ProbesDone
  <2>1. /\ it' = [it EXCEPT !["nit"] = First(tickerNum)]
        /\ dangling' = dangling \ {"nit"}
        /\ UNCHANGED <<maps, seen, history>>
        /\ pc' = [pc EXCEPT !["timer"] = "counters"] /\ fate' = fate
    BY <1>5 DEF ProbesDone, Moves, Looks, Sets
  <2>2. /\ First(tickerNum) \in AnyKey \cup {End}
        /\ First(tickerNum) # End => First(tickerNum) \in DOMAIN tickerNum
    BY <1>3, FirstOfMap
  <2>3. IteratorsOK'
    BY <2>1, <2>2, LooksOK DEF Iterator, OnHosts, OnCounters, OnProbes
  <2>4. RestOK' /\ pc'.timer = "counters"
    BY <1>1, <2>1, TimerMoves, UnchangedOK DEF TimerPlace, RestOK, SeenOK
  <2> QED
    BY <1>4, <2>3, <2>4, NoLoop, PartsAfter DEF Ticking, Evicting
<1>6. CASE Alive
  <2> DEFINE next == After(tickerNum, it.nit)
  <2>1. /\ it' = [it EXCEPT !["nit"] = next]
        /\ dangling' = dangling \ {"nit"}
        /\ UNCHANGED <<maps, seen, history>>
        /\ pc' = [pc EXCEPT !["timer"] = "counters"] /\ fate' = fate
    BY <1>6 DEF Alive, Moves, Looks, Sets
  <2>2. next \in AnyKey \cup {End} /\ (next # End => next \in DOMAIN tickerNum)
    BY <1>2, <1>3, NextOfMap
  <2> HIDE DEF next
  <2>3. IteratorsOK'
    BY <2>1, <2>2, LooksOK DEF Iterator, OnHosts, OnCounters, OnProbes
  <2>4. RestOK' /\ pc'.timer = "counters"
    BY <1>1, <2>1, TimerMoves, UnchangedOK DEF TimerPlace, RestOK, SeenOK
  <2> QED
    BY <1>4, <2>3, <2>4, NoLoop, PartsAfter DEF Ticking, Evicting
<1>7. CASE Dead
  <2>1. /\ it' = [it EXCEPT !["hit"] = First(hostList)]
        /\ dangling' = dangling \ {"hit"}
        /\ UNCHANGED <<maps, seen, silence, due>>
        /\ doomed' = {i \in DOMAIN hostList : hostList[i] = it.nit}
        /\ pc' = [pc EXCEPT !["timer"] = "evict"] /\ fate' = fate
        /\ it.nit # End /\ "nit" \notin dangling
    BY <1>7 DEF Dead, Moves, Sets, Uses
  <2>2. /\ First(hostList) = End => DOMAIN hostList = {}
        /\ First(hostList) # End =>
             First(hostList) \in DOMAIN hostList /\ \A y \in DOMAIN hostList : y >= First(hostList)
    BY <1>3, FirstOfMap
  <2>3. First(hostList) \in AnyKey \cup {End}
    BY <1>3, <2>2
  <2>4. IteratorsOK'
    BY <2>1, <2>2, <2>3, LooksOK DEF Iterator, OnHosts, OnCounters, OnProbes
  <2>5. MapsOK' /\ HistoryOK'
    BY <1>1, <2>1, UnchangedOK DEF RestOK, HistoryOK, MapsOK, IsMap
  <2>6. RestOK' /\ pc'.timer = "evict"
    BY <1>1, <2>1, <2>5, TimerMoves DEF TimerPlace, RestOK, SeenOK
  <2>7. it'.hit = First(hostList) /\ it'.nit = it.nit /\ it.nit \in Ep
    <3>1. it.nit \in DOMAIN tickerNum
      BY <1>2, <2>1
    <3> QED
      BY <1>1, <2>1, <3>1 DEF RestOK, MapsOK, IsMap, IteratorsOK, Iterator, OnHosts, OnCounters
  <2>8. TickLoop' /\ EvictLoop'
    BY <1>4, <2>1, <2>2, <2>6, <2>7
       DEF TickLoop, EvictLoop, Left, Ahead, maps, Ticking, Evicting
  <2> QED
    BY <2>4, <2>6, <2>8, PartsAfter
<1>11. CASE AtDead
  <2>1. /\ it.hit # End /\ UNCHANGED <<maps, it, dangling, seen, history>>
        /\ pc.timer = "evict"
        /\ pc' = [pc EXCEPT !["timer"] = "erase"] /\ fate' = fate
    BY <1>11 DEF AtDead, Moves
  <2>2. IteratorsOK'
    BY <1>1, <2>1, KeepIterators DEF maps
  <2>3. RestOK' /\ pc'.timer = "erase"
    BY <1>1, <2>1, TimerMoves, UnchangedOK DEF TimerPlace, RestOK, SeenOK
  <2>4. TickLoop' /\ EvictLoop'
    BY <1>1, <1>4, <2>1, <2>3
       DEF TickLoop, EvictLoop, Left, Ahead, maps, history, Ticking, Evicting
  <2> QED
    BY <2>2, <2>3, <2>4, PartsAfter
<1>8. CASE Evict
  <2> DEFINE next == After(hostList, it.hit)
  <2>1. /\ it.hit # End
        /\ hostList' = Without(hostList, it.hit)
        /\ it' = [it EXCEPT !["hit"] = next]
        /\ dangling' = (dangling \cup {y \in OnHosts : it[y] = it.hit /\ it.hit # End}) \ {"hit"}
        /\ UNCHANGED <<tickerNum, probes, seen, history>>
        /\ pc.timer = "erase"
        /\ pc' = [pc EXCEPT !["timer"] = "evict"] /\ fate' = fate
    BY <1>1, <1>8 DEF Evict, Moves, Erases, EvictLoop
  <2>2. /\ next \in AnyKey \cup {End} /\ (next # End => next \in DOMAIN hostList \ {it.hit})
        /\ next = End => \A y \in DOMAIN hostList : ~ (y > it.hit)
        /\ next # End => \A y \in DOMAIN hostList : y > it.hit => y >= next
    BY <1>2, <1>3, <2>1, NextOfMap
  <2> HIDE DEF next
  <2>3. /\ IsMap(hostList', ID, Ep) /\ DOMAIN hostList' = DOMAIN hostList \ {it.hit}
        /\ \A i \in DOMAIN hostList' : hostList'[i] = hostList[i]
    <3>1. IsMap(hostList, ID, Ep) /\ hostList' = Without(hostList, it.hit)
      BY <1>1, <2>1 DEF RestOK, MapsOK
    <3>2. /\ IsMap(Without(hostList, it.hit), ID, Ep)
          /\ DOMAIN Without(hostList, it.hit) = DOMAIN hostList \ {it.hit}
          /\ \A i \in DOMAIN hostList \ {it.hit} : Without(hostList, it.hit)[i] = hostList[i]
      BY <3>1, MapChanges
    <3> QED
      BY <3>1, <3>2
  <2>4. IteratorsOK'
    BY <1>1, <2>1, <2>2, <2>3, EraseHost
  <2>5. MapsOK' /\ HistoryOK'
    BY <1>1, <2>1, <2>3, UnchangedOK DEF RestOK, MapsOK
  <2>6. RestOK' /\ pc'.timer = "evict"
    BY <1>1, <2>1, <2>5, TimerMoves DEF TimerPlace, RestOK, SeenOK
  <2>7. it'.hit = next /\ it'.nit = it.nit
    BY <1>1, <2>1 DEF IteratorsOK, Iterator, OnHosts, OnCounters
  <2>8. \A i \in Left' : i \in Left /\ i > it.hit /\ hostList'[i] = it.nit
    <3>1. Left' \subseteq Left \ {it.hit}
      BY <2>1, <2>3 DEF Left, history
    <3>2. \A i \in Left : i >= it.hit /\ i \in Nat /\ it.hit \in Nat
      BY <1>1, <1>2, <1>3, <2>1, ThreadsAssumption DEF EvictLoop, Ahead, Left, AnyKey, Evicting
    <3>3. \A i \in Left' : hostList'[i] = it.nit
      BY <1>1, <2>1, <2>3, <3>1 DEF EvictLoop, Left, Evicting
    <3> QED
      BY <3>1, <3>2, <3>3
  <2>9. TickLoop' /\ EvictLoop'
    <3>1. Left' # {} => next # End /\ \A i \in Left' : i >= next
      BY <2>2, <2>8 DEF Left
    <3>2. it.nit \in Ep
      BY <1>1, <2>1 DEF EvictLoop, Evicting
    <3> QED
      BY <1>4, <2>6, <2>7, <2>8, <3>1, <3>2
         DEF TickLoop, EvictLoop, Ahead, Ticking, Evicting
  <2> QED
    BY <2>4, <2>6, <2>9, PartsAfter
<1>9. CASE Elsewhere
  <2> DEFINE next == After(hostList, it.hit)
  <2>1. /\ it.hit # End /\ hostList[it.hit] # it.nit
        /\ it' = [it EXCEPT !["hit"] = next]
        /\ dangling' = dangling \ {"hit"}
        /\ UNCHANGED <<maps, seen, history>>
        /\ pc.timer = "evict"
        /\ pc' = [pc EXCEPT !["timer"] = "evict"] /\ fate' = fate
    BY <1>9 DEF Elsewhere, Moves, Looks, Sets
  <2>2. /\ next \in AnyKey \cup {End} /\ (next # End => next \in DOMAIN hostList \ {it.hit})
        /\ next = End => \A y \in DOMAIN hostList : ~ (y > it.hit)
        /\ next # End => \A y \in DOMAIN hostList : y > it.hit => y >= next
    BY <1>2, <1>3, <2>1, NextOfMap
  <2> HIDE DEF next
  <2>3. IteratorsOK'
    BY <2>1, <2>2, LooksOK DEF Iterator, OnHosts, OnCounters, OnProbes
  <2>4. RestOK' /\ pc'.timer = "evict"
    BY <1>1, <2>1, TimerMoves, UnchangedOK DEF TimerPlace, RestOK, SeenOK
  <2>5. it'.hit = next /\ it'.nit = it.nit
    BY <1>1, <2>1 DEF IteratorsOK, Iterator, OnHosts, OnCounters
  <2>6. Left' = Left /\ \A i \in Left : i > it.hit
    <3>1. \A i \in Left : i >= it.hit /\ i # it.hit /\ i \in Nat /\ it.hit \in Nat
      BY <1>1, <1>2, <1>3, <2>1, ThreadsAssumption DEF EvictLoop, Ahead, Left, AnyKey, Evicting
    <3> QED
      BY <2>1, <3>1 DEF Left, maps, history
  <2>7. TickLoop' /\ EvictLoop'
    <3>1. Left' # {} => next # End /\ \A i \in Left' : i >= next
      BY <2>2, <2>6 DEF Left
    <3>2. it.nit \in Ep /\ \A i \in Left' : hostList'[i] = it.nit
      BY <1>1, <2>1, <2>6 DEF EvictLoop, maps, Evicting
    <3> QED
      BY <1>4, <2>4, <2>5, <3>1, <3>2
         DEF TickLoop, EvictLoop, Ahead, Ticking, Evicting
  <2> QED
    BY <2>3, <2>4, <2>7, PartsAfter
<1>10. CASE EraseCounter
  <2> DEFINE next == After(tickerNum, it.nit)
  <2>1. /\ tickerNum' = Without(tickerNum, it.nit)
        /\ it' = [it EXCEPT !["nit"] = next]
        /\ dangling' = (dangling \cup {y \in OnCounters : it[y] = it.nit /\ it.nit # End})
                          \ {"nit"}
        /\ doomed' = {}
        /\ UNCHANGED <<hostList, probes, seen, silence, due>>
        /\ pc' = [pc EXCEPT !["timer"] = "counters"] /\ fate' = fate
    BY <1>10 DEF EraseCounter, Moves, Erases
  <2>2. next \in AnyKey \cup {End} /\ (next # End => next \in DOMAIN tickerNum \ {it.nit})
    BY <1>2, <1>3, NextOfMap
  <2> HIDE DEF next
  <2>3. /\ IsMap(tickerNum', Ep, Nat \ {0})
        /\ DOMAIN tickerNum' = DOMAIN tickerNum \ {it.nit}
    BY <1>1, <2>1, MapChanges DEF RestOK, MapsOK
  <2>4. "nit" \in OnCounters
    BY DEF OnCounters
  <2>5. IteratorsOK'
    BY <1>1, <2>1, <2>2, <2>3, <2>4, EraseCount
  <2>6. MapsOK' /\ HistoryOK'
    BY <1>1, <2>1, <2>3 DEF RestOK, MapsOK, HistoryOK
  <2>7. RestOK' /\ pc'.timer = "counters"
    BY <1>1, <2>1, <2>6, TimerMoves DEF TimerPlace, RestOK, SeenOK
  <2> QED
    BY <1>4, <2>5, <2>7, NoLoop, PartsAfter DEF Ticking, Evicting
<1> QED
  BY <1>5, <1>6, <1>7, <1>8, <1>9, <1>10, <1>11 DEF SecondLoop

LEMMA ThirdLoopSteps == ThreadsInv /\ ThirdLoop => ThreadsInv'
<1> SUFFICES ASSUME ThreadsInv, ThirdLoop PROVE ThreadsInv'
  OBVIOUS
<1>1. RestOK /\ IteratorsOK /\ TickLoop /\ EvictLoop
  BY Parts
<1>2. /\ it.hit \in AnyKey \cup {End}
      /\ it.hit # End => it.hit \in DOMAIN hostList
      /\ "hit" \notin dangling
  BY <1>1 DEF IteratorsOK, IteratorsValid, Points, Iterator, OnHosts
<1>3. DOMAIN hostList \subseteq AnyKey /\ DOMAIN tickerNum \subseteq AnyKey
  BY <1>1, KeysOK DEF RestOK
<1>4. CASE CountersDone
  <2>1. /\ it' = [it EXCEPT !["hit"] = First(hostList)]
        /\ dangling' = dangling \ {"hit"}
        /\ UNCHANGED <<maps, seen, silence, doomed>>
        /\ due' = DOMAIN hostList \ {Self}
        /\ pc' = [pc EXCEPT !["timer"] = "tick"] /\ fate' = fate
    BY <1>4 DEF CountersDone, Moves, Sets
  <2>2. /\ First(hostList) = End => DOMAIN hostList = {}
        /\ First(hostList) # End =>
             First(hostList) \in DOMAIN hostList /\ \A y \in DOMAIN hostList : y >= First(hostList)
    BY <1>3, FirstOfMap
  <2>3. First(hostList) \in AnyKey \cup {End}
    BY <1>3, <2>2
  <2>4. IteratorsOK'
    BY <2>1, <2>2, <2>3, LooksOK DEF Iterator, OnHosts, OnCounters, OnProbes
  <2>5. MapsOK' /\ HistoryOK'
    BY <1>1, <2>1, UnchangedOK DEF RestOK, HistoryOK, MapsOK, IsMap
  <2>6. RestOK' /\ pc'.timer = "tick"
    BY <1>1, <2>1, <2>5, TimerMoves DEF TimerPlace, RestOK, SeenOK
  <2>7. it'.hit = First(hostList)
    BY <1>1, <2>1 DEF IteratorsOK, Iterator, OnHosts
  <2>8. TickLoop' /\ EvictLoop'
    BY <2>1, <2>2, <2>6, <2>7 DEF TickLoop, EvictLoop, Ahead, maps, Ticking, Evicting
  <2> QED
    BY <2>4, <2>6, <2>8, PartsAfter
<1>5. CASE SkipSelf
  <2> DEFINE next == After(hostList, it.hit)
  <2>1. /\ it.hit = Self
        /\ it' = [it EXCEPT !["hit"] = next]
        /\ dangling' = dangling \ {"hit"}
        /\ UNCHANGED <<maps, seen, history>>
        /\ pc.timer = "tick"
        /\ pc' = [pc EXCEPT !["timer"] = "tick"] /\ fate' = fate
    BY <1>5 DEF SkipSelf, Moves, Looks, Sets
  <2>2. it.hit # End
    BY <2>1, ThreadsAssumption
  <2>3. /\ next \in AnyKey \cup {End} /\ (next # End => next \in DOMAIN hostList \ {it.hit})
        /\ next = End => \A y \in DOMAIN hostList : ~ (y > it.hit)
        /\ next # End => \A y \in DOMAIN hostList : y > it.hit => y >= next
    BY <1>2, <1>3, <2>2, NextOfMap
  <2> HIDE DEF next
  <2>4. IteratorsOK'
    BY <2>1, <2>3, LooksOK DEF Iterator, OnHosts, OnCounters, OnProbes
  <2>5. RestOK' /\ pc'.timer = "tick"
    BY <1>1, <2>1, TimerMoves, UnchangedOK DEF TimerPlace, RestOK, SeenOK
  <2>6. it'.hit = next
    BY <1>1, <2>1 DEF IteratorsOK, Iterator, OnHosts
  <2>7. due \subseteq DOMAIN hostList \ {Self} /\ \A i \in due : i > it.hit
    <3>1. due \subseteq DOMAIN hostList \ {Self} /\ \A i \in due : i >= it.hit
      BY <1>1, <2>1 DEF TickLoop, Ahead, Ticking
    <3>2. \A i \in due : i \in Nat /\ it.hit \in Nat /\ i # it.hit
      BY <1>2, <1>3, <2>1, <2>2, <3>1, ThreadsAssumption DEF AnyKey
    <3> QED
      BY <3>1, <3>2
  <2>8. TickLoop' /\ EvictLoop'
    BY <2>1, <2>3, <2>5, <2>6, <2>7
       DEF TickLoop, EvictLoop, Ahead, maps, history, Ticking, Evicting
  <2> QED
    BY <2>4, <2>5, <2>8, PartsAfter
<1>6. CASE SendTicker
  <2> DEFINE e == hostList[it.hit]
  <2>1. /\ it.hit \notin {Self, End}
        /\ seen' = [seen EXCEPT !["timer"] = e]
        /\ silence' = [silence EXCEPT ![e] = IF @ = MaxSilence THEN @ ELSE @ + 1]
        /\ due' = due \ {it.hit}
        /\ UNCHANGED <<maps, it, dangling, doomed>>
        /\ pc.timer = "tick"
        /\ pc' = [pc EXCEPT !["timer"] = "find"] /\ fate' = fate
    BY <1>6 DEF SendTicker, Moves
  <2>2. e \in Ep
    BY <1>1, <1>2, <2>1 DEF RestOK, MapsOK, IsMap
  <2> HIDE DEF e
  <2>3. IteratorsOK'
    BY <1>1, <2>1, KeepIterators DEF maps
  <2>4. silence' \in [Ep -> 0 .. MaxSilence]
    <3>1. silence \in [Ep -> 0 .. MaxSilence] /\ MaxSilence \in Nat
      BY <1>1, ThreadsAssumption DEF RestOK, HistoryOK
    <3>2. (IF silence[e] = MaxSilence THEN silence[e] ELSE silence[e] + 1) \in 0 .. MaxSilence
      BY <2>2, <3>1
    <3> QED
      BY <2>1, <3>1, <3>2
  <2>5. MapsOK' /\ HistoryOK'
    BY <1>1, <2>1, <2>4, UnchangedOK DEF RestOK, HistoryOK
  <2>6. DOMAIN seen' = {"timer", "receive"} /\ seen'.receive = seen.receive /\ seen'.timer = e
    BY <1>1, <2>1 DEF RestOK, SeenOK
  <2>7. RestOK' /\ pc'.timer = "find"
    BY <1>1, <2>1, <2>2, <2>5, <2>6, TimerMoves DEF TimerPlace
  <2>8. due \subseteq DOMAIN hostList \ {Self} /\ \A i \in due' : i > it.hit
    <3>1. due \subseteq DOMAIN hostList \ {Self} /\ \A i \in due : i >= it.hit
      BY <1>1, <2>1 DEF TickLoop, Ahead, Ticking
    <3>2. \A i \in due : i \in Nat /\ it.hit \in Nat
      BY <1>2, <1>3, <2>1, <3>1, ThreadsAssumption DEF AnyKey
    <3> QED
      BY <2>1, <3>1, <3>2
  <2>9. TickLoop' /\ EvictLoop'
    BY <2>1, <2>7, <2>8 DEF TickLoop, EvictLoop, Beyond, maps, Ticking, Evicting
  <2> QED
    BY <2>3, <2>7, <2>9, PartsAfter
<1>9. CASE FindTicker
  <2> DEFINE c == Find(tickerNum, seen.timer)
  <2>1. /\ it' = [it EXCEPT !["cit"] = c]
        /\ dangling' = dangling \ {"cit"}
        /\ UNCHANGED <<maps, seen, history>>
        /\ pc.timer = "find"
        /\ pc' = [pc EXCEPT !["timer"] = "count"] /\ fate' = fate
    BY <1>9 DEF FindTicker, Moves, Looks, Sets
  <2>2. (c # End => c \in DOMAIN tickerNum) /\ c \in AnyKey \cup {End}
    BY <1>3, FindInMap
  <2> HIDE DEF c
  <2>3. IteratorsOK'
    BY <2>1, <2>2, LooksOK DEF Iterator, OnHosts, OnCounters, OnProbes
  <2>4. RestOK' /\ pc'.timer = "count"
    BY <1>1, <2>1, TimerMoves, UnchangedOK DEF TimerPlace, RestOK, SeenOK
  <2>5. it'.hit = it.hit
    BY <1>1, <2>1 DEF IteratorsOK, Iterator, OnHosts, OnCounters
  <2>6. TickLoop' /\ EvictLoop'
    BY <1>1, <2>1, <2>4, <2>5
       DEF TickLoop, EvictLoop, Beyond, maps, history, Ticking, Evicting
  <2> QED
    BY <2>3, <2>4, <2>6, PartsAfter
<1>7. CASE Count
  <2> DEFINE next == After(hostList, it.hit)
  <2> DEFINE n == IF it.cit = End THEN 1 ELSE tickerNum[it.cit] + 1
  <2>1. /\ tickerNum' = With(tickerNum, seen.timer, n)
        /\ it' = [it EXCEPT !["cit"] = End, !["hit"] = next]
        /\ dangling' = dangling
        /\ seen' = [seen EXCEPT !["timer"] = End]
        /\ UNCHANGED <<hostList, probes, history>>
        /\ pc.timer = "count" /\ "cit" \notin dangling
        /\ pc' = [pc EXCEPT !["timer"] = "tick"] /\ fate' = fate
    BY <1>7 DEF Count, Moves, Uses
  <2>2. /\ next \in AnyKey \cup {End} /\ (next # End => next \in DOMAIN hostList)
        /\ it.hit # End /\ next = End => \A y \in DOMAIN hostList : ~ (y > it.hit)
        /\ it.hit # End /\ next # End => \A y \in DOMAIN hostList : y > it.hit => y >= next
    BY <1>2, <1>3, NextOfMap
  <2>3. n \in Nat \ {0} /\ seen.timer \in Ep
    <3>1. it.cit # End => it.cit \in DOMAIN tickerNum
      BY <1>1, <2>1 DEF IteratorsOK, IteratorsValid, Points, OnCounters
    <3>2. it.cit # End => tickerNum[it.cit] \in Nat
      BY <1>1, <3>1 DEF RestOK, MapsOK, IsMap
    <3> QED
      BY <1>1, <2>1, <3>2 DEF RestOK, SeenOK
  <2> HIDE DEF next, n
  <2>4. /\ IsMap(tickerNum', Ep, Nat \ {0})
        /\ DOMAIN tickerNum \subseteq DOMAIN tickerNum'
    <3> DEFINE V == Nat \ {0}
               e == seen.timer
    <3>1. IsMap(tickerNum, Ep, V) /\ n \in V /\ e \in Ep /\ tickerNum' = With(tickerNum, e, n)
      BY <1>1, <2>1, <2>3 DEF RestOK, MapsOK
    <3> HIDE DEF V, e
    <3>2. /\ IsMap(With(tickerNum, e, n), Ep, V)
          /\ DOMAIN With(tickerNum, e, n) = DOMAIN tickerNum \cup {e}
      BY <3>1, MapGrows DEF IsMap
    <3> QED
      BY <3>1, <3>2 DEF V
  <2>5. IteratorsOK'
    <3>1. /\ \A y \in Iterator : it'[y] = IF y = "cit" THEN End ELSE IF y = "hit" THEN next ELSE it[y]
          /\ it' \in [Iterator -> AnyKey \cup {End}]
      BY <1>1, <2>1, <2>2 DEF IteratorsOK, Iterator, OnHosts, OnCounters
    <3>2. IteratorsValid'
      BY <1>1, <2>1, <2>2, <2>4, <3>1
         DEF IteratorsOK, IteratorsValid, Points, Iterator, OnHosts, OnCounters, OnProbes
    <3> QED
      BY <1>1, <2>1, <3>1, <3>2 DEF IteratorsOK
  <2>6. MapsOK' /\ HistoryOK'
    BY <1>1, <2>1, <2>4, UnchangedOK DEF RestOK, MapsOK
  <2>7. RestOK' /\ pc'.timer = "tick"
    BY <1>1, <2>1, <2>6, TimerMoves DEF TimerPlace, RestOK, SeenOK
  <2>8. it'.hit = next
    BY <1>1, <2>1 DEF IteratorsOK, Iterator, OnHosts, OnCounters
  <2>9. /\ due \subseteq DOMAIN hostList \ {Self} /\ it.hit # End
        /\ \A i \in due : i > it.hit
    BY <1>1, <2>1 DEF TickLoop, Beyond, Ticking
  <2>10. TickLoop' /\ EvictLoop'
    BY <2>1, <2>2, <2>7, <2>8, <2>9
       DEF TickLoop, EvictLoop, Ahead, history, Ticking, Evicting
  <2> QED
    BY <2>5, <2>7, <2>10, PartsAfter
<1>8. CASE TickersDone
  <2>1. /\ it.hit = End /\ UNCHANGED <<maps, it, dangling, seen, history>>
        /\ pc.timer = "tick"
        /\ pc' = [pc EXCEPT !["timer"] = "sleep"] /\ fate' = fate
    BY <1>8 DEF TickersDone, Moves
  <2>2. due = {}
    BY <1>1, <2>1 DEF TickLoop, Ahead
  <2>3. IteratorsOK'
    BY <1>1, <2>1, KeepIterators DEF maps
  <2>4. RestOK' /\ pc'.timer = "sleep"
    BY <1>1, <2>1, TimerMoves, UnchangedOK DEF TimerPlace, RestOK, SeenOK
  <2> QED
    BY <2>1, <2>2, <2>3, <2>4, NoLoop, PartsAfter
       DEF history, Ticking, Evicting
<1> QED
  BY <1>4, <1>5, <1>6, <1>7, <1>8, <1>9 DEF ThirdLoop

(* A handler's step, once it is known to keep the maps and iterators.      *)
LEMMA HandlerOK ==
  ASSUME ThreadsInv, RestOK', IteratorsOK',
         pc'.timer = pc.timer, it'.hit = it.hit, it'.nit = it.nit, due' = due,
         DOMAIN hostList \subseteq DOMAIN hostList',
         doomed' \cap DOMAIN hostList' \subseteq Left,
         \A i \in doomed' \cap DOMAIN hostList' : hostList'[i] = hostList[i]
  PROVE  ThreadsInv'
<1>1. TickLoop' /\ EvictLoop'
  BY Parts, LoopsStay
<1> QED
  BY <1>1, PartsAfter

(* One that only looks at a map. *)
LEMMA HandlerLooks ==
  ASSUME ThreadsInv, NEW x \in {"rhost", "rcount"}, NEW k \in AnyKey \cup {End},
         it' = [it EXCEPT ![x] = k], dangling' = dangling \ {x},
         UNCHANGED <<maps, due, doomed>>,
         RestOK', pc'.timer = pc.timer,
         k # End => /\ x \in OnHosts => k \in DOMAIN hostList
                    /\ x \in OnCounters => k \in DOMAIN tickerNum
  PROVE  ThreadsInv'
<1>1. x \in Iterator /\ x # "hit" /\ x # "nit" /\ x \notin OnProbes
  BY DEF Iterator, OnHosts, OnCounters, OnProbes
<1>2. IteratorsOK'
  BY <1>1, LooksOK DEF maps
<1>3. it'.hit = it.hit /\ it'.nit = it.nit
  BY <1>1, Parts DEF IteratorsOK, Iterator, OnHosts, OnCounters
<1> QED
  BY <1>2, <1>3, HandlerOK DEF maps, Left

(* What a handler may find in the list, and the list when it is rewritten. *)
LEMMA HandlerHosts ==
  ASSUME ThreadsInv
  PROVE  /\ RestOK /\ IteratorsOK /\ IsMap(hostList, ID, Ep) /\ DOMAIN hostList \subseteq AnyKey
         /\ DOMAIN seen = {"timer", "receive"}
         /\ First(hostList) \in AnyKey \cup {End}
         /\ First(hostList) # End => First(hostList) \in DOMAIN hostList
         /\ \A i : /\ Find(hostList, i) \in AnyKey \cup {End}
                   /\ Find(hostList, i) # End => Find(hostList, i) \in DOMAIN hostList
<1>1. RestOK /\ IteratorsOK
  BY Parts
<1>2. IsMap(hostList, ID, Ep) /\ DOMAIN hostList \subseteq AnyKey /\ DOMAIN seen = {"timer", "receive"}
  BY <1>1, KeysOK DEF RestOK, MapsOK, SeenOK
<1> QED
  BY <1>1, <1>2, FirstOfMap, FindInMap

LEMMA AddingOK ==
  ASSUME ThreadsInv, NEW i \in ID, NEW ep \in Ep, AddNewNode(i, ep),
         pc' = [pc EXCEPT !["receive"] = "begin"], fate' = fate
  PROVE  ThreadsInv'
<1>1. /\ hostList' = With(hostList, i, ep)
      /\ it' = [it EXCEPT !["rhost"] = End]
      /\ dangling' = dangling \ {"rhost"}
      /\ seen' = [seen EXCEPT !["receive"] = End]
      /\ doomed' = doomed \ {i}
      /\ UNCHANGED <<tickerNum, probes, silence, due>>
  BY DEF AddNewNode, Sets
<1>2. RestOK /\ IteratorsOK /\ IsMap(hostList, ID, Ep)
  BY HandlerHosts
<1>3. /\ IsMap(hostList', ID, Ep)
      /\ DOMAIN hostList' = DOMAIN hostList \cup {i}
      /\ \A j \in DOMAIN hostList \ {i} : hostList'[j] = hostList[j]
  <2>1. IsMap(With(hostList, i, ep), ID, Ep)
    BY <1>2, MapGrows, Zenon
  <2>2. DOMAIN With(hostList, i, ep) = DOMAIN hostList \cup {i}
    BY DEF With
  <2>3. \A j \in DOMAIN hostList \ {i} : With(hostList, i, ep)[j] = hostList[j]
    BY DEF With
  <2> QED
    BY <1>1, <2>1, <2>2, <2>3
<1>6. "rhost" \in Iterator /\ "rhost" \in OnHosts /\ "rhost" \notin OnCounters \cup OnProbes
  BY DEF Iterator, OnHosts, OnCounters, OnProbes
<1>7. IteratorsOK'
  BY <1>1, <1>2, <1>3, <1>6, SetIterator
<1>8. MapsOK' /\ HistoryOK'
  BY <1>1, <1>2, <1>3 DEF RestOK, MapsOK, HistoryOK
<1>9. RestOK' /\ pc'.timer = pc.timer
  BY <1>1, <1>2, <1>8, ReceiveMoves DEF ReceivePlace, RestOK, SeenOK
<1>10. it'.hit = it.hit /\ it'.nit = it.nit
  BY <1>1, <1>2 DEF IteratorsOK, Iterator, OnHosts, OnCounters
<1>11. /\ doomed' \cap DOMAIN hostList' \subseteq Left
       /\ \A j \in doomed' \cap DOMAIN hostList' : hostList'[j] = hostList[j]
  BY <1>1, <1>3 DEF Left
<1> QED
  BY <1>1, <1>3, <1>7, <1>9, <1>10, <1>11, HandlerOK

(* An entry is rewritten in place, and is doomed no more.                  *)
LEMMA RewritingOK ==
  ASSUME ThreadsInv, NEW i, NEW ep \in Ep, NEW to \in {"idle", "begin"},
         hostList' = [hostList EXCEPT ![i] = ep],
         \/ UNCHANGED <<it, dangling>>
         \/ it' = [it EXCEPT !["rhost"] = End] /\ dangling' = dangling \ {"rhost"},
         seen' = [seen EXCEPT !["receive"] = End],
         doomed' = doomed \ {i},
         UNCHANGED <<tickerNum, probes, silence, due>>,
         pc' = [pc EXCEPT !["receive"] = to], fate' = fate
  PROVE  ThreadsInv'
<1>1. RestOK /\ IteratorsOK /\ IsMap(hostList, ID, Ep)
  BY HandlerHosts
<1>2. /\ IsMap(hostList', ID, Ep)
      /\ DOMAIN hostList' = DOMAIN hostList
      /\ \A j \in DOMAIN hostList \ {i} : hostList'[j] = hostList[j]
  BY <1>1, MapChanges DEF IsMap
<1>3. "rhost" \in Iterator
  BY DEF Iterator, OnHosts
<1>4. IteratorsOK'
  BY <1>1, <1>2, <1>3, SetIterator, KeepIterators
<1>5. MapsOK' /\ HistoryOK'
  BY <1>1, <1>2 DEF RestOK, MapsOK, HistoryOK
<1>6. RestOK' /\ pc'.timer = pc.timer
  BY <1>1, <1>5, ReceiveMoves DEF ReceivePlace, RestOK, SeenOK
<1>7. it'.hit = it.hit /\ it'.nit = it.nit
  BY <1>1 DEF IteratorsOK, Iterator, OnHosts, OnCounters
<1>8. /\ doomed' \cap DOMAIN hostList' \subseteq Left
      /\ \A j \in doomed' \cap DOMAIN hostList' : hostList'[j] = hostList[j]
  BY <1>2 DEF Left
<1> QED
  BY <1>2, <1>4, <1>6, <1>7, <1>8, HandlerOK

LEMMA FindingSteps ==
  ThreadsInv /\ (\E i \in ID \ {Self} : FindSender(i) \/ FindAnswering(i)) => ThreadsInv'
<1> SUFFICES ASSUME ThreadsInv, NEW i \in ID, FindSender(i) \/ FindAnswering(i)
             PROVE  ThreadsInv'
  OBVIOUS
<1> DEFINE f == Find(hostList, i)
<1>1. /\ RestOK /\ f \in AnyKey \cup {End} /\ (f # End => f \in DOMAIN hostList)
      /\ DOMAIN seen = {"timer", "receive"}
  BY HandlerHosts
<1>2. /\ it' = [it EXCEPT !["rhost"] = f] /\ dangling' = dangling \ {"rhost"}
      /\ UNCHANGED <<maps, history>> /\ fate' = fate
  BY DEF FindSender, FindAnswering, Moves, Sets
<1> HIDE DEF f
<1>3. MapsOK' /\ HistoryOK'
  BY <1>1, <1>2, UnchangedOK DEF RestOK
<1>4. RestOK' /\ pc'.timer = pc.timer
  <2>1. /\ \E to \in {"put", "answer"} : pc' = [pc EXCEPT !["receive"] = to]
        /\ DOMAIN seen' = {"timer", "receive"} /\ seen'.timer = seen.timer
        /\ seen'.receive = i
    BY <1>1 DEF FindSender, FindAnswering, Moves
  <2> QED
    BY <1>1, <1>2, <1>3, <2>1, ReceiveMoves DEF ReceivePlace
<1> QED
  BY <1>1, <1>2, <1>4, HandlerLooks DEF history, OnCounters

LEMMA FilingSteps ==
  ThreadsInv /\ (\E i \in ID, k \in Key : FileProbe(k, i)) => ThreadsInv'
<1> SUFFICES ASSUME ThreadsInv, NEW i \in ID, NEW k \in Key, FileProbe(k, i)
             PROVE  ThreadsInv'
  OBVIOUS
<1>1. /\ probes' = With(probes, k, i)
      /\ UNCHANGED <<hostList, tickerNum, it, dangling, seen, history>>
      /\ pc' = [pc EXCEPT !["receive"] = "idle"] /\ fate' = fate
  BY DEF FileProbe, Moves
<1>2. RestOK /\ IteratorsOK /\ IsMap(probes, Key, ID)
  BY HandlerHosts DEF RestOK, MapsOK
<1>3. IsMap(probes', Key, ID)
  BY <1>1, <1>2, MapGrows, Zenon
<1>4. DOMAIN probes' = DOMAIN probes \cup {k}
  BY <1>1 DEF With
<1>5. IteratorsOK'
  BY <1>1, <1>2, <1>4, KeepIterators
<1>6. MapsOK' /\ HistoryOK'
  BY <1>1, <1>2, <1>3, UnchangedOK DEF RestOK, MapsOK
<1>7. RestOK' /\ pc'.timer = pc.timer
  BY <1>1, <1>2, <1>6, ReceiveMoves DEF ReceivePlace, RestOK, SeenOK
<1> QED
  BY <1>1, <1>5, <1>7, HandlerOK DEF history, Left

LEMMA EntrySteps ==
  ThreadsInv /\ ((\E ep \in Ep : Assign(ep) \/ AddSender(ep)) \/ AddSelf) => ThreadsInv'
<1>1. ASSUME ThreadsInv, NEW ep \in Ep, Assign(ep) PROVE ThreadsInv'
  <2> DEFINE i == it.rhost
  <2>1. /\ hostList' = [hostList EXCEPT ![i] = ep]
        /\ it' = [it EXCEPT !["rhost"] = End] /\ dangling' = dangling \ {"rhost"}
        /\ seen' = [seen EXCEPT !["receive"] = End] /\ doomed' = doomed \ {i}
        /\ UNCHANGED <<tickerNum, probes, silence, due>>
        /\ pc' = [pc EXCEPT !["receive"] = "idle"] /\ fate' = fate
    BY <1>1 DEF Assign, Moves, Sets
  <2> HIDE DEF i
  <2> QED
    BY <1>1, <2>1, RewritingOK
<1>2. ASSUME ThreadsInv, NEW ep \in Ep, AddSender(ep) PROVE ThreadsInv'
  <2> DEFINE i == seen.receive
  <2>1. /\ AddNewNode(i, ep)
        /\ pc.receive = "put"
        /\ pc' = [pc EXCEPT !["receive"] = "begin"] /\ fate' = fate
    BY <1>2 DEF AddSender, Moves
  <2>2. i \in ID
    BY <1>2, <2>1, Parts DEF RestOK, SeenOK
  <2> HIDE DEF i
  <2> QED
    BY <1>2, <2>1, <2>2, AddingOK
<1>3. ASSUME ThreadsInv, AddSelf PROVE ThreadsInv'
  <2>1. /\ AddNewNode(Self, SelfEp)
        /\ pc' = [pc EXCEPT !["receive"] = "begin"] /\ fate' = fate
    BY <1>3 DEF AddSelf, Moves
  <2> QED
    BY <1>3, <2>1, AddingOK, ThreadsAssumption
<1> QED
  BY <1>1, <1>2, <1>3

LEMMA CounterSteps ==
  ThreadsInv /\ ((\E ep \in Ep : HearFrom(ep)) \/ Reset) => ThreadsInv'
<1>1. ASSUME ThreadsInv, NEW ep \in Ep, HearFrom(ep) PROVE ThreadsInv'
  <2> DEFINE c == Find(tickerNum, ep)
  <2>1. /\ it' = [it EXCEPT !["rcount"] = c] /\ dangling' = dangling \ {"rcount"}
        /\ silence' = [silence EXCEPT ![ep] = 0]
        /\ UNCHANGED <<maps, seen, due, doomed>>
        /\ pc' = [pc EXCEPT !["receive"] = "reset"] /\ fate' = fate
    BY <1>1 DEF HearFrom, Moves, Sets
  <2>2. RestOK /\ DOMAIN tickerNum \subseteq AnyKey
    BY <1>1, HandlerHosts, KeysOK DEF RestOK
  <2>3. (c # End => c \in DOMAIN tickerNum) /\ c \in AnyKey \cup {End}
    BY <2>2, FindInMap
  <2> HIDE DEF c
  <2>4. MapsOK' /\ HistoryOK'
    BY <2>1, <2>2, UnchangedOK, ThreadsAssumption DEF RestOK, HistoryOK
  <2>5. RestOK' /\ pc'.timer = pc.timer
    BY <2>1, <2>2, <2>4, ReceiveMoves DEF ReceivePlace, RestOK, SeenOK
  <2> QED
    BY <1>1, <2>1, <2>3, <2>5, HandlerLooks DEF OnHosts
<1>2. ASSUME ThreadsInv, Reset PROVE ThreadsInv'
  <2> DEFINE c == it.rcount
  <2>1. /\ tickerNum' = Without(tickerNum, c)
        /\ it' = [it EXCEPT !["rcount"] = End]
        /\ dangling' = (dangling \cup {y \in OnCounters : it[y] = c /\ c # End}) \ {"rcount"}
        /\ UNCHANGED <<hostList, probes, seen, history>>
        /\ pc' = [pc EXCEPT !["receive"] = "idle"] /\ fate' = fate
    BY <1>2 DEF Reset, Moves, Erases
  <2> HIDE DEF c
  <2>2. RestOK /\ IteratorsOK /\ IsMap(tickerNum, Ep, Nat \ {0})
    BY <1>2, HandlerHosts DEF RestOK, MapsOK
  <2>3. IsMap(tickerNum', Ep, Nat \ {0}) /\ DOMAIN tickerNum' = DOMAIN tickerNum \ {c}
    BY <2>1, <2>2, MapChanges
  <2>4. "rcount" \in OnCounters /\ End \in AnyKey \cup {End}
    BY DEF OnCounters
  <2>5. IteratorsOK'
    BY <2>1, <2>2, <2>3, <2>4, EraseCount
  <2>6. MapsOK' /\ HistoryOK'
    BY <2>1, <2>2, <2>3, UnchangedOK DEF RestOK, MapsOK
  <2>7. RestOK' /\ pc'.timer = pc.timer
    BY <2>1, <2>2, <2>6, ReceiveMoves DEF ReceivePlace, RestOK, SeenOK
  <2>8. it'.hit = it.hit /\ it'.nit = it.nit
    BY <2>1, <2>2 DEF IteratorsOK, Iterator, OnHosts, OnCounters
  <2> QED
    BY <1>2, <2>1, <2>5, <2>7, <2>8, HandlerOK DEF history, Left
<1> QED
  BY <1>1, <1>2

LEMMA WalkingSteps == ThreadsInv /\ (Walk \/ WalkOn) => ThreadsInv'
<1> SUFFICES ASSUME ThreadsInv, Walk \/ WalkOn PROVE ThreadsInv'
  OBVIOUS
<1>1. /\ RestOK /\ IteratorsOK /\ DOMAIN hostList \subseteq AnyKey
      /\ DOMAIN seen = {"timer", "receive"}
      /\ First(hostList) \in AnyKey \cup {End}
      /\ First(hostList) # End => First(hostList) \in DOMAIN hostList
  BY HandlerHosts
<1>2. \E k \in AnyKey \cup {End}, to \in {"idle", "walk"} :
        /\ it' = [it EXCEPT !["rhost"] = k] /\ dangling' = dangling \ {"rhost"}
        /\ k # End => k \in DOMAIN hostList
        /\ UNCHANGED <<maps, seen, history>>
        /\ pc' = [pc EXCEPT !["receive"] = to] /\ fate' = fate
  <2>1. CASE Walk
    BY <1>1, <2>1 DEF Walk, Looks, Moves, Sets
  <2>2. CASE WalkOn
    <3> DEFINE next == IF it.rhost = End THEN End ELSE After(hostList, it.rhost)
               to == IF it.rhost = End THEN "idle" ELSE "walk"
    <3>1. it.rhost \in AnyKey \cup {End}
      BY <1>1 DEF IteratorsOK, Iterator, OnHosts
    <3>2. next \in AnyKey \cup {End} /\ (next # End => next \in DOMAIN hostList)
      BY <1>1, <3>1, NextOfMap
    <3>3. /\ it' = [it EXCEPT !["rhost"] = next] /\ dangling' = dangling \ {"rhost"}
          /\ UNCHANGED <<maps, seen, history>>
          /\ pc' = [pc EXCEPT !["receive"] = to] /\ fate' = fate
          /\ to \in {"idle", "walk"}
      BY <2>2 DEF WalkOn, Looks, Moves, Sets
    <3> HIDE DEF next, to
    <3> QED
      BY <3>2, <3>3
  <2> QED
    BY <2>1, <2>2
<1> PICK k \in AnyKey \cup {End}, to \in {"idle", "walk"} :
        /\ it' = [it EXCEPT !["rhost"] = k] /\ dangling' = dangling \ {"rhost"}
        /\ k # End => k \in DOMAIN hostList
        /\ UNCHANGED <<maps, seen, history>>
        /\ pc' = [pc EXCEPT !["receive"] = to] /\ fate' = fate
  BY <1>2
<1>3. RestOK' /\ pc'.timer = pc.timer
  BY <1>1, ReceiveMoves, UnchangedOK DEF ReceivePlace, RestOK
<1> QED
  BY <1>3, HandlerLooks DEF history, OnCounters

LEMMA AnswerSteps == ThreadsInv /\ (Unknown \/ ReadAnswering \/ AssignNonfilter) => ThreadsInv'
<1>1. ASSUME ThreadsInv, Unknown PROVE ThreadsInv'
  <2>1. /\ UNCHANGED <<maps, it, dangling, history>>
        /\ seen' = [seen EXCEPT !["receive"] = End]
        /\ pc' = [pc EXCEPT !["receive"] = "begin"] /\ fate' = fate
    BY <1>1 DEF Unknown, Moves
  <2>2. RestOK /\ IteratorsOK
    BY <1>1, Parts
  <2>3. RestOK' /\ pc'.timer = pc.timer
    BY <2>1, <2>2, ReceiveMoves, UnchangedOK DEF ReceivePlace, RestOK, SeenOK
  <2>4. IteratorsOK'
    BY <2>1, <2>2, KeepIterators DEF maps
  <2> QED
    BY <1>1, <2>1, <2>3, <2>4, HandlerOK DEF maps, history, Left
<1>2. ASSUME ThreadsInv, ReadAnswering PROVE ThreadsInv'
  <2> DEFINE r == [id |-> seen.receive, ep |-> hostList[it.rhost]]
  <2>1. /\ it' = [it EXCEPT !["rhost"] = End] /\ dangling' = dangling \ {"rhost"}
        /\ UNCHANGED <<maps, history>>
        /\ pc' = [pc EXCEPT !["receive"] = "at"] /\ fate' = fate
        /\ seen' = [seen EXCEPT !["receive"] = r]
        /\ pc.receive = "answer" /\ it.rhost # End /\ "rhost" \notin dangling
    BY <1>2 DEF ReadAnswering, Moves, Sets, Uses
  <2>2. RestOK /\ IteratorsOK /\ IsMap(hostList, ID, Ep) /\ DOMAIN seen = {"timer", "receive"}
    BY <1>2, HandlerHosts
  <2>3. r \in [id : ID, ep : Ep]
    <3>1. hostList[it.rhost] \in Ep
      BY <2>1, <2>2 DEF IteratorsOK, IteratorsValid, Points, OnHosts, IsMap
    <3>2. seen.receive \in ID
      BY <2>1, <2>2 DEF RestOK, SeenOK
    <3> QED
      BY <3>1, <3>2
  <2> HIDE DEF r
  <2>4. DOMAIN seen' = {"timer", "receive"} /\ seen'.timer = seen.timer /\ seen'.receive = r
    BY <2>1, <2>2
  <2>5. RestOK' /\ pc'.timer = pc.timer
    BY <2>1, <2>2, <2>3, <2>4, ReceiveMoves, UnchangedOK DEF ReceivePlace, RestOK
  <2> QED
    BY <1>2, <2>1, <2>5, HandlerLooks DEF history
<1>3. ASSUME ThreadsInv, AssignNonfilter PROVE ThreadsInv'
  <2> DEFINE i == seen.receive.id
             e == seen.receive.ep
  <2>1. /\ hostList' = [hostList EXCEPT ![i] = e]
        /\ UNCHANGED <<it, dangling>>
        /\ seen' = [seen EXCEPT !["receive"] = End]
        /\ doomed' = doomed \ {i}
        /\ UNCHANGED <<tickerNum, probes, silence, due>>
        /\ pc' = [pc EXCEPT !["receive"] = "begin"] /\ fate' = fate
        /\ pc.receive = "at"
    BY <1>3 DEF AssignNonfilter, Moves
  <2>2. e \in Ep
    <3>1. seen.receive \in [id : ID, ep : Ep]
      BY <1>3, <2>1, HandlerHosts DEF RestOK, SeenOK
    <3> QED
      BY <3>1
  <2> HIDE DEF i, e
  <2> QED
    BY <1>3, <2>1, <2>2, RewritingOK
<1> QED
  BY <1>1, <1>2, <1>3

(* Where the process ends: nothing changes but its fate. *)
LEMMA EndingSteps ==
  ThreadsInv /\ (Thrown \/ (\E t \in DOMAIN pc : Undefined(t)) \/ UNCHANGED vars) => ThreadsInv'
<1> SUFFICES ASSUME ThreadsInv, Thrown \/ (\E t \in DOMAIN pc : Undefined(t)) \/ UNCHANGED vars
             PROVE  ThreadsInv'
  OBVIOUS
<1>1. UNCHANGED <<maps, pc, it, dangling, seen, history>> /\ fate' \in {fate, "aborted", "undefined"}
  BY DEF Thrown, Undefined, vars
<1>2. RestOK /\ IteratorsOK
  BY Parts
<1>3. RestOK'
  BY <1>1, <1>2, UnchangedOK DEF RestOK, SeenOK
<1>4. IteratorsOK'
  BY <1>1, <1>2, KeepIterators DEF maps
<1> QED
  BY <1>1, <1>3, <1>4, HandlerOK DEF maps, history, Left

-----------------------------------------------------------------------------
LEMMA ThreadsInit == Init => ThreadsInv
<1> SUFFICES ASSUME Init PROVE ThreadsInv
  OBVIOUS
<1>1. /\ MapsOK /\ HistoryOK /\ SeenOK
      /\ pc = [timer |-> "sleep", receive |-> "idle"] /\ fate = "running"
  BY ThreadsAssumption DEF Init, MapsOK, IsMap, HistoryOK, SeenOK
<1>2. RestOK
  BY <1>1 DEF RestOK, TimerPlace, ReceivePlace
<1>3. IteratorsOK
  BY DEF Init, IteratorsOK, IteratorsValid, Points, Iterator, OnHosts, OnCounters, OnProbes
<1>4. TickLoop /\ EvictLoop
  BY <1>1 DEF Init, TickLoop, EvictLoop, Ticking, Evicting
<1> QED
  BY <1>2, <1>3, <1>4, Parts

LEMMA ThreadsSteps == ThreadsInv /\ [Next]_vars => ThreadsInv'
BY FirstLoopSteps, SecondLoopSteps, ThirdLoopSteps, FindingSteps, FilingSteps, EntrySteps,
   CounterSteps, WalkingSteps, AnswerSteps, EndingSteps
   DEF Next, Handler

(* Of any two threads of a process, the invariant of their loops.          *)
THEOREM ThreadsInvariant == Spec => []ThreadsInv
<1>1. Init => ThreadsInv
  BY ThreadsInit
<1>2. ThreadsInv /\ [Next]_vars => ThreadsInv'
  BY ThreadsSteps
<1> QED
  BY <1>1, <1>2, PTL DEF Spec

(* The types of the maps, the threads and what they have parsed.           *)
THEOREM ThreadsTypes == Spec => []TypeOK
<1>1. ThreadsInv => TypeOK
  BY DEF ThreadsInv
<1> QED
  BY <1>1, ThreadsInvariant, PTL

(* Whatever the handlers do in between, the timer's loops over _HostList   *)
(* never use an iterator whose entry is gone.                              *)
THEOREM HostIteratorStaysValid == Spec => []TimerHostsValid
<1>1. ThreadsInv => TimerHostsValid
  BY DEF ThreadsInv, TimerHostsValid, IteratorsValid, Points, OnHosts
<1> QED
  BY <1>1, ThreadsInvariant, PTL

(* A round sends a ticker to everyone listed when its third loop began:    *)
(* entries added or rewritten meanwhile do not make the loop miss one.     *)
THEOREM RoundLeavesNobodyOut == Spec => []EveryPeerTicked
<1>1. ThreadsInv => EveryPeerTicked
  BY DEF ThreadsInv, EveryPeerTicked, TickLoop, Ticking
<1> QED
  BY <1>1, ThreadsInvariant, PTL

(* The walk for a dead endpoint erases every entry found there that no     *)
(* handler has renewed since.                                              *)
THEOREM DeadPeersAreErased == Spec => []DeadPeersGone
<1>1. ThreadsInv => DeadPeersGone
  BY DEF ThreadsInv, DeadPeersGone, EvictLoop, Ahead, Left, Evicting
<1> QED
  BY <1>1, ThreadsInvariant, PTL

-----------------------------------------------------------------------------
(***************************************************************************)
(* Counters against what was sent.  An endpoint is excused while the       *)
(* handler that heard from it is about to erase its counter; the timer has *)
(* already sent the ticker it is about to look for and to count, and where *)
(* it is about to count, it holds the counter as it is now, or one that is *)
(* gone.                                                                   *)
(***************************************************************************)
Excused(e) == pc.receive = "reset" /\ it.rcount = e

Within(e, k) == tickerNum[e] <= silence[e] + k \/ silence[e] = MaxSilence \/ Excused(e)

CountInv ==
  /\ \A e \in DOMAIN tickerNum : Within(e, 1)
  /\ pc.timer = "find" /\ seen.timer \in DOMAIN tickerNum => Within(seen.timer, 0)
  /\ pc.timer = "count" /\ "cit" \notin dangling => it.cit = Find(tickerNum, seen.timer)
  /\ pc.timer = "count" /\ "cit" \notin dangling /\ it.cit # End => Within(it.cit, 0)

LEMMA CountsStay ==
  ASSUME CountInv, UNCHANGED <<tickerNum, silence>>,
         it'.rcount = it.rcount, it'.cit = it.cit,
         "cit" \in dangling => "cit" \in dangling',
         pc.receive = "reset" => pc'.receive = "reset",
         pc'.timer \in {"find", "count"} => pc'.timer = pc.timer /\ seen'.timer = seen.timer
  PROVE  CountInv'
<1>1. \A e, k : Within(e, k) => Within(e, k)'
  BY DEF Within, Excused
<1> QED
  BY <1>1 DEF CountInv

(* What the types say of the fields that count. *)
LEMMA CountFields ==
  ASSUME ThreadsInv
  PROVE  /\ DOMAIN pc = {"timer", "receive"} /\ DOMAIN seen = {"timer", "receive"}
         /\ DOMAIN it = Iterator /\ {"cit", "rcount"} \subseteq Iterator
         /\ DOMAIN silence = Ep /\ DOMAIN tickerNum \subseteq Ep
         /\ \A e \in Ep : silence[e] \in Nat
         /\ \A e \in DOMAIN tickerNum : tickerNum[e] \in Nat
         /\ End \notin Ep
BY ThreadsAssumption
   DEF ThreadsInv, TypeOK, ThreadsOK, SeenOK, MapsOK, IsMap, HistoryOK, Iterator, OnCounters

LEMMA OtherTimerSteps ==
  ASSUME ThreadsInv, CountInv,
         \/ FirstLoop \/ ProbesDone \/ Alive \/ Dead \/ AtDead \/ Evict \/ Elsewhere
         \/ CountersDone \/ SkipSelf \/ TickersDone
  PROVE  CountInv'
<1>1. UNCHANGED <<tickerNum, silence>>
  BY DEF FirstLoop, WakeUp, NotExpired, FindProbed, ReadProbed, AssignFilter, Expire,
         ProbesDone, Alive, Dead, AtDead, Evict, Elsewhere, CountersDone, SkipSelf, TickersDone,
         Looks, maps, history
<1>2. /\ \E to \in {"probes", "verdict", "assign", "expire", "counters", "evict", "erase",
                    "tick", "sleep"} : pc' = [pc EXCEPT !["timer"] = to]
      /\ it' = it \/ \E x \in {"fit", "hit", "nit"} : \E k : it' = [it EXCEPT ![x] = k]
      /\ "cit" \in dangling => "cit" \in dangling'
  BY DEF FirstLoop, WakeUp, NotExpired, FindProbed, ReadProbed, AssignFilter, Expire,
         ProbesDone, Alive, Dead, AtDead, Evict, Elsewhere, CountersDone, SkipSelf, TickersDone,
         Moves, Looks, Sets, Erases, history
<1>3. /\ pc'.timer \notin {"find", "count"} /\ pc'.receive = pc.receive
      /\ it'.cit = it.cit /\ it'.rcount = it.rcount
  BY <1>2, CountFields
<1> QED
  BY <1>1, <1>2, <1>3, CountsStay

LEMMA OtherHandlerSteps ==
  ASSUME ThreadsInv, CountInv,
         \/ \E i \in ID : FindSender(i) \/ FindAnswering(i) \/ \E k \in Key : FileProbe(k, i)
         \/ \E ep \in Ep : Assign(ep) \/ AddSender(ep)
         \/ AddSelf \/ Walk \/ WalkOn \/ Unknown \/ ReadAnswering \/ AssignNonfilter
  PROVE  CountInv'
<1>1. UNCHANGED <<tickerNum, silence>>
  BY DEF FindSender, FileProbe, FindAnswering, Assign, AddSender, AddNewNode, AddSelf,
         Walk, WalkOn, Unknown, ReadAnswering, AssignNonfilter, Looks, maps, history
<1>2. /\ \E to : pc' = [pc EXCEPT !["receive"] = to]
      /\ pc.receive # "reset"
      /\ it' = it \/ \E k : it' = [it EXCEPT !["rhost"] = k]
      /\ "cit" \in dangling => "cit" \in dangling'
  BY DEF FindSender, FileProbe, FindAnswering, Assign, AddSender, AddNewNode, AddSelf,
         Walk, WalkOn, Unknown, ReadAnswering, AssignNonfilter, Moves, Looks, Sets, Erases
<1>3. seen' = seen \/ \E r : seen' = [seen EXCEPT !["receive"] = r]
  BY DEF FindSender, FileProbe, FindAnswering, Assign, AddSender, AddNewNode, AddSelf,
         Walk, WalkOn, Unknown, ReadAnswering, AssignNonfilter, Looks
<1>4. /\ pc'.timer = pc.timer /\ seen'.timer = seen.timer
      /\ it'.cit = it.cit /\ it'.rcount = it.rcount
  BY <1>2, <1>3, CountFields
<1> QED
  BY <1>1, <1>2, <1>4, CountsStay

(* A counter is erased through another iterator, and with it an excuse.    *)
LEMMA CounterErased ==
  ASSUME ThreadsInv, CountInv, NEW x \in {"nit", "rcount"},
         tickerNum' = Without(tickerNum, it[x]), UNCHANGED silence,
         NEW next, Erases(x, it[x], OnCounters, next),
         pc'.timer \in {"find", "count"} => pc'.timer = pc.timer /\ seen'.timer = seen.timer,
         \/ x = "nit" /\ pc'.receive = pc.receive
         \/ x = "rcount"
  PROVE  CountInv'
<1> DEFINE d == it[x]
<1>1. /\ DOMAIN tickerNum' = DOMAIN tickerNum \ {d}
      /\ \A e \in DOMAIN tickerNum' : tickerNum'[e] = tickerNum[e]
  BY DEF Without, Restrict
<1>2. it'.cit = it.cit /\ (x = "nit" => it'.rcount = it.rcount)
  BY CountFields DEF Erases
<1>3. "cit" \notin dangling' => "cit" \notin dangling /\ (it.cit = End \/ it.cit # d)
  BY DEF Erases, OnCounters
<1>4. ASSUME NEW e \in DOMAIN tickerNum \ {d}, NEW k, Within(e, k) PROVE Within(e, k)'
  BY <1>1, <1>2, <1>4 DEF Within, Excused
<1>5. \A e \in DOMAIN tickerNum' : Within(e, 1)'
  BY <1>1, <1>4 DEF CountInv
<1>6. ASSUME pc'.timer = "count", "cit" \notin dangling'
      PROVE  /\ it'.cit = Find(tickerNum, seen.timer)'
             /\ it'.cit # End => Within(it.cit, 0)'
  <2>1. it.cit = Find(tickerNum, seen.timer) /\ (it.cit # End => Within(it.cit, 0))
    BY <1>3, <1>6 DEF CountInv
  <2>2. it.cit # End => it.cit \in DOMAIN tickerNum \ {d} /\ it.cit = seen.timer
    BY <1>3, <1>6, <2>1 DEF Find
  <2>3. it.cit = End => seen.timer \notin DOMAIN tickerNum
    BY <2>1, CountFields DEF Find
  <2> QED
    BY <1>1, <1>2, <1>4, <1>6, <2>1, <2>2, <2>3 DEF Find
<1>7. ASSUME pc'.timer = "find", seen'.timer \in DOMAIN tickerNum' PROVE Within(seen.timer, 0)'
  BY <1>1, <1>4, <1>7 DEF CountInv
<1> QED
  BY <1>2, <1>5, <1>6, <1>7 DEF CountInv

LEMMA ErasingCounts ==
  ASSUME ThreadsInv, CountInv, EraseCounter \/ Reset
  PROVE  CountInv'
<1>1. CASE EraseCounter
  <2>1. pc'.timer = "counters" /\ pc'.receive = pc.receive
    BY <1>1, CountFields DEF EraseCounter, Moves
  <2> QED
    BY <1>1, <2>1, CounterErased DEF EraseCounter
<1>2. CASE Reset
  <2>1. pc'.timer = pc.timer /\ seen' = seen /\ UNCHANGED silence
    BY <1>2, CountFields DEF Reset, Moves, history
  <2> QED
    BY <1>2, <2>1, CounterErased DEF Reset
<1> QED
  BY <1>1, <1>2

(* The ticker is sent, and noted as sent, before it is counted.            *)
LEMMA SendingCounts == ASSUME ThreadsInv, CountInv, SendTicker PROVE CountInv'
<1> DEFINE d == hostList[it.hit]
<1>1. /\ UNCHANGED <<tickerNum, it>>
      /\ silence' = [silence EXCEPT ![d] = IF @ = MaxSilence THEN @ ELSE @ + 1]
      /\ pc' = [pc EXCEPT !["timer"] = "find"]
      /\ seen' = [seen EXCEPT !["timer"] = d]
  BY DEF SendTicker, Moves, maps
<1>2. pc'.timer = "find" /\ pc'.receive = pc.receive /\ seen'.timer = d
  BY <1>1, CountFields
<1> HIDE DEF d
<1>3. /\ \A e \in Ep \ {d} : silence'[e] = silence[e]
      /\ d \in Ep => silence'[d] = silence[d] + 1 \/ silence'[d] = MaxSilence
  BY <1>1, CountFields
<1>4. ASSUME NEW e \in DOMAIN tickerNum
      PROVE  Within(e, 1)' /\ (e = d => Within(e, 0)')
  <2>1. e \in Ep /\ silence[e] \in Nat /\ tickerNum[e] \in Nat /\ Within(e, 1)
    BY CountFields DEF CountInv
  <2>2. Excused(e) => Excused(e)'
    BY <1>1, <1>2 DEF Excused
  <2>3. CASE e = d
    BY <1>1, <1>3, <2>1, <2>2, <2>3 DEF Within
  <2>4. CASE e # d
    BY <1>1, <1>3, <2>1, <2>2, <2>4 DEF Within
  <2> QED
    BY <2>3, <2>4
<1> QED
  BY <1>1, <1>2, <1>4 DEF CountInv

(* What is sent meanwhile counts for the counter that is found, if any is. *)
LEMMA FindingCounts == ASSUME ThreadsInv, CountInv, FindTicker PROVE CountInv'
<1>1. /\ it' = [it EXCEPT !["cit"] = Find(tickerNum, seen.timer)]
      /\ UNCHANGED <<tickerNum, silence, seen>>
      /\ pc.timer = "find" /\ pc' = [pc EXCEPT !["timer"] = "count"]
  BY DEF FindTicker, Moves, Looks, Sets, maps, history
<1>2. /\ it'.cit = Find(tickerNum, seen.timer) /\ it'.rcount = it.rcount
      /\ pc'.timer = "count" /\ pc'.receive = pc.receive
  BY <1>1, CountFields
<1>3. \A e, k : Within(e, k) => Within(e, k)'
  BY <1>1, <1>2 DEF Within, Excused
<1>4. it'.cit # End => it'.cit = seen.timer /\ seen.timer \in DOMAIN tickerNum
  BY <1>2 DEF Find
<1> QED
  BY <1>1, <1>2, <1>3, <1>4 DEF CountInv

LEMMA CountingCounts == ASSUME ThreadsInv, CountInv, Count PROVE CountInv'
<1> DEFINE c == IF it.cit = End THEN 1 ELSE tickerNum[it.cit] + 1
<1>1. seen.timer \in Ep
  BY DEF Count, Moves, ThreadsInv, TypeOK, SeenOK
<1> PICK d \in Ep : d = seen.timer
  BY <1>1
<1>2. /\ tickerNum' = With(tickerNum, d, c)
      /\ it' = [it EXCEPT !["cit"] = End, !["hit"] = After(hostList, it.hit)]
      /\ pc' = [pc EXCEPT !["timer"] = "tick"]
      /\ pc.timer = "count" /\ "cit" \notin dangling
      /\ UNCHANGED silence
  BY DEF Count, Moves, Uses, history
<1>3. it'.rcount = it.rcount /\ pc'.receive = pc.receive /\ pc'.timer = "tick"
  BY <1>2, CountFields
<1>4. /\ it.cit = Find(tickerNum, d)
      /\ it.cit # End => Within(it.cit, 0)
  BY <1>2 DEF CountInv
<1>5. it.cit # End => it.cit = d /\ d \in DOMAIN tickerNum
  BY <1>4 DEF Find
<1>6. Within(d, 1)'
  <2>1. tickerNum'[d] = c
    BY <1>2 DEF With
  <2>2. silence[d] \in Nat /\ (d \in DOMAIN tickerNum => tickerNum[d] \in Nat)
    BY CountFields
  <2>3. CASE it.cit = End
    <3>1. tickerNum'[d] = 1
      BY <2>1, <2>3
    <3> QED
      BY <1>2, <2>2, <3>1 DEF Within
  <2>4. CASE it.cit # End
    <3>1. tickerNum'[d] = tickerNum[d] + 1 /\ Within(d, 0)
      BY <1>4, <1>5, <2>1, <2>4
    <3>2. Excused(d) => Excused(d)'
      BY <1>3 DEF Excused
    <3> QED
      BY <1>2, <1>5, <2>2, <2>4, <3>1, <3>2 DEF Within
  <2> QED
    BY <2>3, <2>4
<1>7. \A e \in DOMAIN tickerNum' : Within(e, 1)'
  <2> SUFFICES ASSUME NEW e \in DOMAIN tickerNum', e # d PROVE Within(e, 1)'
    BY <1>6
  <2>1. e \in DOMAIN tickerNum /\ tickerNum'[e] = tickerNum[e]
    BY <1>2 DEF With
  <2>2. Within(e, 1)
    BY <2>1 DEF CountInv
  <2> QED
    BY <1>2, <1>3, <2>1, <2>2 DEF Within, Excused
<1> QED
  BY <1>3, <1>7 DEF CountInv

(* What is heard of an endpoint excuses it until its counter is erased.    *)
LEMMA HearingCounts ==
  ASSUME ThreadsInv, CountInv, NEW ep \in Ep, HearFrom(ep)
  PROVE  CountInv'
<1>1. /\ it' = [it EXCEPT !["rcount"] = Find(tickerNum, ep)]
      /\ dangling' = dangling \ {"rcount"}
      /\ silence' = [silence EXCEPT ![ep] = 0]
      /\ pc.receive = "idle" /\ pc' = [pc EXCEPT !["receive"] = "reset"]
      /\ UNCHANGED <<tickerNum, seen>>
  BY DEF HearFrom, Moves, Sets, maps
<1>2. /\ it'.cit = it.cit /\ it'.rcount = Find(tickerNum, ep)
      /\ pc'.timer = pc.timer /\ pc'.receive = "reset"
      /\ \A e \in Ep \ {ep} : silence'[e] = silence[e]
  BY <1>1, CountFields
<1>3. ASSUME NEW e \in DOMAIN tickerNum, NEW k, Within(e, k) PROVE Within(e, k)'
  <2>1. CASE e = ep
    BY <1>2, <2>1 DEF Within, Excused, Find
  <2>2. CASE e # ep
    <3>1. ~ Excused(e) /\ e \in Ep
      BY <1>1, CountFields DEF Excused
    <3> QED
      BY <1>1, <1>2, <1>3, <2>2, <3>1 DEF Within
  <2> QED
    BY <2>1, <2>2
<1>4. "cit" \notin dangling' => "cit" \notin dangling
  BY <1>1
<1>5. ASSUME pc.timer = "count", "cit" \notin dangling, it.cit # End
      PROVE  it.cit \in DOMAIN tickerNum /\ Within(it.cit, 0)
  BY <1>5 DEF CountInv, Find
<1> QED
  BY <1>1, <1>2, <1>3, <1>4, <1>5 DEF CountInv

LEMMA CountSteps == ThreadsInv /\ CountInv /\ [Next]_vars => CountInv'
<1> SUFFICES ASSUME ThreadsInv, CountInv, [Next]_vars PROVE CountInv'
  OBVIOUS
<1>1. CASE Thrown \/ (\E t \in DOMAIN pc : Undefined(t)) \/ UNCHANGED vars
  <2>1. UNCHANGED <<maps, pc, it, dangling, seen, silence>>
    BY <1>1 DEF Thrown, Undefined, vars, history
  <2> QED
    BY <2>1, CountsStay DEF maps
<1>2. CASE FirstLoop \/ SecondLoop \/ ThirdLoop
  BY <1>2, OtherTimerSteps, ErasingCounts, SendingCounts, FindingCounts,
     CountingCounts
     DEF SecondLoop, ThirdLoop
<1>3. CASE Handler
  BY <1>1, <1>3, OtherHandlerSteps, ErasingCounts, HearingCounts DEF Handler
<1> QED
  BY <1>1, <1>2, <1>3 DEF Next

(* However the handlers and a round interleave, also where an answer comes *)
(* between a ticker and the search for its counter, or between that and    *)
(* the count: a counter is ahead of the tickers sent since the endpoint    *)
(* was last heard of by one at most.                                       *)
THEOREM NoneIsCountedTwice == Spec => []CountedWithinOne
<1>1. Init => CountInv
  BY DEF Init, CountInv
<1>2. CountInv => CountedWithinOne
  BY DEF CountInv, CountedWithinOne, Within, Excused
<1> QED
  BY <1>1, <1>2, ThreadsInit, ThreadsSteps, CountSteps, PTL DEF Spec
=============================================================================
