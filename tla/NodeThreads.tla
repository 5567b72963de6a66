----------------------------- MODULE NodeThreads -----------------------------
(***************************************************************************)
(* The two threads of one process over the maps they share without a lock: *)
(* threadhandle walks and changes _HostList, tickerNum and fCkTimeMap, and *)
(* so do the handlers of the receive thread.  UdpServer takes a handler    *)
(* and a round as one step each; here a step has one operation on a map.   *)
(* (Two, where they are on different maps and come one after the other: no *)
(* step of the other thread touches both.)                                 *)
(*                                                                         *)
(* An operation on a std::map is atomic here, as if the library had locked *)
(* it.  What is left is what such a lock would not cure: an iterator whose *)
(* element the other thread has erased.  Using it is undefined, and the    *)
(* process is then given up.                                               *)
(***************************************************************************)
EXTENDS Naturals, FiniteSets, FiniteSetsExt, Functions

CONSTANTS ID,          \* node IDs, in the order of std::map
          Self, SelfEp, \* _NodeID, where it is
          Ep,          \* endpoints, in the order of the keys "ticker_ip_port"
          Key,         \* UUIDs under which probes are filed, in order
          PACKAGENUM,  \* unanswered tickers after which an endpoint is dead
          MaxSilence,  \* bound: tickers counted by the history silence
          End          \* end() of a map; also no argument

ASSUME ThreadsAssumption ==
  /\ ID \cup Ep \cup Key \subseteq Nat
  /\ End \notin ID \cup Ep \cup Key
  /\ Self \in ID /\ SelfEp \in Ep
  /\ PACKAGENUM \in Nat \ {0} /\ MaxSilence \in Nat

(* Of some keys, one is the first: so it is for numbers. *)
ASSUME OrderAssumption ==
  \A S \in SUBSET (ID \cup Ep \cup Key) : S # {} => \E x \in S : \A y \in S : x <= y

VARIABLES
  hostList,   \* _HostList: ID -> endpoint of the entry
  tickerNum,  \* Ep -> tickers counted
  probes,     \* fCkTimeMap: Key -> ID of the probed node
  pc,         \* where each of the threads is
  it,         \* its iterators
  dangling,   \* those whose element the other thread has erased
  seen,       \* what each thread has parsed, or is to write
  fate,       \* of the process
  silence,    \* history: tickers sent to an endpoint since it was last heard
  due,        \* history: who was listed when the third loop began, not ticked
  doomed      \* history: entries to be evicted, not renewed since

maps == <<hostList, tickerNum, probes>>
history == <<silence, due, doomed>>
vars == <<maps, pc, it, dangling, seen, fate, history>>

OnHosts    == {"hit", "rhost"}
OnCounters == {"nit", "cit", "rcount"}
Iterator   == OnHosts \cup OnCounters \cup {"fit"}

(* The iterators a thread at a place is about to dereference or advance.   *)
Uses == [sleep |-> {}, probes |-> {"fit"}, verdict |-> {"hit"}, assign |-> {"hit"},
         expire |-> {"fit"}, counters |-> {"nit"}, evict |-> {"nit", "hit"},
         erase |-> {"hit"}, tick |-> {"hit"}, find |-> {}, count |-> {"cit"},
         idle |-> {}, put |-> {"rhost"}, reset |-> {"rcount"}, answer |-> {"rhost"},
         at |-> {}, begin |-> {}, walk |-> {"rhost"}]

FromSet(S) == IF S = {} THEN End ELSE Min(S)
First(m) == FromSet(DOMAIN m)
After(m, k) == FromSet({x \in DOMAIN m : x > k})
Find(m, k) == IF k \in DOMAIN m THEN k ELSE End
Without(m, k) == Restrict(m, DOMAIN m \ {k})
With(m, k, v) == [x \in DOMAIN m \cup {k} |-> IF x = k THEN v ELSE m[x]]

(* Thread t, at place "from", goes to place "to". *)
Moves(t, from, to) ==
  /\ fate = "running"
  /\ pc[t] = from
  /\ Uses[from] \cap dangling = {}
  /\ pc' = [pc EXCEPT ![t] = to]
  /\ fate' = fate

(* Iterator x is set to k; nothing else happens to the iterators.          *)
Sets(x, k) ==
  /\ it' = [it EXCEPT ![x] = k]
  /\ dangling' = dangling \ {x}

(* Nothing happens but that.                                               *)
Looks(x, k) == Sets(x, k) /\ UNCHANGED <<maps, seen, history>>

(* The element at k, if there is one, is erased through x, which goes on   *)
(* to "next": another iterator at k is left dangling.                      *)
Erases(x, k, on, next) ==
  /\ it' = [it EXCEPT ![x] = next]
  /\ dangling' = (dangling \cup {y \in on : it[y] = k /\ k # End}) \ {x}

Init ==
  /\ hostList = [i \in {} |-> End]
  /\ tickerNum = [e \in {} |-> 0]
  /\ probes = [k \in {} |-> End]
  /\ pc = [timer |-> "sleep", receive |-> "idle"]
  /\ it = [x \in Iterator |-> End]
  /\ dangling = {}
  /\ seen = [timer |-> End, receive |-> End]
  /\ fate = "running"
  /\ silence = [e \in Ep |-> 0]
  /\ due = {} /\ doomed = {}

-----------------------------------------------------------------------------
(***************************************************************************)
(* The timer thread.  First loop: probes that expire declare their node    *)
(* filtered, in a copy of the entry that is then written back: an endpoint *)
(* written meanwhile is lost.  The verdict itself plays no part here.      *)
(***************************************************************************)
WakeUp ==
  /\ Moves("timer", "sleep", "probes")
  /\ Looks("fit", First(probes))

NotExpired ==
  /\ Moves("timer", "probes", "probes")
  /\ it.fit # End
  /\ Looks("fit", After(probes, it.fit))

FindProbed ==
  /\ Moves("timer", "probes", "verdict")
  /\ it.fit # End
  /\ Looks("hit", Find(hostList, probes[it.fit]))

ReadProbed ==
  /\ Moves("timer", "verdict", IF it.hit = End THEN "expire" ELSE "assign")
  /\ seen' = [seen EXCEPT !.timer = IF it.hit = End THEN End ELSE hostList[it.hit]]
  /\ UNCHANGED <<maps, it, dangling, history>>

AssignFilter ==
  /\ Moves("timer", "assign", "expire")
  /\ hostList' = [hostList EXCEPT ![it.hit] = seen.timer]
  /\ seen' = [seen EXCEPT !.timer = End]
  /\ UNCHANGED <<tickerNum, probes, it, dangling, history>>

Expire ==
  /\ Moves("timer", "expire", "probes")
  /\ probes' = Without(probes, it.fit)
  /\ Sets("fit", After(probes, it.fit))
  /\ UNCHANGED <<hostList, tickerNum, seen, history>>

(***************************************************************************)
(* Second loop: an endpoint that let PACKAGENUM tickers unanswered is dead *)
(* and every entry at it is erased, then its counter.                      *)
(***************************************************************************)
ProbesDone ==
  /\ Moves("timer", "probes", "counters")
  /\ it.fit = End
  /\ Looks("nit", First(tickerNum))

Alive ==
  /\ Moves("timer", "counters", "counters")
  /\ it.nit # End /\ tickerNum[it.nit] < PACKAGENUM
  /\ Looks("nit", After(tickerNum, it.nit))

Dead ==
  /\ Moves("timer", "counters", "evict")
  /\ it.nit # End /\ tickerNum[it.nit] >= PACKAGENUM
  /\ Sets("hit", First(hostList))
  /\ doomed' = {i \in DOMAIN hostList : hostList[i] = it.nit}
  /\ UNCHANGED <<maps, seen, silence, due>>

(* What is compared is a copy: a handler may renew the entry before it goes.*)
AtDead ==
  /\ Moves("timer", "evict", "erase")
  /\ it.hit # End /\ hostList[it.hit] = it.nit
  /\ UNCHANGED <<maps, it, dangling, seen, history>>

(* Mutant: erasing an entry skips the next one. *)
EvictSkipping ==
  /\ Moves("timer", "erase", "evict")
  /\ hostList' = Without(hostList, it.hit)
  /\ LET next == After(hostList, it.hit)
     IN  Erases("hit", it.hit, OnHosts, IF next = End THEN End ELSE After(hostList, next))
  /\ UNCHANGED <<tickerNum, probes, seen, history>>

Evict ==
  /\ Moves("timer", "erase", "evict")
  /\ hostList' = Without(hostList, it.hit)
  /\ Erases("hit", it.hit, OnHosts, After(hostList, it.hit))
  /\ UNCHANGED <<tickerNum, probes, seen, history>>

Elsewhere ==
  /\ Moves("timer", "evict", "evict")
  /\ it.hit # End /\ hostList[it.hit] # it.nit
  /\ Looks("hit", After(hostList, it.hit))

EraseCounter ==
  /\ Moves("timer", "evict", "counters")
  /\ it.hit = End
  /\ tickerNum' = Without(tickerNum, it.nit)
  /\ Erases("nit", it.nit, OnCounters, After(tickerNum, it.nit))
  /\ doomed' = {}
  /\ UNCHANGED <<hostList, probes, seen, silence, due>>

(***************************************************************************)
(* Third loop: a ticker to every peer, counted after it was sent.          *)
(***************************************************************************)
CountersDone ==
  /\ Moves("timer", "counters", "tick")
  /\ it.nit = End
  /\ Sets("hit", First(hostList))
  /\ due' = DOMAIN hostList \ {Self}
  /\ UNCHANGED <<maps, seen, silence, doomed>>

SkipSelf ==
  /\ Moves("timer", "tick", "tick")
  /\ it.hit = Self
  /\ Looks("hit", After(hostList, it.hit))

(* Between the ticker and its count the answer may come, and the counter go.*)
SendTicker ==
  /\ Moves("timer", "tick", "find")
  /\ it.hit \notin {Self, End}
  /\ seen' = [seen EXCEPT !.timer = hostList[it.hit]]
  /\ silence' = [silence EXCEPT ![hostList[it.hit]] = IF @ = MaxSilence THEN @ ELSE @ + 1]
  /\ due' = due \ {it.hit}
  /\ UNCHANGED <<maps, it, dangling, doomed>>

FindTicker ==
  /\ Moves("timer", "find", "count")
  /\ Looks("cit", Find(tickerNum, seen.timer))

(* Mutant: the loop goes on two entries further. *)
CountSkipping ==
  /\ Moves("timer", "count", "tick")
  /\ tickerNum' = With(tickerNum, seen.timer,
                       IF it.cit = End THEN 1 ELSE tickerNum[it.cit] + 1)
  /\ LET next == After(hostList, it.hit)
     IN  it' = [it EXCEPT !.cit = End, !.hit = IF next = End THEN End ELSE After(hostList, next)]
  /\ dangling' = dangling
  /\ seen' = [seen EXCEPT !.timer = End]
  /\ UNCHANGED <<hostList, probes, history>>

(* Mutant: the first ticker is not counted. *)
CountFromZero ==
  /\ Moves("timer", "count", "tick")
  /\ tickerNum' = With(tickerNum, seen.timer,
                       IF it.cit = End THEN 0 ELSE tickerNum[it.cit] + 1)
  /\ it' = [it EXCEPT !.cit = End, !.hit = After(hostList, it.hit)]
  /\ dangling' = dangling
  /\ seen' = [seen EXCEPT !.timer = End]
  /\ UNCHANGED <<hostList, probes, history>>

Count ==
  /\ Moves("timer", "count", "tick")
  /\ tickerNum' = With(tickerNum, seen.timer,
                       IF it.cit = End THEN 1 ELSE tickerNum[it.cit] + 1)
  /\ it' = [it EXCEPT !.cit = End, !.hit = After(hostList, it.hit)]
  /\ dangling' = dangling
  /\ seen' = [seen EXCEPT !.timer = End]
  /\ UNCHANGED <<hostList, probes, history>>

TickersDone ==
  /\ Moves("timer", "tick", "sleep")
  /\ it.hit = End
  /\ UNCHANGED <<maps, it, dangling, seen, history>>

-----------------------------------------------------------------------------
(***************************************************************************)
(* The receive thread: what its handlers do to the maps, in any order the  *)
(* messages may come.  ticker and openconnect look for the sender and      *)
(* write its entry, or add one; addNewNode goes on to walk the list, and   *)
(* so do getPublicNode, updateRouteInfo and the search of a helper.  The   *)
(* endpoint in the message is chosen when it is written.                   *)
(***************************************************************************)
FindSender(i) ==
  /\ Moves("receive", "idle", "put")
  /\ Sets("rhost", Find(hostList, i))
  /\ seen' = [seen EXCEPT !.receive = i]
  /\ UNCHANGED <<maps, history>>

(* Mutant: an entry is replaced by erasing it and adding another. *)
AssignAnew(ep) ==
  /\ Moves("receive", "put", "idle")
  /\ it.rhost # End
  /\ hostList' = [hostList EXCEPT ![it.rhost] = ep]
  /\ Erases("rhost", it.rhost, OnHosts, End)
  /\ seen' = [seen EXCEPT !.receive = End]
  /\ doomed' = doomed \ {it.rhost}
  /\ UNCHANGED <<tickerNum, probes, silence, due>>

Assign(ep) ==
  /\ Moves("receive", "put", "idle")
  /\ it.rhost # End
  /\ hostList' = [hostList EXCEPT ![it.rhost] = ep]
  /\ Sets("rhost", End)
  /\ seen' = [seen EXCEPT !.receive = End]
  /\ doomed' = doomed \ {it.rhost}
  /\ UNCHANGED <<tickerNum, probes, silence, due>>

AddNewNode(i, ep) ==
  /\ hostList' = With(hostList, i, ep)
  /\ Sets("rhost", End)
  /\ seen' = [seen EXCEPT !.receive = End]
  /\ doomed' = doomed \ {i}
  /\ UNCHANGED <<tickerNum, probes, silence, due>>

AddSender(ep) == /\ Moves("receive", "put", "begin")
                 /\ it.rhost = End
                 /\ AddNewNode(seen.receive, ep)

(* detect and update add an entry for the node itself, once. *)
AddSelf == /\ Moves("receive", "idle", "begin")
           /\ Self \notin DOMAIN hostList
           /\ AddNewNode(Self, SelfEp)

(* detect files a probe of the sender's NAT. *)
FileProbe(k, i) ==
  /\ Moves("receive", "idle", "idle")
  /\ k \notin DOMAIN probes
  /\ probes' = With(probes, k, i)
  /\ UNCHANGED <<hostList, tickerNum, it, dangling, seen, history>>

(* ticker and tickerRes: what is heard of an endpoint resets its counter.  *)
HearFrom(ep) ==
  /\ Moves("receive", "idle", "reset")
  /\ Sets("rcount", Find(tickerNum, ep))
  /\ silence' = [silence EXCEPT ![ep] = 0]
  /\ UNCHANGED <<maps, seen, due, doomed>>

(* Mutant: the counter stays. *)
ResetNothing ==
  /\ Moves("receive", "reset", "idle")
  /\ Looks("rcount", End)

Reset ==
  /\ Moves("receive", "reset", "idle")
  /\ tickerNum' = Without(tickerNum, it.rcount)
  /\ Erases("rcount", it.rcount, OnCounters, End)
  /\ UNCHANGED <<hostList, probes, seen, history>>

(* callclientRes: the entry found is parsed, and looked up again to be     *)
(* written: at throws if it is gone.  The probe then looked for under the  *)
(* msgid is never found, for it is filed under another UUID (184, 202).    *)
FindAnswering(i) ==
  /\ Moves("receive", "idle", "answer")
  /\ Sets("rhost", Find(hostList, i))
  /\ seen' = [seen EXCEPT !.receive = i]
  /\ UNCHANGED <<maps, history>>

Unknown ==
  /\ Moves("receive", "answer", "begin")
  /\ it.rhost = End
  /\ seen' = [seen EXCEPT !.receive = End]
  /\ UNCHANGED <<maps, it, dangling, history>>

ReadAnswering ==
  /\ Moves("receive", "answer", "at")
  /\ it.rhost # End
  /\ seen' = [seen EXCEPT !.receive = [id |-> @, ep |-> hostList[it.rhost]]]
  /\ Sets("rhost", End)
  /\ UNCHANGED <<maps, history>>

AssignNonfilter ==
  LET i == seen.receive.id
  IN  /\ Moves("receive", "at", "begin")
      /\ i \in DOMAIN hostList
      /\ hostList' = [hostList EXCEPT ![i] = seen.receive.ep]
      /\ seen' = [seen EXCEPT !.receive = End]
      /\ doomed' = doomed \ {i}
      /\ UNCHANGED <<tickerNum, probes, it, dangling, silence, due>>

Thrown ==
  /\ fate = "running"
  /\ pc.receive = "at" /\ seen.receive.id \notin DOMAIN hostList
  /\ fate' = "aborted"
  /\ UNCHANGED <<maps, pc, it, dangling, seen, history>>

Walk ==
  /\ \E from \in {"idle", "begin"} : Moves("receive", from, "walk")
  /\ Looks("rhost", First(hostList))

WalkOn ==
  /\ Moves("receive", "walk", IF it.rhost = End THEN "idle" ELSE "walk")
  /\ Looks("rhost", IF it.rhost = End THEN End ELSE After(hostList, it.rhost))

(* An iterator is used whose element is gone. *)
Undefined(t) ==
  /\ fate = "running"
  /\ Uses[pc[t]] \cap dangling # {}
  /\ fate' = "undefined"
  /\ UNCHANGED <<maps, pc, it, dangling, seen, history>>

-----------------------------------------------------------------------------
FirstLoop == WakeUp \/ NotExpired \/ FindProbed \/ ReadProbed \/ AssignFilter \/ Expire

SecondLoop == ProbesDone \/ Alive \/ Dead \/ AtDead \/ Evict \/ Elsewhere \/ EraseCounter

ThirdLoop == CountersDone \/ SkipSelf \/ SendTicker \/ FindTicker \/ Count \/ TickersDone

Handler == \/ \E i \in ID \ {Self} : FindSender(i) \/ FindAnswering(i)
           \/ \E i \in ID \ {Self} : \E k \in Key : FileProbe(k, i)
           \/ \E ep \in Ep : Assign(ep) \/ AddSender(ep) \/ HearFrom(ep)
           \/ AddSelf \/ Reset \/ Walk \/ WalkOn
           \/ Unknown \/ ReadAnswering \/ AssignNonfilter \/ Thrown

Next == FirstLoop \/ SecondLoop \/ ThirdLoop \/ Handler \/ \E t \in DOMAIN pc : Undefined(t)

Spec == Init /\ [][Next]_vars

-----------------------------------------------------------------------------
(***************************************************************************)
(* Types.                                                                  *)
(***************************************************************************)
IsMap(m, K, V) == DOMAIN m \subseteq K /\ m \in [DOMAIN m -> V]

TimerPlace   == {"sleep", "probes", "verdict", "assign", "expire", "counters", "evict",
                 "erase", "tick", "find", "count"}
ReceivePlace == {"idle", "put", "reset", "answer", "at", "begin", "walk"}

MapsOK ==
  /\ IsMap(hostList, ID, Ep)
  /\ IsMap(tickerNum, Ep, Nat \ {0})
  /\ IsMap(probes, Key, ID)

ThreadsOK ==
  /\ pc \in [timer : TimerPlace, receive : ReceivePlace]
  /\ it \in [Iterator -> ID \cup Ep \cup Key \cup {End}]
  /\ dangling \subseteq Iterator
  /\ fate \in {"running", "aborted", "undefined"}

HistoryOK ==
  /\ silence \in [Ep -> 0 .. MaxSilence]
  /\ due \subseteq ID /\ doomed \subseteq ID

(* What a thread has parsed is there where it is written. *)
SeenOK ==
  /\ DOMAIN seen = {"timer", "receive"}
  /\ pc.timer \in {"assign", "find", "count"} => seen.timer \in Ep
  /\ pc.receive \in {"put", "answer"} => seen.receive \in ID
  /\ pc.receive = "at" => seen.receive \in [id : ID, ep : Ep]

(* The type invariant of the variables above. *)
TypeOK == MapsOK /\ ThreadsOK /\ HistoryOK /\ SeenOK

-----------------------------------------------------------------------------
(***************************************************************************)
(* Properties.                                                             *)
(***************************************************************************)
(* The timer's iterators into _HostList stay valid, though it erases while *)
(* it walks and the receive thread adds and rewrites entries meanwhile: no *)
(* handler erases one.  Those of the handlers, and either thread's into    *)
(* tickerNum, do not.                                                      *)
TimerHostsValid == "hit" \notin dangling /\ (it.hit # End => it.hit \in DOMAIN hostList)

(* A round leaves out nobody that was listed when its third loop began.    *)
EveryPeerTicked == fate = "running" /\ pc.timer = "sleep" => due = {}

(* When the counter of a dead endpoint goes, so has every entry at it that *)
(* no handler has renewed since the endpoint was found dead.               *)
DeadPeersGone ==
  fate = "running" /\ pc.timer = "evict" /\ it.hit = End => doomed \cap DOMAIN hostList = {}

(* A ticker may be counted after its answer was handled, and after that    *)
(* erased the counter, but one only: an endpoint is found dead after       *)
(* PACKAGENUM - 1 unanswered tickers or more.                              *)
(* At MaxSilence the history counts no further.                            *)
CountedWithinOne ==
  fate = "running" /\ pc.receive # "reset" =>
    \A e \in DOMAIN tickerNum : tickerNum[e] <= silence[e] + 1 \/ silence[e] = MaxSilence
=============================================================================
