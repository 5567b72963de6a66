-------------------------- MODULE ReceiveRingProofs --------------------------
(***************************************************************************)
(* The ring of buffers receives once at a time, and keeps what it received *)
(* for Slots - 1 receives more, for any length of the ring and any threads.*)
(***************************************************************************)
EXTENDS ReceiveRing, FiniteSetTheorems, TLAPS

Fillers == {t \in Thread : filling[t] # Nothing}
Armers  == {t \in Thread : pc[t] = "do_receive"}

(* The latest receive, if it was made at slot p. *)
Latest(p) == [of |-> taken, slot |-> p]

(* The one receive there is: armed after p, or the latest, at p, in one of *)
(* the three places it passes until its handler arms the next.             *)
Waiting(p) == armed = {NextSlot(p)} /\ Fillers = {} /\ ready = <<>> /\ Armers = {}
BeingFilled(p) ==
  /\ armed = {} /\ ready = <<>> /\ Armers = {} /\ taken # 0
  /\ \E t \in Thread : Fillers = {t} /\ filling[t] = Latest(p)
Ready(p) == armed = {} /\ Fillers = {} /\ ready = <<Latest(p)>> /\ Armers = {} /\ taken # 0
BeingHandled(p) ==
  /\ armed = {} /\ Fillers = {} /\ ready = <<>> /\ taken # 0
  /\ \E t \in Thread : Armers = {t} /\ cur[t] = Latest(p)

Token(p) == Waiting(p) \/ BeingFilled(p) \/ Ready(p) \/ BeingHandled(p)

(* Where r is on the ring, n - r.of receives before the latest, at p; and  *)
(* that its slot still holds it.                                           *)
Near(r, p, n) ==
  r.of \in 1 .. n /\ (n < r.of + Slots => r.slot + (n - r.of) \in {p, p + Slots})

Intact(r, m, f, n) ==
  r.of \notin f /\ n < r.of + Slots => m[r.slot] = [text |-> r.of, from |-> r.of]

Kept(r, p) == Near(r, p, taken) /\ Intact(r, ring, failed, taken)

(* The receives that wait to be echoed are kept, and so is the latest once *)
(* it is ready; it is not among them before.                               *)
EchoesKept(p) ==
  /\ \A t \in Thread : pc[t] # "run" => Kept(cur[t], p)
  /\ \A k \in 1 .. Len(sends) :
       /\ Kept(sends[k], p)
       /\ sends[k].of \notin failed /\ taken < sends[k].of + Slots => sends[k].to = sends[k].of
  /\ ready # <<>> => Intact(Latest(p), ring, failed, taken)
  /\ Fillers # {} \/ ready # <<>> =>
       /\ \A t \in Thread : pc[t] # "run" => cur[t].of # taken
       /\ \A k \in 1 .. Len(sends) : sends[k].of # taken

HandlersOK == \A t \in Thread : pc[t] # "run" => cur[t] \in Receive

RingInv == /\ TypeOK /\ HandlersOK
           /\ \E p \in Slot : Token(p) /\ EchoesKept(p)
-----------------------------------------------------------------------------
(***************************************************************************)
(* The ring's arithmetic: from one receive to the next, those before it    *)
(* are one slot further behind, and none of the last Slots - 1 is lapped.  *)
(***************************************************************************)
LEMMA Successor ==
  ASSUME NEW p \in Slot PROVE NextSlot(p) \in Slot
BY RingAssumption DEF NextSlot, Slot

LEMMA Behind ==
  ASSUME NEW p \in Slot, NEW n \in Nat, NEW r, r.of \in Nat, r.slot \in Slot, Near(r, p, n)
  PROVE  /\ Near(r, NextSlot(p), n + 1)
         /\ n + 1 < r.of + Slots => r.slot # NextSlot(p)
BY RingAssumption DEF Near, NextSlot, Slot

LEMMA NotAtLatest ==
  ASSUME NEW p \in Slot, NEW n \in Nat, NEW r, r.of \in Nat, r.slot \in Slot, Near(r, p, n),
         r.of # n, n < r.of + Slots
  PROVE  r.slot # p
BY RingAssumption DEF Near, Slot

LEMMA LatestNear ==
  ASSUME NEW p \in Slot, NEW n \in Nat \ {0}, NEW r, r.of = n, r.slot = p
  PROVE  Near(r, p, n)
BY RingAssumption DEF Near, Slot

(***************************************************************************)
(* What stays true of the receives to be echoed when another is taken, and *)
(* when the latest is written.                                             *)
(***************************************************************************)
LEMMA KeptWhenTaken ==
  ASSUME NEW p \in Slot, NEW r, r.of \in Nat, r.slot \in Slot, Kept(r, p),
         taken \in Nat, taken' = taken + 1,
         \A j \in Slot \ {NextSlot(p)} : ring'[j] = ring[j],
         failed \subseteq failed'
  PROVE  /\ Near(r, NextSlot(p), taken')
         /\ Intact(r, ring', failed', taken')
         /\ r.of # taken'
         /\ taken' < r.of + Slots => taken < r.of + Slots
<1>1. Near(r, p, taken) /\ Intact(r, ring, failed, taken)
  BY DEF Kept
<1>2. /\ Near(r, NextSlot(p), taken + 1)
      /\ taken + 1 < r.of + Slots => r.slot # NextSlot(p)
  BY <1>1, Behind
<1>3. taken' < r.of + Slots => taken < r.of + Slots
  BY RingAssumption
<1>4. Intact(r, ring', failed', taken')
  BY <1>1, <1>2, <1>3 DEF Intact
<1>5. r.of # taken'
  BY <1>1 DEF Near
<1> QED
  BY <1>2, <1>3, <1>4, <1>5

LEMMA KeptWhenWritten ==
  ASSUME NEW p \in Slot, NEW r, r.of \in Nat, r.slot \in Slot, Kept(r, p), r.of # taken,
         taken \in Nat,
         \A j \in Slot \ {p} : ring'[j] = ring[j]
  PROVE  Intact(r, ring', failed, taken)
BY NotAtLatest DEF Kept, Intact

(***************************************************************************)
(* The types.                                                              *)
(***************************************************************************)
Sent == [of : 1 .. MaxReceives, slot : Slot, to : 1 .. MaxReceives \cup {Nothing, Torn}]

LEMMA TypesKept == TypeOK /\ HandlersOK /\ [Next]_vars => TypeOK' /\ HandlersOK'
<1> SUFFICES ASSUME TypeOK, HandlersOK, [Next]_vars PROVE TypeOK' /\ HandlersOK'
  OBVIOUS
<1> USE RingAssumption
<1>1. CASE UNCHANGED vars
  BY <1>1 DEF TypeOK, HandlersOK, vars
<1>2. ASSUME NEW t \in Thread, NEW i \in armed, Fill(t, i) PROVE TypeOK' /\ HandlersOK'
  <2>1. /\ [of |-> taken + 1, slot |-> i] \in Receive
        /\ taken' = taken + 1 /\ taken' \in 0 .. MaxReceives
    BY <1>2 DEF Fill, Receiver, TypeOK, Receive
  <2> QED
    BY <1>2, <2>1 DEF Fill, Receiver, TypeOK, HandlersOK
<1>3. ASSUME NEW t \in Thread, NEW i \in armed, Fail(t, i) PROVE TypeOK' /\ HandlersOK'
  <2>1. /\ [of |-> taken + 1, slot |-> i] \in Receive
        /\ taken' = taken + 1 /\ taken' \in 0 .. MaxReceives
    BY <1>3 DEF Fail, Receiver, TypeOK, Receive
  <2> QED
    BY <1>3, <2>1 DEF Fail, Receiver, TypeOK, HandlersOK
<1>4. ASSUME NEW t \in Thread, Filled(t) PROVE TypeOK' /\ HandlersOK'
  <2>1. filling[t] \in Receive
    BY <1>4 DEF Filled, TypeOK
  <2> QED
    BY <1>4, <2>1 DEF Filled, TypeOK, HandlersOK, Receive
<1>5. ASSUME NEW t \in Thread, Handle(t) PROVE TypeOK' /\ HandlersOK'
  <2>1. Head(ready) \in Receive /\ Tail(ready) \in Seq(Receive)
    BY <1>5 DEF Handle, TypeOK
  <2> QED
    BY <1>5, <2>1 DEF Handle, TypeOK, HandlersOK
<1>6. ASSUME NEW t \in Thread, DoReceive(t) PROVE TypeOK' /\ HandlersOK'
  <2>1. NextSlot(cur[t].slot) \in Slot
    BY <1>6, Successor DEF DoReceive, HandlersOK, Receive
  <2> QED
    BY <1>6, <2>1 DEF DoReceive, TypeOK, HandlersOK
<1>7. ASSUME NEW t \in Thread, DoSend(t) PROVE TypeOK' /\ HandlersOK'
  <2>1. cur[t] \in Receive
    BY <1>7 DEF DoSend, HandlersOK
  <2>2. Sending(t) \in Sent
    BY <2>1 DEF Sending, Sent, Receive, TypeOK
  <2>3. sends \in Seq(Sent)
    BY DEF TypeOK, Sent
  <2>4. Append(sends, Sending(t)) \in Seq(Sent)
    BY <2>2, <2>3
  <2> QED
    BY <1>7, <2>4 DEF DoSend, TypeOK, HandlersOK, Sent
<1>8. ASSUME NEW t \in Thread, Perform(t) PROVE TypeOK' /\ HandlersOK'
  <2>1. sends \in Seq(Sent)
    BY DEF TypeOK, Sent
  <2>2. sends # <<>> /\ sends' = Tail(sends)
    BY <1>8 DEF Perform
  <2>3. sends' \in Seq(Sent)
    BY <2>1, <2>2
  <2> QED
    BY <1>8, <2>3 DEF Perform, TypeOK, HandlersOK, Sent
<1> QED
  BY <1>1, <1>2, <1>3, <1>4, <1>5, <1>6, <1>7, <1>8 DEF Next, Step

-----------------------------------------------------------------------------
(***************************************************************************)
(* A receive is taken: the ring moves on to the next slot.                 *)
(***************************************************************************)
LEMMA ReceiverWaits ==
  ASSUME NEW p \in Slot, Token(p), NEW t \in Thread, NEW i \in armed, Receiver(t, i)
  PROVE  Waiting(p) /\ i = NextSlot(p) /\ armed' = {} /\ taken' = taken + 1
BY DEF Token, Waiting, BeingFilled, Ready, BeingHandled, Receiver

LEMMA EchoesTyped ==
  TypeOK => \A k \in 1 .. Len(sends) : sends[k].of \in Nat /\ sends[k].slot \in Slot
<1> SUFFICES ASSUME TypeOK, NEW k \in 1 .. Len(sends)
             PROVE  sends[k].of \in Nat /\ sends[k].slot \in Slot
  OBVIOUS
<1>1. sends \in Seq(Sent)
  BY DEF TypeOK, Sent
<1>2. sends[k] \in Sent
  BY <1>1
<1> QED
  BY <1>2, RingAssumption DEF Sent

LEMMA EchoesWhenTaken ==
  ASSUME TypeOK, HandlersOK, NEW p \in Slot, EchoesKept(p),
         taken' = taken + 1, UNCHANGED <<pc, cur, sends>>,
         \A j \in Slot \ {NextSlot(p)} : ring'[j] = ring[j],
         failed \subseteq failed',
         ready' # <<>> => taken' \in failed'
  PROVE  EchoesKept(NextSlot(p))'
<1> DEFINE q == NextSlot(p)
<1>1. q \in Slot /\ taken \in Nat
  BY Successor DEF TypeOK
<1>2. ASSUME NEW t \in Thread, pc[t] # "run"
      PROVE  /\ Near(cur[t], q, taken') /\ Intact(cur[t], ring', failed', taken')
             /\ cur[t].of # taken'
  <2> DEFINE r == cur[t]
  <2>1. r.of \in Nat /\ r.slot \in Slot /\ Kept(r, p)
    BY <1>2 DEF HandlersOK, Receive, EchoesKept
  <2> HIDE DEF r
  <2>2. /\ Near(r, q, taken') /\ Intact(r, ring', failed', taken')
        /\ r.of # taken'
    BY <1>1, <2>1, KeptWhenTaken
  <2> QED
    BY <2>2 DEF r
<1>3. ASSUME NEW k \in 1 .. Len(sends)
      PROVE  /\ Near(sends[k], q, taken') /\ Intact(sends[k], ring', failed', taken')
             /\ sends[k].of # taken'
             /\ sends[k].of \notin failed' /\ taken' < sends[k].of + Slots =>
                  sends[k].to = sends[k].of
  <2> DEFINE r == sends[k]
  <2>1. /\ r.of \in Nat /\ r.slot \in Slot /\ Kept(r, p)
        /\ r.of \notin failed /\ taken < r.of + Slots => r.to = r.of
    BY EchoesTyped DEF EchoesKept
  <2> HIDE DEF r
  <2>2. /\ Near(r, q, taken') /\ Intact(r, ring', failed', taken') /\ r.of # taken'
        /\ taken' < r.of + Slots => taken < r.of + Slots
    BY <1>1, <2>1, KeptWhenTaken
  <2>3. r.of \notin failed' /\ taken' < r.of + Slots => r.to = r.of
    BY <2>1, <2>2
  <2> QED
    BY <2>2, <2>3 DEF r
<1>4. ready' # <<>> => Intact(Latest(q)', ring', failed', taken')
  BY DEF Intact, Latest
<1> QED
  BY <1>2, <1>3, <1>4 DEF EchoesKept, Kept, Latest, Intact

LEMMA FillStep ==
  ASSUME TypeOK, HandlersOK, NEW p \in Slot, Token(p), EchoesKept(p),
         NEW t \in Thread, NEW i \in armed, Fill(t, i)
  PROVE  Token(NextSlot(p))' /\ EchoesKept(NextSlot(p))'
<1>1. Waiting(p) /\ i = NextSlot(p) /\ armed' = {} /\ taken' = taken + 1
  BY ReceiverWaits DEF Fill
<1>2. /\ Fillers' = {t}
      /\ filling'[t] = [of |-> taken', slot |-> i]
      /\ taken' # 0 /\ ready' = <<>> /\ Armers' = {}
  <2>1. [of |-> taken + 1, slot |-> i] \in Receive
    BY <1>1, Successor, RingAssumption DEF Fill, Receiver, TypeOK, Receive
  <2>2. filling' = [filling EXCEPT ![t] = [of |-> taken + 1, slot |-> i]]
    BY DEF Fill
  <2>3. filling'[t] = [of |-> taken + 1, slot |-> i] /\ \A u \in Thread \ {t} : filling'[u] = filling[u]
    BY <2>2 DEF TypeOK
  <2>4. Fillers' = {t}
    BY <1>1, <2>1, <2>3, RingAssumption DEF Fillers, Waiting
  <2> QED
    BY <1>1, <2>3, <2>4 DEF Fill, Waiting, Armers, TypeOK
<1>3. BeingFilled(i)'
  BY <1>1, <1>2 DEF BeingFilled, Latest
<1>4. \A j \in Slot \ {i} : ring'[j] = ring[j]
  BY DEF Fill, TypeOK
<1>5. EchoesKept(NextSlot(p))'
  BY <1>1, <1>2, <1>4, EchoesWhenTaken DEF Fill
<1> QED
  BY <1>1, <1>3, <1>5 DEF Token

LEMMA FailStep ==
  ASSUME TypeOK, HandlersOK, NEW p \in Slot, Token(p), EchoesKept(p),
         NEW t \in Thread, NEW i \in armed, Fail(t, i)
  PROVE  Token(NextSlot(p))' /\ EchoesKept(NextSlot(p))'
<1>1. Waiting(p) /\ i = NextSlot(p) /\ armed' = {} /\ taken' = taken + 1
  BY ReceiverWaits DEF Fail
<1>2. Ready(i)'
  BY <1>1 DEF Fail, Ready, Waiting, Latest, Fillers, Armers, TypeOK
<1>3. EchoesKept(NextSlot(p))'
  BY <1>1, EchoesWhenTaken DEF Fail
<1> QED
  BY <1>1, <1>2, <1>3 DEF Token

(***************************************************************************)
(* It is written, handed to its handler, and followed by the next.         *)
(***************************************************************************)
LEMMA FilledStep ==
  ASSUME TypeOK, HandlersOK, NEW p \in Slot, Token(p), EchoesKept(p),
         NEW t \in Thread, Filled(t)
  PROVE  Token(p)' /\ EchoesKept(p)'
<1>1. /\ armed = {} /\ ready = <<>> /\ Armers = {} /\ taken # 0
      /\ Fillers = {t} /\ filling[t] = Latest(p)
  BY DEF Token, Waiting, BeingFilled, Ready, BeingHandled, Filled, Fillers
<1>2. /\ ready' = <<Latest(p)>> /\ Fillers' = {}
      /\ \A j \in Slot \ {p} : ring'[j] = ring[j]
      /\ ring'[p] = [text |-> taken, from |-> taken]
  BY <1>1 DEF Filled, Fillers, Latest, TypeOK
<1>3. Ready(p)'
  BY <1>1, <1>2 DEF Filled, Ready, Latest, Armers
<1>4. taken \in Nat
  BY DEF TypeOK
<1>5. ASSUME NEW u \in Thread, pc[u] # "run"
      PROVE  Near(cur[u], p, taken) /\ Intact(cur[u], ring', failed, taken) /\ cur[u].of # taken
  <2> DEFINE r == cur[u]
  <2>1. r.of \in Nat /\ r.slot \in Slot /\ Kept(r, p) /\ r.of # taken
    BY <1>1, <1>5 DEF HandlersOK, Receive, EchoesKept
  <2> HIDE DEF r
  <2>2. Near(r, p, taken) /\ Intact(r, ring', failed, taken) /\ r.of # taken
    BY <1>2, <1>4, <2>1, KeptWhenWritten DEF Kept
  <2> QED
    BY <2>2 DEF r
<1>6. ASSUME NEW k \in 1 .. Len(sends)
      PROVE  /\ Near(sends[k], p, taken) /\ Intact(sends[k], ring', failed, taken)
             /\ sends[k].of # taken
  <2> DEFINE r == sends[k]
  <2>1. r.of \in Nat /\ r.slot \in Slot /\ Kept(r, p) /\ r.of # taken
    BY <1>1, EchoesTyped DEF EchoesKept
  <2> HIDE DEF r
  <2>2. Near(r, p, taken) /\ Intact(r, ring', failed, taken) /\ r.of # taken
    BY <1>2, <1>4, <2>1, KeptWhenWritten DEF Kept
  <2> QED
    BY <2>2 DEF r
<1>7. Intact(Latest(p), ring', failed, taken)
  BY <1>2 DEF Intact, Latest
<1>8. UNCHANGED <<pc, cur, sends, taken, failed>>
  BY DEF Filled
<1>9. EchoesKept(p)'
  BY <1>5, <1>6, <1>7, <1>8 DEF EchoesKept, Kept, Latest
<1> QED
  BY <1>3, <1>9 DEF Token

LEMMA HandleStep ==
  ASSUME TypeOK, HandlersOK, NEW p \in Slot, Token(p), EchoesKept(p),
         NEW t \in Thread, Handle(t)
  PROVE  Token(p)' /\ EchoesKept(p)'
<1>1. /\ armed = {} /\ Fillers = {} /\ ready = <<Latest(p)>> /\ Armers = {} /\ taken # 0
  BY DEF Token, Waiting, BeingFilled, Ready, BeingHandled, Handle
<1>2. /\ ready' = <<>> /\ Fillers' = {} /\ Armers' = {t}
      /\ cur'[t] = Latest(p) /\ \A u \in Thread \ {t} : cur'[u] = cur[u] /\ pc'[u] = pc[u]
      /\ UNCHANGED <<ring, armed, sends, taken, failed>>
  BY <1>1 DEF Handle, Fillers, Armers, TypeOK
<1>3. BeingHandled(p)'
  BY <1>1, <1>2 DEF BeingHandled, Latest
<1>4. Near(Latest(p), p, taken) /\ Intact(Latest(p), ring, failed, taken)
  BY <1>1, LatestNear DEF Latest, TypeOK, EchoesKept
<1>5. EchoesKept(p)'
  BY <1>2, <1>4 DEF EchoesKept, Kept, Latest
<1> QED
  BY <1>3, <1>5 DEF Token

LEMMA DoReceiveStep ==
  ASSUME TypeOK, HandlersOK, NEW p \in Slot, Token(p), EchoesKept(p),
         NEW t \in Thread, DoReceive(t)
  PROVE  Token(p)' /\ EchoesKept(p)'
<1>1. /\ armed = {} /\ Fillers = {} /\ ready = <<>> /\ taken # 0
      /\ Armers = {t} /\ cur[t] = Latest(p)
  BY DEF Token, Waiting, BeingFilled, Ready, BeingHandled, DoReceive, Armers
<1>2. /\ armed' = {NextSlot(p)} /\ Armers' = {} /\ Fillers' = {}
      /\ \A u \in Thread : pc'[u] # "run" => pc[u] # "run"
      /\ UNCHANGED <<ring, filling, ready, cur, sends, taken, failed>>
  BY <1>1 DEF DoReceive, Armers, Fillers, Latest, TypeOK
<1>3. Waiting(p)'
  BY <1>1, <1>2 DEF Waiting
<1>4. EchoesKept(p)'
  BY <1>1, <1>2 DEF EchoesKept, Kept, Latest
<1> QED
  BY <1>3, <1>4 DEF Token

(***************************************************************************)
(* It is echoed: nothing on the ring changes.                              *)
(***************************************************************************)
LEMMA DoSendStep ==
  ASSUME TypeOK, HandlersOK, NEW p \in Slot, Token(p), EchoesKept(p),
         NEW t \in Thread, DoSend(t)
  PROVE  Token(p)' /\ EchoesKept(p)'
<1>1. /\ pc[t] = "send" /\ cur[t] \in Receive
      /\ \A u \in Thread \ {t} : cur'[u] = cur[u] /\ pc'[u] = pc[u]
      /\ pc'[t] = "run" /\ sends' = Append(sends, Sending(t))
      /\ UNCHANGED <<ring, armed, filling, ready, taken, failed>>
  BY DEF DoSend, HandlersOK, TypeOK
<1>2. Armers' = Armers /\ Fillers' = Fillers /\ t \notin Armers
  BY <1>1 DEF Armers, Fillers
<1>3. Token(p)'
  BY <1>1, <1>2 DEF Token, Waiting, BeingFilled, Ready, BeingHandled, Latest
<1> DEFINE r == Sending(t)
<1>4. /\ Near(r, p, taken) /\ Intact(r, ring, failed, taken)
      /\ r.of \notin failed /\ taken < r.of + Slots => r.to = r.of
      /\ Fillers # {} \/ ready # <<>> => r.of # taken
  BY <1>1 DEF Sending, EchoesKept, Kept, Near, Intact
<1> HIDE DEF r
<1>5. \A k \in 1 .. Len(sends') :
        \/ sends'[k] = r
        \/ k \in 1 .. Len(sends) /\ sends'[k] = sends[k]
  <2>1. sends \in Seq(Sent) /\ sends' = Append(sends, r)
    BY <1>1 DEF TypeOK, Sent, r
  <2>2. r \in Sent
    BY <1>1 DEF Sending, Sent, Receive, TypeOK, r
  <2>3. Len(sends') = Len(sends) + 1 /\ Len(sends) \in Nat
    BY <2>1, <2>2
  <2>4. \A k \in 1 .. Len(sends) + 1 : sends'[k] = IF k = Len(sends) + 1 THEN r ELSE sends[k]
    BY <2>1, <2>2, <2>3
  <2> QED
    BY <2>3, <2>4
<1>6. EchoesKept(p)'
  BY <1>1, <1>2, <1>4, <1>5 DEF EchoesKept, Kept, Latest
<1> QED
  BY <1>3, <1>6

LEMMA PerformStep ==
  ASSUME TypeOK, HandlersOK, NEW p \in Slot, Token(p), EchoesKept(p),
         NEW t \in Thread, Perform(t)
  PROVE  Token(p)' /\ EchoesKept(p)'
<1>1. sends # <<>> /\ sends' = Tail(sends)
      /\ UNCHANGED <<ring, armed, filling, ready, pc, cur, taken, failed>>
  BY DEF Perform
<1>2. Armers' = Armers /\ Fillers' = Fillers
  BY <1>1 DEF Armers, Fillers
<1>3. Token(p)'
  BY <1>1, <1>2 DEF Token, Waiting, BeingFilled, Ready, BeingHandled, Latest
<1>4. \A k \in 1 .. Len(sends') : k + 1 \in 1 .. Len(sends) /\ sends'[k] = sends[k + 1]
  <2>1. sends \in Seq(Sent)
    BY DEF TypeOK, Sent
  <2> QED
    BY <1>1, <2>1
<1>5. EchoesKept(p)'
  BY <1>1, <1>2, <1>4 DEF EchoesKept, Kept, Latest
<1> QED
  BY <1>3, <1>5

-----------------------------------------------------------------------------
LEMMA RingInit == Init => RingInv
<1> SUFFICES ASSUME Init PROVE RingInv
  OBVIOUS
<1> DEFINE p == Slots - 1
<1>1. p \in Slot /\ NextSlot(p) = 0 /\ 0 \in Slot
  BY RingAssumption DEF Slot, NextSlot
<1>2. TypeOK /\ HandlersOK
  BY <1>1, RingAssumption DEF Init, TypeOK, HandlersOK
<1>3. Waiting(p)
  BY <1>1 DEF Init, Waiting, Fillers, Armers
<1>4. EchoesKept(p)
  BY DEF Init, EchoesKept, Fillers
<1> QED
  BY <1>1, <1>2, <1>3, <1>4 DEF RingInv, Token

LEMMA RingSteps == RingInv /\ [Next]_vars => RingInv'
<1> SUFFICES ASSUME RingInv, [Next]_vars PROVE RingInv'
  OBVIOUS
<1>1. TypeOK /\ HandlersOK /\ TypeOK' /\ HandlersOK'
  BY TypesKept DEF RingInv
<1>2. PICK p \in Slot : Token(p) /\ EchoesKept(p)
  BY DEF RingInv
<1>3. \E q \in Slot : Token(q)' /\ EchoesKept(q)'
  <2>1. CASE UNCHANGED vars
    BY <1>2, <2>1 DEF vars, Token, Waiting, BeingFilled, Ready, BeingHandled, Latest,
                      Fillers, Armers, EchoesKept, Kept
  <2>2. ASSUME NEW t \in Thread, NEW i \in armed, Fill(t, i) \/ Fail(t, i)
        PROVE  \E q \in Slot : Token(q)' /\ EchoesKept(q)'
    BY <1>1, <1>2, <2>2, FillStep, FailStep, Successor
  <2>3. ASSUME NEW t \in Thread, Step(t)
        PROVE  \E q \in Slot : Token(q)' /\ EchoesKept(q)'
    BY <1>1, <1>2, <2>3, FilledStep, HandleStep, DoReceiveStep, DoSendStep, PerformStep DEF Step
  <2> QED
    BY <2>1, <2>2, <2>3 DEF Next
<1> QED
  BY <1>1, <1>3 DEF RingInv

(* Of a ring of any length served by any threads, where its one receive is *)
(* and what its slots hold.                                                *)
THEOREM RingInvariant == Spec => []RingInv
<1>1. Init => RingInv
  BY RingInit
<1>2. RingInv /\ [Next]_vars => RingInv'
  BY RingSteps
<1> QED
  BY <1>1, <1>2, PTL DEF Spec

(* The types of the ring, of the operations under way and of the threads.  *)
THEOREM RingTypes == Spec => []TypeOK
<1>1. RingInv => TypeOK
  BY DEF RingInv
<1> QED
  BY <1>1, RingInvariant, PTL

(* Whatever the error codes and however many threads run the handlers, the *)
(* server has exactly one receive at a time.                               *)
THEOREM ReceivesOnce == Spec => []OneReceive
<1>1. RingInv => OneReceive
  <2> SUFFICES ASSUME RingInv PROVE OneReceive
    OBVIOUS
  <2>1. PICK p \in Slot : Token(p)
    BY DEF RingInv
  <2>2. Cardinality({}) = 0 /\ \A x : Cardinality({x}) = 1
    BY FS_EmptySet, FS_Singleton
  <2>3. \E a, f, h \in {0, 1} :
          /\ Cardinality(armed) = a /\ Cardinality(Fillers) = f /\ Cardinality(Armers) = h
          /\ a + Len(ready) + f + h = 1
    <3>1. CASE Waiting(p)
      <4>1. Cardinality(armed) = 1 /\ Cardinality(Fillers) = 0 /\ Cardinality(Armers) = 0
        BY <2>2, <3>1, Zenon DEF Waiting
      <4> QED
        BY <3>1, <4>1 DEF Waiting
    <3>2. CASE BeingFilled(p)
      <4>1. Cardinality(armed) = 0 /\ Cardinality(Fillers) = 1 /\ Cardinality(Armers) = 0
        BY <2>2, <3>2, Zenon DEF BeingFilled
      <4> QED
        BY <3>2, <4>1 DEF BeingFilled
    <3>3. CASE Ready(p)
      <4>1. Cardinality(armed) = 0 /\ Cardinality(Fillers) = 0 /\ Cardinality(Armers) = 0
        BY <2>2, <3>3, Zenon DEF Ready
      <4> QED
        BY <3>3, <4>1 DEF Ready
    <3>4. CASE BeingHandled(p)
      <4>1. Cardinality(armed) = 0 /\ Cardinality(Fillers) = 0 /\ Cardinality(Armers) = 1
        BY <2>2, <3>4, Zenon DEF BeingHandled
      <4> QED
        BY <3>4, <4>1 DEF BeingHandled
    <3> QED
      BY <2>1, <3>1, <3>2, <3>3, <3>4 DEF Token
  <2> QED
    BY <2>3 DEF OneReceive, Fillers, Armers
<1> QED
  BY <1>1, RingInvariant, PTL

(* A slot is safe for the next Slots - 1 receives: an echo performed before*)
(* the ring comes back carries what was received, to its sender.           *)
THEOREM IntactBeforeLap == Spec => IntactUntilLapped
<1> DEFINE P == \A e \in echoes' \ echoes : taken < e.of + Slots => Faithful(e)
<1>1. RingInv /\ [Next]_vars => P
  <2> SUFFICES ASSUME RingInv, [Next]_vars, NEW e \in echoes' \ echoes, taken < e.of + Slots
               PROVE  Faithful(e)
    OBVIOUS
  <2>1. PICK t \in Thread : Perform(t)
    BY DEF Next, Step, Fill, Filled, Fail, Handle, DoReceive, DoSend, vars
  <2>2. PICK p \in Slot : EchoesKept(p)
    BY DEF RingInv
  <2> DEFINE r == sends[1]
  <2>3. sends \in Seq(Sent) /\ sends # <<>>
    BY <2>1 DEF Perform, RingInv, TypeOK, Sent
  <2>4. 1 \in 1 .. Len(sends) /\ Head(sends) = r
    BY <2>3
  <2>5. /\ r.of \notin failed /\ taken < r.of + Slots =>
             r.to = r.of /\ ring[r.slot] = [text |-> r.of, from |-> r.of]
    BY <2>2, <2>4 DEF EchoesKept, Kept, Intact
  <2>6. e = [of |-> r.of, text |-> IF r.of \in failed THEN Empty ELSE ring[r.slot].text, to |-> r.to]
    BY <2>1, <2>4 DEF Perform
  <2> QED
    BY <2>5, <2>6 DEF Faithful
<1>2. RingInv /\ [Next]_vars => [P]_vars
  BY <1>1
<1>3. IntactUntilLapped <=> [][P]_vars
  BY DEF IntactUntilLapped
<1> QED
  BY <1>2, <1>3, RingInvariant, PTL DEF Spec
=============================================================================
