----------------------------- MODULE ReceiveRing -----------------------------
(***************************************************************************)
(* materialtest.cpp: an echo server whose one outstanding receive moves    *)
(* round a ring of buffers while several threads run the io_service.  The  *)
(* completion handler re-arms at the next slot first and echoes afterwards *)
(* from its own slot, which the ring may have come back to meanwhile.      *)
(*                                                                         *)
(* A datagram is the number of the receive that takes it; its text and its *)
(* sender are that number.  Printing changes no state and is left out.     *)
(***************************************************************************)
EXTENDS Naturals, Sequences, FiniteSets

CONSTANTS Slots,         \* length of m_callback_list, 3 in the code
          Thread,        \* threads in io_service::run, 4 in the code
          Nothing,       \* no operation, no sender
          Empty,         \* a text of length 0
          Torn,          \* a buffer or sender that is being written
          MaxReceives,   \* bound: receives that end
          MaxFailures    \* bound: receives that end with an error code

Slot == 0 .. Slots - 1
Receive == [of : 1 .. MaxReceives, slot : Slot]

ASSUME RingAssumption ==
  /\ Slots \in Nat \ {0}
  /\ MaxReceives \in Nat
  /\ Nothing \notin Receive

VARIABLES
  ring,     \* m_callback_list: [text, from] of each slot
  armed,    \* slots an async_receive_from waits in
  filling,  \* the receive a thread copies from the kernel
  ready,    \* receives that ended and whose handler was not called
  pc,       \* "run", or where a thread is in a handler
  cur,      \* the receive whose handler a thread runs
  sends,    \* async_send_to operations not performed
  taken,    \* number of receives that ended or are being filled
  failed,   \* those that ended with an error code
  echoes    \* history: what was sent

vars == <<ring, armed, filling, ready, pc, cur, sends, taken, failed, echoes>>

Init ==
  /\ ring = [i \in Slot |-> [text |-> Empty, from |-> Nothing]]
  /\ armed = {0}
  /\ filling = [t \in Thread |-> Nothing]
  /\ ready = <<>> /\ sends = <<>>
  /\ pc = [t \in Thread |-> "run"]
  /\ cur = [t \in Thread |-> Nothing]
  /\ taken = 0 /\ failed = {} /\ echoes = {}

(* Mutants: no wraparound; one buffer for all. *)
RunOn(i) == i + 1
StayAt(i) == i
NextSlot(i) == IF i + 1 # Slots THEN i + 1 ELSE 0

-----------------------------------------------------------------------------
(***************************************************************************)
(* A receive is performed by the thread that polls the socket, or by the   *)
(* one that has just armed it, within the call.                            *)
(***************************************************************************)
Receiver(t, i) ==
  /\ filling[t] = Nothing
  /\ pc[t] = "run" \/ (pc[t] = "send" /\ i = NextSlot(cur[t].slot))
  /\ i \in armed /\ armed' = armed \ {i}
  /\ taken < MaxReceives /\ taken' = taken + 1

Fill(t, i) ==
  /\ Receiver(t, i)
  /\ filling' = [filling EXCEPT ![t] = [of |-> taken + 1, slot |-> i]]
  /\ ring' = [ring EXCEPT ![i] = [text |-> Torn, from |-> Torn]]
  /\ UNCHANGED <<ready, pc, cur, sends, failed, echoes>>

Filled(t) ==
  LET r == filling[t]
  IN  /\ r # Nothing
      /\ ring' = [ring EXCEPT ![r.slot] = [text |-> r.of, from |-> r.of]]
      /\ ready' = Append(ready, r)
      /\ filling' = [filling EXCEPT ![t] = Nothing]
      /\ UNCHANGED <<armed, pc, cur, sends, taken, failed, echoes>>

Fail(t, i) ==
  /\ Receiver(t, i)
  /\ Cardinality(failed) < MaxFailures
  /\ failed' = failed \cup {taken + 1}
  /\ ready' = Append(ready, [of |-> taken + 1, slot |-> i])
  /\ UNCHANGED <<ring, filling, pc, cur, sends, echoes>>

(***************************************************************************)
(* The completion handler: re-arm whatever the outcome, then echo.         *)
(***************************************************************************)
Handle(t) ==
  /\ filling[t] = Nothing /\ pc[t] = "run"
  /\ ready # <<>>
  /\ cur' = [cur EXCEPT ![t] = Head(ready)]
  /\ ready' = Tail(ready)
  /\ pc' = [pc EXCEPT ![t] = "do_receive"]
  /\ UNCHANGED <<ring, armed, filling, sends, taken, failed, echoes>>

(* Mutant: no receive after an error. *)
DoReceiveUnlessError(t) ==
  /\ pc[t] = "do_receive"
  /\ armed' = IF cur[t].of \in failed THEN armed ELSE armed \cup {NextSlot(cur[t].slot)}
  /\ pc' = [pc EXCEPT ![t] = "send"]
  /\ UNCHANGED <<ring, filling, ready, cur, sends, taken, failed, echoes>>

DoReceive(t) ==
  /\ pc[t] = "do_receive"
  /\ armed' = armed \cup {NextSlot(cur[t].slot)}
  /\ pc' = [pc EXCEPT ![t] = "send"]
  /\ UNCHANGED <<ring, filling, ready, cur, sends, taken, failed, echoes>>

(* async_send_to copies the endpoint now and reads the text when it sends. *)
Sending(t) == [of |-> cur[t].of, slot |-> cur[t].slot, to |-> ring[cur[t].slot].from]

(* Mutant: one operation is kept, the latest. *)
DoSendLatest(t) ==
  /\ filling[t] = Nothing /\ pc[t] = "send"
  /\ sends' = <<Sending(t)>>
  /\ pc' = [pc EXCEPT ![t] = "run"]
  /\ cur' = [cur EXCEPT ![t] = Nothing]
  /\ UNCHANGED <<ring, armed, filling, ready, taken, failed, echoes>>

DoSend(t) ==
  /\ filling[t] = Nothing /\ pc[t] = "send"
  /\ sends' = Append(sends, Sending(t))
  /\ pc' = [pc EXCEPT ![t] = "run"]
  /\ cur' = [cur EXCEPT ![t] = Nothing]
  /\ UNCHANGED <<ring, armed, filling, ready, taken, failed, echoes>>

(* At once by the thread that asked, or later by any that polls.           *)
Perform(t) ==
  LET s == Head(sends)
      text == IF s.of \in failed THEN Empty ELSE ring[s.slot].text
  IN  /\ filling[t] = Nothing /\ pc[t] = "run"
      /\ sends # <<>>
      /\ sends' = Tail(sends)
      /\ echoes' = echoes \cup {[of |-> s.of, text |-> text, to |-> s.to]}
      /\ UNCHANGED <<ring, armed, filling, ready, pc, cur, taken, failed>>

Step(t) == Filled(t) \/ Handle(t) \/ DoReceive(t) \/ DoSend(t) \/ Perform(t)

Next == \E t \in Thread : \/ \E i \in armed : Fill(t, i) \/ Fail(t, i)
                          \/ Step(t)

(* Threads go on; datagrams need not come. *)
Spec == Init /\ [][Next]_vars /\ \A t \in Thread : WF_vars(Step(t))

-----------------------------------------------------------------------------
(***************************************************************************)
(* Properties.                                                             *)
(***************************************************************************)
TypeOK ==
  /\ ring \in [Slot -> [text : 1 .. MaxReceives \cup {Empty, Torn},
                        from : 1 .. MaxReceives \cup {Nothing, Torn}]]
  /\ armed \subseteq Slot
  /\ filling \in [Thread -> Receive \cup {Nothing}]
  /\ ready \in Seq(Receive)
  /\ pc \in [Thread -> {"run", "do_receive", "send"}]
  /\ cur \in [Thread -> Receive \cup {Nothing}]
  /\ sends \in Seq([of : 1 .. MaxReceives, slot : Slot,
                    to : 1 .. MaxReceives \cup {Nothing, Torn}])
  /\ taken \in 0 .. MaxReceives
  /\ failed \subseteq 1 .. taken

(* The server never goes deaf and never receives twice at a time: there is *)
(* one receive that waits, is being filled, waits for its handler, or      *)
(* whose handler is about to arm the next.                                 *)
OneReceive ==
  Cardinality(armed) + Len(ready)
    + Cardinality({t \in Thread : filling[t] # Nothing})
    + Cardinality({t \in Thread : pc[t] = "do_receive"}) = 1

Faithful(e) == e.of \notin failed => e.text = e.of /\ e.to = e.of

(* What is echoed is what was received, to its sender, for as long as the  *)
(* ring has not come back to the slot: each slot is safe for the duration  *)
(* of the next Slots - 1 receives and no longer.                           *)
IntactUntilLapped ==
  [][\A e \in echoes' \ echoes : taken < e.of + Slots => Faithful(e)]_vars

(* Whatever is received is answered with a datagram.                       *)
Answered ==
  \A n \in 1 .. MaxReceives : taken >= n ~> \E e \in echoes : e.of = n
=============================================================================
