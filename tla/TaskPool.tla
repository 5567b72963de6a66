------------------------------ MODULE TaskPool ------------------------------
(***************************************************************************)
(* What dispatch_queue promises to those who dispatch: tasks are started   *)
(* in the order dispatched, each at most once, by any slot that is free;   *)
(* once the pool is being closed nothing starts; and it is gone only when  *)
(* nothing runs.  A task still queued when the pool closes is dropped.     *)
(***************************************************************************)
EXTENDS Naturals, Sequences, SequencesExt

CONSTANTS Slot, Task, NoTask

VARIABLES slots,     \* the slots this pool was made with
          pending,   \* tasks dispatched and not started, in order
          running,   \* [Slot -> Task or NoTask]
          finished,  \* tasks that have run to their end
          state      \* "open", "closing" or "gone"

vars == <<slots, pending, running, finished, state>>

Started == finished \cup ({running[w] : w \in Slot} \ {NoTask})

Init ==
  /\ slots \in SUBSET Slot
  /\ pending = <<>>
  /\ running = [w \in Slot |-> NoTask]
  /\ finished = {}
  /\ state = "open"

Submit(t) ==
  /\ state # "gone"
  /\ t \notin Range(pending) \cup Started
  /\ pending' = Append(pending, t)
  /\ UNCHANGED <<slots, running, finished, state>>

Start(w) ==
  /\ state = "open"
  /\ w \in slots /\ running[w] = NoTask
  /\ pending # <<>>
  /\ running' = [running EXCEPT ![w] = Head(pending)]
  /\ pending' = Tail(pending)
  /\ UNCHANGED <<slots, finished, state>>

Finish(w) ==
  /\ running[w] # NoTask
  /\ finished' = finished \cup {running[w]}
  /\ running' = [running EXCEPT ![w] = NoTask]
  /\ UNCHANGED <<slots, pending, state>>

Close ==
  /\ state = "open"
  /\ state' = "closing"
  /\ UNCHANGED <<slots, pending, running, finished>>

Vanish ==
  /\ state = "closing"
  /\ \A w \in Slot : running[w] = NoTask
  /\ state' = "gone"
  /\ UNCHANGED <<slots, pending, running, finished>>

Next == \/ \E t \in Task : Submit(t)
        \/ \E w \in Slot : Start(w) \/ Finish(w)
        \/ Close
        \/ Vanish

Spec == Init /\ [][Next]_vars

(***************************************************************************)
(* Tasks end.  Then whatever is queued is started while a slot is free,    *)
(* and a pool that is closed is gone in the end.                           *)
(***************************************************************************)
FairSpec == /\ Spec
            /\ WF_vars(\E w \in Slot : Start(w))
            /\ \A w \in Slot : WF_vars(Finish(w))
            /\ WF_vars(Vanish)
=============================================================================
