---------------------------- MODULE DispatchQueue ----------------------------
(***************************************************************************)
(* dispatch_queue: worker threads that share a queue of tasks under a      *)
(* mutex and sleep on a condition variable while it is empty.  One action  *)
(* for each stretch of a thread between two points where it takes or       *)
(* leaves the mutex, waits or notifies.                                    *)
(*                                                                         *)
(* Tasks are distinct, terminate and do not throw; they may dispatch       *)
(* others.  Whoever destroys the queue has stopped dispatching from        *)
(* outside, as C++ asks of any object.                                     *)
(***************************************************************************)
EXTENDS Naturals, Sequences, FiniteSets, SequencesExt

CONSTANTS Worker,       \* threads a queue may be made with
          Client,       \* threads outside that dispatch
          Owner,        \* the thread that destroys the queue
          Task, NoTask,
          Free,         \* nobody holds the mutex
          MaxSpurious   \* bound: wakeups of cv_ that nobody notified

ASSUME ThreadAssumption ==
  /\ IsFiniteSet(Worker) /\ IsFiniteSet(Client)
  /\ Worker \cap Client = {}
  /\ Owner \notin Worker \cup Client
  /\ Free \notin Worker \cup Client \cup {Owner}
  /\ NoTask \notin Task
  /\ MaxSpurious \in Nat

VARIABLES
  threads_,   \* the workers this queue was made with
  lock_,      \* who holds the mutex
  q_,         \* tasks to be run
  quit_,
  pc,         \* where a thread is
  op,         \* the task a worker runs
  arg,        \* the task a thread is dispatching
  finished,   \* history: tasks that have run to their end
  spurious    \* spurious wakeups so far

vars == <<threads_, lock_, q_, quit_, pc, op, arg, finished, spurious>>

Caller == Worker \cup Client
Thread == Caller \cup {Owner}

In(place) == {t \in Thread : pc[t] = place}
Goto(t, place) == pc' = [pc EXCEPT ![t] = place]

(* Somebody has it: queued, running, done, or on its way into the queue. *)
Known(t) == \/ t \in Range(q_) \cup finished
            \/ \E w \in Worker : op[w] = t
            \/ \E c \in Caller : arg[c] = t

Init ==
  /\ threads_ \in SUBSET Worker
  /\ lock_ = Free
  /\ q_ = <<>>
  /\ quit_ = FALSE
  /\ pc = [t \in Thread |-> CASE t \in threads_          -> "acquire"
                              [] t \in Worker \ threads_ -> "done"
                              [] t \in Client            -> "idle"
                              [] OTHER                   -> "owning"]
  /\ op = [w \in Worker |-> NoTask]
  /\ arg = [c \in Caller |-> NoTask]
  /\ finished = {}
  /\ spurious = 0

-----------------------------------------------------------------------------
(***************************************************************************)
(* dispatch, called by a client or by the task a worker runs.  The mutex   *)
(* is left before cv_ is notified.                                         *)
(***************************************************************************)
Outside(c) == pc[c] = IF c \in Worker THEN "run" ELSE "idle"

Dispatch(c, t) ==
  /\ Outside(c)
  /\ c \in Client => pc[Owner] = "owning"
  /\ ~ Known(t)
  /\ arg' = [arg EXCEPT ![c] = t]
  /\ Goto(c, "dispatch")
  /\ UNCHANGED <<threads_, lock_, q_, quit_, op, finished, spurious>>

DispatchLock(c) ==
  /\ pc[c] = "dispatch"
  /\ lock_ = Free
  /\ lock_' = c
  /\ Goto(c, "push")
  /\ UNCHANGED <<threads_, q_, quit_, op, arg, finished, spurious>>

(* Mutant: only the first task of an empty queue is announced. *)
PushQuietly(c) ==
  /\ pc[c] = "push"
  /\ q_' = Append(q_, arg[c])
  /\ arg' = [arg EXCEPT ![c] = NoTask]
  /\ lock_' = Free
  /\ Goto(c, IF q_ = <<>> THEN "notify" ELSE IF c \in Worker THEN "run" ELSE "idle")
  /\ UNCHANGED <<threads_, quit_, op, finished, spurious>>

Push(c) ==
  /\ pc[c] = "push"
  /\ q_' = Append(q_, arg[c])
  /\ arg' = [arg EXCEPT ![c] = NoTask]
  /\ lock_' = Free
  /\ Goto(c, "notify")
  /\ UNCHANGED <<threads_, quit_, op, finished, spurious>>

(* notify_one wakes one of those that wait at this moment, if any. *)
NotifyOne(c) ==
  LET back == [pc EXCEPT ![c] = IF c \in Worker THEN "run" ELSE "idle"]
  IN  /\ pc[c] = "notify"
      /\ IF In("waiting") = {} THEN pc' = back
         ELSE \E w \in In("waiting") : pc' = [back EXCEPT ![w] = "acquire"]
      /\ UNCHANGED <<threads_, lock_, q_, quit_, op, arg, finished, spurious>>

-----------------------------------------------------------------------------
(***************************************************************************)
(* dispatch_thread_handler.  A worker takes the mutex at its start, when   *)
(* it is woken and when a task is done, and then looks at the predicate.   *)
(***************************************************************************)
Acquire(w) ==
  /\ pc[w] = "acquire"
  /\ lock_ = Free
  /\ lock_' = w
  /\ Goto(w, "check")
  /\ UNCHANGED <<threads_, q_, quit_, op, arg, finished, spurious>>

(* Mutant: the mutex is kept while waiting. *)
WaitLocked(w) ==
  /\ pc[w] = "check"
  /\ q_ = <<>> /\ ~ quit_
  /\ Goto(w, "waiting")
  /\ UNCHANGED <<threads_, lock_, q_, quit_, op, arg, finished, spurious>>

Wait(w) ==
  /\ pc[w] = "check"
  /\ q_ = <<>> /\ ~ quit_
  /\ lock_' = Free
  /\ Goto(w, "waiting")
  /\ UNCHANGED <<threads_, q_, quit_, op, arg, finished, spurious>>

SpuriousWakeup(w) ==
  /\ pc[w] = "waiting"
  /\ spurious < MaxSpurious
  /\ spurious' = spurious + 1
  /\ Goto(w, "acquire")
  /\ UNCHANGED <<threads_, lock_, q_, quit_, op, arg, finished>>

(* Mutant: the queue is emptied before the worker quits. *)
TakeRegardless(w) ==
  /\ pc[w] = "check"
  /\ q_ # <<>>
  /\ op' = [op EXCEPT ![w] = Head(q_)]
  /\ q_' = Tail(q_)
  /\ lock_' = Free
  /\ Goto(w, "run")
  /\ UNCHANGED <<threads_, quit_, arg, finished, spurious>>

Take(w) ==
  /\ pc[w] = "check"
  /\ q_ # <<>> /\ ~ quit_
  /\ op' = [op EXCEPT ![w] = Head(q_)]
  /\ q_' = Tail(q_)
  /\ lock_' = Free
  /\ Goto(w, "run")
  /\ UNCHANGED <<threads_, quit_, arg, finished, spurious>>

Return(w) ==
  /\ pc[w] = "run"
  /\ finished' = finished \cup {op[w]}
  /\ op' = [op EXCEPT ![w] = NoTask]
  /\ Goto(w, "acquire")
  /\ UNCHANGED <<threads_, lock_, q_, quit_, arg, spurious>>

Leave(w) ==
  /\ pc[w] = "check"
  /\ quit_
  /\ lock_' = Free
  /\ Goto(w, "done")
  /\ UNCHANGED <<threads_, q_, quit_, op, arg, finished, spurious>>

-----------------------------------------------------------------------------
(***************************************************************************)
(* ~dispatch_queue: set quit_ under the mutex, wake everybody, join all.   *)
(***************************************************************************)
Destroy ==
  /\ pc[Owner] = "owning"
  /\ \A c \in Client : pc[c] = "idle"
  /\ Goto(Owner, "destroy")
  /\ UNCHANGED <<threads_, lock_, q_, quit_, op, arg, finished, spurious>>

DestroyLock ==
  /\ pc[Owner] = "destroy"
  /\ lock_ = Free
  /\ lock_' = Owner
  /\ Goto(Owner, "quit")
  /\ UNCHANGED <<threads_, q_, quit_, op, arg, finished, spurious>>

Quit ==
  /\ pc[Owner] = "quit"
  /\ quit_' = TRUE
  /\ lock_' = Free
  /\ Goto(Owner, "notify_all")
  /\ UNCHANGED <<threads_, q_, op, arg, finished, spurious>>

(* Mutant: one worker is woken. *)
NotifyFirst ==
  /\ pc[Owner] = "notify_all"
  /\ \E w \in In("waiting") \cup {Owner} :
       pc' = [pc EXCEPT ![w] = "acquire", ![Owner] = "join"]
  /\ UNCHANGED <<threads_, lock_, q_, quit_, op, arg, finished, spurious>>

NotifyAll ==
  /\ pc[Owner] = "notify_all"
  /\ pc' = [t \in Thread |-> CASE pc[t] = "waiting" -> "acquire"
                               [] t = Owner         -> "join"
                               [] OTHER             -> pc[t]]
  /\ UNCHANGED <<threads_, lock_, q_, quit_, op, arg, finished, spurious>>

Join ==
  /\ pc[Owner] = "join"
  /\ \A w \in threads_ : pc[w] = "done"
  /\ Goto(Owner, "gone")
  /\ UNCHANGED <<threads_, lock_, q_, quit_, op, arg, finished, spurious>>

-----------------------------------------------------------------------------
DispatchStep(c) == DispatchLock(c) \/ Push(c) \/ NotifyOne(c)

WorkerStep(w) == Acquire(w) \/ Wait(w) \/ Take(w) \/ Return(w) \/ Leave(w)

OwnerStep == DestroyLock \/ Quit \/ NotifyAll \/ Join

Next == \/ \E c \in Caller : \E t \in Task : Dispatch(c, t)
        \/ \E c \in Caller : DispatchStep(c)
        \/ \E w \in Worker : WorkerStep(w) \/ SpuriousWakeup(w)
        \/ Destroy
        \/ OwnerStep

Spec == Init /\ [][Next]_vars

(***************************************************************************)
(* A thread that can go on does.  Nothing more is asked of the mutex: who  *)
(* gets it among those that wait for it is open.  Nobody must dispatch or  *)
(* destroy.                                                                *)
(***************************************************************************)
Fairness == /\ \A c \in Caller : WF_vars(DispatchStep(c))
            /\ \A w \in Worker : WF_vars(WorkerStep(w))
            /\ WF_vars(OwnerStep)

FairSpec == Spec /\ Fairness

-----------------------------------------------------------------------------
(***************************************************************************)
(* Properties.                                                             *)
(***************************************************************************)
ClientPlace == {"idle", "dispatch", "push", "notify"}
WorkerPlace == {"acquire", "check", "waiting", "run", "dispatch", "push", "notify", "done"}
OwnerPlace  == {"owning", "destroy", "quit", "notify_all", "join", "gone"}

(* Types, what a thread has in hand at each place, and who has the mutex.  *)
Typed ==
  /\ threads_ \in SUBSET Worker
  /\ lock_ \in Thread \cup {Free}
  /\ q_ \in Seq(Task)
  /\ quit_ \in BOOLEAN
  /\ pc \in [Thread -> ClientPlace \cup WorkerPlace \cup OwnerPlace]
  /\ op \in [Worker -> Task \cup {NoTask}]
  /\ arg \in [Caller -> Task \cup {NoTask}]
  /\ finished \in SUBSET Task
  /\ spurious \in 0 .. MaxSpurious

Places ==
  /\ \A c \in Client : pc[c] \in ClientPlace
  /\ \A w \in Worker : pc[w] \in WorkerPlace
  /\ pc[Owner] \in OwnerPlace

InHand ==
  /\ \A w \in Worker : op[w] # NoTask <=> pc[w] \in {"run", "dispatch", "push", "notify"}
  /\ \A c \in Caller : arg[c] # NoTask <=> pc[c] \in {"dispatch", "push"}

HoldsLock == \A t \in Thread : pc[t] \in {"check", "push", "quit"} <=> lock_ = t

TypeOK == Typed /\ Places /\ InHand /\ HoldsLock

(* No wakeup is lost: while a worker sleeps, there is for every queued     *)
(* task a worker about to look at the queue or a notification under way.   *)
(* So no task waits for the end of another while a worker has nothing to   *)
(* do, although cv_ is notified outside the mutex.                         *)
Coming == In("acquire") \cup In("check") \cup In("notify")

WorkConserving ==
  In("waiting") # {} /\ ~ quit_ => Len(q_) <= Cardinality(Coming)

(* After the workers are told to quit, none sleeps: the joins return.      *)
NobodySleepsOn == pc[Owner] \in {"join", "gone"} => In("waiting") = {}

(* A queue is the pool its users rely on.                                  *)
PoolState == CASE pc[Owner] = "gone" -> "gone"
               [] quit_ /\ pc[Owner] # "gone" -> "closing"
               [] OTHER -> "open"

Pool == INSTANCE TaskPool WITH Slot <- Worker, slots <- threads_, pending <- q_,
                               running <- op, state <- PoolState

ImplementsPool == Pool!FairSpec
=============================================================================
