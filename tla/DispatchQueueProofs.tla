------------------------- MODULE DispatchQueueProofs -------------------------
(***************************************************************************)
(* Proofs about dispatch_queue, for any workers, clients and tasks and any *)
(* number of spurious wakeups.                                             *)
(***************************************************************************)
EXTENDS DispatchQueue, FiniteSetTheorems, TLAPS

(* Every place a thread can be at is a string of its own kind.             *)
LEMMA ThreadKinds ==
  /\ Worker \subseteq Caller /\ Client \subseteq Caller
  /\ Caller \subseteq Thread /\ Owner \in Thread
  /\ Owner \notin Caller
  /\ Free \notin Thread
  /\ Worker \cap Client = {}
  /\ NoTask \notin Task
BY ThreadAssumption DEF Caller, Thread

-----------------------------------------------------------------------------
(***************************************************************************)
(* Types, one lemma for the start and one for each group of actions.       *)
(***************************************************************************)
LEMMA InitTypeOK == Init => TypeOK
<1> SUFFICES ASSUME Init PROVE TypeOK
  OBVIOUS
<1> USE ThreadKinds DEF Init
<1>1. pc \in [Thread -> {"acquire", "done", "idle", "owning"}]
  BY DEF Thread
<1>2. /\ \A c \in Client : pc[c] = "idle"
      /\ \A w \in Worker : pc[w] \in {"acquire", "done"}
      /\ pc[Owner] = "owning"
  BY DEF Thread, Caller
<1>3. Typed
  <2>1. pc \in [Thread -> ClientPlace \cup WorkerPlace \cup OwnerPlace]
    BY <1>1 DEF ClientPlace, WorkerPlace, OwnerPlace
  <2>2. spurious \in 0 .. MaxSpurious
    BY ThreadAssumption
  <2>3. op \in [Worker -> Task \cup {NoTask}] /\ arg \in [Caller -> Task \cup {NoTask}]
    OBVIOUS
  <2>4. q_ \in Seq(Task)
    OBVIOUS
  <2> HIDE DEF Init
  <2>5. /\ threads_ \in SUBSET Worker /\ lock_ \in Thread \cup {Free}
        /\ quit_ \in BOOLEAN /\ finished \in SUBSET Task
    BY DEF Init
  <2> QED
    BY ONLY <2>1, <2>2, <2>3, <2>4, <2>5 DEF Typed
<1>4. Places
  BY <1>2 DEF Places, ClientPlace, WorkerPlace, OwnerPlace
<1>5. InHand
  BY <1>2 DEF InHand, Caller
<1>6. HoldsLock
  BY <1>1 DEF HoldsLock
<1> QED
  BY <1>3, <1>4, <1>5, <1>6 DEF TypeOK

(* What dispatch does keeps the types.                                     *)
LEMMA DispatchTypeOK ==
  ASSUME TypeOK, NEW c \in Caller,
         \/ \E t \in Task : Dispatch(c, t)
         \/ DispatchStep(c)
  PROVE  TypeOK'
<1> USE ThreadKinds DEF TypeOK, Typed, Places, InHand, HoldsLock, Goto, In,
        ClientPlace, WorkerPlace, OwnerPlace, Outside
<1>1. ASSUME NEW t \in Task, Dispatch(c, t) PROVE TypeOK'
  BY <1>1 DEF Dispatch
<1>2. CASE DispatchLock(c)
  BY <1>2 DEF DispatchLock
<1>3. CASE Push(c)
  <2>1. arg[c] \in Task
    BY <1>3 DEF Push, Caller
  <2> QED
    BY <1>3, <2>1 DEF Push
<1>4. CASE NotifyOne(c)
  BY <1>4 DEF NotifyOne
<1> QED
  BY <1>1, <1>2, <1>3, <1>4 DEF DispatchStep

(* What a worker does keeps the types.                                     *)
LEMMA WorkerTypeOK ==
  ASSUME TypeOK, NEW w \in Worker,
         WorkerStep(w) \/ SpuriousWakeup(w)
  PROVE  TypeOK'
<1> USE ThreadKinds DEF TypeOK, Typed, Places, InHand, HoldsLock, Goto, In,
        ClientPlace, WorkerPlace, OwnerPlace
<1>1. CASE Acquire(w)
  BY <1>1 DEF Acquire
<1>2. CASE Wait(w)
  BY <1>2 DEF Wait
<1>3. CASE Take(w)
  <2>1. Head(q_) \in Task /\ Tail(q_) \in Seq(Task)
    BY <1>3 DEF Take
  <2> QED
    BY <1>3, <2>1 DEF Take
<1>4. CASE Return(w)
  BY <1>4 DEF Return
<1>5. CASE Leave(w)
  BY <1>5 DEF Leave
<1>6. CASE SpuriousWakeup(w)
  <2>1. spurious' \in 0 .. MaxSpurious
    BY <1>6, ThreadAssumption DEF SpuriousWakeup
  <2> QED
    BY <1>6, <2>1 DEF SpuriousWakeup
<1> QED
  BY <1>1, <1>2, <1>3, <1>4, <1>5, <1>6 DEF WorkerStep

(* What the destructor does keeps the types.                               *)
LEMMA OwnerTypeOK ==
  ASSUME TypeOK, Destroy \/ OwnerStep
  PROVE  TypeOK'
<1> USE ThreadKinds DEF TypeOK, Typed, Places, InHand, HoldsLock, Goto, In,
        ClientPlace, WorkerPlace, OwnerPlace
<1>1. CASE Destroy
  BY <1>1 DEF Destroy
<1>2. CASE DestroyLock
  BY <1>2 DEF DestroyLock
<1>3. CASE Quit
  BY <1>3 DEF Quit
<1>4. CASE NotifyAll
  BY <1>4 DEF NotifyAll
<1>5. CASE Join
  BY <1>5 DEF Join
<1> QED
  BY <1>1, <1>2, <1>3, <1>4, <1>5 DEF OwnerStep

(* The types of the variables, and of what each thread holds at each place.*)
THEOREM PoolTypes == Spec => []TypeOK
<1>1. TypeOK /\ [Next]_vars => TypeOK'
  <2> SUFFICES ASSUME TypeOK, [Next]_vars PROVE TypeOK'
    OBVIOUS
  <2>1. CASE \E c \in Caller : \/ \E t \in Task : Dispatch(c, t)
                               \/ DispatchStep(c)
    BY <2>1, DispatchTypeOK
  <2>2. CASE \E w \in Worker : WorkerStep(w) \/ SpuriousWakeup(w)
    BY <2>2, WorkerTypeOK
  <2>3. CASE Destroy \/ OwnerStep
    BY <2>3, OwnerTypeOK
  <2>4. CASE UNCHANGED vars
    BY <2>4 DEF vars, TypeOK, Typed, Places, InHand, HoldsLock
  <2> QED
    BY <2>1, <2>2, <2>3, <2>4 DEF Next
<1> QED
  BY <1>1, InitTypeOK, PTL DEF Spec

-----------------------------------------------------------------------------
(***************************************************************************)
(* The course of the destructor, and that a task on its way into the queue *)
(* is nowhere else.  NobodySleepsOn alone is not inductive: a worker that  *)
(* falls asleep late must have seen quit_ unset.                           *)
(***************************************************************************)
Shutdown ==
  /\ quit_ <=> pc[Owner] \in {"notify_all", "join", "gone"}
  /\ pc[Owner] # "owning" => \A c \in Client : pc[c] = "idle"
  /\ pc[Owner] \in {"join", "gone"} => \A w \in Worker : pc[w] # "waiting"
  /\ pc[Owner] = "gone" => \A w \in Worker : pc[w] = "done"
  /\ \A w \in Worker \ threads_ : pc[w] = "done"

Fresh ==
  \A c \in Caller : arg[c] # NoTask =>
    /\ arg[c] \notin Range(q_) \cup finished
    /\ \A w \in Worker : op[w] # arg[c]
    /\ \A d \in Caller \ {c} : arg[d] # arg[c]

LEMMA InitShutdown == Init => Shutdown
<1> SUFFICES ASSUME Init PROVE Shutdown
  OBVIOUS
<1>1. /\ \A c \in Client : pc[c] = "idle"
      /\ \A w \in Worker : pc[w] \in {"acquire", "done"}
      /\ \A w \in Worker \ threads_ : pc[w] = "done"
      /\ pc[Owner] = "owning" /\ quit_ = FALSE
  BY ThreadKinds DEF Init, Thread, Caller
<1> QED
  BY <1>1 DEF Shutdown

LEMMA DispatchShutdown ==
  ASSUME TypeOK, Shutdown, NEW c \in Caller,
         \/ \E t \in Task : Dispatch(c, t)
         \/ DispatchStep(c)
  PROVE  Shutdown'
<1> USE ThreadKinds DEF TypeOK, Typed, Places, Shutdown, Goto, In,
        ClientPlace, WorkerPlace, OwnerPlace, Outside
<1>0. pc[c] # "done" /\ (c \in Client => pc[Owner] = "owning")
  BY DEF Dispatch, DispatchStep, DispatchLock, Push, NotifyOne, Caller
<1>1. ASSUME NEW t \in Task, Dispatch(c, t) PROVE Shutdown'
  BY <1>0, <1>1 DEF Dispatch
<1>2. CASE DispatchLock(c)
  BY <1>0, <1>2 DEF DispatchLock
<1>3. CASE Push(c)
  BY <1>0, <1>3 DEF Push
<1>4. CASE NotifyOne(c)
  BY <1>0, <1>4 DEF NotifyOne
<1> QED
  BY <1>1, <1>2, <1>3, <1>4 DEF DispatchStep

LEMMA WorkerShutdown ==
  ASSUME TypeOK, Shutdown, NEW w \in Worker,
         WorkerStep(w) \/ SpuriousWakeup(w)
  PROVE  Shutdown'
<1> USE ThreadKinds DEF TypeOK, Typed, Places, Shutdown, Goto,
        ClientPlace, WorkerPlace, OwnerPlace
<1>1. CASE Acquire(w)
  BY <1>1 DEF Acquire
<1>2. CASE Wait(w)
  BY <1>2 DEF Wait
<1>3. CASE Take(w)
  BY <1>3 DEF Take
<1>4. CASE Return(w)
  BY <1>4 DEF Return
<1>5. CASE Leave(w)
  BY <1>5 DEF Leave
<1>6. CASE SpuriousWakeup(w)
  BY <1>6 DEF SpuriousWakeup
<1> QED
  BY <1>1, <1>2, <1>3, <1>4, <1>5, <1>6 DEF WorkerStep

LEMMA OwnerShutdown ==
  ASSUME TypeOK, Shutdown, Destroy \/ OwnerStep
  PROVE  Shutdown'
<1> USE ThreadKinds DEF TypeOK, Typed, Places, Shutdown, Goto,
        ClientPlace, WorkerPlace, OwnerPlace
<1>1. CASE Destroy
  BY <1>1 DEF Destroy
<1>2. CASE DestroyLock
  BY <1>2 DEF DestroyLock
<1>3. CASE Quit
  BY <1>3 DEF Quit
<1>4. CASE NotifyAll
  BY <1>4 DEF NotifyAll
<1>5. CASE Join
  BY <1>5 DEF Join
<1> QED
  BY <1>1, <1>2, <1>3, <1>4, <1>5 DEF OwnerStep

THEOREM ShutdownInvariant == Spec => []Shutdown
<1>1. TypeOK /\ Shutdown /\ [Next]_vars => Shutdown'
  <2> SUFFICES ASSUME TypeOK, Shutdown, [Next]_vars PROVE Shutdown'
    OBVIOUS
  <2>1. CASE \E c \in Caller : \/ \E t \in Task : Dispatch(c, t)
                               \/ DispatchStep(c)
    BY <2>1, DispatchShutdown
  <2>2. CASE \E w \in Worker : WorkerStep(w) \/ SpuriousWakeup(w)
    BY <2>2, WorkerShutdown
  <2>3. CASE Destroy \/ OwnerStep
    BY <2>3, OwnerShutdown
  <2>4. CASE UNCHANGED vars
    BY <2>4 DEF vars, Shutdown
  <2> QED
    BY <2>1, <2>2, <2>3, <2>4 DEF Next
<1> QED
  BY <1>1, InitShutdown, PoolTypes, PTL DEF Spec

(* After the workers are told to quit, none of them sleeps: the joins of   *)
(* the destructor return.                                                  *)
THEOREM NoneLeftAsleep == Spec => []NobodySleepsOn
<1>1. TypeOK /\ Shutdown => NobodySleepsOn
  BY ThreadKinds DEF TypeOK, Places, Shutdown, NobodySleepsOn, In, Thread, Caller,
     ClientPlace, OwnerPlace
<1> QED
  BY <1>1, PoolTypes, ShutdownInvariant, PTL

-----------------------------------------------------------------------------
(***************************************************************************)
(* What is in a queue after a task is put in or taken out.                 *)
(***************************************************************************)
LEMMA RangeAppend ==
  ASSUME NEW S, NEW sq \in Seq(S), NEW x \in S
  PROVE  Range(Append(sq, x)) = Range(sq) \cup {x}
<1>1. DOMAIN Append(sq, x) = 1 .. Len(sq) + 1 /\ DOMAIN sq = 1 .. Len(sq)
  OBVIOUS
<1>2. \A i \in 1 .. Len(sq) : Append(sq, x)[i] = sq[i]
  OBVIOUS
<1>3. Append(sq, x)[Len(sq) + 1] = x
  OBVIOUS
<1>4. Len(sq) \in Nat
  OBVIOUS
<1>5. \A i \in 1 .. Len(sq) + 1 : i \in 1 .. Len(sq) \/ i = Len(sq) + 1
  BY <1>4
<1>6. 1 .. Len(sq) \subseteq 1 .. Len(sq) + 1 /\ Len(sq) + 1 \in 1 .. Len(sq) + 1
  BY <1>4
<1>7. Range(Append(sq, x)) \subseteq Range(sq) \cup {x}
  BY <1>1, <1>2, <1>3, <1>5, Zenon DEF Range
<1>8. Range(sq) \cup {x} \subseteq Range(Append(sq, x))
  BY <1>1, <1>2, <1>3, <1>6, Zenon DEF Range
<1> QED
  BY <1>7, <1>8

LEMMA RangeTail ==
  ASSUME NEW S, NEW sq \in Seq(S), sq # <<>>
  PROVE  Range(Tail(sq)) \subseteq Range(sq) /\ Head(sq) \in Range(sq)
<1>1. Len(sq) \in Nat \ {0} /\ DOMAIN sq = 1 .. Len(sq)
  OBVIOUS
<1>2. Head(sq) = sq[1] /\ 1 \in DOMAIN sq
  BY <1>1
<1>3. ASSUME NEW i \in DOMAIN Tail(sq)
      PROVE  i + 1 \in DOMAIN sq /\ Tail(sq)[i] = sq[i + 1]
  BY <1>1, <1>3
<1>4. Head(sq) \in Range(sq)
  BY <1>2, Zenon DEF Range
<1>5. Range(Tail(sq)) \subseteq Range(sq)
  BY <1>3, Zenon DEF Range
<1> QED
  BY <1>4, <1>5

-----------------------------------------------------------------------------
(***************************************************************************)
(* A task being dispatched is not yet known to the pool.                   *)
(***************************************************************************)
LEMMA DispatchFresh ==
  ASSUME TypeOK, Fresh, NEW c \in Caller,
         \/ \E t \in Task : Dispatch(c, t)
         \/ DispatchStep(c)
  PROVE  Fresh'
<1> USE ThreadKinds DEF TypeOK, Typed, Fresh
<1>1. ASSUME NEW t \in Task, Dispatch(c, t) PROVE Fresh'
  BY <1>1 DEF Dispatch, Known
<1>2. CASE DispatchLock(c)
  BY <1>2 DEF DispatchLock
<1>3. CASE Push(c)
  <2>1. arg[c] \in Task
    BY <1>3 DEF Push, InHand
  <2>2. Range(q_') = Range(q_) \cup {arg[c]}
    BY <1>3, <2>1, RangeAppend DEF Push
  <2> QED
    BY <1>3, <2>1, <2>2 DEF Push
<1>4. CASE NotifyOne(c)
  BY <1>4 DEF NotifyOne
<1> QED
  BY <1>1, <1>2, <1>3, <1>4 DEF DispatchStep

LEMMA WorkerFresh ==
  ASSUME TypeOK, Fresh, NEW w \in Worker,
         WorkerStep(w) \/ SpuriousWakeup(w)
  PROVE  Fresh'
<1> USE ThreadKinds DEF TypeOK, Typed, Fresh
<1>1. CASE Acquire(w) \/ Wait(w) \/ Leave(w) \/ SpuriousWakeup(w)
  BY <1>1 DEF Acquire, Wait, Leave, SpuriousWakeup
<1>2. CASE Take(w)
  <2>1. Range(q_') \subseteq Range(q_) /\ Head(q_) \in Range(q_)
    BY <1>2, RangeTail DEF Take
  <2> QED
    BY <1>2, <2>1 DEF Take
<1>3. CASE Return(w)
  BY <1>3 DEF Return
<1> QED
  BY <1>1, <1>2, <1>3 DEF WorkerStep

LEMMA OwnerFresh ==
  ASSUME Fresh, Destroy \/ OwnerStep
  PROVE  Fresh'
BY DEF Fresh, Destroy, OwnerStep, DestroyLock, Quit, NotifyAll, Join

THEOREM FreshInvariant == Spec => []Fresh
<1>1. Init => Fresh
  BY DEF Init, Fresh
<1>2. TypeOK /\ Fresh /\ [Next]_vars => Fresh'
  <2> SUFFICES ASSUME TypeOK, Fresh, [Next]_vars PROVE Fresh'
    OBVIOUS
  <2>1. CASE \E c \in Caller : \/ \E t \in Task : Dispatch(c, t)
                               \/ DispatchStep(c)
    BY <2>1, DispatchFresh
  <2>2. CASE \E w \in Worker : WorkerStep(w) \/ SpuriousWakeup(w)
    BY <2>2, WorkerFresh
  <2>3. CASE Destroy \/ OwnerStep
    BY <2>3, OwnerFresh
  <2>4. CASE UNCHANGED vars
    BY <2>4 DEF vars, Fresh
  <2> QED
    BY <2>1, <2>2, <2>3, <2>4 DEF Next
<1> QED
  BY <1>1, <1>2, PoolTypes, PTL DEF Spec

-----------------------------------------------------------------------------
(***************************************************************************)
(* Work conservation is inductive while quit_ is unset: a push announces   *)
(* itself, a notification hands over to a sleeper, a worker that takes a   *)
(* task takes one from the queue, and one falls asleep on an empty queue.  *)
(***************************************************************************)
LEMMA ComingFinite == IsFiniteSet(Coming) /\ Cardinality(Coming) \in Nat
<1>1. IsFiniteSet(Worker \cup Client)
  BY ThreadAssumption, FS_Union
<1>2. IsFiniteSet((Worker \cup Client) \cup {Owner})
  BY <1>1, FS_AddElement
<1>3. Coming \in SUBSET Thread
  BY DEF Coming, In
<1>4. IsFiniteSet(Coming)
  BY <1>2, <1>3, FS_Subset DEF Thread, Caller
<1> QED
  BY <1>4, FS_CardinalityType

LEMMA ComingGrows ==
  ASSUME NEW t, t \notin Coming, Coming' = Coming \cup {t}
  PROVE  Cardinality(Coming') = Cardinality(Coming) + 1
BY ComingFinite, FS_AddElement

LEMMA ComingShrinks ==
  ASSUME NEW t \in Coming, Coming' = Coming \ {t}
  PROVE  Cardinality(Coming') = Cardinality(Coming) - 1
BY ComingFinite, FS_RemoveElement

LEMMA DispatchConserves ==
  ASSUME TypeOK, WorkConserving, NEW c \in Caller,
         \/ \E t \in Task : Dispatch(c, t)
         \/ DispatchStep(c)
  PROVE  WorkConserving'
<1> USE ThreadKinds DEF TypeOK, Typed, Places, ClientPlace, WorkerPlace, OwnerPlace
<1>1. ASSUME NEW t \in Task, Dispatch(c, t) PROVE WorkConserving'
  <2>1. pc[c] \in {"run", "idle"} /\ pc' = [pc EXCEPT ![c] = "dispatch"]
    BY <1>1 DEF Dispatch, Outside, Goto
  <2>2. In("waiting")' = In("waiting") /\ Coming' = Coming
    BY <2>1 DEF In, Coming
  <2> QED
    BY <1>1, <2>2 DEF Dispatch, WorkConserving
<1>2. CASE DispatchLock(c)
  <2>1. In("waiting")' = In("waiting") /\ Coming' = Coming
    BY <1>2 DEF DispatchLock, Goto, In, Coming
  <2> QED
    BY <1>2, <2>1 DEF DispatchLock, WorkConserving
<1>3. CASE Push(c)
  <2>1. In("waiting")' = In("waiting")
    BY <1>3 DEF Push, Goto, In
  <2>2. c \notin Coming /\ Coming' = Coming \cup {c}
    BY <1>3 DEF Push, Goto, In, Coming
  <2>3. Cardinality(Coming') = Cardinality(Coming) + 1
    BY <2>2, ComingGrows
  <2>4. Len(q_') = Len(q_) + 1
    BY <1>3 DEF Push, InHand
  <2>5. quit_' = quit_
    BY <1>3 DEF Push
  <2> QED
    BY <2>1, <2>3, <2>4, <2>5, ComingFinite DEF WorkConserving
<1>4. CASE NotifyOne(c)
  <2>1. quit_' = quit_ /\ q_' = q_
    BY <1>4 DEF NotifyOne
  <2>2. CASE In("waiting") = {}
    <3>1. pc' = [pc EXCEPT ![c] = IF c \in Worker THEN "run" ELSE "idle"]
      BY <1>4, <2>2 DEF NotifyOne
    <3>2. In("waiting")' = {}
      BY <2>2, <3>1 DEF In
    <3> QED
      BY <3>2 DEF WorkConserving
  <2>3. CASE In("waiting") # {}
    <3>1. PICK w \in In("waiting") :
             pc' = [pc EXCEPT ![c] = IF c \in Worker THEN "run" ELSE "idle",
                              ![w] = "acquire"]
      BY <1>4, <2>3 DEF NotifyOne
    <3>2. /\ w \notin Coming /\ c \in Coming /\ w # c /\ w \in Thread
          /\ Coming' = (Coming \ {c}) \cup {w}
      BY <1>4, <3>1 DEF NotifyOne, In, Coming
    <3>3. Cardinality(Coming \ {c}) = Cardinality(Coming) - 1 /\ IsFiniteSet(Coming \ {c})
      BY <3>2, ComingFinite, FS_RemoveElement
    <3>4. Cardinality((Coming \ {c}) \cup {w}) = Cardinality(Coming \ {c}) + 1
      BY <3>2, <3>3, FS_AddElement
    <3>5. Cardinality(Coming') = Cardinality(Coming)
      BY <3>2, <3>3, <3>4, ComingFinite
    <3> QED
      BY <2>1, <2>3, <3>5 DEF WorkConserving
  <2> QED
    BY <2>2, <2>3
<1> QED
  BY <1>1, <1>2, <1>3, <1>4 DEF DispatchStep

LEMMA WorkerConserves ==
  ASSUME TypeOK, WorkConserving, NEW w \in Worker,
         WorkerStep(w) \/ SpuriousWakeup(w)
  PROVE  WorkConserving'
<1> USE ThreadKinds DEF TypeOK, Typed
<1>1. CASE Acquire(w)
  <2>1. In("waiting")' = In("waiting") /\ Coming' = Coming
    BY <1>1 DEF Acquire, Goto, In, Coming
  <2> QED
    BY <1>1, <2>1 DEF Acquire, WorkConserving
<1>2. CASE Wait(w)
  <2>1. Len(q_') = 0
    BY <1>2 DEF Wait
  <2>2. Cardinality(Coming)' \in Nat
    <3>1. Coming' \in SUBSET Thread
      BY DEF Coming, In
    <3>2. IsFiniteSet(Worker \cup Client)
      BY ThreadAssumption, FS_Union
    <3>3. IsFiniteSet((Worker \cup Client) \cup {Owner})
      BY <3>2, FS_AddElement
    <3>4. IsFiniteSet(Coming')
      BY <3>1, <3>3, FS_Subset DEF Thread, Caller
    <3> QED
      BY <3>4, FS_CardinalityType
  <2> QED
    BY <2>1, <2>2 DEF WorkConserving
<1>3. CASE Take(w)
  <2>1. In("waiting")' = In("waiting")
    BY <1>3 DEF Take, Goto, In
  <2>2. w \in Coming /\ Coming' = Coming \ {w}
    BY <1>3 DEF Take, Goto, In, Coming
  <2>3. Cardinality(Coming') = Cardinality(Coming) - 1
    BY <2>2, ComingShrinks
  <2>4. Len(q_') = Len(q_) - 1
    BY <1>3 DEF Take
  <2>5. quit_' = quit_
    BY <1>3 DEF Take
  <2> QED
    BY <2>1, <2>3, <2>4, <2>5, ComingFinite DEF WorkConserving
<1>4. CASE Return(w)
  <2>1. In("waiting")' = In("waiting")
    BY <1>4 DEF Return, Goto, In
  <2>2. w \notin Coming /\ Coming' = Coming \cup {w}
    BY <1>4 DEF Return, Goto, In, Coming
  <2>3. Cardinality(Coming') = Cardinality(Coming) + 1
    BY <2>2, ComingGrows
  <2>4. q_' = q_ /\ quit_' = quit_
    BY <1>4 DEF Return
  <2> QED
    BY <2>1, <2>3, <2>4, ComingFinite DEF WorkConserving
<1>5. CASE Leave(w)
  BY <1>5 DEF Leave, WorkConserving
<1>6. CASE SpuriousWakeup(w)
  <2>1. In("waiting") # {}
    BY <1>6 DEF SpuriousWakeup, In
  <2>2. w \notin Coming /\ Coming' = Coming \cup {w}
    BY <1>6 DEF SpuriousWakeup, Goto, In, Coming
  <2>3. Cardinality(Coming') = Cardinality(Coming) + 1
    BY <2>2, ComingGrows
  <2>4. q_' = q_ /\ quit_' = quit_
    BY <1>6 DEF SpuriousWakeup
  <2> QED
    BY <2>1, <2>3, <2>4, ComingFinite DEF WorkConserving
<1> QED
  BY <1>1, <1>2, <1>3, <1>4, <1>5, <1>6 DEF WorkerStep

LEMMA OwnerConserves ==
  ASSUME TypeOK, Shutdown, WorkConserving, Destroy \/ OwnerStep
  PROVE  WorkConserving'
<1> USE ThreadKinds DEF TypeOK, Typed
<1>1. CASE Quit \/ NotifyAll
  BY <1>1 DEF Quit, NotifyAll, Shutdown, WorkConserving
<1>2. CASE Destroy \/ DestroyLock \/ Join
  <2>1. q_' = q_ /\ quit_' = quit_
    BY <1>2 DEF Destroy, DestroyLock, Join
  <2>2. \E place \in {"destroy", "quit", "gone"} :
           pc' = [pc EXCEPT ![Owner] = place]
    BY <1>2 DEF Destroy, DestroyLock, Join, Goto
  <2>3. pc[Owner] \in OwnerPlace
    BY DEF Places
  <2>4. In("waiting")' = In("waiting") /\ Coming' = Coming
    BY <2>2, <2>3 DEF In, Coming, OwnerPlace
  <2> QED
    BY <2>1, <2>4 DEF WorkConserving
<1> QED
  BY <1>1, <1>2 DEF OwnerStep

(* No wakeup of the pool is lost, however many workers and clients there   *)
(* are and whatever the order of their steps.                              *)
THEOREM NoLostWakeup == Spec => []WorkConserving
<1>1. Init => WorkConserving
  <2> SUFFICES ASSUME Init PROVE WorkConserving
    OBVIOUS
  <2>1. Len(q_) = 0
    BY DEF Init
  <2> QED
    BY <2>1, ComingFinite DEF WorkConserving
<1>2. TypeOK /\ Shutdown /\ WorkConserving /\ [Next]_vars => WorkConserving'
  <2> SUFFICES ASSUME TypeOK, Shutdown, WorkConserving, [Next]_vars
               PROVE  WorkConserving'
    OBVIOUS
  <2>1. CASE \E c \in Caller : \/ \E t \in Task : Dispatch(c, t)
                               \/ DispatchStep(c)
    BY <2>1, DispatchConserves
  <2>2. CASE \E w \in Worker : WorkerStep(w) \/ SpuriousWakeup(w)
    BY <2>2, WorkerConserves
  <2>3. CASE Destroy \/ OwnerStep
    BY <2>3, OwnerConserves
  <2>4. CASE UNCHANGED vars
    BY <2>4 DEF vars, WorkConserving, In, Coming
  <2> QED
    BY <2>1, <2>2, <2>3, <2>4 DEF Next
<1> QED
  BY <1>1, <1>2, PoolTypes, ShutdownInvariant, PTL DEF Spec

-----------------------------------------------------------------------------
(***************************************************************************)
(* Refinement.  A push is a Submit, a Take a Start, a Return a Finish, Quit*)
(* is Close and the end of the joins Vanish; all else only moves threads.  *)
(***************************************************************************)
LEMMA InitPool == Init => Pool!Init
<1> SUFFICES ASSUME Init PROVE Pool!Init
  OBVIOUS
<1>1. pc[Owner] = "owning"
  BY ThreadKinds DEF Init, Thread
<1> QED
  BY <1>1 DEF Init, Pool!Init, PoolState

LEMMA DispatchPool ==
  ASSUME TypeOK, Shutdown, Fresh, NEW c \in Caller,
         \/ \E t \in Task : Dispatch(c, t)
         \/ DispatchStep(c)
  PROVE  [Pool!Next]_Pool!vars
<1> USE ThreadKinds DEF TypeOK, Typed
<1>1. pc'[Owner] = pc[Owner] \/ NotifyOne(c)
  BY DEF Dispatch, DispatchStep, DispatchLock, Push, Goto
<1>2. NotifyOne(c) => pc'[Owner] = pc[Owner]
  BY DEF NotifyOne, In, Places, OwnerPlace
<1>3. PoolState' = PoolState
  BY <1>1, <1>2 DEF PoolState, Dispatch, DispatchStep, DispatchLock, Push, NotifyOne
<1>4. CASE Push(c)
  <2>1. arg[c] \in Task /\ arg[c] # NoTask
    BY <1>4 DEF Push, InHand
  <2>2. pc[Owner] # "gone"
    BY <1>4 DEF Push, Shutdown, Caller
  <2>3. PoolState # "gone"
    BY <2>2 DEF PoolState
  <2>4. arg[c] \notin Pool!Range(q_) \cup Pool!Started
    BY <2>1 DEF Fresh, Pool!Started, Range, Pool!Range
  <2>5. Pool!Submit(arg[c])
    BY <1>3, <1>4, <2>3, <2>4 DEF Push, Pool!Submit
  <2> QED
    BY <2>1, <2>5 DEF Pool!Next
<1>5. CASE ~ Push(c)
  BY <1>3, <1>5 DEF Dispatch, DispatchStep, DispatchLock, NotifyOne, Pool!vars
<1> QED
  BY <1>4, <1>5

LEMMA WorkerPool ==
  ASSUME TypeOK, Shutdown, NEW w \in Worker,
         WorkerStep(w) \/ SpuriousWakeup(w)
  PROVE  [Pool!Next]_Pool!vars
<1> USE ThreadKinds DEF TypeOK, Typed
<1>1. pc'[Owner] = pc[Owner]
  BY DEF WorkerStep, Acquire, Wait, Take, Return, Leave, SpuriousWakeup, Goto
<1>2. PoolState' = PoolState
  BY <1>1 DEF PoolState, WorkerStep, Acquire, Wait, Take, Return, Leave, SpuriousWakeup
<1>3. CASE Take(w)
  <2>1. PoolState = "open"
    BY <1>3 DEF Take, PoolState, Shutdown, Places
  <2>2. w \in threads_ /\ op[w] = NoTask
    BY <1>3 DEF Take, Shutdown, InHand
  <2>3. Pool!Start(w)
    BY <1>2, <1>3, <2>1, <2>2 DEF Take, Pool!Start
  <2> QED
    BY <2>3 DEF Pool!Next
<1>4. CASE Return(w)
  <2>1. op[w] # NoTask
    BY <1>4 DEF Return, InHand
  <2>2. Pool!Finish(w)
    BY <1>2, <1>4, <2>1 DEF Return, Pool!Finish
  <2> QED
    BY <2>2 DEF Pool!Next
<1>5. CASE Acquire(w) \/ Wait(w) \/ Leave(w) \/ SpuriousWakeup(w)
  BY <1>2, <1>5 DEF Acquire, Wait, Leave, SpuriousWakeup, Pool!vars
<1> QED
  BY <1>3, <1>4, <1>5 DEF WorkerStep

LEMMA OwnerPool ==
  ASSUME TypeOK, Shutdown, Destroy \/ OwnerStep
  PROVE  [Pool!Next]_Pool!vars
<1> USE ThreadKinds DEF TypeOK, Typed, Goto
<1>1. CASE Destroy
  BY <1>1 DEF Destroy, PoolState, Pool!vars
<1>2. CASE DestroyLock
  BY <1>2 DEF DestroyLock, PoolState, Pool!vars
<1>3. CASE Quit
  <2>1. PoolState = "open" /\ PoolState' = "closing"
    BY <1>3 DEF Quit, PoolState, Shutdown
  <2>2. Pool!Close
    BY <1>3, <2>1 DEF Quit, Pool!Close
  <2> QED
    BY <2>2 DEF Pool!Next
<1>4. CASE NotifyAll
  BY <1>4 DEF NotifyAll, PoolState, Pool!vars
<1>5. CASE Join
  <2>1. PoolState = "closing" /\ PoolState' = "gone"
    BY <1>5 DEF Join, PoolState, Shutdown
  <2>2. \A w \in Worker : op[w] = NoTask
    BY <1>5 DEF Join, Shutdown, InHand
  <2>3. Pool!Vanish
    BY <1>5, <2>1, <2>2 DEF Join, Pool!Vanish
  <2> QED
    BY <2>3 DEF Pool!Next
<1> QED
  BY <1>1, <1>2, <1>3, <1>4, <1>5 DEF OwnerStep

(* Every behaviour of the mutex, the condition variable and the threads is *)
(* one of the pool: started in order, at most once, nothing once it is     *)
(* closed, nothing left running when it is gone.                           *)
THEOREM QueueIsPool == Spec => Pool!Spec
<1>1. TypeOK /\ Shutdown /\ Fresh /\ [Next]_vars => [Pool!Next]_Pool!vars
  <2> SUFFICES ASSUME TypeOK, Shutdown, Fresh, [Next]_vars
               PROVE  [Pool!Next]_Pool!vars
    OBVIOUS
  <2>1. CASE \E c \in Caller : \/ \E t \in Task : Dispatch(c, t)
                               \/ DispatchStep(c)
    BY <2>1, DispatchPool
  <2>2. CASE \E w \in Worker : WorkerStep(w) \/ SpuriousWakeup(w)
    BY <2>2, WorkerPool
  <2>3. CASE Destroy \/ OwnerStep
    BY <2>3, OwnerPool
  <2>4. CASE UNCHANGED vars
    BY <2>4 DEF vars, Pool!vars, PoolState
  <2> QED
    BY <2>1, <2>2, <2>3, <2>4 DEF Next
<1> QED
  BY <1>1, InitPool, PoolTypes, ShutdownInvariant, FreshInvariant, PTL
     DEF Spec, Pool!Spec
=============================================================================
