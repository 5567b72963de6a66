----------------------------- MODULE Membership -----------------------------
(***************************************************************************)
(* What the overlay promises about who knows whom, whatever the network    *)
(* and the NATs do: each process has an ID of its own, never used before;  *)
(* it hears only of IDs that processes have drawn; it lists only itself    *)
(* and those it has heard from; what it knows ends with it.                *)
(***************************************************************************)
EXTENDS FiniteSets

CONSTANTS Node, ID, NoID

VARIABLES member,  \* [Node -> ID or NoID], of the process that runs there
          born,    \* IDs drawn so far
          heard,   \* [Node -> SUBSET ID], from whom its process got a datagram
          peers    \* [Node -> SUBSET ID], whom it lists

vars == <<member, born, heard, peers>>

Init ==
  /\ member = [n \in Node |-> NoID]
  /\ born = {}
  /\ heard = [n \in Node |-> {}]
  /\ peers = [n \in Node |-> {}]

Join(n, id) ==
  /\ member[n] = NoID
  /\ id \notin born
  /\ member' = [member EXCEPT ![n] = id]
  /\ born' = born \cup {id}
  /\ UNCHANGED <<heard, peers>>

(* A datagram of i arrives, upon which n may list i and itself.            *)
Hear(n, i) ==
  /\ member[n] # NoID
  /\ i \in born
  /\ heard' = [heard EXCEPT ![n] = @ \cup {i}]
  /\ \E S \in SUBSET {i, member[n]} : peers' = [peers EXCEPT ![n] = @ \cup S]
  /\ UNCHANGED <<member, born>>

(* n lists itself or one it has heard from before.                         *)
List(n, i) ==
  /\ member[n] # NoID
  /\ i \in heard[n] \cup {member[n]}
  /\ peers' = [peers EXCEPT ![n] = @ \cup {i}]
  /\ UNCHANGED <<member, born, heard>>

Forget(n) ==
  /\ member[n] # NoID
  /\ \E S \in SUBSET peers[n] : peers' = [peers EXCEPT ![n] = S]
  /\ UNCHANGED <<member, born, heard>>

Leave(n) ==
  /\ member[n] # NoID
  /\ member' = [member EXCEPT ![n] = NoID]
  /\ heard' = [heard EXCEPT ![n] = {}]
  /\ peers' = [peers EXCEPT ![n] = {}]
  /\ UNCHANGED born

Next == \E n \in Node : \/ \E i \in ID : Join(n, i) \/ Hear(n, i) \/ List(n, i)
                        \/ Forget(n)
                        \/ Leave(n)

Spec == Init /\ [][Next]_vars
=============================================================================
