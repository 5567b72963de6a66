----------------------------- MODULE ManagerHost -----------------------------
(***************************************************************************)
(* The routing table of a node: managerHost::_HostList, a std::map from a  *)
(* node ID (a UUID string) to the JSON text of what is known of that node. *)
(*                                                                         *)
(* A node ID is a natural number: all the code asks of UUIDs is equality   *)
(* and the order in which std::map walks its keys.  The JSON text is the   *)
(* record it encodes.  Of its "endpoint" array only element 0 is ever read,*)
(* so an Info keeps that one.                                              *)
(***************************************************************************)
EXTENDS Integers, FiniteSets, FiniteSetsExt, Functions

CONSTANTS ID,    \* node IDs a process can draw when it starts
          Ip,    \* IP addresses, private ones included
          Port,  \* UDP ports
          Null   \* the JSON value null; also "no thread activity", "no answer"

(***************************************************************************)
(* UUIDs are finitely many and totally ordered: of any of them there is a  *)
(* first and a last one.                                                   *)
(***************************************************************************)
ASSUME IDAssumption ==
  /\ ID \subseteq Nat
  /\ IsFiniteSet(ID)
  /\ \A S \in SUBSET ID : S # {} =>
       /\ \E x \in S : \A y \in S : x <= y
       /\ \E x \in S : \A y \in S : x >= y

Endpoint == [ip : Ip, port : Port]

(***************************************************************************)
(* "natmapping" and "natfiltering" of a host, and where it is reached.     *)
(***************************************************************************)
Mapping   == {"Nonmap", "mapping"}
Filtering == {"", "Nonfilter", "isFilter"}
Info      == [mapping : Mapping, filtering : Filtering, ep : Endpoint]

MakeInfo(mapping, filtering, ep) ==
  [mapping |-> mapping, filtering |-> filtering, ep |-> ep]

PublicInfo(ep) == MakeInfo("Nonmap", "Nonfilter", ep)

IsPublic(info) == info.mapping = "Nonmap" /\ info.filtering = "Nonfilter"

(***************************************************************************)
(* A host list maps some of the IDs.  EmptyMap is also the initial value   *)
(* of the counters and of the other maps of a node.                        *)
(***************************************************************************)
EmptyMap == [x \in {} |-> Null]

IsHostList(hl) == DOMAIN hl \subseteq ID /\ hl \in [DOMAIN hl -> Info]

(***************************************************************************)
(* PutNode is what a handler does that assigns to the entry it found and   *)
(* otherwise adds one.  addNewNode is std::map::insert: the entry of an ID *)
(* already listed is kept.                                                 *)
(***************************************************************************)
PutNode(hl, id, info) ==
  [i \in DOMAIN hl \cup {id} |-> IF i = id THEN info ELSE hl[i]]

AddNewNode(hl, id, info) == IF id \in DOMAIN hl THEN hl ELSE PutNode(hl, id, info)

(***************************************************************************)
(* Set one field of a listed entry, nothing if the ID is not listed.       *)
(***************************************************************************)
SetInCopyOnly(hl, ids, verdict) == hl \* mutant

SetFiltering(hl, ids, verdict) ==
  [i \in DOMAIN hl |-> IF i \in ids THEN [hl[i] EXCEPT !.filtering = verdict]
                                    ELSE hl[i]]

PublicIDs(hl) == {i \in DOMAIN hl : IsPublic(hl[i])}

(***************************************************************************)
(* getPublicNode: the first public entry in key order that is not self's.  *)
(***************************************************************************)
GetPublicNode(hl, self) ==
  LET others == PublicIDs(hl) \ {self}
  IN  IF others = {} THEN Null ELSE hl[Min(others)]

(***************************************************************************)
(* Erase the entries reached at one of the endpoints eps.                  *)
(***************************************************************************)
EraseNothing(hl, eps) == hl \* mutant

EraseAt(hl, eps) == Restrict(hl, {i \in DOMAIN hl : hl[i].ep \notin eps})
=============================================================================
