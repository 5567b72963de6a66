---------------------------- MODULE MCUdpServer ----------------------------
(***************************************************************************)
(* Small overlays for TLC.  s is the main node, p a second public node,    *)
(* a and b are behind NATs; a node's ip is named after it, its NAT's ip is *)
(* "na" or "nb".                                                           *)
(***************************************************************************)
EXTENDS UdpServer

CONSTANTS s, p, a, b

At(ip) == [ip |-> ip, port |-> 1]

Home(n) == CASE n = s -> At("s") [] n = p -> At("p") [] n = a -> At("a") [] n = b -> At("b")
Wide(n) == CASE n = a -> At("na") [] n = b -> At("nb") [] OTHER -> Home(n)

MCIp   == {"s", "p", "a", "b", "na", "nb"}
MCPort == {1}

MCLocalEp      == [n \in Node |-> Home(n)]
MCRemoteServer == [n \in Node |-> At("s")]

(* b was given p for its server. *)
TwoServers == [n \in Node |-> IF n = b THEN At("p") ELSE At("s")]

(* Every NAT maps a node to one endpoint, whatever the destination. *)
ConeMap == [n \in Node |-> [e \in Endpoint |-> Wide(n)]]

(* The flag of a node started without -m happens to be false, or it may be *)
(* true where that is right.                                               *)
FlagIsFalse  == [n \in Node |-> {FALSE}]
FlagOfServer == [n \in Node |-> IF n = s THEN BOOLEAN ELSE {FALSE}]

(* A program run in "bind" mode on a host of its own. *)
FromBind == {[src |-> At("b"), dst |-> At("s")]}

(* Any order of the IDs, or s's before p's before a's before b's. *)
AnyID   == [n \in Node |-> ID]
FixedID == [n \in Node |-> CASE n = s -> ID \cap {1, 5} [] n = p -> ID \cap {2, 6}
                               [] n = a -> ID \cap {3, 7} [] n = b -> ID \cap {4, 8}]

(* a's before b's before s's before p's *)
ServersLast == [n \in Node |-> CASE n = a -> {1} [] n = b -> {2} [] n = s -> {3} [] n = p -> {4}]

(* Any order up to the names of a and b, between which nothing else tells. *)
OrderOfS == [n \in Node |-> CASE n = a -> {2} [] n = b -> {4} [] OTHER -> ID \ {2, 4}]
=============================================================================
