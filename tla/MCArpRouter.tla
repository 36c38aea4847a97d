---------------------------- MODULE MCArpRouter -----------------------------
(* Instances of ArpRouter for TLC.                                          *)
EXTENDS ArpRouter, TLC

CONSTANTS a, b, c, p1, p2, p3, p4

(* Both hosts are neighbours, as in the committed rtable: the gateway of a  *)
(* route is its destination.  All packets but p3 are for one of them.       *)
DirectDst == [p \in Pkts |-> IF p = p3 THEN b ELSE a]
DirectGw == [x \in IPs |-> x]

(* A route table with holes: a is a neighbour, b is behind the gateway c,   *)
(* and c itself matches no route.                                           *)
HoleyDst == [p \in Pkts |-> CASE p = p3 -> b [] p = p4 -> c [] OTHER -> a]
HoleyGw == [x \in IPs |-> CASE x = a -> a [] x = b -> c [] OTHER -> None]

(* Calls of calloc, and the two like packets for a, may be renamed.         *)
Symmetry == Permutations(Reqs) \cup Permutations({p1, p2})
=============================================================================
