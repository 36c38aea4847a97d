---------------------------- MODULE MCVnsSession -----------------------------
(* Instance of VnsSession for TLC: two interfaces with a host behind each.  *)
EXTENDS VnsSession, TLC

CONSTANTS e1, e2, m1, m2

(* Addresses: interfaces 9 and 11, hosts 3 and 14; sums of these carry.     *)
Iface(n, m, ip) == <<[key |-> "HWINTERFACE", value |-> n],
                     [key |-> "HWSUBNET", value |-> 0],
                     [key |-> "HWETHIP", value |-> ip],
                     [key |-> "HWETHER", value |-> m]>>

(* None; addresses without a name; a name after an address; one interface;  *)
(* both, the second one's addresses in the other order.                     *)
MCDescriptions ==
  {<<>>, <<[key |-> "HWSPEED", value |-> 0], [key |-> "HWETHER", value |-> m1]>>,
   <<[key |-> "HWETHIP", value |-> 9], [key |-> "HWINTERFACE", value |-> e2]>>,
   Iface(e1, m1, 9), Iface(e1, m2, 9),
   Iface(e1, m1, 9) \o <<[key |-> "HWINTERFACE", value |-> e2],
                         [key |-> "HWETHER", value |-> m2],
                         [key |-> "HWETHIP", value |-> 11]>>}

MCTables ==
  {NoRoutes, (3 :> e1 @@ 14 :> e2), (3 :> e1 @@ 14 :> None)}

(* Headers with the right checksum, with a length below 5 among them, one   *)
(* with a wrong one, and one whose checksum is all ones in place of 0.      *)
Plain == [hl |-> 5, ttl |-> 2, p |-> UDP, src |-> 3, dst |-> 14, opt |-> 7,
          sum |-> 0]
MCHeaders ==
  {WithSum([Plain EXCEPT !.hl = hl, !.ttl = t, !.p = p, !.dst = d]) :
     hl \in {5, 6}, t \in {0, 2}, p \in {ICMP, UDP}, d \in {9, 14}}
  \cup {WithSum([Plain EXCEPT !.hl = hl, !.dst = d]) : hl \in {0, 4}, d \in {9, 14}}
  \cup {Plain, [Plain EXCEPT !.src = 6, !.sum = WORD - 1]}

(* Bodies are read in two pieces at most; one command is as long as may be, *)
(* one too long, and two have a size that ends before or in their type.     *)
MCCommands ==
  [kind : Kinds, size : {4}]
  \cup {[kind |-> "BANNER", size |-> n] : n \in {1, 3, 5}}
  \cup {[kind |-> "RTABLE", size |-> 6]}
==============================================================================
