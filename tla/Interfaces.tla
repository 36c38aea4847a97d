------------------------------ MODULE Interfaces -----------------------------
(* sr_if.c: the list of the router's interfaces, which the hardware         *)
(* description of the VNS server fills, and its check against the routing   *)
(* table (sr_main.c).  A list is a sequence of interfaces; a field that was *)
(* not set yet is None (malloc leaves it undefined).                        *)
EXTENDS Naturals, Sequences, SequencesExt

CONSTANT None

Interface(Names, Addrs, Ips) ==
  [name : Names, addr : Addrs \cup {None}, ip : Ips \cup {None}]

(* sr_get_interface: the first interface of that name.                      *)
GetInterface(list, name) ==
  LET i == SelectInSeq(list, LAMBDA x : x.name = name)
  IN IF i = 0 THEN None ELSE list[i]

IpMatch(list, ip) == \E i \in DOMAIN list : list[i].ip = ip

(* sr_add_interface appends, whether the name is known or not.              *)
AddInterface(list, name) ==
  Append(list, [name |-> name, addr |-> None, ip |-> None])

(* Mutant: sr_set_ether_addr does not walk to the end of the list.          *)
SetFirstAddr(list, addr) == [list EXCEPT ![1].addr = addr]

(* sr_set_ether_addr, sr_set_ether_ip: the last interface of the list.      *)
SetEtherAddr(list, addr) == [list EXCEPT ![Len(list)].addr = addr]

SetEtherIp(list, ip) == [list EXCEPT ![Len(list)].ip = ip]

HwEntries(Names, Addrs, Ips) ==
  [key : {"HWINTERFACE"}, value : Names] \cup [key : {"HWETHER"}, value : Addrs]
    \cup [key : {"HWETHIP"}, value : Ips]
    \cup [key : {"HWSPEED", "HWSUBNET", "HWMASK"}, value : Nat]

(* A description whose first addresses have no name before them: they go to *)
(* the last interface there is.                                             *)
Headless(entries) ==
  \E i \in DOMAIN entries :
    /\ entries[i].key \in {"HWETHER", "HWETHIP"}
    /\ \A j \in 1 .. i - 1 : entries[j].key # "HWINTERFACE"

(* The assertion of sr_if.c:124 and 148, that there is one, fails.          *)
Orphan(list, entries) == list = <<>> /\ Headless(entries)

(* One entry of sr_handle_hwinfo: keys other than these are passed over.    *)
HwEntry(list, e) ==
  CASE e.key = "HWINTERFACE" -> AddInterface(list, e.value)
    [] e.key = "HWETHER" -> SetEtherAddr(list, e.value)
    [] e.key = "HWETHIP" -> SetEtherIp(list, e.value)
    [] OTHER -> list

HandleHwinfo(list, entries) ==
  LET after[i \in 0 .. Len(entries)] ==
        IF i = 0 THEN list ELSE HwEntry(after[i - 1], entries[i])
  IN after[Len(entries)]

(* Mutant: sr_verify_routing_table is satisfied with one good route.        *)
VerifiedSomewhere(list, table) ==
  \E d \in DOMAIN table : table[d] # None /\ GetInterface(list, table[d]) # None

(* sr_verify_routing_table = 0.  A table gives each destination the         *)
(* interface of its longest match, or None; without routes it is NoRoutes.  *)
Verified(list, table) ==
  LET routes == {d \in DOMAIN table : table[d] # None}
  IN /\ list # <<>> /\ routes # {}
     /\ \A d \in routes : GetInterface(list, table[d]) # None
==============================================================================
