------------------------- MODULE ForwardingService --------------------------
(***************************************************************************)
(* What the router promises about the packets it takes in for forwarding,   *)
(* whatever goes on in its cache, its queue and its threads: each is held   *)
(* until it is sent, once, to a gateway that has been heard of, or given up *)
(* together with others behind the same gateway; only a packet that has no  *)
(* byte may be lost on its own, and is never given up with others.  A fate  *)
(* once met is final.  The process may end at any time, with packets held.  *)
(***************************************************************************)
CONSTANTS
  Pkts,
  Empty,         \* the packets that have no byte
  Gateways,
  Via            \* packet |-> the gateway it has to go to, or something else
                 \* when there is none

VARIABLES
  fate,          \* packet |-> "new", "held", "sent" or "dropped"
  known,         \* the gateways whose MAC has been heard
  up             \* the process runs

vars == <<fate, known, up>>

Init ==
  /\ fate = [p \in Pkts |-> "new"]
  /\ known = {}
  /\ up = TRUE

Accept(p) ==
  /\ up
  /\ fate[p] = "new"
  /\ fate' = [fate EXCEPT ![p] = "held"]
  /\ UNCHANGED <<known, up>>

Learn(g) ==
  /\ up
  /\ known' = known \cup {g}
  /\ UNCHANGED <<fate, up>>

SendOn(p) ==
  /\ up
  /\ fate[p] = "held"
  /\ Via[p] \in known
  /\ fate' = [fate EXCEPT ![p] = "sent"]
  /\ UNCHANGED <<known, up>>

GiveUp(g, S) ==
  /\ up
  /\ S # {} /\ S \cap Empty = {}
  /\ \A p \in S : fate[p] = "held" /\ Via[p] = g
  /\ fate' = [p \in Pkts |-> IF p \in S THEN "dropped" ELSE fate[p]]
  /\ UNCHANGED <<known, up>>

Lose(p) ==
  /\ up
  /\ p \in Empty
  /\ fate[p] = "held"
  /\ fate' = [fate EXCEPT ![p] = "dropped"]
  /\ UNCHANGED <<known, up>>

Halt ==
  /\ up
  /\ up' = FALSE
  /\ UNCHANGED <<fate, known>>

Next ==
  \/ \E p \in Pkts : Accept(p) \/ SendOn(p) \/ Lose(p)
  \/ \E g \in Gateways : Learn(g) \/ \E S \in SUBSET Pkts : GiveUp(g, S)
  \/ Halt

Spec == Init /\ [][Next]_vars
=============================================================================
