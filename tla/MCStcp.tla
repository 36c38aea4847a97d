------------------------------- MODULE MCStcp -------------------------------
(* Instances of Stcp for TLC.                                               *)
EXTENDS Stcp

Junk == {{}, {"ACK"}, {"FIN"}}
Both2 == [s \in Sides |-> 2]
Both3 == [s \in Sides |-> 3]
Both4 == [s \in Sides |-> 4]
=============================================================================
