--------------------------- MODULE MCRoutingTable ---------------------------
(* An instance of RoutingTable for TLC: addresses of two octets of two bits *)
(* each, masks valued as a little-endian host values them.                  *)
EXTENDS RoutingTable, FiniteSetsExt

CONSTANTS OCTET, g1

(* The bit at position i of an address in network order: octet k from the   *)
(* left is the one with weight 2^(OCTET * k) on a little-endian host, and   *)
(* within it the first bit weighs most.                                     *)
Weight(i) ==
  LET k == (i - 1) \div OCTET
      j == (i - 1) % OCTET
  IN  2 ^ (OCTET * k + OCTET - 1 - j)

LittleEndian == [n \in 0 .. W |-> MapThenSumSet(Weight, 1 .. n)]

Bits(x) == [i \in 1 .. W |-> (x \div 2 ^ (W - i)) % 2]

(* 0100 and 0111 share two bits; 1000 shares none with them.                *)
SomeDests == {Bits(4), Bits(7)}
SomeTargets == {Bits(4), Bits(6), Bits(8)}
=============================================================================
