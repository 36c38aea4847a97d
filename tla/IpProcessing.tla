----------------------------- MODULE IpProcessing ----------------------------
(* What sr_router.c and sr_utils.c do to one frame: the tests it must pass, *)
(* the checksum, and the headers of what is sent in answer or onwards.      *)
(*                                                                          *)
(* A header is its words: the first holds the header length, the second TTL *)
(* and protocol; a word has WORD values in place of 2^16, an address is one *)
(* word.  Lengths are the classes that the tests of the code tell apart.    *)
EXTENDS Interfaces, Integers

CONSTANTS WORD,    \* values of a word
          TTLS,    \* values of ip_ttl, in place of 2^8
          ANSWER_TTL  \* ip_ttl of the router's own packets (63)

ASSUME WordAssumption ==
  /\ WORD \in Nat /\ WORD > 1
  /\ TTLS \in Nat /\ ANSWER_TTL \in 0 .. TTLS - 1

(* Frame lengths: below an Ethernet header; below an IP header too; up to   *)
(* 37 bytes, too short for an ICMP header as well; up to 41; an ARP packet  *)
(* or more.                                                                 *)
Tiny == 0
Runt == 1
NoIcmp == 2
NoArp == 3
Whole == 4
Lengths == Tiny .. Whole

ICMP == 0
UDP == 1

(* The header length in words of four bytes: less than a header of five has *)
(* is not refused (sr_router.c:172-177), and 6 stands for any options.      *)
Header == [hl : 0 .. 6, ttl : 0 .. TTLS - 1, p : {ICMP, UDP},
           src : 0 .. WORD - 1, dst : 0 .. WORD - 1, opt : 0 .. WORD - 1,
           sum : 0 .. WORD - 1]

(* In the order of the bytes; the first stands for two words, length and    *)
(* identification with it, the second and third share one.                  *)
All(h) == <<h.hl, 2 * h.ttl + h.p, h.sum, h.src, h.dst, h.opt>>

Covered(hl) == CASE hl = 0 -> 0 [] hl \in {1, 2} -> 1 [] hl > 2 -> hl

(* What belongs to the header if ip_hl is right.                            *)
Words(h) == SubSeq(All(h), 1, Covered(h.hl))

WordSum(ws) ==
  LET sum[i \in 0 .. Len(ws)] == IF i = 0 THEN 0 ELSE sum[i - 1] + ws[i]
  IN sum[Len(ws)]

(* while (sum > 0xffff) sum = (sum >> 16) + (sum & 0xffff)                  *)
FoldSum[s \in Nat] ==
  IF s < WORD THEN s ELSE FoldSum[(s \div WORD) + (s % WORD)]

Cksum(ws) == WORD - 1 - FoldSum[WordSum(ws)]

WithSum(h) == [h EXCEPT !.sum = Cksum(Words([h EXCEPT !.sum = 0]))]

(* The tests of sr_handlepacket on an IP frame: options take a frame past   *)
(* the class NoIcmp.                                                        *)
IpAccepted(f) ==
  /\ f.len >= NoIcmp /\ f.len >= NoIcmp + (f.ip.hl - 5)
  /\ f.ip = WithSum(f.ip)

(* The standard's own test (RFC 791, 1071): all words of the header,        *)
(* checksum included, add up to all ones in one's complement, which leaves  *)
(* a residue of 0 modulo WORD - 1.                                          *)
ValidHeader(h) == WordSum(Words(h)) % (WORD - 1) = 0

(* Mutant: ForwardToNextHop checksums the header before it counts down.     *)
ForwardedStale(h) ==
  [WithSum(h) EXCEPT !.ttl = (h.ttl + TTLS - 1) % TTLS]

(* ForwardToNextHop: ip_ttl is a byte and 0 is not tested for.              *)
Forwarded(h) == WithSum([h EXCEPT !.ttl = (h.ttl + TTLS - 1) % TTLS])

(* sr_send_echo_reply: addresses swapped, a new TTL (63), the checksum over *)
(* twenty bytes whatever ip_hl says; the ICMP header, any word here, stands *)
(* in the place of options.                                                 *)
EchoReply(h, junk) ==
  LET r == [h EXCEPT !.src = h.dst, !.dst = h.src, !.ttl = ANSWER_TTL,
                     !.opt = junk, !.sum = 0]
  IN [r EXCEPT !.sum = Cksum(SubSeq(All(r), 1, 5))]

(* sr_send_port_unreachable: the same, but ip_sum is not cleared before the *)
(* checksum is computed over it; own is the address of the interface, which *)
(* malloc left undefined if the description gave none.                      *)
PortUnreachable(h, own, junk) ==
  LET r == [h EXCEPT !.src = IF own = None THEN junk ELSE own, !.dst = h.src,
                     !.ttl = ANSWER_TTL, !.p = ICMP, !.opt = junk, !.sum = junk]
  IN [r EXCEPT !.sum = Cksum(SubSeq(All(r), 1, 5))]
==============================================================================
