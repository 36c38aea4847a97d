-------------------------------- MODULE Stcp --------------------------------
(***************************************************************************)
(* The STCP transport layer, Project3/transport.c: one connection between a *)
(* client and a server, from the handshake of transport_init through the    *)
(* events of control_loop to its end.  Each side is a transport thread that *)
(* runs the same code, the application above it and the connection below.   *)
(*                                                                          *)
(* The API below and above the file (stcp_api.h) is external.  The code     *)
(* relies on a network that neither loses nor reorders; stcp_network_recv   *)
(* takes a whole packet whatever size was asked for, and returns 0 after    *)
(* the peer closed its socket; stcp_wait_for_event returns every event that *)
(* is pending, the close request once and only when the application's data  *)
(* has been taken.                                                          *)
(*                                                                          *)
(* A byte of a stream is its position in it, or 0 for a NUL byte.  Header   *)
(* fields hold the 32-bit integer as it lies in memory; it has two digits   *)
(* of base BASE here for four bytes, which htonl and ntohl swap.            *)
(***************************************************************************)
EXTENDS Integers, Sequences

CONSTANTS
  MSS,           \* STCP_MSS (536)
  BASE,          \* values of one digit of a sequence number
  Isns,          \* what rand()%256 may return at either side
  InitFlags,     \* what the uninitialised Header.th_flags may hold
  Total,         \* side |-> bytes its application writes at most
  Chunks,        \* sizes of a mywrite
  Nuls,          \* <<side, position>> of the NUL bytes in the streams
  Scripted       \* the applications behave as client.c and server.c

Sides == {"client", "server"}
Peer(s) == IF s = "client" THEN "server" ELSE "client"
NetEof == {"EOF"}
FlagSets == {NetEof} \cup SUBSET {"SYN", "ACK", "FIN"}
Fins == {{"FIN"}, {"FIN", "ACK"}}
Numbers == 0 .. BASE * BASE - 1

ASSUME SizeAssumption == MSS \in Nat \ {0} /\ BASE \in Nat \ {0, 1}
ASSUME StreamAssumption == /\ Total \in [Sides -> Nat]
                           /\ Chunks \subseteq Nat \ {0}
                           /\ Nuls \subseteq Sides \X Nat
ASSUME ChoiceAssumption == /\ Isns \subseteq 0 .. BASE - 1
                           /\ InitFlags \subseteq SUBSET {"SYN", "ACK", "FIN"}
                           /\ Scripted \in BOOLEAN

VARIABLES
  pc,            \* "start", "synSent", "synRcvd", "loop", "finSent", "done",
                 \* "undefined"
  state,         \* connection_state
  D,             \* the server's SYN-ACK header, a global of the file
  SequenceNumber, NextExpectedByte, AcknowledgedByte,
  flags,         \* Header.th_flags, as control_loop left it
  clean,         \* history: no side's th_flags held a FIN to begin with
  net,           \* packets on their way to a side or queued there
  appq,          \* what mywrite queued, a chunk of bytes each
  written,       \* bytes the application has written
  sent,          \* history: bytes control_loop has sent on
  got,           \* bytes passed up to the application
  eof,           \* end of file passed up
  closed,        \* the application has called myclose
  closeReq,      \* close_requested
  gone           \* the socket below is closed

seqVars == <<SequenceNumber, NextExpectedByte, AcknowledgedByte>>
appVars == <<appq, written, sent, closed>>
upVars == <<got, eof>>
vars == <<clean, pc, state, D, seqVars, flags, net, appVars, upVars, closeReq, gone>>

(* The field `from' is history: how much of the stream came before.         *)
Chunk == [from : Nat, data : Seq(Nat)]
Packet == [flags : FlagSets, seq : Numbers, ack : Numbers, from : Nat, data : Seq(Nat)]

(* htonl, ntohl.                                                            *)
Swap(n) == (n % BASE) * BASE + n \div BASE
(* Mutant: a number that grows beyond its width.                            *)
PlusWide(n, k) == n + k

(* int and uint32_t wrap.                                                   *)
Plus(n, k) == (n + k) % (BASE * BASE)

Header(f, seq, ack, from) ==
  [flags |-> f, seq |-> seq, ack |-> ack, from |-> from, data |-> <<>>]

Byte(s, i) == IF <<s, i>> \in Nuls THEN 0 ELSE i

Init ==
  /\ pc = [s \in Sides |-> "start"]
  /\ state = [s \in Sides |-> "ESTABLISHED"]
  /\ D = Header({}, 0, 0, 0)
  /\ SequenceNumber = [s \in Sides |-> 0]
  /\ NextExpectedByte = [s \in Sides |-> 0]
  /\ AcknowledgedByte = [s \in Sides |-> 0]
  /\ flags \in [Sides -> InitFlags]
  /\ clean = (\A s \in Sides : flags[s] \notin Fins)
  /\ net = [s \in Sides |-> <<>>]
  /\ appq = [s \in Sides |-> <<>>]
  /\ written = [s \in Sides |-> 0]
  /\ sent = [s \in Sides |-> 0]
  /\ got = [s \in Sides |-> <<>>]
  /\ eof = [s \in Sides |-> FALSE]
  /\ closed = [s \in Sides |-> FALSE]
  /\ closeReq = [s \in Sides |-> FALSE]
  /\ gone = [s \in Sides |-> FALSE]

-----------------------------------------------------------------------------
(* The connection below                                                     *)

Goto(s, l) == pc' = [pc EXCEPT ![s] = l]

(* Side s takes n packets off its queue and sends some; what is sent to a   *)
(* closed socket is lost.                                                   *)
Exchange(s, n, out) ==
  net' = [net EXCEPT ![s] = SubSeq(@, n + 1, Len(@)),
                     ![Peer(s)] = IF gone[Peer(s)] THEN @ ELSE @ \o out]

Arrived(s) == net[s] # <<>>

-----------------------------------------------------------------------------
(* transport_init, the client's side                                        *)

SendSyn(x) ==
  /\ pc["client"] = "start"
  /\ Exchange("client", 0, <<Header({"SYN"}, Swap(x), 0, 0)>>)
  /\ Goto("client", "synSent")
  /\ UNCHANGED <<clean, state, D, seqVars, flags, appVars, upVars, closeReq, gone>>

(* Mutant: the server's number taken for the client's.                      *)
RecvSynAckCrossed ==
  /\ pc["client"] = "synSent" /\ Arrived("client")
  /\ LET b == Head(net["client"])
         e == Header({"ACK"}, b.ack, Plus(b.seq, 1), 0)
     IN  /\ Exchange("client", 1, <<e>>)
         /\ AcknowledgedByte' = [AcknowledgedByte EXCEPT !["client"] = Plus(b.ack, -1)]
         /\ SequenceNumber' = [SequenceNumber EXCEPT !["client"] = b.seq]
         /\ NextExpectedByte' = [NextExpectedByte EXCEPT !["client"] = e.ack]
  /\ Goto("client", "loop")
  /\ UNCHANGED <<clean, state, D, flags, appVars, upVars, closeReq, gone>>

RecvSynAck ==
  /\ pc["client"] = "synSent" /\ Arrived("client")
  /\ LET b == Head(net["client"])
         e == Header({"ACK"}, b.ack, Plus(b.seq, 1), 0)
     IN  /\ Exchange("client", 1, <<e>>)
         /\ AcknowledgedByte' = [AcknowledgedByte EXCEPT !["client"] = Plus(b.ack, -1)]
         /\ SequenceNumber' = [SequenceNumber EXCEPT !["client"] = b.ack]
         /\ NextExpectedByte' = [NextExpectedByte EXCEPT !["client"] = e.ack]
  /\ Goto("client", "loop")
  /\ UNCHANGED <<clean, state, D, flags, appVars, upVars, closeReq, gone>>

-----------------------------------------------------------------------------
(* transport_init, the server's side                                        *)

RecvSyn(y) ==
  /\ pc["server"] = "start" /\ Arrived("server")
  /\ D' = Header({"SYN", "ACK"}, Swap(y), Plus(Head(net["server"]).seq, 1), 0)
  /\ Exchange("server", 1, <<D'>>)
  /\ Goto("server", "synRcvd")
  /\ UNCHANGED <<clean, state, seqVars, flags, appVars, upVars, closeReq, gone>>

(* The server's sequence number is taken from E.th_ack; E is the client's   *)
(* header, which nothing sets in the server's process: 0.                   *)
RecvHandshakeAck ==
  /\ pc["server"] = "synRcvd" /\ Arrived("server")
  /\ Exchange("server", 1, <<>>)
  /\ AcknowledgedByte' = [AcknowledgedByte EXCEPT !["server"] = D.seq]
  /\ SequenceNumber' = [SequenceNumber EXCEPT !["server"] = 0]
  /\ NextExpectedByte' = [NextExpectedByte EXCEPT !["server"] = D.ack]
  /\ Goto("server", "loop")
  /\ UNCHANGED <<clean, state, D, flags, appVars, upVars, closeReq, gone>>

-----------------------------------------------------------------------------
(* control_loop                                                             *)

(* Mutant: what does not fit into AppBuffer is not sent later.              *)
SendDataCut(s) ==
  /\ pc[s] = "loop" /\ appq[s] # <<>>
  /\ LET c == Head(appq[s]).data
         n == IF Len(c) < MSS THEN Len(c) ELSE MSS
         h == Header(flags[s], Swap(SequenceNumber[s]), Swap(NextExpectedByte[s]), sent[s])
     IN  /\ Exchange(s, 0, <<[h EXCEPT !.data = SubSeq(c, 1, n)]>>)
         /\ SequenceNumber' = [SequenceNumber EXCEPT ![s] = Plus(@, n)]
         /\ sent' = [sent EXCEPT ![s] = @ + n]
         /\ appq' = [appq EXCEPT ![s] = Tail(@)]
  /\ UNCHANGED <<clean, pc, state, D, NextExpectedByte, AcknowledgedByte, flags, written,
                 closed, upVars, closeReq, gone>>

(* What stcp_app_recv leaves of a chunk it took n bytes of.                 *)
Rest(c, n, from) == [from |-> from, data |-> SubSeq(c, n + 1, Len(c))]

(* APP_DATA: a segment with the flags Header happens to have, those of the  *)
(* last packet received or, before any, what the stack held.                *)
SendData(s) ==
  /\ pc[s] = "loop" /\ appq[s] # <<>>
  /\ LET c == Head(appq[s]).data
         n == IF Len(c) < MSS THEN Len(c) ELSE MSS
         h == Header(flags[s], Swap(SequenceNumber[s]), Swap(NextExpectedByte[s]), sent[s])
     IN  /\ Exchange(s, 0, <<[h EXCEPT !.data = SubSeq(c, 1, n)]>>)
         /\ SequenceNumber' = [SequenceNumber EXCEPT ![s] = Plus(@, n)]
         /\ sent' = [sent EXCEPT ![s] = @ + n]
         /\ appq' = [appq EXCEPT ![s] =
              IF n = Len(c) THEN Tail(@) ELSE [@ EXCEPT ![1] = Rest(c, n, sent[s] + n)]]
  /\ UNCHANGED <<clean, pc, state, D, NextExpectedByte, AcknowledgedByte, flags, written,
                 closed, upVars, closeReq, gone>>

(* strncpy copies up to the first NUL byte and fills up with NUL bytes.     *)
Copied(data) ==
  [i \in 1 .. Len(data) |-> IF \E j \in 1 .. i : data[j] = 0 THEN 0 ELSE data[i]]

(* Mutant: no ntohl.                                                        *)
AckOfRaw(p) == p.ack

AckOf(p) == Swap(p.ack)

(* Mutant: the FIN bit is not tested.                                       *)
IsFinOrAck(p) == p.flags \in {{"FIN"}, {"FIN", "ACK"}, {"ACK"}}

IsFin(p) == p.flags \in Fins

(* NETWORK_DATA: the data is passed up and acknowledged, a FIN is           *)
(* acknowledged, and reported or the end.  A close request that came with   *)
(* it is not looked at, and not reported again.                             *)
RecvPacket(s) ==
  /\ pc[s] = "loop" /\ appq[s] = <<>> /\ Arrived(s)
  /\ LET p == Head(net[s])
         next == Plus(NextExpectedByte[s], Len(p.data))
         ack == Header({"ACK"}, Swap(SequenceNumber[s]), Swap(next), sent[s])
     IN  /\ p.flags # NetEof
         /\ flags' = [flags EXCEPT ![s] = p.flags]
         /\ AcknowledgedByte' = [AcknowledgedByte EXCEPT ![s] =
              IF p.flags = {"ACK"} THEN AckOf(p) ELSE @]
         /\ got' = [got EXCEPT ![s] = @ \o Copied(p.data)]
         /\ NextExpectedByte' = [NextExpectedByte EXCEPT ![s] = next]
         /\ Exchange(s, 1, (IF p.data # <<>> THEN <<ack>> ELSE <<>>)
                             \o (IF IsFin(p) THEN <<ack>> ELSE <<>>))
         /\ IF IsFin(p)
              THEN /\ IF state[s] = "FIN_WAIT_1"
                        THEN Goto(s, "done") /\ UNCHANGED state
                        ELSE state' = [state EXCEPT ![s] = "FIN_WAIT_2"] /\ UNCHANGED pc
                   /\ eof' = [eof EXCEPT ![s] = TRUE]
              ELSE UNCHANGED <<pc, state, eof>>
  /\ closeReq' = [closeReq EXCEPT ![s] = FALSE]
  /\ UNCHANGED <<clean, D, SequenceNumber, appVars, gone>>

(* The peer closed its socket and stcp_network_recv returns 0: the length   *)
(* of the data comes out as -20.                                            *)
RecvNothing(s) ==
  /\ pc[s] = "loop" /\ appq[s] = <<>> /\ Arrived(s)
  /\ Head(net[s]).flags = NetEof
  /\ Goto(s, "undefined")
  /\ UNCHANGED <<clean, state, D, seqVars, flags, net, appVars, upVars, closeReq, gone>>

(* APP_CLOSE_REQUESTED, up to the wait for the ACK of the FIN.              *)
SendFin(s) ==
  /\ pc[s] = "loop" /\ appq[s] = <<>> /\ closeReq[s]
  /\ Exchange(s, 0, <<Header({"FIN"}, Swap(SequenceNumber[s]),
                             Swap(NextExpectedByte[s]), sent[s])>>)
  /\ closeReq' = [closeReq EXCEPT ![s] = FALSE]
  /\ Goto(s, "finSent")
  /\ UNCHANGED <<clean, state, D, seqVars, flags, appVars, upVars, gone>>

(* Mutant: a FIN that came before is forgotten.                             *)
RecvFinAckForgetful(s) ==
  /\ pc[s] = "finSent" /\ Arrived(s)
  /\ Exchange(s, 1, <<>>)
  /\ state' = [state EXCEPT ![s] = "FIN_WAIT_1"]
  /\ Goto(s, "loop")
  /\ UNCHANGED <<clean, D, seqVars, flags, appVars, upVars, closeReq, gone>>

(* Mutant: the connection ends with the ACK of its own FIN.                 *)
RecvFinAckDone(s) ==
  /\ pc[s] = "finSent" /\ Arrived(s)
  /\ Exchange(s, 1, <<>>)
  /\ Goto(s, "done")
  /\ UNCHANGED <<clean, state, D, seqVars, flags, appVars, upVars, closeReq, gone>>

(* Whatever packet comes next is taken for that ACK.                        *)
RecvFinAck(s) ==
  /\ pc[s] = "finSent" /\ Arrived(s)
  /\ Exchange(s, 1, <<>>)
  /\ IF state[s] = "FIN_WAIT_2"
       THEN Goto(s, "done") /\ UNCHANGED state
       ELSE state' = [state EXCEPT ![s] = "FIN_WAIT_1"] /\ Goto(s, "loop")
  /\ UNCHANGED <<clean, D, seqVars, flags, appVars, upVars, closeReq, gone>>

-----------------------------------------------------------------------------
(* The applications, and the end of a mysocket                              *)

(* The script of client.c and server.c: the client writes its request, the  *)
(* server writes the answer when it has the request, the client closes when *)
(* it has the answer, the server at end of file.                            *)
MayWrite(s) ==
  Scripted /\ s = "server" => Len(got["server"]) = Total["client"]
MayClose(s) ==
  Scripted => IF s = "server" THEN eof["server"]
              ELSE /\ written["client"] = Total["client"]
                   /\ Len(got["client"]) = Total["server"]

(* The application runs once stcp_unblock_application was called.           *)
Unblocked(s) == pc[s] \notin {"start", "synSent", "synRcvd"}

AppWrite(s, n) ==
  /\ Unblocked(s) /\ ~closed[s]
  /\ written[s] + n <= Total[s] /\ MayWrite(s)
  /\ appq' = [appq EXCEPT ![s] =
       Append(@, [from |-> written[s],
                 data |-> [i \in 1 .. n |-> Byte(s, written[s] + i)]])]
  /\ written' = [written EXCEPT ![s] = @ + n]
  /\ UNCHANGED <<clean, pc, state, D, seqVars, flags, net, sent, closed, upVars, closeReq, gone>>

AppClose(s) ==
  /\ Unblocked(s) /\ ~closed[s] /\ MayClose(s)
  /\ closed' = [closed EXCEPT ![s] = TRUE]
  /\ closeReq' = [closeReq EXCEPT ![s] = TRUE]
  /\ UNCHANGED <<clean, pc, state, D, seqVars, flags, net, appq, written, sent, upVars, gone>>

(* myclose returns after transport_init did, and the socket is closed.      *)
SocketClose(s) ==
  /\ pc[s] = "done" /\ closed[s] /\ ~gone[s]
  /\ gone' = [gone EXCEPT ![s] = TRUE]
  /\ net' = [net EXCEPT ![s] = <<>>,
                        ![Peer(s)] = IF gone[Peer(s)] THEN @
                                     ELSE Append(@, Header(NetEof, 0, 0, sent[s]))]
  /\ UNCHANGED <<clean, pc, state, D, seqVars, flags, appVars, upVars, closeReq>>

(* Both applications are through; or a side hangs or is broken.             *)
Transport(s) ==
  \/ SendData(s) \/ RecvPacket(s) \/ RecvNothing(s) \/ SendFin(s) \/ RecvFinAck(s)

Handshake ==
  \/ \E x \in Isns : SendSyn(x) \/ RecvSyn(x)
  \/ RecvSynAck \/ RecvHandshakeAck

App(s) == (\E n \in Chunks : AppWrite(s, n)) \/ AppClose(s)

Next ==
  \/ Handshake
  \/ \E s \in Sides : Transport(s) \/ App(s) \/ SocketClose(s)

(* The threads of both sides are scheduled and the network delivers; the    *)
(* applications follow their script to the end.                             *)
Fairness == /\ WF_vars(Handshake)
            /\ \A s \in Sides : /\ WF_vars(Transport(s)) /\ WF_vars(App(s))
                                /\ WF_vars(SocketClose(s))

Spec == Init /\ [][Next]_vars
FairSpec == Spec /\ Fairness

-----------------------------------------------------------------------------
(* Properties                                                               *)

TypeOK ==
  /\ pc \in [Sides -> {"start", "synSent", "synRcvd", "loop", "finSent", "done",
                       "undefined"}]
  /\ state \in [Sides -> {"ESTABLISHED", "FIN_WAIT_1", "FIN_WAIT_2"}]
  /\ SequenceNumber \in [Sides -> Numbers]
  /\ NextExpectedByte \in [Sides -> Numbers]
  /\ AcknowledgedByte \in [Sides -> Numbers]
  /\ flags \in [Sides -> FlagSets] /\ clean \in BOOLEAN
  /\ net \in [Sides -> Seq(Packet)] /\ D \in Packet
  /\ appq \in [Sides -> Seq(Chunk)] /\ got \in [Sides -> Seq(Nat)]
  /\ written \in [Sides -> Nat] /\ sent \in [Sides -> Nat]
  /\ eof \in [Sides -> BOOLEAN] /\ closed \in [Sides -> BOOLEAN]
  /\ closeReq \in [Sides -> BOOLEAN] /\ gone \in [Sides -> BOOLEAN]

(* An application reads what its peer wrote, in order and without a gap:    *)
(* segments split off writes, and packets that the wait for the ACK of a    *)
(* FIN swallows (transport.c:207), do not show while it may still read.     *)
PrefixRead ==
  \A s \in Sides : ~closed[s] =>
    /\ Len(got[s]) <= written[Peer(s)]
    /\ \A i \in 1 .. Len(got[s]) : got[s][i] = Byte(Peer(s), i)

(* End of file is reported only when the peer has closed and everything it  *)
(* wrote has been passed up, although data segments carry the flags of the  *)
(* last packet received, a FIN among them (transport.c:165, 156).  It needs *)
(* luck: the flags of the first segments are whatever the stack held (138), *)
(* and the code promises nothing when that was a FIN.                       *)
EofComplete ==
  clean => \A s \in Sides : eof[s] /\ ~closed[s] =>
             closed[Peer(s)] /\ Len(got[s]) = written[Peer(s)]

(* Client and server agree on the client's sequence numbers, which the      *)
(* handshake exchanges without byte order conversion: what the server       *)
(* expects next is what the client sends next, less what is in flight.      *)
ClientSeqAgrees ==
  pc["client"] \in {"loop", "finSent"} /\ pc["server"] = "loop" /\ ~closed["server"]
    => Plus(NextExpectedByte["server"], sent["client"] - Len(got["server"]))
         = SequenceNumber["client"]

(* What the client counts as not yet acknowledged, the window's fill, covers *)
(* all that the server has not received, and never exceeds what was sent:   *)
(* an acknowledgement neither runs ahead nor falls before the beginning.    *)
AcksReceived ==
  pc["client"] \in {"loop", "finSent"} /\ ~closed["server"] =>
    LET unacked == Plus(SequenceNumber["client"], -AcknowledgedByte["client"])
    IN  sent["client"] - Len(got["server"]) <= unacked /\ unacked <= sent["client"] + 1

(* "this function should not return until the connection is closed"         *)
(* (transport.c:49-50): a side's transport ends only when both applications *)
(* have closed, if the stack held no FIN.                                   *)
DoneWhenClosed ==
  clean => \A s \in Sides : pc[s] = "done" => closed[s] /\ closed[Peer(s)]

(* Nobody reads from a connection whose other end is closed, if the stack   *)
(* held no FIN.                                                             *)
NeverBroken == clean => \A s \in Sides : pc[s] # "undefined"

(* The connection ends: both transports return, if the stack held no FIN.   *)
BothDone == clean => <>(\A s \in Sides : gone[s])
=============================================================================
