------------------------------ MODULE VnsSession -----------------------------
(* One session of the router with its VNS server: main (sr_main.c), the     *)
(* reader and the handlers of commands (sr_vns_comm.c), and what they call  *)
(* on a frame (sr_router.c).  The server is external: it sends commands,    *)
(* mostly in any order, over a TCP connection that may hand them over in    *)
(* pieces, and it may go away in the middle of one.                         *)
(*                                                                          *)
(* A command is a kind and the size it gives itself; the connection carries *)
(* its cells, the first LEN_CELLS of which hold that size.  What else it    *)
(* says is chosen when it is handled, also whether it is long enough for    *)
(* it.  The ARP cache, which ArpRouter models, is only the choice whether   *)
(* the gateway's MAC is known.                                              *)
EXTENDS IpProcessing, FiniteSets

CONSTANTS
  Ifaces, Macs,  \* names of interfaces; MAC addresses, Bcast one of them
  Bcast,
  Hosts,         \* addresses of hosts, which routes lead to
  Headers,       \* IP headers that arrive
  Junk,          \* what uninitialised words may hold
  Descriptions,  \* what HWINFO commands may say
  Tables,        \* contents of a routing table file
  LEN_CELLS,     \* cells of a command's length, in place of 4 bytes
  MAX_LEN,       \* longest command the reader takes, in place of 10000
  Commands,      \* commands the server may send
  MAX_TODO,      \* bound: commands sent and not yet handled
  MAX_IFS        \* bound: after so many interfaces no HWINFO is sent

VARIABLES
  stage,     \* where main is
  template,  \* option -T was given
  vrhost,    \* option -r names rtable.vrhost, not another file
  file,      \* contents of the file that option -r names, None if there is none
  table,     \* sr->routing_table
  ifs,       \* sr->if_list
  said,      \* handshake messages exchanged (history)
  todo,      \* commands sent and not yet handled (history)
  stream,    \* cells in the connection
  len, body, \* what the reader has got of the present command
  server,    \* "open", or "gone" when the connection is closed
  out        \* the frame the last step wrote, or None

vars == <<stage, template, vrhost, file, table, ifs, said, todo, stream, len,
          body, server, out>>
options == <<template, vrhost>>
inputs == <<todo, stream, len, body, server>>

Kinds == {"AUTH_REQUEST", "AUTH_STATUS", "RTABLE", "BANNER", "HWINFO",
          "PACKET", "CLOSE"}
Handshake == {"AUTH_REQUEST", "AUTH_STATUS", "RTABLE"}

(* main at work: in sr_connect_to_server, at the command it expects, or in  *)
(* the loop.                                                                *)
Reading == Handshake \cup {"loop"}

(* Ends: main returns; exits or returns 1 before the loop; an assertion     *)
(* fails; a write to a closed connection raises SIGPIPE; NULL is used for a *)
(* route, a route's interface, the interface a frame came by, a cache       *)
(* entry or a request's packet; memory behind a buffer is used, after which *)
(* nothing is claimed.                                                      *)
Stopped == {"returned", "failed", "aborted", "killed", "noroute", "badroute",
            "nulliface", "noentry", "nopacket", "overrun"}

NoRoutes == [h \in Hosts |-> None]

(* BANNER stands for all that is only printed, unknown commands too.  Size  *)
(* and type take the head of a command, but its size may be less.           *)
Command == [kind : Kinds, size : Nat]
HEAD == 2 * LEN_CELLS
Cell == [cmd : Command, at : Nat]
Span(c) == IF c.size < LEN_CELLS THEN LEN_CELLS ELSE c.size
Cells(c) == [i \in 1 .. Span(c) |-> [cmd |-> c, at |-> i]]

ASSUME SessionAssumption ==
  /\ LEN_CELLS \in Nat \ {0}
  /\ Commands \subseteq Command
  /\ Descriptions \subseteq Seq(HwEntries(Ifaces, Macs, 0 .. WORD - 1))
  /\ Headers \subseteq Header /\ Junk \subseteq 0 .. WORD - 1 /\ NoRoutes \in Tables
  /\ Tables \subseteq [Hosts -> Ifaces \cup {None}]
  /\ None \notin Ifaces /\ None \notin Interface(Ifaces, Macs, 0 .. WORD - 1)

Out == [kind : {"forward", "arp", "echo", "unreachable"}, iface : Ifaces,
        shost : Macs \cup {None}, ip : Header \cup {None}]

------------------------------------------------------------------------------
(* The server, and the connection.                                          *)

SendCommand(c) ==
  /\ server = "open" /\ Len(todo) < MAX_TODO /\ stage \notin Stopped
  /\ c.kind = "HWINFO" => Len(ifs) < MAX_IFS /\ \A i \in DOMAIN todo : todo[i] # c
  /\ todo' = Append(todo, c)
  /\ stream' = stream \o Cells(c)
  /\ out' = None
  /\ UNCHANGED <<stage, options, file, table, ifs, said, len, body, server>>

(* The connection is closed; what was not delivered may be lost.            *)
HangUp ==
  /\ server = "open" /\ stage \notin Stopped
  /\ server' = "gone"
  /\ \E n \in 0 .. Len(stream) : stream' = SubSeq(stream, 1, n)
  /\ out' = None
  /\ UNCHANGED <<stage, options, file, table, ifs, said, todo, len, body>>

(* Mutant: recv is asked for the whole length again after a short read.     *)
WantAll == IF Len(len) < LEN_CELLS THEN LEN_CELLS
           ELSE len[1].cmd.size - LEN_CELLS - Len(body)

(* sr_read_from_server_expect: what the next recv asks for.                 *)
Want == IF Len(len) < LEN_CELLS THEN LEN_CELLS - Len(len)
        ELSE len[1].cmd.size - LEN_CELLS - Len(body)

TooLong == Len(len) >= LEN_CELLS /\ len[1].cmd.size > MAX_LEN

AllRead == Len(len) >= LEN_CELLS /\ ~TooLong /\ Want =< 0

Complete == AllRead /\ len[1].cmd.size >= HEAD

(* recv gives at least a cell, and no more than it was asked for.  At end   *)
(* of file it gives 0, which the loop takes for progress: it spins.         *)
Recv ==
  /\ stage \in Reading /\ ~TooLong /\ Want > 0
  /\ \E n \in 1 .. Want :
       /\ n =< Len(stream)
       /\ stream' = SubSeq(stream, n + 1, Len(stream))
       /\ IF Len(len) < LEN_CELLS
          THEN len' = len \o SubSeq(stream, 1, n) /\ UNCHANGED body
          ELSE body' = body \o SubSeq(stream, 1, n) /\ UNCHANGED len
  /\ out' = None
  /\ UNCHANGED <<stage, options, file, table, ifs, said, todo, server>>

(* What a call of sr_read_from_server that does not return 1 leads to.      *)
Failure == IF stage = "loop" THEN "returned" ELSE "failed"

(* recv fails: the connection was reset.                                    *)
RecvFails ==
  /\ stage \in Reading /\ ~TooLong /\ Want > 0 /\ server = "gone"
  /\ stage' = Failure /\ out' = None
  /\ UNCHANGED <<options, file, table, ifs, said, inputs>>

RefuseLength ==
  /\ stage \in Reading /\ TooLong
  /\ stage' = Failure /\ out' = None
  /\ UNCHANGED <<options, file, table, ifs, said, inputs>>

(* The size gives no room for a type: it is read from behind the buffer,    *)
(* and what is found there may be an unknown command, CLOSE, or any other.  *)
ReadBehind ==
  /\ stage \in Reading /\ AllRead /\ len[1].cmd.size < HEAD
  /\ todo' = Tail(todo) /\ len' = <<>> /\ body' = <<>>
  /\ stage' \in {Failure, "overrun"} \cup ({stage} \cap {"loop"})
  /\ out' = None
  /\ UNCHANGED <<options, file, table, ifs, said, stream, server>>

------------------------------------------------------------------------------
(* The handlers.  A complete command is of the kind in its body.            *)

Kind == body[1].cmd.kind

(* Mutant: the expected command is not compared.                            *)
ExpectAny(kind) == Complete /\ stage \in Reading /\ Kind = kind

(* The test at the end of reading: in the handshake, only the command that  *)
(* is waited for, or CLOSE, is handled.                                     *)
Expect(kind) ==
  /\ Complete /\ stage \in Reading /\ Kind = kind
  /\ stage = "loop" \/ kind \in {stage, "CLOSE"}

Consume == /\ todo' = Tail(todo) /\ len' = <<>> /\ body' = <<>>
           /\ UNCHANGED <<stream, server>>

(* Mutant: the result of sr_load_rt is what counts, not what it loaded.     *)
LoadAnything(content, next) == stage' = next /\ table' = content

(* sr_load_rt_wrap: without the file, exit.  A file without routes leaves   *)
(* the table as it was (RoutingTable).                                      *)
Load(content, next) ==
  /\ stage' = IF content = None THEN "failed" ELSE next
  /\ table' = IF content \in {None, NoRoutes} THEN table ELSE content

(* main up to sr_connect_to_server: the first load, unless there is a       *)
(* template; then the connection is made, or not.                           *)
Start ==
  /\ stage = "start"
  /\ IF template THEN stage' = "AUTH_REQUEST" /\ UNCHANGED table
     ELSE Load(file, "AUTH_REQUEST")
  /\ UNCHANGED <<options, file, ifs, said, inputs, out>>

ConnectFails ==
  /\ stage = "start" /\ stage' = "failed"
  /\ UNCHANGED <<options, file, table, ifs, said, inputs, out>>

Unexpected ==
  /\ Complete /\ stage \in Handshake /\ Kind \notin {stage, "CLOSE"}
  /\ Consume
  /\ stage' = "failed" /\ out' = None
  /\ UNCHANGED <<options, file, table, ifs, said>>

(* sr_handle_auth_request: without the key file, or if send fails, failure. *)
AuthRequest ==
  /\ Expect("AUTH_REQUEST")
  /\ Consume
  /\ \/ /\ server = "open" /\ said' = said \cup {"reply"}
        /\ stage' = IF stage = "loop" THEN "loop" ELSE "AUTH_STATUS"
     \/ /\ stage' = Failure /\ UNCHANGED said
     \/ /\ server = "gone" /\ stage' = "killed" /\ UNCHANGED said
  /\ out' = None
  /\ UNCHANGED <<options, file, table, ifs>>

(* sr_handle_auth_status; in sr_connect_to_server an OPEN command follows,  *)
(* and unless a table has to come first, main enters its loop.              *)
AuthStatus ==
  /\ Expect("AUTH_STATUS")
  /\ Consume
  /\ \/ /\ stage = "AUTH_STATUS" /\ server = "open"
        /\ said' = said \cup {"accepted", "open"}
        /\ IF template THEN stage' = "RTABLE" /\ UNCHANGED table
           ELSE Load(file, "loop")
     \/ /\ stage = "loop" /\ UNCHANGED <<stage, said, table>>
     \/ /\ stage' = Failure /\ UNCHANGED <<said, table>>
     \/ /\ stage = "AUTH_STATUS" /\ server = "gone"
        /\ stage' = "killed" /\ UNCHANGED <<said, table>>
  /\ out' = None
  /\ UNCHANGED <<options, file, ifs>>

(* sr_handle_rtable writes the file rtable.<virtual host>, of which only    *)
(* rtable.vrhost can be read back: main loads the file of option -r, so it  *)
(* takes the table just received only if that option names it.  What is     *)
(* written later is not read any more.  A command too short for a name, or  *)
(* a name without an end, is written from behind the buffer.                *)
NewTable ==
  /\ Expect("RTABLE")
  /\ Consume
  /\ \/ /\ stage = "loop" /\ UNCHANGED <<stage, file, table, said>>
     \/ /\ stage = "RTABLE"
        /\ (vrhost /\ file' \in Tables) \/ UNCHANGED file
        /\ said' = said \cup {"table"}
        /\ Load(file', "loop")
     \/ stage' \in {Failure, "overrun"} /\ UNCHANGED <<file, table, said>>
  /\ out' = None
  /\ UNCHANGED <<options, ifs>>

Banner ==
  /\ Expect("BANNER")
  /\ Consume
  /\ out' = None
  /\ UNCHANGED <<stage, options, file, table, ifs, said>>

(* Mutant: VNSCLOSE is a message like BANNER.                               *)
CloseNoted == Expect("CLOSE") /\ Consume /\ out' = None
              /\ UNCHANGED <<stage, options, file, table, ifs, said>>

Close ==
  /\ Expect("CLOSE")
  /\ Consume
  /\ stage' = Failure /\ out' = None
  /\ UNCHANGED <<options, file, table, ifs, said>>

(* sr_handle_hwinfo, and the check of the routes against what it said.      *)
Hwinfo ==
  /\ Expect("HWINFO")
  /\ Consume
  /\ \E d \in Descriptions :
       IF Orphan(ifs, d) THEN stage' = "aborted" /\ UNCHANGED ifs
       ELSE /\ ifs' = HandleHwinfo(ifs, d)
            /\ stage' = IF Verified(ifs', table) THEN "loop" ELSE Failure
  /\ out' = None
  /\ UNCHANGED <<options, file, table, said>>

------------------------------------------------------------------------------
(* VNSPACKET: sr_handlepacket and what it calls.                            *)

(* A frame names any interface, described or not.                           *)
Frame ==
  LET common == [len : Lengths, dhost : Macs, iface : Ifaces]
  IN {[type |-> "ip", len |-> c.len, dhost |-> c.dhost, iface |-> c.iface,
       ip |-> h] : c \in common, h \in Headers}
     \cup
     {[type |-> "arp", len |-> c.len, dhost |-> c.dhost, iface |-> c.iface,
       op |-> o, sip |-> s, tip |-> t] :
         c \in common, o \in {"request", "reply"}, s \in Hosts,
         t \in {h.dst : h \in Headers}}

(* Mutant: sr_send_packet does not compare the source address.              *)
SendUnmatched(f) ==
  IF GetInterface(ifs, f.iface) = None THEN out' = None /\ UNCHANGED stage
  ELSE \/ server = "open" /\ out' = f /\ UNCHANGED stage
       \/ server = "gone" /\ out' = None /\ stage' \in {stage, "killed"}

(* sr_send_packet: a frame whose source address is not the interface's is   *)
(* refused; all callers ignore the result.                                  *)
SendPacket(f) ==
  LET iface == GetInterface(ifs, f.iface)
  IN IF iface = None \/ iface.addr # f.shost
     THEN out' = None /\ UNCHANGED stage
     ELSE \/ server = "open" /\ out' = f /\ UNCHANGED stage
          \/ server = "gone" /\ out' = None /\ stage' \in {stage, "killed"}

Crash(how) == stage' = how /\ out' = None

(* FillAndSendPkt: by the route's interface.  Without the gateway's MAC an  *)
(* IP packet is queued and, unless that was just done, an ARP request is    *)
(* broadcast (by the gateway's route, taken to be the packet's); an ARP     *)
(* reply needs the MAC.  A queued packet of length 0 is none (ArpCache).    *)
FillAndSendPkt(dst, kind, ip) ==
  LET route == IF dst \in Hosts THEN table[dst] ELSE None
      iface == GetInterface(ifs, route)
      Emit(k, h) == IF iface = None THEN Crash("badroute")
                    ELSE SendPacket([kind |-> k, iface |-> route,
                                     shost |-> iface.addr, ip |-> h])
  IN IF route = None THEN Crash("noroute")
     ELSE \/ Emit(kind, ip)
          \/ kind = "arp" /\ Crash("noentry")
          \/ kind # "arp" /\ Emit("arp", None)
          \/ kind # "arp" /\ out' = None /\ UNCHANGED stage
          \/ kind # "arp" /\ ip = None /\ Crash("nopacket")

(* sr_arp_req_not_for_us: assert(iface), in every frame that is long enough *)
(* for ARP, whatever its type.                                              *)
Unasserted(f) == f.len = Whole /\ GetInterface(ifs, f.iface) = None

Refused(f) ==
  CASE f.type = "arp" /\ f.len = Whole -> f.tip # GetInterface(ifs, f.iface).ip
    [] f.type = "arp" /\ f.len < Whole -> TRUE
    [] OTHER -> ~IpAccepted(f)

Assertion(f) == Unasserted(f) /\ Crash("aborted")

Drop(f) == ~Unasserted(f) /\ Refused(f) /\ out' = None /\ UNCHANGED stage

(* HandleArpRequst answers by the route to the asker; a reply is only       *)
(* learnt from (ArpRouter).                                                 *)
Arp(f) ==
  /\ f.type = "arp" /\ ~Unasserted(f) /\ ~Refused(f)
  /\ IF f.op = "request" THEN FillAndSendPkt(f.sip, "arp", None)
     ELSE out' = None /\ UNCHANGED stage

Ip(f) == f.type = "ip" /\ ~Unasserted(f) /\ ~Refused(f)

(* Any ICMP message for the router is answered as an echo request.  Source  *)
(* of the frame is the address it came to.                                  *)
Echo(f) ==
  /\ Ip(f) /\ IpMatch(ifs, f.ip.dst) /\ f.ip.p = ICMP
  /\ IF f.len = NoIcmp THEN Crash("overrun")
     ELSE \E junk \in Junk :
            SendPacket([kind |-> "echo", iface |-> f.iface, shost |-> f.dhost,
                        ip |-> EchoReply(f.ip, junk)])

Unreachable(f) ==
  /\ Ip(f) /\ IpMatch(ifs, f.ip.dst) /\ f.ip.p # ICMP
  /\ LET iface == GetInterface(ifs, f.iface)
     IN IF iface = None THEN Crash("nulliface")
        ELSE \E junk \in Junk :
               SendPacket([kind |-> "unreachable", iface |-> f.iface,
                           shost |-> iface.addr,
                           ip |-> PortUnreachable(f.ip, iface.ip, junk)])

(* As much is sent on as ip_len says: with less than the header, or nothing *)
(* of it, or from behind the frame.                                         *)
Forward(f) ==
  /\ Ip(f) /\ ~IpMatch(ifs, f.ip.dst)
  /\ \/ \E ip \in {Forwarded(f.ip), None} : FillAndSendPkt(f.ip.dst, "forward", ip)
     \/ Crash("overrun")

(* The length of the frame is that of the command less 24, and huge if that *)
(* is less than none.                                                       *)
Packet ==
  /\ Expect("PACKET")
  /\ Consume
  /\ \/ \E f \in Frame :
          \/ Assertion(f) \/ Drop(f) \/ Arp(f)
          \/ Echo(f) \/ Unreachable(f) \/ Forward(f)
     \/ Crash("overrun")
  /\ UNCHANGED <<options, file, table, ifs, said>>

------------------------------------------------------------------------------

Init ==
  /\ stage = "start"
  /\ template \in BOOLEAN
  /\ vrhost \in BOOLEAN
  /\ file \in Tables \cup {None}
  /\ table = NoRoutes
  /\ ifs = <<>>
  /\ said = {}
  /\ todo = <<>> /\ stream = <<>>
  /\ len = <<>> /\ body = <<>>
  /\ server = "open"
  /\ out = None

Router ==
  \/ Start \/ ConnectFails \/ Recv \/ RecvFails \/ RefuseLength \/ ReadBehind
  \/ Unexpected \/ AuthRequest \/ AuthStatus \/ NewTable \/ Banner \/ Close
  \/ Hwinfo \/ Packet

Next == Router \/ HangUp \/ \E c \in Commands : SendCommand(c)

Spec == Init /\ [][Next]_vars

(* The router is scheduled; the server need not do anything.                *)
FairSpec == Spec /\ WF_vars(Router)

------------------------------------------------------------------------------
TypeOK ==
  /\ stage \in Reading \cup Stopped \cup {"start"}
  /\ template \in BOOLEAN /\ vrhost \in BOOLEAN
  /\ file \in Tables \cup {None}
  /\ table \in Tables
  /\ ifs \in Seq(Interface(Ifaces, Macs, 0 .. WORD - 1))
  /\ said \subseteq {"reply", "accepted", "open", "table"}
  /\ todo \in Seq(Command)
  /\ stream \in Seq(Cell) /\ len \in Seq(Cell) /\ body \in Seq(Cell)
  /\ server \in {"open", "gone"}
  /\ out \in Out \cup {None}

(* However recv cuts the stream, what the reader holds is the present       *)
(* command from its beginning, and what is left in the connection goes on   *)
(* exactly there: no handler sees bytes of another command.                 *)
Framed ==
  stage \in Reading /\ len # <<>> =>
    LET c == Cells(Head(todo))
    IN /\ Len(len) =< LEN_CELLS /\ (body # <<>> => Len(len) = LEN_CELLS)
       /\ len \o body = SubSeq(c, 1, Len(len) + Len(body))

(* The router is authenticated, has opened a topology and, for a template,  *)
(* has got its table before it takes interfaces or frames from the server,  *)
(* although the same reader handles every command at every stage.           *)
HandshakeFirst ==
  stage = "loop" \/ ifs # <<>> \/ out # None =>
    /\ {"reply", "accepted", "open"} \subseteq said
    /\ template => "table" \in said

(* The check of routes against interfaces at HWINFO protects every later    *)
(* frame: FillAndSendPkt uses the interface of a route without a test       *)
(* (sr_router.c:230, 251), and it is NULL only for a frame that came before *)
(* the interfaces were described.                                           *)
RoutesVerified == stage = "badroute" => ifs = <<>>

(* Lists of interfaces only grow, and a description that comes again is     *)
(* appended: what a name was first described as stays what is looked up.    *)
(* The exception is a description that begins with addresses, which changes *)
(* the last interface of those before.                                      *)
FirstDescriptionWins ==
  [][\A n \in Ifaces : GetInterface(ifs, n) # None =>
       \/ GetInterface(ifs', n) = GetInterface(ifs, n)
       \/ /\ ifs[Len(ifs)].name = n
          /\ \E d \in Descriptions : Headless(d) /\ ifs' = HandleHwinfo(ifs, d)]_vars

(* A frame leaves with the MAC of the interface it leaves by, also the echo *)
(* reply, which takes its source from the destination it received.          *)
SourceIsInterface ==
  out # None => \E i \in DOMAIN ifs : ifs[i].name = out.iface /\ ifs[i].addr = out.shost

(* Headers that the router forwards or answers an echo with satisfy the     *)
(* standard's checksum test, not only the router's own, after the change of *)
(* TTL and of addresses; replies to packets with options do not, and what   *)
(* gives itself less than five words, or carries less, has no valid header. *)
HeadersValid ==
  /\ out # None /\ out.ip # None
  /\ \/ out.kind = "forward" /\ out.ip.hl >= 5
     \/ out.kind = "echo" /\ out.ip.hl = 5
  => ValidHeader(out.ip)

(* A whole CLOSE the server sent and did not cut off ends main.             *)
CloseEnds ==
  (\E i \in DOMAIN todo : todo[i].kind = "CLOSE" /\ todo[i].size >= HEAD)
    ~> stage \in Stopped \/ server = "gone"
==============================================================================
