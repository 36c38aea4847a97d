---------------------------- MODULE FileTransfer -----------------------------
(* The file server and its client of Assignment1 (server.cpp, client.cpp).  *)
(* The server is one process and serves one client at a time; messages are  *)
(* not delimited: the client takes each read for one.                       *)
EXTENDS Naturals, Sequences, FiniteSets

CONSTANTS
  Clients, Nobody,
  File,       \* for each name, its text, or Missing
  Missing,
  PKT,        \* cells of a packet, in place of 255 bytes
  Numbers,    \* what atoi may find at the beginning of a text
  MAX_ASKS    \* bound: names each client asks for

VARIABLES
  server,     \* where main of server.cpp is
  current,    \* the client at newsockfd, or Nobody
  backlog,    \* clients that wait to be accepted
  packets,    \* packets of the file that are still to be written
  client,     \* where main of client.cpp is
  count,      \* packets the client has still to read
  up, down,   \* names and cells in each connection
  asked,      \* names each client has asked for (history)
  shown,      \* what it has printed since (history)
  steady      \* no read of it got less than there was (history)

vars == <<server, current, backlog, packets, client, count, up, down, asked, shown, steady>>
serverVars == <<server, current, backlog, packets>>
clientVars == <<client, count, asked, shown, steady>>

Nul == <<"nul", 0>>
Cell(kind, n) == <<kind, n>>
Welcome == <<Cell("welcome", 0)>>

ASSUME TransferAssumption ==
  /\ PKT \in Nat \ {0} /\ MAX_ASKS \in [Clients -> Nat] /\ Numbers \subseteq Nat
  /\ Nobody \notin Clients
  /\ \A name \in DOMAIN File :
       File[name] # Missing =>
         /\ File[name] \in Seq({"text"} \X Nat)
         /\ \A i \in DOMAIN File[name] : File[name][i] = Cell("text", i)

Gone(c) == client[c] = "gone"

------------------------------------------------------------------------------
(* The server.                                                              *)

(* accept, and the welcome.  The first client's name is read by the loop,   *)
(* that of a later one by a read of its own.                                *)
Accept ==
  /\ server \in {"start", "next"} /\ backlog # <<>>
  /\ current' = Head(backlog)
  /\ backlog' = Tail(backlog)
  /\ down' = [down EXCEPT ![current'] = Welcome]
  /\ server' = IF server = "start" THEN "loop" ELSE "first"
  /\ UNCHANGED <<packets, clientVars, up>>

(* Mutant: n <= 0 is not looked at.                                         *)
ReadAgain ==
  /\ server = "loop" /\ up[current] = <<>> /\ Gone(current)
  /\ UNCHANGED vars

(* read gives nothing: the loop accepts the next client.                    *)
NextClient ==
  /\ server = "loop" /\ up[current] = <<>> /\ Gone(current)
  /\ server' = "next"
  /\ UNCHANGED <<current, backlog, packets, clientVars, up, down>>

(* The read of a client's first name gives nothing: the server exits.  Or   *)
(* it writes to a client that is gone: SIGPIPE.                             *)
Die ==
  /\ \/ server = "first" /\ up[current] = <<>>
     \/ server = "sending"
  /\ Gone(current)
  /\ server' = "dead"
  /\ UNCHANGED <<current, backlog, packets, clientVars, up, down>>

(* Mutant: a last packet that is not full is not counted.                   *)
CountFull(n) == n \div PKT

Count(n) == IF n % PKT = 0 THEN n \div PKT ELSE n \div PKT + 1

(* Packet i of a text, filled with NULs.                                    *)
Packet(text, i) ==
  [k \in 1 .. PKT |-> IF (i - 1) * PKT + k =< Len(text) THEN text[(i - 1) * PKT + k]
                      ELSE Nul]

Packets(text) == [i \in 1 .. Count(Len(text)) |-> Packet(text, i)]

(* A read may get several names; strtok takes the first.                    *)
ReadName ==
  /\ server \in {"loop", "first"} /\ up[current] # <<>>
  /\ \E n \in 1 .. Len(up[current]) :
       up' = [up EXCEPT ![current] = SubSeq(@, n + 1, Len(@))]
  /\ LET text == File[Head(up[current])]
     IN IF text = Missing
        THEN /\ down' = [down EXCEPT ![current] = Append(@, Cell("-1", 0))]
             /\ server' = "loop"
             /\ UNCHANGED packets
        ELSE /\ down' = [down EXCEPT ![current] = @ \o
                  [k \in 1 .. PKT |-> IF k = 1 THEN Cell("count", Count(Len(text))) ELSE Nul]]
             /\ packets' = Packets(text)
             /\ server' = "sending"
  /\ UNCHANGED <<current, backlog, clientVars>>

WritePacket ==
  /\ server = "sending" /\ packets # <<>>
  /\ down' = [down EXCEPT ![current] = @ \o Head(packets)]
  /\ packets' = Tail(packets)
  /\ UNCHANGED <<server, current, backlog, clientVars, up>>

CloseFile ==
  /\ server = "sending" /\ packets = <<>>
  /\ server' = "loop"
  /\ UNCHANGED <<current, backlog, packets, clientVars, up, down>>

Server == Accept \/ NextClient \/ Die \/ ReadName \/ WritePacket \/ CloseFile

------------------------------------------------------------------------------
(* Clients.                                                                 *)

Connect(c) ==
  /\ client[c] = "away" /\ server # "dead"
  /\ client' = [client EXCEPT ![c] = "connected"]
  /\ backlog' = Append(backlog, c)
  /\ UNCHANGED <<server, current, packets, count, up, down, asked, shown, steady>>

(* The user cuts the client.                                                *)
Cut(c) ==
  /\ client[c] \notin {"away", "gone"}
  /\ client' = [client EXCEPT ![c] = "gone"]
  /\ UNCHANGED <<serverVars, count, up, down, asked, shown, steady>>

(* A name is written; with the server dead this may raise SIGPIPE (Cut).    *)
Ask(c, name) ==
  /\ client[c] = "prompt" /\ Len(asked[c]) < MAX_ASKS[c]
  /\ client' = [client EXCEPT ![c] = "asked"]
  /\ asked' = [asked EXCEPT ![c] = Append(@, name)]
  /\ shown' = [shown EXCEPT ![c] = <<>>]
  /\ up' = [up EXCEPT ![c] = Append(@, name)]
  /\ UNCHANGED <<serverVars, down, count, steady>>

(* The input ends: fgets gets nothing, write sends nothing, and the client  *)
(* reads the answer to a name that it has not sent ("mute").                *)
EndOfInput(c) ==
  /\ client[c] = "prompt"
  /\ client' = [client EXCEPT ![c] = "mute"]
  /\ UNCHANGED <<serverVars, count, up, down, asked, shown, steady>>

(* read: some of what has come, a packet at most; nothing, without a look   *)
(* at n, once the server is dead.  buffer is Nul behind it.                 *)
Read(c, buffer) ==
  /\ \/ /\ buffer # <<>>
        /\ down' = [down EXCEPT ![c] = SubSeq(@, Len(buffer) + 1, Len(@))]
        /\ steady' = [steady EXCEPT ![c] = @ /\ Len(buffer) \in {PKT, Len(down[c])}]
     \/ /\ buffer = <<>> /\ down[c] = <<>> /\ server = "dead"
        /\ steady' = [steady EXCEPT ![c] = FALSE]
        /\ UNCHANGED down
  /\ UNCHANGED <<serverVars, up, asked>>

Readable(c) == {SubSeq(down[c], 1, n) : n \in {k \in 0 .. PKT : k =< Len(down[c])}}

(* atoi.                                                                    *)
Values(buffer) ==
  IF buffer = <<>> THEN {0}
  ELSE CASE buffer[1][1] = "count" -> {buffer[1][2]}
         [] buffer[1][1] = "text" -> Numbers
         [] OTHER -> {0}

ReadWelcome(c, buffer) ==
  /\ client[c] = "connected" /\ Read(c, buffer)
  /\ client' = [client EXCEPT ![c] = "prompt"]
  /\ UNCHANGED <<count, shown>>

ReadReply(c, buffer) ==
  /\ client[c] \in {"asked", "mute"} /\ Read(c, buffer)
  /\ IF buffer # <<>> /\ buffer[1] = Cell("-1", 0)
     THEN /\ shown' = [shown EXCEPT ![c] = Missing]
          /\ client' = [client EXCEPT ![c] = "prompt"]
          /\ UNCHANGED count
     ELSE \E n \in Values(buffer) :
          /\ count' = [count EXCEPT ![c] = n]
          /\ client' = [client EXCEPT ![c] = IF n = 0 THEN "prompt" ELSE "reading"]
          /\ UNCHANGED shown

(* printf("%s"): what there is up to the first NUL.                         *)
Printed(buffer) ==
  LET n == CHOOSE k \in 0 .. Len(buffer) :
             /\ \A i \in 1 .. k : buffer[i] # Nul
             /\ k < Len(buffer) => buffer[k + 1] = Nul
  IN SubSeq(buffer, 1, n)

ReadPacket(c, buffer) ==
  /\ client[c] = "reading" /\ Read(c, buffer)
  /\ shown' = [shown EXCEPT ![c] = @ \o Printed(buffer)]
  /\ count' = [count EXCEPT ![c] = @ - 1]
  /\ client' = [client EXCEPT ![c] = IF count[c] = 1 THEN "prompt" ELSE @]

ClientReads(c) ==
  \E buffer \in Readable(c) :
    ReadWelcome(c, buffer) \/ ReadReply(c, buffer) \/ ReadPacket(c, buffer)

------------------------------------------------------------------------------
Init ==
  /\ server = "start" /\ current = Nobody /\ backlog = <<>> /\ packets = <<>>
  /\ client = [c \in Clients |-> "away"]
  /\ count = [c \in Clients |-> 0]
  /\ up = [c \in Clients |-> <<>>] /\ down = [c \in Clients |-> <<>>]
  /\ asked = [c \in Clients |-> <<>>] /\ shown = [c \in Clients |-> <<>>]
  /\ steady = [c \in Clients |-> TRUE]

Next ==
  \/ Server
  \/ \E c \in Clients : \/ Connect(c) \/ Cut(c) \/ ClientReads(c) \/ EndOfInput(c)
                        \/ \E name \in DOMAIN File : Ask(c, name)

Spec == Init /\ [][Next]_vars

(* The two programs go on when they can; users need not do anything.        *)
FairSpec ==
  Spec /\ WF_vars(Server) /\ \A c \in Clients : WF_vars(ClientReads(c))

------------------------------------------------------------------------------
(* Properties.                                                              *)

(* A client none of whose reads was short shows, when it asks for the next  *)
(* name, the file of the last one, whatever its length, and nothing is left *)
(* in the connection: packets of server.cpp and reads of client.cpp agree.  *)
FileShown ==
  \A c \in Clients :
    client[c] = "prompt" /\ steady[c] /\ asked[c] # <<>> =>
      /\ shown[c] = File[asked[c][Len(asked[c])]]
      /\ down[c] = <<>>

(* The server is with another client that has not gone.                     *)
Busy(c) == current \notin {c, Nobody} /\ ~Gone(current)

(* A client that has connected, or has sent a name, gets to its prompt,     *)
(* unless a read of it was short, the server serves another or is dead.     *)
(* One whose input has ended is another matter: it has sent nothing, and    *)
(* it and the server wait for each other, and those behind it for both.     *)
Served ==
  \A c \in Clients :
    client[c] \in {"connected", "asked", "reading"}
      ~> client[c] \in {"prompt", "gone"} \/ ~steady[c] \/ Busy(c) \/ server = "dead"
==============================================================================
