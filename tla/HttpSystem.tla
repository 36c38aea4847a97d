----------------------------- MODULE HttpSystem ------------------------------
(* Clients of the HTTP server (server1.cpp), directly or by way of the      *)
(* proxy (proxy.cpp, proxy_parse.c), which may also lead to another server. *)
(* Proxy and server are two ForkServers; the client's name is the name of   *)
(* its connections and of the children that serve it.                       *)
EXTENDS RequestParser, FiniteSets

CONSTANTS
  Clients, Nobody,
  Requests,      \* for each client, what it may ask:
                 \* [proxied, host, line, lines, uri, wordy]
  Size,          \* sizes of the files of server1
  Directories,   \* names among them that fopen opens and fread cannot read
  Missing,       \* a name that is not among them
  CHUNK,         \* server1's BUF_SIZE
  MAX_BODY       \* bound: what the other server answers

CONNECTION == <<"Connection">>

(* Texts that a server takes for Connection; "connection" stands for all    *)
(* spellings but the one that the parser compares with.                     *)
Spellings == {"Connection", "connection"}

Web == "server1"
Status == {200, 404, 501}

ASSUME HttpAssumption ==
  /\ Nobody \notin Clients /\ Missing \notin DOMAIN Size
  /\ Directories \subseteq DOMAIN Size /\ Size \in [DOMAIN Size -> Nat]
  /\ CHUNK \in Nat \ {0} /\ MAX_BODY \in Nat
  /\ \A c \in Clients : \A r \in Requests[c] :
       /\ r.proxied \in BOOLEAN /\ r.wordy \in BOOLEAN /\ r.lines \in Seq(HeaderLine)
       /\ r.line \in {"get", "refused", "blank", "unfinished"}

VARIABLES
  want,      \* what each client asks for
  client,    \* "away", "connected", "sent", or "left" before or "gone" after that
  pqueue, pparent, pborn, popen,   \* the proxy's ForkServer
  child,     \* where the proxy's child is
  request,   \* its req
  passed,    \* answers it has relayed to its client
  wqueue, wparent, wborn, wopen,   \* server1's ForkServer
  web,       \* where the child of server1, or the other server, is
  left,      \* bytes of the file it has still to send
  sent,      \* what it has written
  whole      \* a read of the client's request has not cut it (history)

proxyMain == <<pqueue, pparent, pborn, popen>>
webMain == <<wqueue, wparent, wborn, wopen>>
proxyChild == <<child, request, passed>>
webChild == <<web, left, sent>>
vars == <<want, client, proxyMain, proxyChild, webMain, webChild, whole>>

P == INSTANCE ForkServer WITH Conns <- Clients, Parent <- Nobody,
       backlog <- pqueue, parent <- pparent, born <- pborn, open <- popen
S == INSTANCE ForkServer WITH Conns <- Clients, Parent <- Nobody,
       backlog <- wqueue, parent <- wparent, born <- wborn, open <- wopen

(* An answer is a header that announces bytes, then bytes.                  *)
Header(status, n) == [status |-> status, bytes |-> n]
Bytes(n) == [status |-> 0, bytes |-> n]
BodyOf(answer) ==
  LET total[i \in 0 .. Len(answer)] ==
        IF i =< 1 THEN 0 ELSE total[i - 1] + answer[i].bytes
  IN total[Len(answer)]
Complete(answer) == BodyOf(answer) = Head(answer).bytes

Proxied(c) == want[c].proxied
Over(c) == IF Proxied(c) THEN P!Over(c) ELSE S!Over(c)

(* What has reached the client; 501 is the proxy's own answer.              *)
Seen(c) == CASE ~Proxied(c) -> sent[c]
             [] child[c] = "refused" -> <<Header(501, 0)>>
             [] OTHER -> SubSeq(sent[c], 1, passed[c])

TypeOK ==
  /\ \A c \in Clients : want[c] \in Requests[c]
  /\ client \in [Clients -> {"away", "connected", "sent", "left", "gone"}]
  /\ P!TypeOK /\ S!TypeOK
  /\ child \in [Clients -> {"reading", "parsed", "relaying", "refused", "over"}]
  /\ \A c \in Clients : /\ request[c].method \in Methods
                        /\ Len(request[c].slots) =< request[c].cap
                        /\ passed[c] \in 0 .. Len(sent[c])
  /\ web \in [Clients -> {"reading", "missing", "found", "directory", "sending",
                          "endless", "eof", "undefined", "over"}]
  /\ left \in [Clients -> Nat]
  /\ sent \in [Clients -> Seq([status : Status \cup {0}, bytes : Nat])]
  /\ whole \in [Clients -> BOOLEAN]

------------------------------------------------------------------------------
(* Clients.                                                                 *)

Connect(c) ==
  /\ client[c] = "away"
  /\ client' = [client EXCEPT ![c] = "connected"]
  /\ IF Proxied(c) THEN P!Connect(c) /\ UNCHANGED webMain
                   ELSE S!Connect(c) /\ UNCHANGED proxyMain
  /\ UNCHANGED <<want, proxyChild, webChild, whole>>

Send(c) ==
  /\ client[c] = "connected"
  /\ client' = [client EXCEPT ![c] = "sent"]
  /\ UNCHANGED <<want, proxyMain, proxyChild, webMain, webChild, whole>>

Leave(c) ==
  /\ client[c] \in {"connected", "sent"} /\ ~Over(c)
  /\ client' = [client EXCEPT ![c] = IF @ = "sent" THEN "gone" ELSE "left"]
  /\ UNCHANGED <<want, proxyMain, proxyChild, webMain, webChild, whole>>

------------------------------------------------------------------------------
(* The proxy.                                                               *)

ProxyMain ==
  /\ P!Main \/ P!ForkFails
  /\ UNCHANGED <<want, client, proxyChild, webMain, webChild, whole>>

ProxyAt(c, place) == P!Running(c) /\ child[c] = place

(* The child reads once, the request or a part of it, parses what it has    *)
(* read and sets Connection: close.                                         *)
Prepared(line, lines) ==
  SetHeader(RemoveHeader(Parsed(line, lines), CONNECTION), CONNECTION, <<"close">>)

ReadRequest(c) ==
  /\ ProxyAt(c, "reading") /\ client[c] \in {"sent", "gone"}
  /\ \E all \in BOOLEAN :
       /\ whole' = [whole EXCEPT ![c] = all]
       /\ request' = [request EXCEPT ![c] =
            Prepared(IF all THEN want[c].line ELSE "unfinished", want[c].lines)]
  /\ child' = [child EXCEPT ![c] = "parsed"]
  /\ UNCHANGED <<want, client, proxyMain, passed, webMain, webChild>>

ChildEnds(c, place) ==
  /\ child' = [child EXCEPT ![c] = place]
  /\ P!Exit(c)
  /\ UNCHANGED <<want, client, request, passed, webMain, webChild, whole>>

(* read fails; method is NULL, or its memory is not the child's any more;   *)
(* host is unknown or connect fails; the client that is written to is gone. *)
ReadsNothing(c) ==
  ProxyAt(c, "reading") /\ client[c] \in {"left", "gone"} /\ ChildEnds(c, "over")
Crash(c) ==
  ProxyAt(c, "parsed") /\ request[c].method # "GET" /\ ChildEnds(c, "over")
NoServer(c) ==
  ProxyAt(c, "parsed") /\ request[c].method # "NULL" /\ ChildEnds(c, "over")
ProxyKilled(c) ==
  ProxyAt(c, "relaying") /\ client[c] = "gone" /\ passed[c] > 0 /\ ChildEnds(c, "over")

(* Freed memory may compare different from GET, or equal to it.             *)
NotImplemented(c) ==
  ProxyAt(c, "parsed") /\ request[c].method = "dangling" /\ ChildEnds(c, "refused")

(* process_server: connect, and send what ParsedRequest_unparse has made.   *)
ConnectServer(c) ==
  /\ ProxyAt(c, "parsed") /\ request[c].method # "NULL"
  /\ child' = [child EXCEPT ![c] = "relaying"]
  /\ IF want[c].host = Web THEN S!Connect(c) ELSE UNCHANGED webMain
  /\ UNCHANGED <<want, client, proxyMain, request, passed, webChild, whole>>

Relay(c) ==
  /\ ProxyAt(c, "relaying") /\ passed[c] < Len(sent[c])
  /\ passed' = [passed EXCEPT ![c] = @ + 1]
  /\ UNCHANGED <<want, client, proxyMain, child, request, webMain, webChild, whole>>

ServerOver(c) == IF want[c].host = Web THEN S!Over(c) ELSE web[c] = "over"

(* Mutant: the loop ends with a recv that finds no more for now.            *)
RelayEndsEarly(c) ==
  ProxyAt(c, "relaying") /\ passed[c] > 0 /\ ChildEnds(c, "over")

(* recv returns 0 once the server has closed, or an error, if it did so     *)
(* with a part of the request unread.                                       *)
RelayEnds(c) ==
  /\ ProxyAt(c, "relaying") /\ ServerOver(c)
  /\ passed[c] = Len(sent[c]) \/ ~whole[c]
  /\ ChildEnds(c, "over")

------------------------------------------------------------------------------
(* server1.                                                                 *)

WebMain ==
  /\ S!Main \/ S!ForkFails
  /\ UNCHANGED <<want, client, proxyMain, proxyChild, webChild, whole>>

WebAt(c, place) == S!Running(c) /\ web[c] = place

PeerGone(c) ==
  IF Proxied(c) THEN ~P!Running(c) ELSE client[c] \in {"left", "gone"}

(* What the proxy has sent, if anything, or the client.                     *)
Arrived(c) ==
  IF Proxied(c) THEN ProxyAt(c, "relaying") /\ Unparsed(request[c]) # <<>>
  ELSE client[c] \in {"sent", "gone"}

(* file_open.  A URI that is not cut is the name of a file; the one that    *)
(* the proxy sends names its host, too, and is none.                        *)
Opened(c, all) ==
  CASE ~all -> DOMAIN Size \cup {Missing}
    [] Proxied(c) \/ want[c].line = "blank" -> {Missing}
    [] OTHER -> {want[c].uri}

WebRead(c) ==
  /\ WebAt(c, "reading") /\ Arrived(c)
  /\ \E all \in BOOLEAN : \E uri \in Opened(c, all) :
       /\ all => ~want[c].wordy
       /\ whole' = [whole EXCEPT ![c] = @ /\ all]
       /\ IF uri \in DOMAIN Size
          THEN /\ web' = [web EXCEPT ![c] = IF uri \in Directories THEN "directory"
                                             ELSE "found"]
               /\ left' = [left EXCEPT ![c] = Size[uri]]
          ELSE web' = [web EXCEPT ![c] = "missing"] /\ UNCHANGED left
  /\ UNCHANGED <<want, client, proxyMain, proxyChild, webMain, sent>>

WebEnds(c) ==
  /\ web' = [web EXCEPT ![c] = "over"]
  /\ S!Exit(c)
  /\ UNCHANGED <<want, client, proxyMain, proxyChild, left, whole>>

(* What is read has more words than request[100] has room for: wordy says   *)
(* that all of it has.  A signal ends the child, or it goes on; nothing is  *)
(* claimed of it then.                                                      *)
WordsOverrun(c) ==
  /\ WebAt(c, "reading") /\ Arrived(c) /\ want[c].wordy
  /\ \/ WebEnds(c)
     \/ /\ web' = [web EXCEPT ![c] = "undefined"]
        /\ UNCHANGED <<want, client, proxyMain, proxyChild, webMain, left, whole>>
  /\ UNCHANGED sent

WebReadsNothing(c) ==
  WebAt(c, "reading") /\ PeerGone(c) /\ WebEnds(c) /\ UNCHANGED sent

NotFound(c) ==
  /\ WebAt(c, "missing")
  /\ sent' = [sent EXCEPT ![c] = <<Header(404, 0)>>]
  /\ WebEnds(c)

(* fread of a directory gives nothing, and feof stays false.                *)
SendHeader(c) ==
  /\ WebAt(c, "found") \/ WebAt(c, "directory")
  /\ sent' = [sent EXCEPT ![c] = <<Header(200, left[c])>>]
  /\ web' = [web EXCEPT ![c] = IF @ = "found" THEN "sending" ELSE "endless"]
  /\ UNCHANGED <<want, client, proxyMain, proxyChild, webMain, left, whole>>

(* fread.                                                                   *)
BytesRead(n) == IF n < CHUNK THEN n ELSE CHUNK

(* feof becomes true when fread gets less than it was asked for.            *)
SendBytes(c) ==
  LET n == BytesRead(left[c])
  IN /\ WebAt(c, "sending")
     /\ sent' = [sent EXCEPT ![c] = IF n = 0 THEN @ ELSE Append(@, Bytes(n))]
     /\ left' = [left EXCEPT ![c] = @ - n]
     /\ web' = [web EXCEPT ![c] = IF left[c] < CHUNK THEN "eof" ELSE @]
     /\ UNCHANGED <<want, client, proxyMain, proxyChild, webMain, whole>>

FileSent(c) == WebAt(c, "eof") /\ WebEnds(c) /\ UNCHANGED sent

WebKilled(c) ==
  /\ WebAt(c, "sending") \/ WebAt(c, "endless")
  /\ PeerGone(c) /\ WebEnds(c) /\ UNCHANGED sent

------------------------------------------------------------------------------
(* Another server: it answers what it announces, and closes then if some    *)
(* Connection header tells it to.                                           *)

(* A slot goes out as one line or more: a key's last text is the one before *)
(* the colon, and a value that runs over its line has a key in it.          *)
NamesConnection(slot) ==
  \/ slot.key[Len(slot.key)] \in Spellings
  \/ Len(slot.value) = 3 /\ slot.value[2] \in Spellings

ToldToClose(c) ==
  LET slots == Unparsed(request[c])
  IN \E i \in DOMAIN slots :
       slots[i].key[Len(slots[i].key)] \in Spellings /\ slots[i].value = <<"close">>

OtherAsked(c) == want[c].host # Web /\ ProxyAt(c, "relaying") /\ Unparsed(request[c]) # <<>>

OtherAnswers(c) ==
  /\ OtherAsked(c)
  /\ \/ /\ web[c] = "reading"
        /\ \E n \in 0 .. MAX_BODY :
             /\ sent' = [sent EXCEPT ![c] = <<Header(200, n)>>]
             /\ left' = [left EXCEPT ![c] = n]
        /\ web' = [web EXCEPT ![c] = "sending"]
     \/ /\ web[c] = "sending" /\ left[c] > 0
        /\ sent' = [sent EXCEPT ![c] = Append(@, Bytes(1))]
        /\ left' = [left EXCEPT ![c] = @ - 1]
        /\ UNCHANGED web
     \/ /\ web[c] = "sending" /\ left[c] = 0 /\ ToldToClose(c)
        /\ web' = [web EXCEPT ![c] = "over"]
        /\ UNCHANGED <<left, sent>>
  /\ UNCHANGED <<want, client, proxyMain, proxyChild, webMain, whole>>

------------------------------------------------------------------------------
Init ==
  /\ want \in [Clients -> UNION {Requests[c] : c \in Clients}]
  /\ \A c \in Clients : want[c] \in Requests[c]
  /\ client = [c \in Clients |-> "away"]
  /\ P!Init /\ S!Init
  /\ child = [c \in Clients |-> "reading"]
  /\ request = [c \in Clients |-> NewRequest]
  /\ passed = [c \in Clients |-> 0]
  /\ web = [c \in Clients |-> "reading"]
  /\ left = [c \in Clients |-> 0]
  /\ sent = [c \in Clients |-> <<>>]
  /\ whole = [c \in Clients |-> TRUE]

Client(c) == Connect(c) \/ Send(c) \/ Leave(c)

ProxyChild(c) ==
  \/ ReadRequest(c) \/ ReadsNothing(c) \/ Crash(c) \/ NoServer(c) \/ ProxyKilled(c)
  \/ NotImplemented(c) \/ ConnectServer(c) \/ Relay(c) \/ RelayEnds(c)

WebChild(c) ==
  \/ WebRead(c) \/ WordsOverrun(c) \/ WebReadsNothing(c) \/ NotFound(c) \/ SendHeader(c)
  \/ SendBytes(c) \/ FileSent(c) \/ WebKilled(c)

Next ==
  \/ ProxyMain \/ WebMain
  \/ \E c \in Clients : Client(c) \/ ProxyChild(c) \/ WebChild(c) \/ OtherAnswers(c)

Spec == Init /\ [][Next]_vars

(* Processes that can go on do; the other server answers.  Clients need not *)
(* send anything, and may stay for ever.                                    *)
FairSpec ==
  /\ Spec
  /\ WF_vars(ProxyMain) /\ WF_vars(WebMain)
  /\ \A c \in Clients : /\ WF_vars(ProxyChild(c)) /\ WF_vars(WebChild(c))
                        /\ WF_vars(OtherAnswers(c))

------------------------------------------------------------------------------
(* Properties.                                                              *)

(* The Connection headers among lines are spelled as the parser does, and   *)
(* none is drawn into the line above it.                                    *)
ConnectionsFound(lines) ==
  \A i \in DOMAIN lines : lines[i].key \in Spellings =>
    /\ lines[i].key = "Connection"
    /\ i > 1 => lines[i - 1].form = "plain"

(* What goes to the server ends with Connection: close, whatever the client *)
(* sends; and no other line that goes out names Connection, if the parser   *)
(* could find the client's: ParsedHeader_remove and _set compare one        *)
(* spelling, and a header without colon or blank hides the next.            *)
OneClose ==
  \A c \in Clients :
    LET slots == Unparsed(request[c])
    IN slots # <<>>
       => /\ slots[Len(slots)] = [key |-> CONNECTION, value |-> <<"close">>]
          /\ ConnectionsFound(want[c].lines) =>
               \A i \in DOMAIN slots : NamesConnection(slots[i]) => i = Len(slots)

(* A child has no connection but its own, although fork copies what the     *)
(* parent has open: otherwise a connection would outlive its child.         *)
NoForeignConnection ==
  \A c, d \in Clients : c \in popen[d] \cup wopen[d] => c = d

(* A client that stays and whose request was read in one piece has seen,    *)
(* when its connection ends, nothing or a whole answer, with the bytes it   *)
(* announces; server1's answer is the file asked for.                       *)
WholeAnswers ==
  \A c \in Clients :
    client[c] = "sent" /\ Over(c) /\ whole[c] /\ Seen(c) # <<>> =>
      /\ Complete(Seen(c))
      /\ ~Proxied(c) /\ Head(Seen(c)).status = 200
           => want[c].uri \in DOMAIN Size /\ Head(Seen(c)).bytes = Size[want[c].uri]

(* A client that has sent its request is released, whatever the others do,  *)
(* unless server1 reads a directory or more words than it has room for, or  *)
(* the proxy the method from freed memory.                                  *)
Released ==
  \A c \in Clients : client[c] = "sent"
    ~> Over(c) \/ web[c] \in {"endless", "undefined"} \/ request[c].method = "dangling"
==============================================================================
