# ComputerNetworkProjects: specifications, model checking and proofs

The repository holds the programs of a computer networks course: a software
router (`src/Project4/router`), a reliable transport (`src/Project3`), an HTTP
proxy (`src/Project2`), an HTTP server (`src/Project1`), a file transfer
(`src/Assignment1`) and two simulations (`src/Project5`).  This directory models
them in TLA+, checks the models with TLC and proves their main invariants with
TLAPS.  `PROJECT.json` lists components, runs, theorems, known hazards, and for
each definition the source lines it stands for.

Contents: [the system](#the-system) · [plan](#modules-and-plan) ·
[modules](#what-the-modules-model) · [runs](#runs) · [proofs](#proofs) ·
[limits](#what-is-only-checked-and-what-is-not-modelled)

## The system

### Router, ARP cache and request queue (`sr_arpcache.c`)

State: a table of `SR_ARPCACHE_SZ` (100) mappings, each valid for
`SR_ARPCACHE_TO` (15) seconds; a linked list of requests, one per address that is
being asked for, each with the packets that wait for it, the number of broadcasts
and the time of the last; a recursive mutex.  Operations: `sr_arpcache_lookup`,
`sr_arpcache_queuereq`, `sr_arpcache_insert`, `sr_arpreq_destroy`, the sweep
(`sr_arpcache_sweepreqs`) and `sr_arpreq_handle`, which asks again or gives up.
Two threads share it: the main thread, which reads frames, and the timer thread,
which wakes up every second.  Hard here: lookup, insert and queue are separate
critical sections; `sr_arpreq_handle` runs under the lock in one thread and
without it in the other; the sweep destroys the nodes of the list it walks.
Correct means: one mapping and one request per address, no packet lost, doubled
or stranded, a request asked for often enough before it is given up and not for
ever, nothing freed used.

### Router, packet handling (`sr_router.c`)

State: none of its own but the locals of a call.  `sr_handlepacket` learns from
ARP frames and releases what waited for them, answers ARP requests and echo
requests, reports errors by ICMP, decrements the TTL and forwards through
`ForwardToNextHop` and `FillAndSendPkt`, which looks up the route and the cache
and sends or queues.  It calls the cache, the routing table, the interface list
and `sr_send_packet`.

### Router, routing table (`sr_rt.c`)

State: a list of routes.  `sr_load_rt` reads a file, clearing the table at the
first good line; `LongestPrefixMatch` walks the list, comparing masks as host
integers.  `main` loads the file before it connects and again afterwards.
(`sr_router.c` calls the function `sr_longest_prefix_match`, and `sr_rt.h`
declares it `LongestPrefixMatchh`; the model is that of the one body there is.)

### Router, interfaces and VNS session (`sr_if.c`, `sr_vns_comm.c`, `sr_main.c`)

State: a list of interfaces, a TCP socket to the VNS server, and where `main` is.
A session is an authentication exchange, an open or template command, perhaps a
routing table, the hardware description that fills the interface list and is
checked against the routes, then frames both ways until a close command.
Operations: `sr_connect_to_server`, `sr_read_from_server_expect` with one handler
per command, `sr_send_packet`, and the list operations of `sr_if.c`.  Hard: one
reader for every command at every stage, short reads, a server that goes away in
the middle of a command, interfaces and routes used long after they were checked.
Correct means: a handler sees the bytes of its command and no others, nothing is
taken from a server before the handshake, every frame leaves by an existing
interface with that interface's address and a valid header, close ends the
program.

### STCP (`transport.c`)

State: connection state, three sequence counters, header structures; some are
globals of the process.  One transport thread per connection runs the handshake,
then `control_loop`, which waits for events of the application, of the network and
the close request.  Two such threads, their applications and the network between
them form a connection.  Hard: what happens when events coincide, which packet is
read where an acknowledgement is expected, flags and numbers left over from an
earlier packet, byte order.  Correct means: what is read is what was written, end
of file comes after it, both ends terminate, after both applications closed.

### HTTP proxy and HTTP server (`proxy.cpp`, `proxy_parse.c`, `server1.cpp`)

State: for each of the two, a listening parent and a child per connection, each
with the descriptors it has open; in a child of the proxy the parsed request with
its table of headers, which grows by doubling; in a child of the server the file.
The proxy's child reads once, parses, sets `Connection: close`, connects to the
host that the URI names and copies the answer until that host closes.  The
server's child reads once, takes the second word for a file name, announces its
length and sends it by buffers.  Nobody waits for a child.  Hard: descriptors that
fork copies, the life of a connection held by several processes, what goes on
after a failed parse, the table at its limit, an end of answer that depends on a
header of the request.  Correct means: an answer is whole or absent, a connection
ends when its child is done, one client does not hold up another.

### File transfer (`Assignment1`)

A server of one process, with one client at a time, and a client that asks for
files by name; a reply is a packet with a count, then that many packets of 255
bytes, but the connection is a byte stream and every read is taken for a packet.
Hard: counts at the boundary, reads that fall otherwise, clients that go away.
Correct means: what the client shows is the file, and the two stay in step.

### Simulations (`Project5`)

Scripts that sample distributions and plot the results; no protocol.

### Interactions

The main thread of the router calls, in this order of depth: VNS session →
packet handling → routing table, interfaces, ARP cache → VNS session (send).  The
timer thread calls the ARP cache, which calls packet handling back to broadcast
requests.  The mutex of the cache is the only synchronisation.  The proxy talks to
any HTTP server, so also to `server1`.  The other programs are separate.

## Modules and plan

| step | modules | what | state |
|---|---|---|---|
| 1 | `ArpCache`, `ArpRouter`, `ForwardingService`, `MCArpRouter` | the cache, the two threads on it, what they promise | done |
| 2 | `ArpRouterProofs` | types, queue, coherence, counting, refinement | done |
| 3 | `RoutingTable`, `MCRoutingTable`, `RoutingTableProofs` | loading and longest match, with proofs | done |
| 4 | `Stcp`, `MCStcp` | one connection, both ends | done |
| 5 | `Interfaces`, `IpProcessing` | interface list; tests, TTL, checksum, ICMP answers of `sr_handlepacket` | done |
| 6 | `VnsSession`, `MCVnsSession` | handshake, reader, commands, what is sent, `main` | done |
| 7 | `ForkServer`, `RequestParser`, `HttpSystem`, `MCHttpSystem` | header table, processes and connections of proxy and server, together | done |
| 8 | `FileTransfer`, `MCFileTransfer` | packets over a byte stream, one client at a time | done |
| 9 | `LoopProofs` | loops and arithmetic, for the proofs that follow | done |
| 10 | `StcpProofs` | types, numbers, what is read, end of file, end of the connection | done |
| 11 | `VnsSessionProofs` | interface list, checksum; handshake, types, framing, routes, sources, headers | done |
| 12 | `ForkServerProofs`, `HttpProofs` | connections of children, types, header table, whole answers | done |
| 13 | `FileTransferProofs` | packets and reads | done |

`ArpRouter` EXTENDS `ArpCache`: the critical sections of the cache are operators
of `ArpCache`, and `ArpRouter` says who runs them, in which thread and in which
order.  `ForwardingService` is the abstract specification `ArpRouter` implements.
`RoutingTable` justifies `ArpRouter`'s constant `Gw`, which takes the longest
match for granted.  `VnsSession` EXTENDS `IpProcessing`, which EXTENDS `Interfaces`;
it takes the ARP cache as a choice between hit and miss, since `ArpRouter` models
it, and the routing table as a function from hosts to interfaces.  `HttpSystem`
EXTENDS `RequestParser` and instantiates `ForkServer` twice, for the proxy and for
`server1`.  Modules that are proved about hold no RECURSIVE operator.

## What the modules model

In every module a definition whose comment begins with `Mutant` stands next to
the one it varies: a plausible bug, which the properties are seen to catch.  No
specification uses it.

**`ArpCache`** — `entries` is the table (a slot holds `None` for an invalid
entry), `requests` the set of requests on the linked list, `req` the allocated
request objects, `owner` the holder of the mutex.  `Hit`, `QueueReq`,
`StoreMapping`, `Unlink`, `DestroyReq` and `ExpireEntries` are the bodies of the
functions of those names.  The order of the list is abstracted: packets and
requests are sets, the sweep takes any request it has not come to.  Times are
ages that saturate where no comparison tells them apart any more; `Older` is one
second more.  The packets in the constant `Empty` have length 0 by their own
header: `sr_arpcache_queuereq` opens a request for one, but keeps no packet on it
(`Kept`), and the packet is lost.

**`ArpRouter`** — `pc` places both threads in the code.  The main thread's steps
are the critical sections and what lies between them: `RecvIp`, `RecvArp`,
`ArpLookup`, `ArpInsert`, `TakeJob` (the packets a reply released),
`Lookup`, `Send`, `Queue` (`FillAndSendPkt`), `Reply`.  The timer's are `Wake`
(expiry), `SweepNext`, `SweepDone`.  `sr_arpreq_handle` is six steps
(`HandleAge` ... `HandleBump`) since the main thread runs it without the lock; the
increment of `times_sent` is a load and a store.  A step that touches freed
memory leads to status `undefined`, after which nothing happens and nothing is
claimed; so do the reachable NULL dereferences (no route, no cache entry for a
reply, a request asked for that has no packet: `HandleNoPacket`), the read behind a
packet in `Short`, whose copy ends before the address that a flush looks up
(`ReadBehind`), and the unchecked `calloc`, each with a status of its own.  `wire`,
`heard`, `dropped` and `asked` are history.

**`ForwardingService`** — each packet is new, held, sent or dropped; it is sent
only to a gateway that was heard of; packets of one gateway are given up together;
only a packet of length 0 may be lost on its own (`Lose`).

**`RoutingTable`** — `Open`, `ReadLine`, `ReadGarbled`, `ReadNothing`, `EndOfFile`
are `sr_load_rt` line by line, the scanner's buffers (`fields`) keeping what a
blank line does not overwrite; `Lookup`, `WalkStep`, `WalkEnd` are
`LongestPrefixMatch`.  A mask is its number of leading ones; the integer the code
compares is the constant `MaskValue`, of which only `LongerIsLarger` is assumed.

**`Stcp`** — both sides run `transport.c`: `SendSyn` ... `RecvHandshakeAck` are
`transport_init`, `SendData`, `RecvPacket`, `SendFin`, `RecvFinAck` the branches of
`control_loop`, the last two being the two halves of the close branch, which waits
in between.  The else-if chain is in the guards: a packet is looked at only when
the application has nothing to send, the close request only when neither is
pending, and a close request that was reported together with a packet is
forgotten.  A header field is the integer as it lies in memory, with `Swap` for
`htonl`/`ntohl`, because the handshake calculates with unconverted values.  The
API (`stcp_api.h`, not part of the sources but used by them) is external: the
network neither loses nor reorders, `stcp_network_recv` takes a whole packet and
returns 0 once the peer's socket is gone, the close request is reported once.  The
flags of the first data segment are what was on the stack, any of `InitFlags`; the
history variable `clean` says that no side's held a FIN.

**`Interfaces`, `IpProcessing`** — operators only.  A list is a sequence, a hardware
description a sequence of entries that `HandleHwinfo` takes one by one; `Verified` is
`sr_verify_routing_table`.  A header is its words; `Cksum` is the program's folding sum,
`ValidHeader` the standard's test that it is compared with; `Forwarded`, `EchoReply` and
`PortUnreachable` are the headers the router sends, with what is left uninitialised as a
choice.  A header's length field may be below 5, which no test refuses: the checksum then
covers the words it names. A frame's length is the class that the tests of the code tell
apart.  A description may begin with addresses (`Headless`): they go to the last interface
of the list, or through a NULL pointer when there is none (`Orphan`).

**`VnsSession`** — `stage` is the place of `main`: before connecting, at the command of
the handshake it expects, in the loop, or how it ended.  The connection is a sequence of
cells that `Recv` takes in pieces of any size, first the length, then the body; a complete
command goes to its handler, one action each.  The type of a command whose length leaves
no room for one is read from behind the buffer (`ReadBehind`): it may be ignored, end the
session, or be taken for anything, after which nothing is claimed; `Span` is the cells
such a command takes in the stream.  `Packet` is `sr_handlepacket` with all it calls,
ending in `SendPacket`, which refuses a frame that has not the interface's address; a
frame names any interface, also one that was not described.  What a command says is chosen
when it is handled.  `todo` and `said` are history.  Where the code reads through NULL or
behind a buffer, `stage` is an end of its own, after which nothing is claimed.

**`ForkServer`** — the accept loop that `proxy.cpp` and `server1.cpp` share: `Accept`,
`Fork`, `ForkFails`, `ParentCloses`; `open` says which processes have which
connection open, `Exit` closes all of a process.

**`RequestParser`** — a request is its table (`slots`, `cap`), whether `buf` is set, and
what `method` points to.  `SetHeader` and `RemoveHeader` are the operations of the
table; `ParseHeaders` is the loop over lines with the reach of `index` and `strstr`
beyond the end of a line; `Unparsed` is what goes out.

**`HttpSystem`** — a client, its connections and the children that serve it have the
same name.  The proxy's child reads (`ReadRequest`, which may cut the request),
then crashes, answers 501, or connects and relays (`ConnectServer`, `Relay`,
`RelayEnds`); the server's reads (`WebRead`), answers 404 or a header and buffers
(`SendHeader`, `SendBytes`, `FileSent`).  Either may be killed by writing to a peer
that is gone.  A URI the proxy sends on names its host, which `server1` takes for
a part of the file name: through the proxy it answers 404.  A `wordy` request has
more than the 100 words that `server1.cpp:201` has room for (`WordsOverrun`): a signal
ends the child, or it goes on "undefined" and nothing is claimed.  Another server is
external: it answers what it announces, and closes when it is told to.

**`FileTransfer`** — `server` and `client` are the places of the two mains, `down` the
cells on their way to each client.  `ReadName` is a read, `fopen` and the first write,
`WritePacket` the loop; the client's reads get any part of a packet, and `Values` is
what `atoi` makes of it.  `Die` is the exit of `server.cpp:68` and SIGPIPE.  At the end
of its input (`EndOfInput`) the client sends nothing and reads all the same, "mute".

## Runs

| run | module, cfg | checks |
|---|---|---|
| `router_safety` | `MCArpRouter`, `MCArpRouter.cfg` | `TypeOK`, `UniqueRequests`, `QueueLive`, `SweepSafe`, `NoStranded`, `OnePlace`, `TimesBounded`, `AskedBeforeDrop`, and that the router implements `ForwardingService` |
| `router_liveness` | `MCArpRouterLive.cfg` | `UniqueMapping`, `SentToNeighbour`, `RequestLeaves`, `MappingExpires`, `MainReturns` |
| `handled_is_live` | `MCHandledIsLive.cfg` | violated: the main thread handles a request the timer freed |
| `asked_at_most_max` | `MCAskedAtMostMax.cfg` | violated: a sixth broadcast |
| `no_leak` | `MCNoLeak.cfg` | violated: an answered request is never freed |
| `router_session` | `MCVnsSession`, `MCVnsSession.cfg` | `TypeOK`, `Framed`, `HandshakeFirst`, `RoutesVerified`, `SourceIsInterface`, `HeadersValid`, `FirstDescriptionWins`, `CloseEnds` |
| `routing_table` | `MCRoutingTable`, `MCRoutingTable.cfg` | `TypeOK`, `LoadedOnce`, `LongestMatch` |
| `stcp_any` | `MCStcp`, `MCStcp.cfg` | `TypeOK`, `PrefixRead`, `EofComplete`, `ClientSeqAgrees`, `AcksReceived` |
| `stcp_script` | `MCStcpScript.cfg` | `DoneWhenClosed`, `NeverBroken`, `BothDone` |
| `stcp_done_when_closed` | `MCStcpDone.cfg` | violated: a FIN flag sent again ends the peer's transport |
| `http` | `MCHttpSystem`, `MCHttpSystem.cfg` | `TypeOK` (with the bound of the header table), `OneClose`, `NoForeignConnection`, `WholeAnswers`, `Released` |
| `file_transfer` | `MCFileTransfer`, `MCFileTransfer.cfg` | `FileShown`, `Served` |

**Router bounds.**  Two hosts, four packets (three of them behind one gateway, so
that a request holds several; one has length 0 and one is too short to be flushed),
two request objects (one may be freed and its
memory be taken again) and a cache of one slot, which is full as soon as it holds
a mapping: insertion finds no slot, packets released are queued again.  The limits
on age and broadcasts are lowered to 1 so that expiry and giving up happen.
`router_liveness` has two slots and two MACs instead, without which an address
could not be stored twice nor answered twice; `CACHE_TO` is 1, so entries expire
between lookup and send; its table has holes (a gateway no route leads to), the
limit is two broadcasts and only one host answers, so that a request may never be
answered.  The violation runs use the limits of the code (15 s, 5
broadcasts, 1 s between them).  `ASK_BOUND` caps the history of broadcasts one
above the limit.  Symmetry is used in safety runs only, on requests, which
no definition names.

**Router fairness.**  Time passes (`WF` of `Tick`).  The timer thread is
scheduled (`WF` of `TimerStep`): the main thread holds the lock within single
steps only, so the timer's steps stay enabled.  The main thread has `SF`: the
timer keeps the lock through a sweep, but sleeps a second without it in each
round.  Arrival of frames has no fairness; a request nobody answers must leave all
the same.

**Routing table bounds.**  Every file of up to three lines over two destinations
that share two of four bits, every prefix length, one gateway, blank and
unparsable lines, loaded once or twice; addresses have two octets of two bits
and masks the values a little-endian host gives them, so that numeric order and
prefix order differ on the bits and agree on masks.  Three lines show equal
routes, a default route and a tie with something between.

**STCP bounds.**  A segment holds one byte and a write one or two, so writes are
split and a close waits for the rest; each side writes up to three (four in the
script) bytes.  A sequence number has two digits of base 4, sixteen values: initial
numbers 1 and 3 reach a carry into the other digit and the wrap.  In `stcp_any` and
`stcp_done_when_closed` the applications write and close at will; the system may
stop there, with both sides waiting for the acknowledgement of a FIN (simultaneous
close), so deadlock is not checked.  It is not checked in the script either, since
the connection ends; `BothDone` says that it does.  The uninitialised flags of the
first data segment may be empty, ACK or FIN (`InitFlags`); `EofComplete` and what is
said of the connection's end have the condition `clean`, since with a FIN there they do
not hold.  `Nuls` is empty: data after a NUL byte is lost by `strncpy`, and
`PrefixRead` would not hold.

**STCP fairness** (script only).  The transport threads are scheduled and the
network delivers; the applications go on with their script, as `client.c` and
`server.c` of the course's skeleton do (an archive in `src/Project3`).

**Session bounds.**  Two interfaces with a host behind each, and descriptions of one
or both of them, with another MAC, with the entries in another order, with addresses
before the first name, without any name, and without entries; at most two commands
on their way and two interfaces before the last description.  A length has two
cells and a body up to two, three in the longest command allowed, so every field can be
read in pieces and a reader that asks for too much takes bytes of the next command; one
command is too long, and two end before or in their type.  Words
have sixteen values, so that sums carry and the checksum folds; TTLs are 0 and 2
(and what becomes of them), header lengths 5 and 6, and 0 and 4, which are too short.
Tables have no route, all routes or one.  Nothing is sent to a router that has stopped,
which is why the system may stop.

**Session fairness.**  The router is scheduled; the server need not do anything.
`CloseEnds` therefore speaks of a CLOSE that was sent over a connection that stays
open: when it is closed in the middle of a command the reader spins.

**HTTP bounds.**  Two clients, of which the second asks for a page directly or through
the proxy while the first may ask for anything: files that end with a full buffer
(2 bytes), do not (3), are empty, missing or a directory; through the proxy,
requests that `server1` or another server answers, with repeated headers, a header
without a blank, lines without a colon (one of them in front of `Connection`, which it
hides), `Connection` in lower case, a request line that is refused or empty, and requests
of too many words, directly and through the proxy.  What `OneClose` says is that the last
line that goes out is `Connection: close`, and that no other names Connection if each of
the client's lines that does could be found by the parser (`ConnectionsFound`).
The table has two slots at first, so that it doubles up to twice.  Each client may
wait before it asks, or leave at any moment.

**HTTP fairness.**  Parents and children are scheduled, and another server answers and
closes as told.  Clients may do nothing for ever; that they then do not hold up
others is what `Released` is about.

**File transfer bounds.**  Two clients, of which one asks for two names and the other for
one, an empty file, one of a full packet, one of a packet and a half, and a name of no
file; a packet has two cells, so a read can be short; a text may begin with a number; the
input may end at any prompt.  **Fairness**: both programs are scheduled, users may do
nothing or cut their client anywhere.

**Known to go wrong.** Properties claim nothing, and `PROJECT.json` says so among the
hazards, where: an ARP request is opened for a packet of length 0 and the thread that asks
first dies of the missing packet; a flush reads the address of a packet that is too short
to have one; uninitialised flags of STCP's first segment hold a FIN; the reader of the VNS
session spins at end of file, and reads the type of a command of less than 8 bytes from
behind its buffer; a frame of 34 to 37 bytes makes the echo reply copy past its end; TTL 0
wraps; a request that arrives in two pieces ends the proxy's child; a `Connection` header
in another spelling, or behind a line without colon or blank, is sent on beside the close;
a directory makes `server1`'s child spin, and a request of more than 100 words overruns
its stack; a short read puts the file client out of step; at the end of its input the file
client and the server wait for each other; the file server ends when a later client is cut
before it asks, or any in the middle of a file.

**Findings.**  Each violation run contradicts a comment in the code, quoted in
`PROJECT.json`: use after free of a queued request (`sr_router.c:269`), more ARP
requests than the limit (`sr_arpcache.c:293`), answered requests that are never
freed (`sr_router.c:153`), and received flags sent again with data
(`transport.c:156`).

## Proofs

The theorems hold for every value of the constants allowed by the named
assumptions of the modules, which TLC evaluates on each run.

**`ArpRouterProofs`**.  `TypeCorrect` and `QueueSafe` follow from `BaseInv`, the
conjunction of `TypeOK`, `LockInv` (the timer owns the mutex exactly while it is awake),
`MainInv` (what the main thread's locals hold at each point) and `QueueInv`.  The key is
in `QueueInv`: what the main thread handles without the lock is on the queue *or freed*;
that is what lets the queue and the sweep be safe although the main thread's own access is
not.  `QueueSafe` has one exception, which the property states: a request just opened for
a packet of length 0 has no packet, until the handler that runs next dies of it; nobody
has asked for it before.  `CacheCoherent` (one mapping and one request per address,
nothing stranded, only announced MACs) needs `UniqueInv`: the miss the main thread saw in
its first critical section is still a miss in its second, as only this thread inserts.
`TimesAlwaysBounded` and `AskedEnough` need `CountInv`, which counts for each thread how
far it is past the test, and the broadcasts it has made and not yet stored.

From these also `PacketsInOnePlace`, and `RouterImplementsService`: the initial
states map to initial states and every step maps to a step or a stutter of
`ForwardingService`.

**`RoutingTableProofs`**.  `TypeCorrect`; `TableIsFile` from `LoadInv` (the table
is what has been read of the file, `fields` its last route); `LookupIsLongestMatch`
from `WalkInv`, the loop invariant of the walk, and the order of masks.

**`LoopProofs`**.  The facts about loops that the next modules
need.  The library's induction takes an operator; here a loop that went wrong would
have a first round that did, and a set of numbers has a least one (`LeastNat`, from
the well-foundedness of the naturals).  `LoopKeeps` and `LoopExists` put this for
the recursive functions of the models: what each round preserves holds at the end,
and a function so defined has the values its rounds give.

**`VnsSessionProofs`**.  First the operators of `Interfaces` and `IpProcessing`: the list
`HandleHwinfo` builds stays a list of interfaces, and of the two loops of `cksum`,
whatever the sum, folding ends with its residue, so that a header with its checksum is
valid (`ForwardedValid` and the like; the header has at least the five words of the
standard), for words of any width.  Then the session.
`Handshaken` from `HandInv`, which says for each place of `main`
which messages have been exchanged: `HandshakeFirst` alone is not inductive, as a
step into the loop must know what led there.  `NeverOffByACell` from `StreamInv`: what
the reader holds and what is still on its way is a prefix of the commands to do, one
behind the other, each as many cells as the reader takes for it (`Span`), whatever sizes
`recv` gave.  `SessionTyped`, `RouteHasInterface`,
`SentFromInterface` and `SentWithValidHeader` from `SessionInv`: the interface list is
empty until the loop, where `main` stays only with verified routes, and `Sendable`, which
says of what is about to be sent what `sr_send_packet` tests and what it does not.
`DescriptionsAppend` is an action property, from a loop invariant of `HandleHwinfo`: once a
description has added its first interface, the addresses go to new ones only; a
description that begins with addresses is the exception, which the property states.

**`StcpProofs`**.  Everything `Stcp`'s runs check as an invariant, for streams,
segments and numbers of any size, and any `htonl`.  `Base` holds in all of them:
`EndInv` (a transport that ends was closed from above, one that is gone has an empty
queue), `HandInv` (where the sides stand to each other before both are connected)
and `PosInv`, the one that carries most: the packets queued for a side are pieces of its
peer's stream, each beginning where the last ended, from what was received to what was
sent, and the application's chunks go on from there to what was written.
`NumInv` adds sequence numbers, which agree with these positions modulo their width, and
that every acknowledgement on its way is of a byte received: `NumbersAgree`,
`AcksNeverAhead`.  `TextInv` adds that a piece holds the bytes of its position:
`ReadsPrefix`.  `FinInv` says that a FIN a side may still read stands behind all its peer
wrote, and that until then no header holds a FIN that a data packet could repeat:
`EofAtTheEnd`.  `Control` and `Queues`, for the two applications that exist, say who
closes first and that a FIN comes before the end of a queue: `EndsWhenClosed`,
`NobodyBroken`.  Hypotheses, each where it is needed only: `AcksNeverAhead` assumes that the
client's stream is shorter than the numbers are wide (4 GB; beyond it, a number stands for
two positions); `ReadsPrefix` that no byte is NUL (`strncpy` loses what follows one); the
last two theorems that the applications are `client.c` and `server.c` (with others, run
`stcp_done_when_closed` shows the contrary).  `EofAtTheEnd` and these two assume nothing of
the uninitialised flags: the properties themselves are about the behaviours in which they
hold no FIN (`clean`), and say nothing of the others, which the code permits.

**`ForkServerProofs`, `HttpProofs`**.  `ForkInv`: a connection is open in its child, and
in the parent only while the parent is at it; each step of a fork server keeps it.
`QueueInv` adds that a connection waits once; from both follow what somebody else's step
leaves of a connection (`FreshKept`, `RunningKept`, `EndedKept`: new, served or over, it
stays so).  `HttpProofs` instantiates these lemmas for the proxy and for `server1`, and
shows that every step is one client's, and to all others a step of somebody else
(`WhoMoves`), so that a step has to be looked at for its own client only (`OthersKeep`).
`NoForeign` needs no more.  `AnswersWhole` needs three facts of a client: `Life`, how far
its connections can be where its two children stand (a server that sends through the
proxy has a child there that relays, or has relayed); `Answer`, that the bytes announced
are those sent and those left, and that an answer cut short has nobody to read it; and
`RightFile`.  `WholeAnswers` alone speaks of the end and is not inductive.

The header table is proved about by its operations: `RemoveHeaderGood`, `SetHeaderGood`
(room, each key once, the last slot set), `ParseHeadersGood` for the loop over any lines
and `UnparsedTaken` for the loop that writes them: what goes out is the slots in use in
their order.  `TypeCorrect` and `CloseOnce` follow; the second needs also where a slot
comes from (`FromLine`): a header that could be found has `Connection` for its whole key,
so the removal, which compares one spelling, finds it (`FoundByKey`).  A line without a
colon becomes a part of the next header's key; of requests with such a line before a
`Connection` header only the close at the end is claimed.  Assumed is what `MCHttpSystem`
satisfies: keys and values are made of `Texts`, lines have one of the three forms, and the
mark of a removed slot is not a slot.

**`FileTransferProofs`**.  `ShowsTheFile` from `FileInv`, for texts and packets of any
length and any number of clients.  `FileShown` speaks only of a client at its prompt; the
invariant says of each place of `client.cpp` what is on its way and what has been shown.
`Written` gives for a text every cell the server writes, the count first; `Flow` says that
the connection holds packets `r` up to `w - 1` of it, `ToWrite` that the server has those
from `w` on, and `Beginning` that what is shown is the text's part of the first `r - 1`.
Reading a packet moves `r`, writing one moves `w`; the count reaches 0 exactly when
`r - 1` packets cover the text (`CountCovers`: the division of `server.cpp:85`), also for an
empty text and one that ends with a full packet.  `QueueInv`, that a client waits once and
not while it is served, keeps one client's steps out of another's connection.  A client
with a short read is in no such relation, and nothing is claimed of it; one whose input
has ended ("mute") is in that of a client that reads with nothing on its way.

## What is only checked, and what is not modelled

Liveness (`RequestLeaves`, `MappingExpires`, `MainReturns`, `BothDone`, `CloseEnds`,
`Released`, `Served`) is out of the prover's reach and stays with TLC.  The violations are
TLC's counterexamples.

Not modelled at all: printing and dumping (`sr_dumper.c`, `sr_utils.c` but for the
checksum), `sha1.c` (a reference implementation of RFC 3174), header layouts, the
simulations of `Project5`.  In modelled parts: payloads of packets, with them `icmp_sum`,
and the header's own length field; the gateway's route, taken to be the packet's
(`VnsSession`); the contents of the authentication reply; where a URI is cut into host,
port and path; requests longer than a buffer; content types and dates; files that change
while they are sent; texts with NULs in the file transfer; the order of the packets of a
request and of the requests of the list, masks with holes, the window fields of STCP
(nothing reads them but the next header), `printf` of received data, and a second STCP
connection in the same process, which would share the file's globals.
