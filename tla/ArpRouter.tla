----------------------------- MODULE ArpRouter ------------------------------
(***************************************************************************)
(* The two threads of the router (Project4/router) at work on the ARP cache:*)
(*                                                                          *)
(*   main   sr_read_from_server hands each frame to sr_handlepacket         *)
(*          (sr_router.c:113): an ARP frame fills the cache, releases the   *)
(*          packets that waited for it and may be answered; an IP packet to *)
(*          another host goes through ForwardToNextHop to FillAndSendPkt,   *)
(*          which sends it or queues it behind an ARP request;              *)
(*   timer  sr_arpcache_timeout (sr_arpcache.c:258): every second expire    *)
(*          mappings and sweep the requests, the lock held throughout.      *)
(*                                                                          *)
(* sr_arpreq_handle is run by both: by the timer with the lock, by the main *)
(* thread without it (sr_router.c:269).  Its reads and writes of the        *)
(* request are therefore separate steps.  A step that touches memory the    *)
(* other thread has freed ends the behaviour in state "undefined": nothing  *)
(* is claimed of the program from there on.  So do the NULL dereferences    *)
(* the code can reach.                                                      *)
(***************************************************************************)
EXTENDS ArpCache

CONSTANTS
  Dst,           \* packet |-> the address it is for
  Gw,            \* address |-> gateway of its longest matching route, or None
  Neighbours,    \* the addresses that ARP frames come from
  Short          \* the packets whose header says they end before ip_dst

ASSUME RoutesAssumption == /\ Dst \in [Pkts -> IPs]
                           /\ Gw \in [IPs -> IPs \cup {None}]
                           /\ Neighbours \subseteq IPs
                           /\ Short \subseteq Pkts

VARIABLES
  pc,            \* where each thread is
  cur,           \* the request sr_arpreq_handle works on, by thread
  tmp,           \* times_sent as loaded for times_sent++, by thread
  todo,          \* requests the sweep has not come to
  rested,        \* the timer's sleep(1.0) is over
  frame,         \* the ARP frame being handled, None for an IP packet
  jobs,          \* packets main has yet to pass to FillAndSendPkt
  pkt,           \* the packet in FillAndSendPkt
  copy,          \* the MAC of the entry sr_arpcache_lookup returned
  status,        \* "up", "closed", or how the process died
  heard,         \* history: <<ip, mac>> of the ARP frames taken in
  wire,          \* history: the packets sent, with the MAC they went to
  dropped        \* history: the packets freed with their request

mainVars == <<frame, jobs, pkt, copy>>
timerVars == <<todo, rested>>
handlerVars == <<cur, tmp>>
history == <<heard, wire, dropped>>
vars == <<cacheVars, pc, handlerVars, timerVars, mainVars, status, history>>

Frames == [ip : Neighbours, mac : Macs, request : BOOLEAN]
Sent == [pkt : Pkts, mac : Macs]

HandlerPCs == {"age", "count", "destroy", "ask", "stamp", "bump"}
MainPCs == {"recv", "arpLookup", "arpInsert", "next", "lookup", "send", "queue",
            "reply"} \cup HandlerPCs
TimerPCs == {"sleep", "sweep"} \cup HandlerPCs
Deaths == {"undefined", "no_route", "no_packet", "null_entry", "no_memory"}

Init ==
  /\ CacheInit
  /\ pc = [t \in Threads |-> IF t = "main" THEN "recv" ELSE "sleep"]
  /\ cur = [t \in Threads |-> None]
  /\ tmp = [t \in Threads |-> 0]
  /\ todo = {}
  /\ rested = FALSE
  /\ frame = None
  /\ jobs = {}
  /\ pkt = None
  /\ copy = None
  /\ status = "up"
  /\ heard = {}
  /\ wire = {}
  /\ dropped = {}

At(t, l) == status = "up" /\ pc[t] = l
Goto(t, l) == pc' = [pc EXCEPT ![t] = l]

(* The process dies: the state is left as it was.                           *)
Die(how) ==
  /\ status' = how
  /\ UNCHANGED <<cacheVars, pc, handlerVars, timerVars, mainVars, history>>

-----------------------------------------------------------------------------
(* sr_arpreq_handle, run by thread t on cur[t]                              *)

(* Where the caller goes on: FillAndSendPkt's, or the sweep's, next.        *)
Return(t) ==
  /\ Goto(t, IF t = "main" THEN "next" ELSE "sweep")
  /\ cur' = [cur EXCEPT ![t] = None]
  /\ tmp' = [tmp EXCEPT ![t] = 0]

Touches(t) == cur[t] \in Reqs /\ req[cur[t]] # None

(* if (difftime(time(0), req->sent) > 1.0)                                  *)
HandleAge(t) ==
  /\ At(t, "age")
  /\ IF req[cur[t]].age > RESEND_GAP
       THEN Goto(t, "count") /\ UNCHANGED handlerVars
       ELSE Return(t)
  /\ UNCHANGED <<cacheVars, timerVars, mainVars, status, history>>

(* Mutant: > for >=, one request too many.                                  *)
HandleCountLate(t) ==
  /\ At(t, "count")
  /\ Goto(t, IF req[cur[t]].times > MAX_SENDS THEN "destroy" ELSE "ask")
  /\ UNCHANGED <<cacheVars, handlerVars, timerVars, mainVars, status, history>>

(* Mutant: gives up one request too early.                                  *)
HandleCountEarly(t) ==
  /\ At(t, "count")
  /\ Goto(t, IF req[cur[t]].times + 1 >= MAX_SENDS THEN "destroy" ELSE "ask")
  /\ UNCHANGED <<cacheVars, handlerVars, timerVars, mainVars, status, history>>

(* if (req->times_sent >= 5)                                                *)
HandleCount(t) ==
  /\ At(t, "count")
  /\ Goto(t, IF req[cur[t]].times >= MAX_SENDS THEN "destroy" ELSE "ask")
  /\ UNCHANGED <<cacheVars, handlerVars, timerVars, mainVars, status, history>>

(* sr_arpreq_destroy(&sr->cache, req): no ICMP message is sent              *)
HandleDestroy(t) ==
  /\ At(t, "destroy")
  /\ CanLock(t)
  /\ DestroyReq(cur[t])
  /\ dropped' = dropped \cup req[cur[t]].pkts
  /\ Return(t)
  /\ UNCHANGED <<entries, owner, timerVars, mainVars, status, heard, wire>>

(* send_arp_request takes the interface from the first packet that waits    *)
(* (sr_arpcache.c:315), and has none when the request was opened for a      *)
(* packet of length 0.                                                      *)
HandleNoPacket(t) ==
  /\ At(t, "ask")
  /\ req[cur[t]].pkts = {}
  /\ Die("no_packet")

(* send_arp_request and the FillAndSendPkt inside it: the route to the      *)
(* gateway itself is looked up and dereferenced, the cache is looked up     *)
(* under the lock, and the frame is broadcast whatever that gives.          *)
HandleAsk(t) ==
  /\ At(t, "ask")
  /\ req[cur[t]].pkts # {}
  /\ CanLock(t)
  /\ Gw[req[cur[t]].ip] # None
  /\ Goto(t, "stamp")
  /\ req' = [req EXCEPT ![cur[t]].asked = Older(@, ASK_BOUND)]
  /\ UNCHANGED <<entries, requests, owner, handlerVars, timerVars, mainVars,
                 status, history>>

(* req->sent = time(0), and the load of req->times_sent++                   *)
HandleStamp(t) ==
  /\ At(t, "stamp")
  /\ Goto(t, "bump")
  /\ tmp' = [tmp EXCEPT ![t] = req[cur[t]].times]
  /\ req' = [req EXCEPT ![cur[t]].age = 0]
  /\ UNCHANGED <<entries, requests, owner, cur, timerVars, mainVars, status,
                 history>>

(* Mutant: the request is not counted.                                      *)
HandleBumpUncounted(t) ==
  /\ At(t, "bump")
  /\ req' = [req EXCEPT ![cur[t]].times = tmp[t]]
  /\ Return(t)
  /\ UNCHANGED <<entries, requests, owner, timerVars, mainVars, status, history>>

(* the store of req->times_sent++                                           *)
HandleBump(t) ==
  /\ At(t, "bump")
  /\ req' = [req EXCEPT ![cur[t]].times = tmp[t] + 1]
  /\ Return(t)
  /\ UNCHANGED <<entries, requests, owner, timerVars, mainVars, status, history>>

(* A step of the handler on a request that the other thread has destroyed.  *)
HandleFreed(t) ==
  /\ status = "up"
  /\ pc[t] \in HandlerPCs
  /\ ~Touches(t)
  /\ Die("undefined")

Handler(t) ==
  \/ Touches(t) /\ \/ HandleAge(t) \/ HandleCount(t) \/ HandleDestroy(t)
                   \/ HandleAsk(t) \/ HandleNoPacket(t)
                   \/ HandleStamp(t) \/ HandleBump(t)
  \/ HandleFreed(t)

-----------------------------------------------------------------------------
(* Main thread: frames from the server                                      *)

(* What happened to a packet so far.                                        *)
InHand == jobs \cup {p \in {pkt} : p # None}
Queued == UNION {req[r].pkts : r \in {q \in requests : req[q] # None}}
Delivered == {f.pkt : f \in wire}
Accepted == InHand \cup Queued \cup Delivered \cup dropped

(* An IP packet that passed the length, checksum and "is it for us" tests   *)
(* of sr_handlepacket reaches ForwardToNextHop.                             *)
RecvIp(p) ==
  /\ At("main", "recv")
  /\ p \notin Accepted
  /\ jobs' = {p}
  /\ Goto("main", "next")
  /\ UNCHANGED <<cacheVars, handlerVars, timerVars, frame, pkt, copy, status,
                 history>>

(* An ARP frame whose target is the interface it came in on; any other is   *)
(* returned from at once.  Replies and requests are treated alike up to the *)
(* answer.                                                                  *)
RecvArp(f) ==
  /\ At("main", "recv")
  /\ frame' = f
  /\ heard' = heard \cup {<<f.ip, f.mac>>}
  /\ Goto("main", "arpLookup")
  /\ UNCHANGED <<cacheVars, handlerVars, timerVars, jobs, pkt, copy, status,
                 wire, dropped>>

(* sr_read_from_server returns something else than 1: main leaves the loop  *)
(* and exits, whatever is queued.                                           *)
Close ==
  /\ At("main", "recv")
  /\ Die("closed")

(* Mutant: every frame for the router is inserted.                          *)
ArpLookupSkipped ==
  /\ At("main", "arpLookup")
  /\ CanLock("main")
  /\ Goto("main", "arpInsert")
  /\ UNCHANGED <<cacheVars, handlerVars, timerVars, mainVars, status, history>>

(* A sender already in the cache is not looked at further: its mapping      *)
(* stays as it is, even when the frame carries another MAC.                 *)
ArpLookup ==
  /\ At("main", "arpLookup")
  /\ CanLock("main")
  /\ Goto("main", IF Matches(frame.ip) # {} THEN "next" ELSE "arpInsert")
  /\ UNCHANGED <<cacheVars, handlerVars, timerVars, mainVars, status, history>>

(* sr_arpcache_insert; the packets of the request it returns are then sent  *)
(* one by one by sr_arpreq_send_packets.  The request object itself is      *)
(* never destroyed.                                                         *)
ArpInsert ==
  /\ At("main", "arpInsert")
  /\ CanLock("main")
  /\ \E r \in Reqs \cup {None} :
       /\ Unlink(frame.ip, r)
       /\ jobs' = IF r = None THEN {} ELSE req[r].pkts
  /\ StoreMapping(frame.ip, frame.mac)
  /\ Goto("main", "next")
  /\ UNCHANGED <<req, owner, handlerVars, timerVars, frame, pkt, copy, status,
                 history>>

-----------------------------------------------------------------------------
(* Main thread: FillAndSendPkt                                              *)

(* sr_arpreq_send_packets reads the destination again, out of the copy that *)
(* was queued: of a shorter packet this is memory behind the buffer.        *)
Unreadable(p) == frame # None /\ p \in Short

ReadBehind ==
  /\ At("main", "next")
  /\ \E p \in jobs : Unreadable(p)
  /\ Die("undefined")

(* The next packet, up to the cache lookup, with rt = its route.            *)
TakeJob(p) ==
  /\ At("main", "next")
  /\ p \in jobs
  /\ ~Unreadable(p)
  /\ Gw[Dst[p]] # None
  /\ pkt' = p
  /\ jobs' = jobs \ {p}
  /\ Goto("main", "lookup")
  /\ UNCHANGED <<cacheVars, handlerVars, timerVars, frame, copy, status, history>>

(* Nothing left to send: an ARP request is answered, else main returns to   *)
(* reading frames.                                                          *)
JobsDone ==
  /\ At("main", "next")
  /\ jobs = {}
  /\ IF frame # None /\ frame.request
       THEN Goto("main", "reply") /\ UNCHANGED frame
       ELSE Goto("main", "recv") /\ frame' = None
  /\ UNCHANGED <<cacheVars, handlerVars, timerVars, jobs, pkt, copy, status,
                 history>>

Lookup ==
  /\ At("main", "lookup")
  /\ CanLock("main")
  /\ \/ /\ \E i \in Slots : Hit(i, Gw[Dst[pkt]]) /\ copy' = entries[i].mac
        /\ Goto("main", "send")
     \/ /\ Matches(Gw[Dst[pkt]]) = {}
        /\ Goto("main", "queue")
        /\ UNCHANGED copy
  /\ UNCHANGED <<cacheVars, handlerVars, timerVars, frame, jobs, pkt, status,
                 history>>

Send ==
  /\ At("main", "send")
  /\ wire' = wire \cup {[pkt |-> pkt, mac |-> copy]}
  /\ pkt' = None
  /\ copy' = None
  /\ Goto("main", "next")
  /\ UNCHANGED <<cacheVars, handlerVars, timerVars, frame, jobs, status, heard,
                 dropped>>

(* sr_arpcache_queuereq, and the call of sr_arpreq_handle on what it        *)
(* returned, after it gave up the lock.  A packet that is not kept is lost. *)
Queue ==
  /\ At("main", "queue")
  /\ CanLock("main")
  /\ \E r \in Reqs :
       /\ QueueReq(Gw[Dst[pkt]], pkt, r)
       /\ cur' = [cur EXCEPT !["main"] = r]
  /\ dropped' = dropped \cup ({pkt} \cap Empty)
  /\ pkt' = None
  /\ Goto("main", "age")
  /\ UNCHANGED <<entries, owner, tmp, timerVars, frame, jobs, copy, status,
                 heard, wire>>

(* calloc returns NULL and the code goes on to write through it.            *)
QueueNoMemory ==
  /\ At("main", "queue")
  /\ CanLock("main")
  /\ Waiting(Gw[Dst[pkt]]) = {}
  /\ \A r \in Reqs : req[r] # None
  /\ Die("no_memory")

(* HandleArpRequst: FillAndSendPkt of the ARP reply needs an entry for the  *)
(* gateway of the address that asked and dereferences NULL without one.     *)
Reply ==
  /\ At("main", "reply")
  /\ Gw[frame.ip] # None
  /\ CanLock("main")
  /\ Matches(Gw[frame.ip]) # {}
  /\ frame' = None
  /\ Goto("main", "recv")
  /\ UNCHANGED <<cacheVars, handlerVars, timerVars, jobs, pkt, copy, status,
                 history>>

ReplyNoEntry ==
  /\ At("main", "reply")
  /\ Gw[frame.ip] # None
  /\ CanLock("main")
  /\ Matches(Gw[frame.ip]) = {}
  /\ Die("null_entry")

(* FillAndSendPkt reads rt->interface (sr_router.c:230) without a test: the  *)
(* addresses thread t may be about to find a route for.                     *)
Routing(t) ==
  CASE pc[t] = "next" -> {Dst[p] : p \in jobs}
    [] pc[t] = "reply" -> {frame.ip}
    [] pc[t] = "ask" /\ Touches(t) /\ req[cur[t]].pkts # {} -> {req[cur[t]].ip}
    [] OTHER -> {}

NoRoute(t) ==
  /\ status = "up"
  /\ \E ip \in Routing(t) : Gw[ip] = None
  /\ Die("no_route")

MainStep ==
  \/ ArpLookup \/ ArpInsert
  \/ ReadBehind \/ \E p \in Pkts : TakeJob(p)
  \/ JobsDone \/ Lookup \/ Send \/ Queue \/ QueueNoMemory
  \/ Reply \/ ReplyNoEntry
  \/ Handler("main") \/ NoRoute("main")

-----------------------------------------------------------------------------
(* Timer thread                                                             *)

(* After sleep(1.0): lock, expire, and start to walk the request list.      *)
Wake ==
  /\ At("timer", "sleep")
  /\ rested
  /\ CanLock("timer")
  /\ owner' = "timer"
  /\ ExpireEntries
  /\ todo' = requests
  /\ rested' = FALSE
  /\ Goto("timer", "sweep")
  /\ UNCHANGED <<requests, req, handlerVars, mainVars, status, history>>

SweepNext(r) ==
  /\ At("timer", "sweep")
  /\ r \in todo
  /\ cur' = [cur EXCEPT !["timer"] = r]
  /\ todo' = todo \ {r}
  /\ Goto("timer", "age")
  /\ UNCHANGED <<cacheVars, tmp, rested, mainVars, status, history>>

(* Mutant: the sweep returns with the mutex held.                           *)
SweepDoneLocked ==
  /\ At("timer", "sweep")
  /\ todo = {}
  /\ Goto("timer", "sleep")
  /\ UNCHANGED <<cacheVars, handlerVars, timerVars, mainVars, status, history>>

SweepDone ==
  /\ At("timer", "sweep")
  /\ todo = {}
  /\ owner' = None
  /\ Goto("timer", "sleep")
  /\ UNCHANGED <<entries, requests, req, handlerVars, timerVars, mainVars, status,
                 history>>

TimerStep ==
  \/ Wake \/ SweepDone
  \/ \E r \in Reqs : SweepNext(r)
  \/ Handler("timer") \/ NoRoute("timer")

-----------------------------------------------------------------------------
(* A second passes: time(0) moves on, and a sleep(1.0) begun before is over. *)
Tick ==
  /\ status = "up"
  /\ AgeAll
  /\ rested' = (rested \/ pc["timer"] = "sleep")
  /\ UNCHANGED <<requests, owner, pc, handlerVars, todo, mainVars, status, history>>

(* A process that has ended.                                                *)
Ended == status # "up" /\ UNCHANGED vars

Next ==
  \/ \E p \in Pkts : RecvIp(p)
  \/ \E f \in Frames : RecvArp(f)
  \/ Close
  \/ MainStep
  \/ TimerStep
  \/ Tick
  \/ Ended

(* Time passes and the timer thread is scheduled: it never waits long for   *)
(* the lock, which the main thread keeps for single steps only.  The main   *)
(* thread may find the lock taken, but the timer sleeps a second without it *)
(* in every round.  No frame need ever arrive.                              *)
Fairness == WF_vars(Tick) /\ WF_vars(TimerStep) /\ SF_vars(MainStep)

Spec == Init /\ [][Next]_vars
FairSpec == Spec /\ Fairness

-----------------------------------------------------------------------------
(* Properties                                                               *)

TypeOK ==
  /\ CacheTypeOK
  /\ pc \in [Threads -> MainPCs \cup TimerPCs]
  /\ pc["main"] \in MainPCs /\ pc["timer"] \in TimerPCs
  /\ cur \in [Threads -> Reqs \cup {None}]
  /\ tmp \in [Threads -> Nat]
  /\ todo \subseteq Reqs
  /\ rested \in BOOLEAN
  /\ frame \in Frames \cup {None}
  /\ jobs \subseteq Pkts
  /\ pkt \in Pkts \cup {None}
  /\ copy \in Macs \cup {None}
  /\ status \in {"up", "closed"} \cup Deaths
  /\ heard \subseteq IPs \X Macs
  /\ wire \subseteq Sent
  /\ dropped \subseteq Pkts

(* What hangs on cache->requests is allocated memory and has a packet, from *)
(* which send_arp_request takes the interface (sr_arpcache.c:315).  The one *)
(* exception is the request main has just opened for a packet of length 0   *)
(* and is about to handle: it is never asked for, because whichever thread  *)
(* comes to ask first dies of the missing packet.                           *)
QueueLive ==
  \A r \in requests :
    /\ req[r] # None
    /\ req[r].pkts = {} => /\ cur["main"] = r
                           /\ pc["main"] \in {"age", "count", "ask"}
                           /\ req[r].asked = 0

(* The sweep only meets requests that are on the queue and allocated, even  *)
(* though its handler destroys some of them and the main thread takes       *)
(* others off the list: saving cur->next first (sr_arpcache.c:48-54) and    *)
(* keeping the lock throughout is enough.                                   *)
SweepSafe ==
  /\ todo \subseteq requests
  /\ pc["timer"] \in HandlerPCs => cur["timer"] \in requests \ todo

(* No packet waits for the answer to a request when the mapping is in the   *)
(* cache already: nobody would ask again or release it.  It holds although  *)
(* FillAndSendPkt looks up and queues in two critical sections              *)
(* (sr_router.c:232, 268), because only the thread that runs it inserts.    *)
NoStranded ==
  \A r \in requests : req[r] # None => Matches(req[r].ip) = {}

(* A packet taken in for forwarding is in one place only: in the hands of   *)
(* the main thread, waiting on one request, sent, or dropped; and it waits  *)
(* on the request for its own gateway.  So it is sent once at most, and     *)
(* never both sent and dropped.                                             *)
OnePlace ==
  /\ pkt \notin jobs
  /\ InHand \cap (Queued \cup Delivered \cup dropped) = {}
  /\ Queued \cap (Delivered \cup dropped) = {}
  /\ Delivered \cap dropped = {}
  /\ \A r \in requests : req[r] # None =>
       \A p \in req[r].pkts : Gw[Dst[p]] = req[r].ip
  /\ \A f, g \in wire : f.pkt = g.pkt => f = g

(* The packets' fates as the abstract specification sees them.              *)
Fate == [p \in Pkts |-> IF p \in Delivered THEN "sent"
                        ELSE IF p \in dropped THEN "dropped"
                        ELSE IF p \in InHand \cup Queued THEN "held" ELSE "new"]

Service == INSTANCE ForwardingService
  WITH Gateways <- IPs, Empty <- Empty, Via <- [p \in Pkts |-> Gw[Dst[p]]],
       fate <- Fate, known <- {h[1] : h \in heard}, up <- status = "up"

(* The router implements ForwardingService: splicing, flushing and freeing  *)
(* lists, in two threads, never loses a packet that was taken in, unless it *)
(* has length 0, nor sends or drops one twice, nor sends one to a gateway   *)
(* nobody heard of.                                                         *)
ImplementsService == Service!Spec

(* Packets go only to a MAC that an ARP frame gave for their gateway, also  *)
(* when the entry expires between the lookup's copy and the send.           *)
SentToNeighbour == \A f \in wire : <<Gw[Dst[f.pkt]], f.mac>> \in heard

(* times_sent: the two threads may both find it below the limit and both    *)
(* count, but that takes it one above the limit and no further.             *)
TimesBounded == \A r \in Reqs : req[r] # None => req[r].times =< MAX_SENDS + 1

(* Packets are given up only after MAX_SENDS broadcasts for them, although  *)
(* an increment of times_sent may be lost or come late: errors of the count *)
(* are always on the side of asking more often.                             *)
AskedBeforeDrop ==
  [][\A r \in Reqs : req[r] # None /\ req'[r] = None
                        => req[r].asked >= MAX_SENDS]_vars

(* The requests that the main thread goes on to handle without the lock are *)
(* allocated: sr_arpcache_queuereq returns "a pointer to the ARP request"   *)
(* (sr_arpcache.h:124).                                                     *)
HandledIsLive == pc["main"] \in HandlerPCs => Touches("main")

(* "This function sends an outstanding arp request again if [...] they have *)
(* already been sent less than 5 times" (sr_arpcache.c:285-286).            *)
AskedAtMostMax == \A r \in Reqs : req[r] # None => req[r].asked =< MAX_SENDS

(* "send all packets on the req->packets linked list, arpreq_destroy(req)"  *)
(* (sr_arpcache.h:46-47): when the main thread reads its next frame, every  *)
(* allocated request is on the queue.                                       *)
NoLeak == pc["main"] = "recv" => \A r \in Reqs : req[r] # None => r \in requests

(* A request on the queue is answered or given up, unless the process ends. *)
RequestLeaves ==
  \A r \in Reqs : r \in requests ~> (r \notin requests \/ status # "up")

(* A mapping does not stay in its slot for ever: a host that changed its    *)
(* MAC is heard again at last, as frames for a cached address are ignored.  *)
MappingExpires ==
  \A i \in Slots, m \in IPs \X Macs :
    (entries[i] # None /\ <<entries[i].ip, entries[i].mac>> = m /\ entries[i].age > 0)
      ~> (entries[i] = None \/ entries[i].age = 0 \/ status # "up")

(* The main thread comes back to read the next frame: it is never locked    *)
(* out of the cache by the sweep, and requeueing what it flushes does not   *)
(* go on for ever.                                                          *)
MainReturns == pc["main"] # "recv" ~> (pc["main"] = "recv" \/ status # "up")
=============================================================================
