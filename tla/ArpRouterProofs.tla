-------------------------- MODULE ArpRouterProofs ---------------------------
(***************************************************************************)
(* Proofs, for every value of the constants, of what module ArpRouter       *)
(* states and TLC checks on small instances.                                *)
(***************************************************************************)
EXTENDS ArpRouter, TLAPS

USE NoneAssumption, SizesAssumption, AskBoundAssumption, NoneIsNoObject,
    RoutesAssumption, EmptyAssumption

(* The mutex is kept across steps by the timer thread only, and exactly     *)
(* while it is awake; whoever else enters finds it asleep.                  *)
LockInv ==
  /\ owner = IF pc["timer"] = "sleep" THEN None ELSE "timer"
  /\ pc["timer"] = "sleep" => todo = {}

(* What the main thread's local variables hold at each point of the code.   *)
MainInv ==
  /\ pc["main"] \in {"arpLookup", "arpInsert", "reply"} => frame \in Frames
  /\ pc["main"] \in {"recv", "arpLookup", "arpInsert", "reply"} => jobs = {}
  /\ pc["main"] \in {"lookup", "send", "queue"} <=> pkt # None
  /\ pkt # None => Gw[Dst[pkt]] \in IPs
  /\ pc["main"] = "send" => copy \in Macs

(* No packet of length 0 is ever queued.  The request opened for one is as  *)
(* queuereq left it, and the timer has not come past the test for packets.  *)
FreshInv ==
  \A r \in requests :
    /\ req[r].pkts \cap Empty = {}
    /\ req[r].pkts = {} =>
         /\ req[r].age = DueAge
         /\ req[r].times = 0
         /\ pc["timer"] \in {"destroy", "stamp", "bump"} => cur["timer"] # r

(* What is on the queue is allocated; the main thread handles a request     *)
(* that is on the queue, or that the timer has destroyed.                   *)
QueueInv ==
  /\ QueueLive
  /\ FreshInv
  /\ SweepSafe
  /\ pc["main"] \in HandlerPCs => cur["main"] \in Reqs
  /\ pc["main"] \in HandlerPCs /\ Touches("main") => cur["main"] \in requests

BaseInv == TypeOK /\ LockInv /\ MainInv /\ QueueInv

LEMMA BaseInit == Init => BaseInv
<1> SUFFICES ASSUME Init PROVE BaseInv
  OBVIOUS
<1> USE DEF Init, CacheInit, Threads
<1>1. TypeOK
  BY DEF TypeOK, CacheTypeOK, MainPCs, TimerPCs
<1>2. LockInv
  BY DEF LockInv
<1>3. MainInv
  BY DEF MainInv
<1>4. QueueInv
  BY DEF QueueInv, QueueLive, FreshInv, SweepSafe, HandlerPCs
<1> QED
  BY <1>1, <1>2, <1>3, <1>4 DEF BaseInv

(* Ages never leave their range.                                            *)
LEMMA OlderType == \A cap \in Nat : \A age \in 0 .. cap : Older(age, cap) \in 0 .. cap
BY DEF Older

(* A second that passes changes ages only.                                  *)
LEMMA AgeAllOnlyAges ==
  ASSUME CacheTypeOK, AgeAll
  PROVE  /\ entries' \in [Slots -> Mapping \cup {None}]
         /\ \A i \in Slots : /\ entries'[i] = None <=> entries[i] = None
                             /\ entries[i] # None => /\ entries'[i].ip = entries[i].ip
                                                    /\ entries'[i].mac = entries[i].mac
         /\ req' \in [Reqs -> Request \cup {None}]
         /\ \A r \in Reqs : /\ req'[r] = None <=> req[r] = None
                            /\ req[r] # None => /\ req'[r].ip = req[r].ip
                                               /\ req'[r].times = req[r].times
                                               /\ req'[r].asked = req[r].asked
                                               /\ req'[r].pkts = req[r].pkts
<1>1. ExpiredAge \in Nat /\ DueAge \in Nat
  BY DEF ExpiredAge, DueAge
<1>2. ASSUME NEW i \in Slots, entries[i] # None
      PROVE  /\ entries'[i] \in Mapping
             /\ entries'[i].ip = entries[i].ip
             /\ entries'[i].mac = entries[i].mac
  <2>1. entries'[i] = [entries[i] EXCEPT !.age = Older(entries[i].age, ExpiredAge)]
    BY <1>2 DEF AgeAll
  <2>2. entries[i] \in Mapping
    BY <1>2 DEF CacheTypeOK
  <2> QED
    BY <1>1, <2>1, <2>2, OlderType DEF Mapping
<1>3. ASSUME NEW r \in Reqs, req[r] # None
      PROVE  /\ req'[r] \in Request
             /\ req'[r].ip = req[r].ip
             /\ req'[r].times = req[r].times
             /\ req'[r].asked = req[r].asked
             /\ req'[r].pkts = req[r].pkts
  <2>1. req'[r] = [req[r] EXCEPT !.age = Older(req[r].age, DueAge)]
    BY <1>3 DEF AgeAll
  <2>2. req[r] \in Request
    BY <1>3 DEF CacheTypeOK
  <2> QED
    BY <1>1, <2>1, <2>2, OlderType DEF Request
<1>4. /\ \A i \in Slots : entries[i] = None => entries'[i] = None
      /\ \A r \in Reqs : req[r] = None => req'[r] = None
  BY DEF AgeAll
<1>5. entries' = [i \in Slots |-> entries'[i]] /\ req' = [r \in Reqs |-> req'[r]]
  BY DEF AgeAll
<1> QED
  BY <1>2, <1>3, <1>4, <1>5

(* A request that is due stays due.                                         *)
LEMMA AgeAllStaysDue ==
  ASSUME CacheTypeOK, AgeAll, NEW r \in Reqs, req[r] # None, req[r].age = DueAge
  PROVE  req'[r].age = DueAge
<1>1. req'[r] = [req[r] EXCEPT !.age = Older(req[r].age, DueAge)]
  BY DEF AgeAll
<1>2. req[r] \in Request
  BY DEF CacheTypeOK
<1>3. Older(DueAge, DueAge) = DueAge
  BY DEF Older, DueAge
<1> QED
  BY <1>1, <1>2, <1>3 DEF Request

(* A second that passes keeps the invariant.                                *)
LEMMA TickBase == BaseInv /\ Tick => BaseInv'
<1> SUFFICES ASSUME BaseInv, Tick PROVE BaseInv'
  OBVIOUS
<1>1. /\ requests' = requests /\ owner' = owner /\ pc' = pc /\ cur' = cur /\ tmp' = tmp
      /\ todo' = todo /\ frame' = frame /\ jobs' = jobs /\ pkt' = pkt /\ copy' = copy
      /\ status' = status /\ heard' = heard /\ wire' = wire /\ dropped' = dropped
      /\ rested' \in BOOLEAN
  BY DEF Tick, handlerVars, mainVars, history, BaseInv, TypeOK
<1>2. CacheTypeOK /\ AgeAll
  BY DEF Tick, BaseInv, TypeOK
<1>3. /\ entries' \in [Slots -> Mapping \cup {None}]
      /\ req' \in [Reqs -> Request \cup {None}]
  BY <1>2, AgeAllOnlyAges
<1>4. \A r \in Reqs :
        /\ req'[r] = None <=> req[r] = None
        /\ req[r] # None => /\ req'[r].times = req[r].times
                            /\ req'[r].asked = req[r].asked
                            /\ req'[r].pkts = req[r].pkts
  BY <1>2, AgeAllOnlyAges
<1>5. TypeOK'
  BY <1>1, <1>3 DEF BaseInv, TypeOK, CacheTypeOK
<1>6. LockInv' /\ MainInv'
  BY <1>1 DEF BaseInv, LockInv, MainInv
<1>7. QueueLive /\ FreshInv /\ SweepSafe /\ requests \subseteq Reqs
  BY DEF BaseInv, QueueInv, TypeOK, CacheTypeOK
<1>8. QueueLive'
  BY <1>1, <1>4, <1>7 DEF QueueLive
<1>13. \A r \in Reqs : req[r] # None /\ req[r].age = DueAge => req'[r].age = DueAge
  BY <1>2, AgeAllStaysDue
<1>9. FreshInv'
  <2> SUFFICES ASSUME NEW r \in requests
               PROVE  /\ req'[r].pkts \cap Empty = {}
                      /\ req'[r].pkts = {} =>
                           /\ req'[r].age = DueAge
                           /\ req'[r].times = 0
                           /\ pc["timer"] \in {"destroy", "stamp", "bump"} => cur["timer"] # r
    BY <1>1 DEF FreshInv
  <2>1. r \in Reqs /\ req[r] # None
    BY <1>7 DEF QueueLive
  <2>2. req'[r].pkts = req[r].pkts /\ req'[r].times = req[r].times
    BY <1>4, <2>1
  <2>3. req[r].age = DueAge => req'[r].age = DueAge
    BY <1>13, <2>1
  <2> QED
    BY <1>7, <2>2, <2>3, Zenon DEF FreshInv
<1>10. SweepSafe'
  BY <1>1, <1>7 DEF SweepSafe
<1>11. \A t \in Threads : Touches(t)' <=> Touches(t)
  BY <1>1, <1>4 DEF Touches
<1>12. QueueInv'
  BY <1>1, <1>8, <1>9, <1>10, <1>11 DEF BaseInv, QueueInv, Threads
<1> QED
  BY <1>5, <1>6, <1>12 DEF BaseInv

LEMMA BaseNext == BaseInv /\ [Next]_vars => BaseInv'
<1> SUFFICES ASSUME BaseInv, [Next]_vars PROVE BaseInv'
  OBVIOUS
<1> USE DEF BaseInv, TypeOK, CacheTypeOK, LockInv, MainInv, QueueInv,
       QueueLive, FreshInv, SweepSafe, Threads, MainPCs, TimerPCs, HandlerPCs, Touches, Deaths,
       cacheVars, handlerVars, timerVars, mainVars, history, At, Goto, CanLock,
       Request, Mapping, Frames, Sent
<1>1. ASSUME NEW p \in Pkts, RecvIp(p) PROVE BaseInv'
  BY <1>1 DEF RecvIp
<1>2. ASSUME NEW f \in Frames, RecvArp(f) PROVE BaseInv'
  BY <1>2 DEF RecvArp
<1>3. CASE Close
  BY <1>3 DEF Close, Die
<1>4. CASE ArpLookup
  BY <1>4 DEF ArpLookup
<1>5. CASE ArpInsert
  BY <1>5 DEF ArpInsert, Unlink, StoreMapping, FirstInvalid, Full, Waiting, ExpiredAge
<1>6. ASSUME NEW p \in Pkts, TakeJob(p) PROVE BaseInv'
  BY <1>6 DEF TakeJob
<1>21. CASE ReadBehind
  BY <1>21 DEF ReadBehind, Die
<1>7. CASE JobsDone
  BY <1>7 DEF JobsDone
<1>8. CASE Lookup
  BY <1>8 DEF Lookup, Hit, Matches
<1>9. CASE Send
  BY <1>9 DEF Send
<1>10. CASE Queue
  <2> DEFINE ip == Gw[Dst[pkt]]
  <2>1. PICK r \in Reqs : /\ QueueReq(ip, pkt, r)
                          /\ cur' = [cur EXCEPT !["main"] = r]
    BY <1>10 DEF Queue
  <2>4. /\ ip \in IPs /\ pkt \in Pkts /\ pc["main"] = "queue"
        /\ pc' = [pc EXCEPT !["main"] = "age"]
        /\ pc["timer"] = "sleep" /\ todo = {} /\ owner = None
    BY <1>10 DEF Queue
  <2>5. Kept(pkt) \subseteq Pkts /\ Kept(pkt) \cap Empty = {}
    BY <2>4 DEF Kept
  <2>6. ASSUME NEW new \in Request, new.pkts \cap Empty = {},
               req' = [req EXCEPT ![r] = new], requests' = requests \cup {r},
               new.pkts = {} => new.age = DueAge /\ new.times = 0 /\ new.asked = 0
        PROVE  BaseInv'
    <3>1. QueueInv'
      <4>1. new # None /\ req'[r] = new /\ \A q \in Reqs : q # r => req'[q] = req[q]
        BY <2>6
      <4>2. \A q \in requests : req[q].pkts # {}
        BY <2>4
      <4>3. cur'["main"] = r /\ pc'["main"] = "age" /\ pc'["timer"] = "sleep" /\ todo' = {}
        BY <1>10, <2>1, <2>4 DEF Queue
      <4>4. QueueLive'
        BY <2>6, <4>1, <4>2, <4>3 DEF QueueLive
      <4>5. FreshInv'
        BY <2>6, <4>1, <4>2, <4>3 DEF FreshInv
      <4> QED
        BY <2>6, <4>3, <4>4, <4>5
    <3>2. TypeOK' /\ LockInv' /\ MainInv'
      BY <1>10, <2>1, <2>6 DEF Queue
    <3> QED
      BY <3>1, <3>2
  <2>2. CASE JoinRequest(ip, pkt, r)
    <3> DEFINE new == [req[r] EXCEPT !.pkts = req[r].pkts \cup Kept(pkt)]
    <3>1. r \in requests /\ req[r] \in Request /\ req[r].pkts # {} /\ req[r].pkts \cap Empty = {}
      BY <2>2, <2>4 DEF JoinRequest, Waiting
    <3>2. new \in Request /\ new.pkts # {} /\ new.pkts \cap Empty = {}
      BY <2>5, <3>1
    <3>3. /\ req' = [req EXCEPT ![r] = new]
          /\ requests' = requests \cup {r}
      BY <2>2, <3>1 DEF JoinRequest
    <3> QED
      BY <2>6, <3>2, <3>3
  <2>3. CASE OpenRequest(ip, pkt, r)
    <3> DEFINE new == NewRequest(ip, pkt)
    <3>1. /\ new \in Request /\ new.pkts \cap Empty = {}
          /\ new.age = DueAge /\ new.times = 0 /\ new.asked = 0
      BY <2>4, <2>5, DueAge \in Nat DEF NewRequest, DueAge
    <3>2. /\ req' = [req EXCEPT ![r] = new]
          /\ requests' = requests \cup {r}
      BY <2>3 DEF OpenRequest
    <3> HIDE DEF new
    <3> QED
      BY <2>6, <3>1, <3>2
  <2> QED
    BY <2>1, <2>2, <2>3 DEF QueueReq
<1>11. CASE QueueNoMemory
  BY <1>11 DEF QueueNoMemory, Die
<1>12. CASE Reply
  BY <1>12 DEF Reply
<1>13. CASE ReplyNoEntry
  BY <1>13 DEF ReplyNoEntry, Die
<1>14. ASSUME NEW t \in Threads, NoRoute(t) PROVE BaseInv'
  BY <1>14 DEF NoRoute, Die
<1>15. ASSUME NEW t \in Threads, Handler(t) PROVE BaseInv'
  <2>1. CASE HandleFreed(t)
    BY <2>1 DEF HandleFreed, Die
  <2>2. ASSUME Touches(t), HandleAge(t) PROVE BaseInv'
    BY <1>15, <2>2 DEF HandleAge, Return, DueAge
  <2>3. ASSUME Touches(t), HandleCount(t) PROVE BaseInv'
    BY <1>15, <2>3 DEF HandleCount
  <2>4. ASSUME Touches(t), HandleDestroy(t) PROVE BaseInv'
    BY <1>15, <2>4 DEF HandleDestroy, DestroyReq, Return
  <2>5. ASSUME Touches(t), HandleAsk(t) PROVE BaseInv'
    BY <1>15, <2>5, OlderType DEF HandleAsk
  <2>8. ASSUME HandleNoPacket(t) PROVE BaseInv'
    BY <2>8 DEF HandleNoPacket, Die
  <2>6. ASSUME Touches(t), HandleStamp(t) PROVE BaseInv'
    BY <1>15, <2>6 DEF HandleStamp, DueAge
  <2>7. ASSUME Touches(t), HandleBump(t) PROVE BaseInv'
    BY <1>15, <2>7 DEF HandleBump, Return
  <2> QED
    BY <1>15, <2>1, <2>2, <2>3, <2>4, <2>5, <2>6, <2>7, <2>8 DEF Handler
<1>16. CASE Wake
  BY <1>16 DEF Wake, ExpireEntries
<1>17. ASSUME NEW r \in Reqs, SweepNext(r) PROVE BaseInv'
  BY <1>17 DEF SweepNext
<1>18. CASE SweepDone
  BY <1>18 DEF SweepDone
<1>19. CASE Tick
  BY <1>19, TickBase
<1>20. CASE UNCHANGED vars
  BY <1>20 DEF vars
<1> QED
  BY <1>1, <1>2, <1>3, <1>4, <1>5, <1>6, <1>7, <1>8, <1>9, <1>10, <1>11, <1>12,
     <1>13, <1>14, <1>15, <1>16, <1>17, <1>18, <1>19, <1>20, <1>21
     DEF Next, MainStep, TimerStep, Ended

(* Every field of the state has its type.                                   *)
THEOREM TypeCorrect == Spec => []TypeOK
<1>1. Init => BaseInv
  BY BaseInit
<1>2. BaseInv /\ [Next]_vars => BaseInv'
  BY BaseNext
<1>3. BaseInv => TypeOK
  BY DEF BaseInv
<1> QED
  BY <1>1, <1>2, <1>3, PTL DEF Spec

(* The request list holds allocated requests only, each with a packet but   *)
(* for the one main has opened for a packet of length 0 and not yet asked   *)
(* for, and the sweep stays on it.                                          *)
THEOREM QueueSafe == Spec => [](QueueLive /\ SweepSafe)
<1>1. Init => BaseInv
  BY BaseInit
<1>2. BaseInv /\ [Next]_vars => BaseInv'
  BY BaseNext
<1>3. BaseInv => QueueLive /\ SweepSafe
  BY DEF BaseInv, QueueInv
<1> QED
  BY <1>1, <1>2, <1>3, PTL DEF Spec

(* The sweep of the timer thread only meets requests that are linked,       *)
(* although handling one may unlink it.                                     *)
THEOREM SweepStaysOnQueue == Spec => []SweepSafe
<1>1. QueueLive /\ SweepSafe => SweepSafe
  OBVIOUS
<1> QED
  BY <1>1, QueueSafe, PTL

-----------------------------------------------------------------------------
(* Uniqueness: between a lookup that misses and the insert or queuereq that *)
(* relies on it, only the timer can run, which inserts nothing.             *)

MissInv ==
  /\ pc["main"] = "arpInsert" => Matches(frame.ip) = {}
  /\ pc["main"] = "queue" => Matches(Gw[Dst[pkt]]) = {}

(* Every MAC in use was heard with the address it is used for.              *)
HeardInv ==
  /\ \A i \in Slots : entries[i] # None =>
       <<entries[i].ip, entries[i].mac>> \in heard
  /\ pc["main"] \in {"arpLookup", "arpInsert"} => <<frame.ip, frame.mac>> \in heard
  /\ pc["main"] = "send" => <<Gw[Dst[pkt]], copy>> \in heard

UniqueInv == /\ UniqueMapping /\ UniqueRequests /\ NoStranded /\ MissInv
             /\ HeardInv /\ SentToNeighbour

LEMMA UniqueInit == Init => UniqueInv
BY DEF Init, CacheInit, UniqueInv, UniqueMapping, UniqueRequests, NoStranded, MissInv,
       HeardInv, SentToNeighbour, Threads

LEMMA UniqueNext == BaseInv /\ BaseInv' /\ UniqueInv /\ [Next]_vars => UniqueInv'
<1> SUFFICES ASSUME BaseInv, BaseInv', UniqueInv, [Next]_vars PROVE UniqueInv'
  OBVIOUS
<1> USE DEF BaseInv, TypeOK, CacheTypeOK, MainInv, QueueInv, QueueLive,
       Threads, HandlerPCs, Touches,
       UniqueInv, UniqueMapping, UniqueRequests, NoStranded, MissInv, HeardInv,
       SentToNeighbour, Matches,
       cacheVars, handlerVars, timerVars, mainVars, history, At, Goto, CanLock,
       Request, Mapping, Frames, Sent
<1>1. ASSUME NEW p \in Pkts, RecvIp(p) PROVE UniqueInv'
  BY <1>1 DEF RecvIp
<1>2. ASSUME NEW f \in Frames, RecvArp(f) PROVE UniqueInv'
  BY <1>2 DEF RecvArp
<1>3. CASE Close
  BY <1>3 DEF Close, Die
<1>4. CASE ArpLookup
  BY <1>4 DEF ArpLookup
<1>5. CASE ArpInsert
  <2> DEFINE new == [ip |-> frame.ip, mac |-> frame.mac, age |-> 0]
  <2>1. PICK r \in Reqs \cup {None} : Unlink(frame.ip, r)
    BY <1>5 DEF ArpInsert
  <2>2. /\ StoreMapping(frame.ip, frame.mac)
        /\ frame \in Frames /\ Matches(frame.ip) = {}
        /\ <<frame.ip, frame.mac>> \in heard
        /\ UNCHANGED <<req, frame, pkt, copy, heard, wire>>
        /\ pc'["main"] = "next"
    BY <1>5 DEF ArpInsert
  <2>3. \A q \in requests' : q \in requests /\ req[q].ip # frame.ip
    BY <2>1 DEF Unlink, Waiting
  <2>4. UniqueRequests'
    BY <2>2, <2>3
  <2>5. CASE Full /\ UNCHANGED entries
    BY <2>2, <2>3, <2>4, <2>5
  <2>6. ASSUME NEW i \in Slots, entries' = [entries EXCEPT ![i] = new]
        PROVE  UniqueInv'
    <3>1. UniqueMapping'
      BY <2>2, <2>6
    <3>2. NoStranded'
      BY <2>2, <2>3, <2>6
    <3>3. HeardInv'
      BY <2>2, <2>6
    <3> QED
      BY <2>2, <2>4, <3>1, <3>2, <3>3
  <2> QED
    BY <2>2, <2>5, <2>6 DEF StoreMapping
<1>6. ASSUME NEW p \in Pkts, TakeJob(p) PROVE UniqueInv'
  BY <1>6 DEF TakeJob
<1>7. CASE JobsDone
  BY <1>7 DEF JobsDone
<1>8. CASE Lookup
  BY <1>8 DEF Lookup, Hit, Matches
<1>9. CASE Send
  BY <1>9 DEF Send
<1>10. CASE Queue
  <2>1. PICK r \in Reqs : /\ QueueReq(Gw[Dst[pkt]], pkt, r)
                          /\ cur' = [cur EXCEPT !["main"] = r]
    BY <1>10 DEF Queue
  <2>2. CASE JoinRequest(Gw[Dst[pkt]], pkt, r)
    BY <1>10, <2>1, <2>2 DEF Queue, JoinRequest, Waiting
  <2>3. CASE OpenRequest(Gw[Dst[pkt]], pkt, r)
    <3> DEFINE ip == Gw[Dst[pkt]]
               new == NewRequest(ip, pkt)
    <3>1. new.ip = ip /\ new # None /\ ip \in IPs
      <4>1. ip \in IPs /\ Kept(pkt) \subseteq Pkts /\ DueAge \in Nat
        BY <1>10 DEF Queue, Kept, DueAge
      <4>2. new \in Request /\ new.ip = ip
        BY <4>1 DEF NewRequest
      <4> QED
        BY <4>1, <4>2
    <3>2. /\ req' = [req EXCEPT ![r] = new]
          /\ requests' = requests \cup {r}
          /\ \A q \in requests : req[q].ip # ip
          /\ r \notin requests
      BY <2>3 DEF OpenRequest, Waiting
    <3>3. Matches(ip) = {} /\ UNCHANGED <<entries, frame, heard, wire>>
          /\ pc'["main"] = "age"
      BY <1>10 DEF Queue
    <3> HIDE DEF new
    <3>4. UniqueRequests'
      BY <3>1, <3>2
    <3>5. NoStranded'
      BY <3>1, <3>2, <3>3
    <3> QED
      BY <3>3, <3>4, <3>5
  <2> QED
    BY <2>1, <2>2, <2>3 DEF QueueReq
<1>11. CASE QueueNoMemory
  BY <1>11 DEF QueueNoMemory, Die
<1>12. CASE Reply
  BY <1>12 DEF Reply
<1>13. CASE ReplyNoEntry
  BY <1>13 DEF ReplyNoEntry, Die
<1>14. ASSUME NEW t \in Threads, NoRoute(t) PROVE UniqueInv'
  BY <1>14 DEF NoRoute, Die
<1>15. ASSUME NEW t \in Threads, Handler(t) PROVE UniqueInv'
  <2>1. CASE HandleFreed(t)
    BY <2>1 DEF HandleFreed, Die
  <2>2. ASSUME Touches(t), HandleAge(t) PROVE UniqueInv'
    BY <1>15, <2>2 DEF HandleAge, Return
  <2>3. ASSUME Touches(t), HandleCount(t) PROVE UniqueInv'
    BY <1>15, <2>3 DEF HandleCount
  <2>4. ASSUME Touches(t), HandleDestroy(t) PROVE UniqueInv'
    BY <1>15, <2>4 DEF HandleDestroy, DestroyReq, Return
  <2>5. ASSUME Touches(t), HandleAsk(t) PROVE UniqueInv'
    BY <1>15, <2>5, OlderType DEF HandleAsk
  <2>8. ASSUME HandleNoPacket(t) PROVE UniqueInv'
    BY <2>8 DEF HandleNoPacket, Die
  <2>6. ASSUME Touches(t), HandleStamp(t) PROVE UniqueInv'
    BY <1>15, <2>6 DEF HandleStamp, DueAge
  <2>7. ASSUME Touches(t), HandleBump(t) PROVE UniqueInv'
    BY <1>15, <2>7 DEF HandleBump, Return
  <2> QED
    BY <1>15, <2>1, <2>2, <2>3, <2>4, <2>5, <2>6, <2>7, <2>8 DEF Handler
<1>16. CASE Wake
  BY <1>16 DEF Wake, ExpireEntries
<1>17. ASSUME NEW r \in Reqs, SweepNext(r) PROVE UniqueInv'
  BY <1>17 DEF SweepNext
<1>18. CASE SweepDone
  BY <1>18 DEF SweepDone
<1>19. CASE Tick
  BY <1>19, AgeAllOnlyAges DEF Tick
<1>21. CASE ReadBehind
  BY <1>21 DEF ReadBehind, Die
<1>20. CASE UNCHANGED vars
  BY <1>20 DEF vars
<1> QED
  BY <1>1, <1>2, <1>3, <1>4, <1>5, <1>6, <1>7, <1>8, <1>9, <1>10, <1>11, <1>12,
     <1>13, <1>14, <1>15, <1>16, <1>17, <1>18, <1>19, <1>20, <1>21
     DEF Next, MainStep, TimerStep, Ended

(* At most one mapping and one request per address, no packet waiting for   *)
(* what is known already, and MACs used only as they were heard.            *)
THEOREM CacheCoherent ==
  Spec => [](UniqueMapping /\ UniqueRequests /\ NoStranded /\ SentToNeighbour)
<1>1. Init => BaseInv /\ UniqueInv
  BY BaseInit, UniqueInit
<1>2. BaseInv /\ UniqueInv /\ [Next]_vars => BaseInv' /\ UniqueInv'
  BY BaseNext, UniqueNext
<1>3. UniqueInv => UniqueMapping /\ UniqueRequests /\ NoStranded /\ SentToNeighbour
  BY DEF UniqueInv
<1> QED
  BY <1>1, <1>2, <1>3, PTL DEF Spec

(* An address has one valid entry at most: insertions of the main thread    *)
(* and expiry by the timer thread do not leave two.                         *)
THEOREM OneMapping == Spec => []UniqueMapping
<1>1. UniqueMapping /\ UniqueRequests /\ NoStranded /\ SentToNeighbour => UniqueMapping
  OBVIOUS
<1> QED
  BY <1>1, CacheCoherent, PTL

(* An address has one request at most: looking one up and adding one is a   *)
(* critical section.                                                        *)
THEOREM OneRequest == Spec => []UniqueRequests
<1>1. UniqueMapping /\ UniqueRequests /\ NoStranded /\ SentToNeighbour => UniqueRequests
  OBVIOUS
<1> QED
  BY <1>1, CacheCoherent, PTL

(* Whatever was taken from the cache before the lock was released, a frame  *)
(* goes to a MAC that its next hop announced.                               *)
THEOREM NeighbourReached == Spec => []SentToNeighbour
<1>1. UniqueMapping /\ UniqueRequests /\ NoStranded /\ SentToNeighbour => SentToNeighbour
  OBVIOUS
<1> QED
  BY <1>1, CacheCoherent, PTL

-----------------------------------------------------------------------------
(* Counting: times_sent against the ARP requests really broadcast.          *)

(* Thread t has decided to send for r and has not stored the new count.     *)
Past(t, r) == IF pc[t] \in {"ask", "stamp", "bump"} /\ cur[t] = r THEN 1 ELSE 0

(* Thread t has sent for r and has not stored the new count.                *)
Owes(t, r) == IF pc[t] \in {"stamp", "bump"} /\ cur[t] = r THEN 1 ELSE 0

Other(t) == IF t = "main" THEN "timer" ELSE "main"

(* While main is about to store, only the timer can have raised the count   *)
(* since main loaded it; while the timer is about to store, main, which     *)
(* then cannot get past the lock, has not changed it.                       *)
TimesInv ==
  /\ \A r \in Reqs : req[r] # None =>
       req[r].times + Past("main", r) + Past("timer", r) =< MAX_SENDS + 1
  /\ \A t \in Threads : pc[t] = "bump" /\ Touches(t) =>
       tmp[t] + Past(Other(t), cur[t]) =< MAX_SENDS
  /\ pc["main"] = "bump" /\ Touches("main") => tmp["main"] =< req[cur["main"]].times
  /\ pc["main"] = "bump" /\ pc["timer"] = "bump" /\ cur["main"] = cur["timer"]
        /\ Touches("main") => tmp["main"] =< tmp["timer"] + 1
  /\ pc["main"] \in {"age", "count", "ask", "stamp"} /\ pc["timer"] = "bump"
        /\ cur["main"] = cur["timer"] /\ Touches("timer") =>
       tmp["timer"] = req[cur["timer"]].times

(* What is stored, or about to be, is covered by broadcasts; the history    *)
(* asked counts no further than ASK_BOUND.                                  *)
AskedInv ==
  /\ \A r \in Reqs : req[r] # None /\ req[r].asked < ASK_BOUND =>
       req[r].times + Owes("main", r) + Owes("timer", r) =< req[r].asked
  /\ \A t \in Threads : pc[t] = "bump" /\ Touches(t) /\ req[cur[t]].asked < ASK_BOUND =>
       tmp[t] + 1 + Owes(Other(t), cur[t]) =< req[cur[t]].asked
  /\ \A t \in Threads : pc[t] = "destroy" /\ Touches(t) =>
       req[cur[t]].asked >= MAX_SENDS

CountInv == TimesInv /\ AskedInv

LEMMA CountInit == Init => CountInv
BY DEF Init, CacheInit, CountInv, TimesInv, AskedInv, Threads

LEMMA CountNext == BaseInv /\ BaseInv' /\ CountInv /\ [Next]_vars => CountInv'
<1> SUFFICES ASSUME BaseInv, BaseInv', CountInv, [Next]_vars PROVE CountInv'
  OBVIOUS
<1> USE DEF BaseInv, TypeOK, CacheTypeOK, LockInv, QueueInv, QueueLive, SweepSafe,
       Threads, HandlerPCs, Touches,
       CountInv, TimesInv, AskedInv, Past, Owes, Other,
       cacheVars, handlerVars, timerVars, mainVars, history, At, Goto, CanLock, Request
<1>1. ASSUME NEW p \in Pkts, RecvIp(p) PROVE CountInv'
  BY <1>1 DEF RecvIp
<1>2. ASSUME NEW f \in Frames, RecvArp(f) PROVE CountInv'
  BY <1>2 DEF RecvArp
<1>3. CASE Close
  BY <1>3 DEF Close, Die
<1>4. CASE ArpLookup
  BY <1>4 DEF ArpLookup
<1>5. CASE ArpInsert
  BY <1>5 DEF ArpInsert, Unlink, StoreMapping, FirstInvalid, Full, Waiting, ExpiredAge
<1>6. ASSUME NEW p \in Pkts, TakeJob(p) PROVE CountInv'
  BY <1>6 DEF TakeJob
<1>7. CASE JobsDone
  BY <1>7 DEF JobsDone
<1>8. CASE Lookup
  BY <1>8 DEF Lookup, Hit, Matches
<1>9. CASE Send
  BY <1>9 DEF Send
<1>10. CASE Queue
  <2>1. PICK r \in Reqs : /\ QueueReq(Gw[Dst[pkt]], pkt, r)
                          /\ cur' = [cur EXCEPT !["main"] = r]
    BY <1>10 DEF Queue
  <2>2. CASE JoinRequest(Gw[Dst[pkt]], pkt, r)
    BY <1>10, <2>1, <2>2 DEF Queue, JoinRequest, Waiting
  <2>3. CASE OpenRequest(Gw[Dst[pkt]], pkt, r)
    <3> DEFINE new == NewRequest(Gw[Dst[pkt]], pkt)
    <3>1. new.times = 0 /\ new.asked = 0
      BY DEF NewRequest
    <3>2. req' = [req EXCEPT ![r] = new]
      BY <2>3 DEF OpenRequest
    <3>3. /\ pc["timer"] = "sleep" /\ pc'["timer"] = "sleep"
          /\ pc'["main"] = "age" /\ UNCHANGED tmp
      BY <1>10, NoneAssumption DEF Queue
    <3> HIDE DEF new
    <3> QED
      BY <2>1, <3>1, <3>2, <3>3
  <2> QED
    BY <2>1, <2>2, <2>3 DEF QueueReq
<1>11. CASE QueueNoMemory
  BY <1>11 DEF QueueNoMemory, Die
<1>12. CASE Reply
  BY <1>12 DEF Reply
<1>13. CASE ReplyNoEntry
  BY <1>13 DEF ReplyNoEntry, Die
<1>14. ASSUME NEW t \in Threads, NoRoute(t) PROVE CountInv'
  BY <1>14 DEF NoRoute, Die
<1>15. ASSUME NEW t \in Threads, Handler(t) PROVE CountInv'
  <2>1. CASE HandleFreed(t)
    BY <2>1 DEF HandleFreed, Die
  <2>2. ASSUME Touches(t), HandleAge(t) PROVE CountInv'
    BY <1>15, <2>2 DEF HandleAge, Return
  <2>3. ASSUME Touches(t), HandleCount(t) PROVE CountInv'
    BY <1>15, <2>3 DEF HandleCount
  <2>4. ASSUME Touches(t), HandleDestroy(t) PROVE CountInv'
    BY <1>15, <2>4 DEF HandleDestroy, DestroyReq, Return
  <2>5. ASSUME Touches(t), HandleAsk(t) PROVE CountInv'
    <3> DEFINE r == cur[t]
    <3>1. /\ r \in Reqs /\ req[r] \in Request /\ req[r] # None
          /\ pc[t] = "ask" /\ pc' = [pc EXCEPT ![t] = "stamp"]
          /\ UNCHANGED <<cur, tmp>>
      BY <2>5 DEF HandleAsk
    <3>2. /\ \A q \in Reqs : /\ q # r => req'[q] = req[q]
                             /\ req'[q] # None <=> req[q] # None
          /\ req'[r].asked = Older(req[r].asked, ASK_BOUND)
          /\ req'[r].times = req[r].times
      BY <2>5, <3>1 DEF HandleAsk
    <3>7. \A u \in Threads, q \in Reqs : Past(u, q)' = Past(u, q)
      BY <1>15, <3>1
    <3>3. TimesInv'
      <4>1. \A q \in Reqs : req'[q] # None =>
              req'[q].times + Past("main", q)' + Past("timer", q)' =< MAX_SENDS + 1
        <5> SUFFICES ASSUME NEW q \in Reqs, req'[q] # None
                     PROVE  req'[q].times + Past("main", q)' + Past("timer", q)' =< MAX_SENDS + 1
          OBVIOUS
        <5>1. req'[q].times = req[q].times /\ req[q] # None
          BY <3>2
        <5> HIDE DEF Past, Owes
        <5> QED
          BY <3>7, <5>1
      <4> QED
        BY <1>15, <3>1, <3>2, <4>1
    <3>4. req'[r].asked < ASK_BOUND => req'[r].asked = req[r].asked + 1
      BY <3>1, <3>2 DEF Older
    <3>5. req'[r].asked >= req[r].asked
      BY <3>1, <3>2 DEF Older
    <3>6. AskedInv'
      BY <1>15, <3>1, <3>2, <3>4, <3>5
    <3> QED
      BY <3>3, <3>6
  <2>8. ASSUME HandleNoPacket(t) PROVE CountInv'
    BY <2>8 DEF HandleNoPacket, Die
  <2>6. ASSUME Touches(t), HandleStamp(t) PROVE CountInv'
    BY <1>15, <2>6 DEF HandleStamp, DueAge
  <2>7. ASSUME Touches(t), HandleBump(t) PROVE CountInv'
    BY <1>15, <2>7 DEF HandleBump, Return
  <2> QED
    BY <1>15, <2>1, <2>2, <2>3, <2>4, <2>5, <2>6, <2>7, <2>8 DEF Handler
<1>16. CASE Wake
  BY <1>16 DEF Wake, ExpireEntries
<1>17. ASSUME NEW r \in Reqs, SweepNext(r) PROVE CountInv'
  BY <1>17 DEF SweepNext
<1>18. CASE SweepDone
  BY <1>18 DEF SweepDone
<1>19. CASE Tick
  BY <1>19, AgeAllOnlyAges DEF Tick
<1>21. CASE ReadBehind
  BY <1>21 DEF ReadBehind, Die
<1>20. CASE UNCHANGED vars
  BY <1>20 DEF vars
<1> QED
  BY <1>1, <1>2, <1>3, <1>4, <1>5, <1>6, <1>7, <1>8, <1>9, <1>10, <1>11, <1>12,
     <1>13, <1>14, <1>15, <1>16, <1>17, <1>18, <1>19, <1>20, <1>21
     DEF Next, MainStep, TimerStep, Ended

(* times_sent never gets further than one above its limit.                  *)
THEOREM TimesAlwaysBounded == Spec => []TimesBounded
<1>1. Init => BaseInv /\ CountInv
  BY BaseInit, CountInit
<1>2. BaseInv /\ CountInv /\ [Next]_vars => BaseInv' /\ CountInv'
  BY BaseNext, CountNext
<1>3. BaseInv /\ CountInv => TimesBounded
  BY DEF BaseInv, TypeOK, CacheTypeOK, Request, CountInv, TimesInv, TimesBounded, Past
<1> QED
  BY <1>1, <1>2, <1>3, PTL DEF Spec

(* What a step frees was asked for MAX_SENDS times.                          *)
DropsAsked == \A r \in Reqs : req[r] # None /\ req'[r] = None
                                => req[r].asked >= MAX_SENDS

LEMMA DropNext == BaseInv /\ BaseInv' /\ CountInv /\ [Next]_vars => DropsAsked
<1> SUFFICES ASSUME BaseInv, BaseInv', CountInv, [Next]_vars PROVE DropsAsked
  OBVIOUS
<1> USE DEF BaseInv, TypeOK, CacheTypeOK, QueueInv, QueueLive, Threads, HandlerPCs,
       Touches, DropsAsked, CountInv, AskedInv,
       cacheVars, handlerVars, timerVars, mainVars, history, At, CanLock, Request
<1>1. ASSUME NEW p \in Pkts, RecvIp(p) PROVE DropsAsked
  BY <1>1 DEF RecvIp
<1>2. ASSUME NEW f \in Frames, RecvArp(f) PROVE DropsAsked
  BY <1>2 DEF RecvArp
<1>3. CASE Close
  BY <1>3 DEF Close, Die
<1>4. CASE ArpLookup
  BY <1>4 DEF ArpLookup
<1>5. CASE ArpInsert
  BY <1>5 DEF ArpInsert, Unlink, StoreMapping, FirstInvalid, Full, Waiting, ExpiredAge
<1>6. ASSUME NEW p \in Pkts, TakeJob(p) PROVE DropsAsked
  BY <1>6 DEF TakeJob
<1>7. CASE JobsDone
  BY <1>7 DEF JobsDone
<1>8. CASE Lookup
  BY <1>8 DEF Lookup, Hit, Matches
<1>9. CASE Send
  BY <1>9 DEF Send
<1>10. CASE Queue
  <2>1. PICK r \in Reqs : /\ QueueReq(Gw[Dst[pkt]], pkt, r)
                          /\ cur' = [cur EXCEPT !["main"] = r]
    BY <1>10 DEF Queue
  <2>2. CASE JoinRequest(Gw[Dst[pkt]], pkt, r)
    BY <1>10, <2>1, <2>2 DEF Queue, JoinRequest, Waiting
  <2>3. CASE OpenRequest(Gw[Dst[pkt]], pkt, r)
    BY <1>10, <2>1, <2>3 DEF Queue, OpenRequest
  <2> QED
    BY <2>1, <2>2, <2>3 DEF QueueReq
<1>11. CASE QueueNoMemory
  BY <1>11 DEF QueueNoMemory, Die
<1>12. CASE Reply
  BY <1>12 DEF Reply
<1>13. CASE ReplyNoEntry
  BY <1>13 DEF ReplyNoEntry, Die
<1>14. ASSUME NEW t \in Threads, NoRoute(t) PROVE DropsAsked
  BY <1>14 DEF NoRoute, Die
<1>15. ASSUME NEW t \in Threads, Handler(t) PROVE DropsAsked
  <2>1. CASE HandleFreed(t)
    BY <2>1 DEF HandleFreed, Die
  <2>2. ASSUME Touches(t), HandleAge(t) PROVE DropsAsked
    BY <1>15, <2>2 DEF HandleAge, Return
  <2>3. ASSUME Touches(t), HandleCount(t) PROVE DropsAsked
    BY <1>15, <2>3 DEF HandleCount
  <2>4. ASSUME Touches(t), HandleDestroy(t) PROVE DropsAsked
    BY <1>15, <2>4 DEF HandleDestroy, DestroyReq, Return
  <2>5. ASSUME Touches(t), HandleAsk(t) PROVE DropsAsked
    BY <1>15, <2>5, OlderType DEF HandleAsk
  <2>8. ASSUME HandleNoPacket(t) PROVE DropsAsked
    BY <2>8 DEF HandleNoPacket, Die
  <2>6. ASSUME Touches(t), HandleStamp(t) PROVE DropsAsked
    BY <1>15, <2>6 DEF HandleStamp, DueAge
  <2>7. ASSUME Touches(t), HandleBump(t) PROVE DropsAsked
    BY <1>15, <2>7 DEF HandleBump, Return
  <2> QED
    BY <1>15, <2>1, <2>2, <2>3, <2>4, <2>5, <2>6, <2>7, <2>8 DEF Handler
<1>16. CASE Wake
  BY <1>16 DEF Wake, ExpireEntries
<1>17. ASSUME NEW r \in Reqs, SweepNext(r) PROVE DropsAsked
  BY <1>17 DEF SweepNext
<1>18. CASE SweepDone
  BY <1>18 DEF SweepDone
<1>19. CASE Tick
  BY <1>19, AgeAllOnlyAges DEF Tick
<1>21. CASE ReadBehind
  BY <1>21 DEF ReadBehind, Die
<1>20. CASE UNCHANGED vars
  BY <1>20 DEF vars
<1> QED
  BY <1>1, <1>2, <1>3, <1>4, <1>5, <1>6, <1>7, <1>8, <1>9, <1>10, <1>11, <1>12,
     <1>13, <1>14, <1>15, <1>16, <1>17, <1>18, <1>19, <1>20, <1>21
     DEF Next, MainStep, TimerStep, Ended

(* Nothing is given up before it was asked for MAX_SENDS times.             *)
THEOREM AskedEnough == Spec => AskedBeforeDrop
<1>1. Init => BaseInv /\ CountInv
  BY BaseInit, CountInit
<1>2. BaseInv /\ CountInv /\ [Next]_vars => BaseInv' /\ CountInv'
  BY BaseNext, CountNext
<1>3. BaseInv /\ BaseInv' /\ CountInv /\ [Next]_vars => [DropsAsked]_vars
  BY DropNext
<1>4. [][DropsAsked]_vars => AskedBeforeDrop
  BY PTL DEF DropsAsked, AskedBeforeDrop
<1> QED
  BY <1>1, <1>2, <1>3, <1>4, PTL DEF Spec

------------------------------------------------------------------------------
(* Every packet is in one place, and the router implements ForwardingService. *)

PlaceInv == BaseInv /\ UniqueInv /\ OnePlace

(* The sets of packets, element by element.                                 *)
LEMMA Places ==
  /\ \A p : p \in InHand <=> p \in jobs \/ (p = pkt /\ pkt # None)
  /\ \A p : p \in Queued <=> \E r \in requests : req[r] # None /\ p \in req[r].pkts
  /\ \A p : p \in Delivered <=> \E f \in wire : f.pkt = p
BY DEF InHand, Queued, Delivered

LEMMA PlacesNext ==
  /\ \A p : p \in InHand' <=> p \in jobs' \/ (p = pkt' /\ pkt' # None)
  /\ \A p : p \in Queued' <=> \E r \in requests' : req'[r] # None /\ p \in req'[r].pkts
  /\ \A p : p \in Delivered' <=> \E f \in wire' : f.pkt = p
BY DEF InHand, Queued, Delivered

LEMMA FateCases ==
  /\ Fate = [p \in Pkts |-> Fate[p]]
  /\ \A p \in Pkts :
       /\ p \in Delivered => Fate[p] = "sent"
       /\ p \notin Delivered /\ p \in dropped => Fate[p] = "dropped"
       /\ p \notin Delivered /\ p \notin dropped /\ p \in InHand \cup Queued
            => Fate[p] = "held"
       /\ p \notin Delivered /\ p \notin dropped /\ p \notin InHand \cup Queued
            => Fate[p] = "new"
BY DEF Fate

LEMMA FateCasesNext ==
  /\ Fate' = [p \in Pkts |-> Fate'[p]]
  /\ \A p \in Pkts :
       /\ p \in Delivered' => Fate'[p] = "sent"
       /\ p \notin Delivered' /\ p \in dropped' => Fate'[p] = "dropped"
       /\ p \notin Delivered' /\ p \notin dropped' /\ p \in (InHand \cup Queued)'
            => Fate'[p] = "held"
       /\ p \notin Delivered' /\ p \notin dropped' /\ p \notin (InHand \cup Queued)'
            => Fate'[p] = "new"
BY DEF Fate

(* The request list and what waits on it are as before.                     *)
SameQueue ==
  /\ requests' = requests
  /\ \A r \in requests : /\ req'[r] = None <=> req[r] = None
                         /\ req'[r].pkts = req[r].pkts
                         /\ req'[r].ip = req[r].ip

SamePlaces == SameQueue /\ UNCHANGED <<jobs, pkt, wire, dropped>>

LEMMA SameQueueQueued == SameQueue => Queued' = Queued
<1> SUFFICES ASSUME SameQueue PROVE Queued' = Queued
  OBVIOUS
<1>1. \A p, r : r \in requests /\ req[r] # None /\ p \in req[r].pkts
                 <=> r \in requests' /\ req'[r] # None /\ p \in req'[r].pkts
  BY DEF SameQueue
<1>2. \A p : p \in Queued' <=> p \in Queued
  BY <1>1, Places, PlacesNext, Zenon
<1>3. QED
  BY <1>2

LEMMA SamePlacesOnePlace ==
  ASSUME OnePlace, SamePlaces
  PROVE  OnePlace' /\ Fate' = Fate
<1>1. Queued' = Queued
  BY SameQueueQueued DEF SamePlaces
<1>2. InHand' = InHand /\ Delivered' = Delivered /\ dropped' = dropped
  BY DEF SamePlaces, InHand, Delivered
<1>3. Fate' = Fate
  BY <1>1, <1>2 DEF Fate
<1>4. OnePlace'
  BY <1>1, <1>2 DEF OnePlace, SamePlaces, SameQueue
<1> QED
  BY <1>3, <1>4

(* A step keeps the invariant and does what the service may do.             *)
ServiceStep == OnePlace' /\ [Service!Next]_(Service!vars)

Known == {h[1] : h \in heard}

LEMMA QuietStep ==
  ASSUME OnePlace, SamePlaces, UNCHANGED <<heard, status>>
  PROVE  ServiceStep
<1>1. OnePlace' /\ Fate' = Fate
  BY SamePlacesOnePlace
<1> QED
  BY <1>1 DEF ServiceStep, Service!vars

LEMMA DeathStep ==
  ASSUME OnePlace, NEW how, how # "up", status = "up", Die(how)
  PROVE  ServiceStep
<1>1. SamePlaces
  BY DEF Die, cacheVars, mainVars, history, SamePlaces, SameQueue
<1>2. OnePlace' /\ Fate' = Fate
  BY <1>1, SamePlacesOnePlace
<1>3. status' = how /\ heard' = heard
  BY DEF Die, history
<1>4. Service!Halt
  BY <1>2, <1>3 DEF Service!Halt
<1> QED
  BY <1>2, <1>4 DEF ServiceStep, Service!Next

(* Packets pass between the thread's hands and the queue.                   *)
LEMMA MoveStep ==
  ASSUME OnePlace', UNCHANGED <<wire, dropped, heard, status>>,
         (InHand \cup Queued)' = InHand \cup Queued
  PROVE  ServiceStep
<1>1. Delivered' = Delivered
  BY DEF Delivered
<1>2. Fate' = Fate
  BY <1>1 DEF Fate
<1> QED
  BY <1>2 DEF ServiceStep, Service!vars

-----------------------------------------------------------------------------
LEMMA RecvIpStep ==
  ASSUME PlaceInv, NEW p \in Pkts, RecvIp(p) PROVE ServiceStep
<1> USE DEF PlaceInv, BaseInv, MainInv
<1>1. /\ status = "up" /\ p \notin Accepted /\ jobs = {} /\ pkt = None
      /\ jobs' = {p} /\ pkt' = pkt /\ SameQueue
      /\ UNCHANGED <<wire, dropped, heard, status>>
  BY DEF RecvIp, At, cacheVars, history, SameQueue
<1>2. Queued' = Queued /\ Delivered' = Delivered /\ InHand = {} /\ InHand' = {p}
  BY <1>1, SameQueueQueued DEF Delivered, InHand
<1>3. OnePlace'
  BY <1>1, <1>2, NoneAssumption DEF OnePlace, Accepted, SameQueue
<1>4. Fate[p] = "new" /\ Fate' = [Fate EXCEPT ![p] = "held"]
  <2>1. \A q \in Pkts : Fate'[q] = IF q = p THEN "held" ELSE Fate[q]
    BY <1>1, <1>2, FateCases, FateCasesNext DEF Accepted
  <2>2. Fate[p] = "new"
    BY <1>1, FateCases DEF Accepted
  <2> QED
    BY <2>1, <2>2, FateCases, FateCasesNext
<1>5. Service!Accept(p)
  BY <1>1, <1>4 DEF Service!Accept
<1> QED
  BY <1>3, <1>5 DEF ServiceStep, Service!Next

LEMMA RecvArpStep ==
  ASSUME PlaceInv, NEW f \in Frames, RecvArp(f) PROVE ServiceStep
<1>1. /\ status = "up" /\ heard' = heard \cup {<<f.ip, f.mac>>}
      /\ SamePlaces /\ UNCHANGED status
  BY DEF RecvArp, At, cacheVars, SameQueue, SamePlaces
<1>2. OnePlace' /\ Fate' = Fate
  BY <1>1, SamePlacesOnePlace DEF PlaceInv
<1>3. f.ip \in IPs
  BY RoutesAssumption DEF Frames
<1>4. Known' = Known \cup {f.ip}
  <2> DEFINE b == <<f.ip, f.mac>>
  <2>1. heard' = heard \cup {b} /\ b[1] = f.ip
    BY <1>1
  <2> HIDE DEF b
  <2>2. Known' = {h[1] : h \in heard'}
    BY DEF Known
  <2>3. \A x : x \in Known' <=> x \in Known \/ x = f.ip
    BY <2>1, <2>2 DEF Known
  <2> QED
    BY <2>3
<1>5. Service!Learn(f.ip)
  BY <1>1, <1>2, <1>4 DEF Service!Learn, Known
<1> QED
  BY <1>2, <1>3, <1>5 DEF ServiceStep, Service!Next

(* The packets of the request that insert unlinks are in hand from then on. *)
LEMMA ArpInsertStep ==
  ASSUME PlaceInv, ArpInsert PROVE ServiceStep
<1> USE DEF PlaceInv, BaseInv
<1>1. PICK r \in Reqs \cup {None} :
        /\ Unlink(frame.ip, r)
        /\ jobs' = IF r = None THEN {} ELSE req[r].pkts
  BY DEF ArpInsert
<1>2. /\ jobs = {} /\ pkt = None /\ pkt' = None
      /\ UNCHANGED <<req, wire, dropped, heard, status>>
  BY DEF ArpInsert, At, MainInv, history
<1>3. \A q \in requests : q \in Reqs /\ req[q] \in Request /\ req[q] # None
  BY DEF TypeOK, CacheTypeOK, QueueInv, QueueLive
<1>4. InHand = {} /\ InHand' = jobs' /\ Delivered' = Delivered
  BY <1>2 DEF InHand, Delivered
<1>5. CASE r = None
  <2>1. SamePlaces
    <3>1. requests' = requests
      BY <1>1, <1>3, <1>5, NoneAssumption DEF Unlink
    <3> QED
      BY <1>1, <1>2, <1>5, <3>1 DEF SamePlaces, SameQueue
  <2> QED
    BY <1>2, <2>1, QuietStep
<1>6. CASE r # None
  <2>1. r \in requests /\ requests' = requests \ {r} /\ jobs' = req[r].pkts
    BY <1>1, <1>6 DEF Unlink, Waiting
  <2>2. \A q \in requests : q # r => req[q].pkts \cap req[r].pkts = {}
    BY <1>3, <2>1 DEF OnePlace, UniqueInv, UniqueRequests
  <2>3. Queued = Queued' \cup req[r].pkts /\ Queued' \cap req[r].pkts = {}
    BY <1>2, <1>3, <2>1, <2>2, Places, PlacesNext
  <2>4. OnePlace'
    <3>1. jobs' \subseteq Pkts
      BY <1>3, <2>1 DEF Request
    <3>2. \A q \in requests' : req'[q] = req[q] /\ q \in requests
      BY <1>2, <2>1
    <3>3. \A q \in requests' : req'[q] # None =>
            \A p \in req'[q].pkts : Gw[Dst[p]] = req'[q].ip
      BY <3>2 DEF OnePlace
    <3>4. pkt' \notin jobs'
      BY <1>2, <3>1, NoneAssumption
    <3>5. Queued \cap (Delivered \cup dropped) = {} /\ Delivered \cap dropped = {}
      BY DEF OnePlace
    <3>6. \A f, g \in wire' : f.pkt = g.pkt => f = g
      BY <1>2 DEF OnePlace
    <3> QED
      BY <1>2, <1>4, <2>1, <2>3, <3>3, <3>4, <3>5, <3>6 DEF OnePlace
  <2> QED
    BY <1>2, <1>4, <2>1, <2>3, <2>4, MoveStep
<1> QED
  BY <1>5, <1>6

LEMMA TakeJobStep ==
  ASSUME PlaceInv, NEW p \in Pkts, TakeJob(p) PROVE ServiceStep
<1>1. /\ p \in jobs /\ jobs' = jobs \ {p} /\ pkt = None /\ pkt' = p /\ SameQueue
      /\ UNCHANGED <<wire, dropped, heard, status>>
  BY DEF TakeJob, At, PlaceInv, BaseInv, MainInv, cacheVars, history, SameQueue
<1>2. InHand' = InHand /\ Queued' = Queued /\ Delivered' = Delivered
  BY <1>1, NoneAssumption, SameQueueQueued DEF InHand, Delivered
<1>3. OnePlace'
  BY <1>1, <1>2 DEF OnePlace, PlaceInv, SameQueue
<1> QED
  BY <1>1, <1>2, <1>3, MoveStep

LEMMA SendStep ==
  ASSUME PlaceInv, Send PROVE ServiceStep
<1> USE DEF PlaceInv, BaseInv
<1>1. /\ status = "up" /\ pkt \in Pkts /\ pkt # None /\ pkt' = None /\ jobs' = jobs
      /\ wire' = wire \cup {[pkt |-> pkt, mac |-> copy]}
      /\ SameQueue /\ UNCHANGED <<dropped, heard, status>>
  BY DEF Send, At, TypeOK, MainInv, cacheVars, SameQueue
<1>2. Queued' = Queued /\ Delivered' = Delivered \cup {pkt} /\ InHand = jobs \cup {pkt}
      /\ InHand' = jobs
  <2>1. Queued' = Queued /\ InHand = jobs \cup {pkt} /\ InHand' = jobs
    BY <1>1, SameQueueQueued DEF InHand
  <2>2. \A p : p \in Delivered' <=> p \in Delivered \/ p = pkt
    <3> DEFINE new == [pkt |-> pkt, mac |-> copy]
    <3>1. wire' = wire \cup {new} /\ new.pkt = pkt
      BY <1>1
    <3> HIDE DEF new
    <3> QED
      BY <3>1, Places, PlacesNext
  <2> QED
    BY <2>1, <2>2
<1>3. pkt \notin jobs /\ pkt \notin Queued /\ pkt \notin Delivered /\ pkt \notin dropped
  BY <1>2 DEF OnePlace
<1>4. None \notin jobs
  BY NoneAssumption DEF TypeOK
<1>5. OnePlace'
  <2>1. \A f, g \in wire' : f.pkt = g.pkt => f = g
    BY <1>1, <1>3, Places DEF OnePlace
  <2> QED
    BY <1>1, <1>2, <1>3, <1>4, <2>1 DEF OnePlace, SameQueue
<1>6. Fate[pkt] = "held" /\ Fate' = [Fate EXCEPT ![pkt] = "sent"]
  <2>1. \A q \in Pkts : Fate'[q] = IF q = pkt THEN "sent" ELSE Fate[q]
    BY <1>1, <1>2, <1>3, FateCases, FateCasesNext
  <2>2. Fate[pkt] = "held"
    BY <1>1, <1>2, <1>3, FateCases
  <2> QED
    BY <2>1, <2>2, FateCases, FateCasesNext
<1>7. Gw[Dst[pkt]] \in Known /\ Known' = Known
  BY <1>1 DEF Send, At, UniqueInv, HeardInv, Known
<1>8. Service!SendOn(pkt)
  BY <1>1, <1>6, <1>7 DEF Service!SendOn, Known
<1> QED
  BY <1>1, <1>5, <1>8 DEF ServiceStep, Service!Next

LEMMA QueueStep ==
  ASSUME PlaceInv, Queue PROVE ServiceStep
<1> USE DEF PlaceInv, BaseInv
<1>1. /\ status = "up" /\ pkt \in Pkts /\ pkt # None /\ pkt' = None /\ jobs' = jobs
      /\ dropped' = dropped \cup ({pkt} \cap Empty)
      /\ UNCHANGED <<wire, heard, status>>
  BY DEF Queue, At, TypeOK, MainInv, history
<1> DEFINE K == Kept(pkt)
<1>10. K = {pkt} \ Empty
  BY DEF Kept
<1> HIDE DEF K
<1>2. PICK r \in Reqs : QueueReq(Gw[Dst[pkt]], pkt, r)
  BY DEF Queue
<1>3. \A q \in requests : q \in Reqs /\ req[q] \in Request /\ req[q] # None
  BY DEF TypeOK, CacheTypeOK, QueueInv, QueueLive
<1>4. /\ requests' = requests \cup {r}
      /\ req'[r] # None /\ req'[r].ip = Gw[Dst[pkt]]
      /\ \A q \in requests : q # r => req'[q] = req[q]
      /\ req'[r].pkts = IF r \in requests THEN req[r].pkts \cup K ELSE K
  <2>1. CASE JoinRequest(Gw[Dst[pkt]], pkt, r)
    <3>1. r \in requests /\ req[r].ip = Gw[Dst[pkt]] /\ requests' = requests
      BY <2>1 DEF JoinRequest, Waiting
    <3>2. req' = [req EXCEPT ![r] = [req[r] EXCEPT !.pkts = req[r].pkts \cup K]]
      BY <2>1 DEF JoinRequest, K
    <3>3. req \in [Reqs -> Request \cup {None}]
      BY DEF TypeOK, CacheTypeOK
    <3>4. [req[r] EXCEPT !.pkts = req[r].pkts \cup K] \in Request
      BY <1>1, <1>3, <1>10, <3>1 DEF Request
    <3>5. req'[r] = [req[r] EXCEPT !.pkts = req[r].pkts \cup K]
      BY <3>2, <3>3
    <3>6. req'[r].ip = req[r].ip /\ req'[r].pkts = req[r].pkts \cup K
      BY <1>3, <3>1, <3>5 DEF Request
    <3> QED
      <4>1. req'[r] # None
        BY <3>4, <3>5
      <4>2. \A q \in requests : q # r => req'[q] = req[q]
        BY <3>2, <3>3
      <4>3. requests' = requests \cup {r}
        BY <3>1
      <4>4. QED
        BY <3>1, <3>6, <4>1, <4>2, <4>3
  <2>2. CASE OpenRequest(Gw[Dst[pkt]], pkt, r)
    <3> DEFINE new == NewRequest(Gw[Dst[pkt]], pkt)
    <3>1. new \in Request /\ new.pkts = K /\ new.ip = Gw[Dst[pkt]]
      <4>1. DueAge \in Nat /\ 0 \in 0 .. ASK_BOUND
        BY AskBoundAssumption, SizesAssumption DEF DueAge
      <4> QED
        BY <1>1, <1>10, <4>1 DEF NewRequest, Request, MainInv, K
    <3>2. /\ req' = [req EXCEPT ![r] = new] /\ requests' = requests \cup {r}
          /\ r \notin requests
      BY <1>3, <2>2 DEF OpenRequest
    <3> HIDE DEF new
    <3> QED
      BY <3>1, <3>2, NoneIsNoObject DEF TypeOK, CacheTypeOK
  <2> QED
    BY <1>2, <2>1, <2>2 DEF QueueReq
<1>5. Queued' = Queued \cup K
  BY <1>3, <1>4, Places, PlacesNext
<1>6. InHand = jobs \cup {pkt} /\ InHand' = jobs /\ Delivered' = Delivered
  BY <1>1 DEF InHand, Delivered
<1>7. None \notin jobs
  BY NoneAssumption DEF TypeOK
<1>8. OnePlace'
  <2>1. \A q \in requests' : req'[q] # None =>
          \A p \in req'[q].pkts : Gw[Dst[p]] = req'[q].ip
    <3> SUFFICES ASSUME NEW q \in requests', NEW p \in req'[q].pkts
                 PROVE  Gw[Dst[p]] = req'[q].ip
      OBVIOUS
    <3>1. CASE q # r
      BY <1>3, <1>4, <3>1 DEF OnePlace
    <3>2. CASE q = r /\ p = pkt
      BY <1>4, <3>2
    <3>3. CASE q = r /\ p # pkt
      <4>1. r \in requests /\ p \in req[r].pkts
        BY <1>4, <1>10, <3>3
      <4>2. req[r].ip = Gw[Dst[pkt]]
        BY <1>2, <4>1, <1>3 DEF QueueReq, JoinRequest, OpenRequest, Waiting
      <4> QED
        BY <1>3, <1>4, <3>3, <4>1, <4>2 DEF OnePlace
    <3> QED
      BY <3>1, <3>2, <3>3
  <2>2. pkt \notin jobs /\ pkt \notin Queued /\ pkt \notin Delivered /\ pkt \notin dropped
    BY <1>6 DEF OnePlace
  <2>3. K \cap dropped' = {}
    BY <1>1, <1>10, <2>2
  <2> QED
    BY <1>1, <1>5, <1>6, <1>7, <1>10, <2>1, <2>2, <2>3 DEF OnePlace
<1>9. CASE pkt \notin Empty
  <2>1. (InHand \cup Queued)' = InHand \cup Queued /\ dropped' = dropped
    BY <1>1, <1>5, <1>6, <1>9, <1>10
  <2> QED
    BY <1>1, <1>8, <2>1, MoveStep
<1>11. CASE pkt \in Empty
  <2>1. /\ pkt \in InHand /\ pkt \notin jobs /\ pkt \notin Queued
        /\ pkt \notin Delivered /\ pkt \notin dropped
        /\ Queued' = Queued /\ dropped' = dropped \cup {pkt}
    BY <1>1, <1>5, <1>6, <1>10, <1>11 DEF OnePlace
  <2>2. Fate[pkt] = "held"
    BY <1>1, <2>1, FateCases
  <2>3. Fate' = [Fate EXCEPT ![pkt] = "dropped"]
    <3>1. \A p \in Pkts : Fate'[p] = IF p = pkt THEN "dropped" ELSE Fate[p]
      BY <1>1, <1>6, <2>1, FateCases, FateCasesNext
    <3> QED
      BY <3>1, FateCases, FateCasesNext
  <2>4. Service!Lose(pkt)
    BY <1>1, <1>11, <2>2, <2>3 DEF Service!Lose
  <2> QED
    BY <1>1, <1>8, <2>4 DEF ServiceStep, Service!Next
<1> QED
  BY <1>9, <1>11

(* The packets freed with a request were waiting, all for its address.      *)
LEMMA DestroyStep ==
  ASSUME PlaceInv, NEW t \in Threads, Touches(t), HandleDestroy(t) PROVE ServiceStep
<1> USE DEF PlaceInv, BaseInv
<1> DEFINE r == cur[t]
           S == req[r].pkts
<1>1. /\ status = "up" /\ requests' = requests \ {r} /\ dropped' = dropped \cup S
      /\ UNCHANGED <<wire, heard, status, jobs, pkt>>
      /\ \A q \in requests' : req'[q] = req[q]
  BY DEF HandleDestroy, DestroyReq, At, mainVars, TypeOK, CacheTypeOK
<1>2. \A q \in requests : q \in Reqs /\ req[q] \in Request /\ req[q] # None
  BY DEF TypeOK, CacheTypeOK, QueueInv, QueueLive
<1>3. r \in requests
  BY DEF HandleDestroy, At, QueueInv, SweepSafe, Threads, HandlerPCs
<1>4. S # {} /\ S \cap Empty = {} /\ S \subseteq Pkts /\ req[r].ip \in IPs
  <2>1. S \cap Empty = {} /\ S \subseteq Pkts /\ req[r].ip \in IPs
    BY <1>2, <1>3 DEF Request, QueueInv, FreshInv
  <2>2. pc[t] = "destroy"
    BY DEF HandleDestroy, At
  <2>3. S # {}
    BY <1>3, <2>2 DEF Threads, QueueInv, QueueLive, FreshInv
  <2> QED
    BY <2>1, <2>3
<1>5. \A q \in requests : q # r => req[q].pkts \cap S = {}
  BY <1>2, <1>3 DEF OnePlace, UniqueInv, UniqueRequests
<1>6. Queued' = Queued \ S /\ S \subseteq Queued
  BY <1>1, <1>2, <1>3, <1>5, Places, PlacesNext
<1>7. InHand' = InHand /\ Delivered' = Delivered
  BY <1>1 DEF InHand, Delivered
<1>8. OnePlace'
  BY <1>1, <1>6, <1>7 DEF OnePlace
<1>9. \A p \in S : Fate[p] = "held" /\ Gw[Dst[p]] = req[r].ip
  BY <1>2, <1>3, <1>4, <1>6 DEF OnePlace, Fate
<1>10. Fate' = [p \in Pkts |-> IF p \in S THEN "dropped" ELSE Fate[p]]
  BY <1>1, <1>6, <1>7 DEF OnePlace, Fate
<1>11. Service!GiveUp(req[r].ip, S)
  BY <1>1, <1>4, <1>9, <1>10 DEF Service!GiveUp
<1> QED
  BY <1>4, <1>8, <1>11 DEF ServiceStep, Service!Next

-----------------------------------------------------------------------------
LEMMA HandlerStep ==
  ASSUME PlaceInv, NEW t \in Threads, Handler(t) PROVE ServiceStep
<1> USE DEF PlaceInv, BaseInv, QueueInv, QueueLive, cacheVars, handlerVars, timerVars,
            mainVars, history, SamePlaces, SameQueue
<1>1. CASE HandleFreed(t)
  BY <1>1, DeathStep DEF HandleFreed
<1>2. ASSUME Touches(t), HandleAge(t) PROVE ServiceStep
  BY <1>2, QuietStep DEF HandleAge
<1>3. ASSUME Touches(t), HandleCount(t) PROVE ServiceStep
  BY <1>3, QuietStep DEF HandleCount
<1>4. ASSUME Touches(t), HandleDestroy(t) PROVE ServiceStep
  BY <1>4, DestroyStep
<1>6. ASSUME HandleNoPacket(t) PROVE ServiceStep
  BY <1>6, DeathStep DEF HandleNoPacket, At
<1>5. ASSUME Touches(t), \/ HandleAsk(t) \/ HandleStamp(t) \/ HandleBump(t)
      PROVE  ServiceStep
  <2>1. \A r \in requests : r \in Reqs /\ req[r] \in Request /\ req[r] # None
    BY DEF TypeOK, CacheTypeOK
  <2>2. req' \in [Reqs -> Request \cup {None}] /\ cur[t] \in Reqs
        /\ req[cur[t]] \in Request
    <3>1. [Next]_vars
      BY <1>5 DEF Next, MainStep, TimerStep, Handler, Threads
    <3>2. BaseInv'
      BY <3>1, BaseNext
    <3> QED
      BY <1>5, <3>2 DEF TypeOK, CacheTypeOK, Touches
  <2>3. UNCHANGED <<requests, jobs, pkt, wire, dropped, heard, status>>
    BY <1>5 DEF HandleAsk, HandleStamp, HandleBump
  <2>4. \A r \in requests : /\ req'[r] # None
                            /\ req'[r].pkts = req[r].pkts
                            /\ req'[r].ip = req[r].ip
    <3> DEFINE c == cur[t]
    <3>1. CASE HandleAsk(t)
      <4> DEFINE new == [req[c] EXCEPT !.asked = Older(req[c].asked, ASK_BOUND)]
      <4>1. req' = [req EXCEPT ![c] = new]
        BY <3>1 DEF HandleAsk
      <4>2. Older(req[c].asked, ASK_BOUND) \in 0 .. ASK_BOUND
        BY <2>2, OlderType, AskBoundAssumption DEF Request
      <4>3. new \in Request /\ new.pkts = req[c].pkts /\ new.ip = req[c].ip
        BY <2>2, <4>2 DEF Request
      <4> HIDE DEF new
      <4> QED
        BY <2>1, <2>2, <4>1, <4>3, NoneIsNoObject DEF TypeOK, CacheTypeOK
    <3>2. CASE HandleStamp(t)
      <4> DEFINE new == [req[c] EXCEPT !.age = 0]
      <4>1. req' = [req EXCEPT ![c] = new]
        BY <3>2 DEF HandleStamp
      <4>2. 0 \in 0 .. DueAge
        BY SizesAssumption DEF DueAge
      <4>3. new \in Request /\ new.pkts = req[c].pkts /\ new.ip = req[c].ip
        BY <2>2, <4>2 DEF Request
      <4> HIDE DEF new
      <4> QED
        BY <2>1, <2>2, <4>1, <4>3, NoneIsNoObject DEF TypeOK, CacheTypeOK
    <3>3. CASE HandleBump(t)
      <4> DEFINE new == [req[c] EXCEPT !.times = tmp[t] + 1]
      <4>1. req' = [req EXCEPT ![c] = new]
        BY <3>3 DEF HandleBump
      <4>2. tmp[t] + 1 \in Nat
        BY DEF TypeOK
      <4>3. new \in Request /\ new.pkts = req[c].pkts /\ new.ip = req[c].ip
        BY <2>2, <4>2 DEF Request
      <4> HIDE DEF new
      <4> QED
        BY <2>1, <2>2, <4>1, <4>3, NoneIsNoObject DEF TypeOK, CacheTypeOK
    <3> QED
      BY <1>5, <3>1, <3>2, <3>3
  <2> QED
    BY <2>1, <2>3, <2>4, QuietStep
<1> QED
  BY <1>1, <1>2, <1>3, <1>4, <1>5, <1>6 DEF Handler

LEMMA ServiceNext == PlaceInv /\ [Next]_vars => ServiceStep
<1> SUFFICES ASSUME PlaceInv, [Next]_vars PROVE ServiceStep
  OBVIOUS
<1> USE DEF PlaceInv, cacheVars, handlerVars, timerVars, mainVars, history, SamePlaces,
            SameQueue
<1>1. ASSUME NEW p \in Pkts, RecvIp(p) PROVE ServiceStep
  BY <1>1, RecvIpStep
<1>2. ASSUME NEW f \in Frames, RecvArp(f) PROVE ServiceStep
  BY <1>2, RecvArpStep
<1>3. CASE Close \/ QueueNoMemory \/ ReplyNoEntry \/ ReadBehind \/ \E t \in Threads : NoRoute(t)
  <2>1. PICK how : /\ how \in {"closed", "no_memory", "null_entry", "no_route", "undefined"}
                  /\ Die(how)
                  /\ status = "up"
    BY <1>3 DEF Close, QueueNoMemory, ReplyNoEntry, ReadBehind, NoRoute, At
  <2> QED
    BY <2>1, DeathStep
<1>4. CASE ArpLookup \/ JobsDone \/ Lookup \/ Reply
  BY <1>4, QuietStep DEF ArpLookup, JobsDone, Lookup, Reply
<1>5. CASE ArpInsert
  BY <1>5, ArpInsertStep
<1>6. ASSUME NEW p \in Pkts, TakeJob(p) PROVE ServiceStep
  BY <1>6, TakeJobStep
<1>7. CASE Send
  BY <1>7, SendStep
<1>8. CASE Queue
  BY <1>8, QueueStep
<1>9. ASSUME NEW t \in Threads, Handler(t) PROVE ServiceStep
  BY <1>9, HandlerStep
<1>10. CASE Wake \/ SweepDone \/ \E r \in Reqs : SweepNext(r)
  BY <1>10, QuietStep DEF Wake, SweepDone, SweepNext
<1>11. CASE Tick
  <2>1. UNCHANGED <<requests, jobs, pkt, wire, dropped, heard, status>>
    BY <1>11 DEF Tick
  <2>2. CacheTypeOK /\ AgeAll
    BY <1>11 DEF Tick, BaseInv, TypeOK
  <2>3. requests \subseteq Reqs /\ \A r \in requests : req[r] # None
    BY <2>2 DEF CacheTypeOK, BaseInv, QueueInv, QueueLive
  <2> QED
    BY <2>1, <2>2, <2>3, AgeAllOnlyAges, QuietStep
<1>12. CASE UNCHANGED vars
  BY <1>12, QuietStep DEF vars
<1> QED
  BY <1>1, <1>2, <1>3, <1>4, <1>5, <1>6, <1>7, <1>8, <1>9, <1>10, <1>11, <1>12
     DEF Next, MainStep, TimerStep, Ended, Threads

LEMMA ServiceInit == Init => OnePlace /\ Service!Init
<1> SUFFICES ASSUME Init PROVE OnePlace /\ Service!Init
  OBVIOUS
<1>1. InHand = {} /\ Queued = {} /\ Delivered = {} /\ dropped = {} /\ wire = {}
      /\ heard = {} /\ status = "up" /\ requests = {} /\ jobs = {}
  BY DEF Init, CacheInit, InHand, Queued, Delivered
<1>2. OnePlace
  BY <1>1 DEF OnePlace
<1>3. Fate = [p \in Pkts |-> "new"]
  BY <1>1, FateCases
<1> QED
  BY <1>1, <1>2, <1>3 DEF Service!Init

LEMMA PlaceNext == PlaceInv /\ [Next]_vars => PlaceInv'
BY BaseNext, UniqueNext, ServiceNext DEF PlaceInv, ServiceStep

(* Every packet taken in is in one place: in hand, waiting on one request,  *)
(* sent, or dropped.                                                        *)
THEOREM PacketsInOnePlace == Spec => []OnePlace
<1>1. Init => PlaceInv
  BY BaseInit, UniqueInit, ServiceInit DEF PlaceInv
<1>2. PlaceInv /\ [Next]_vars => PlaceInv'
  BY PlaceNext
<1>3. PlaceInv => OnePlace
  BY DEF PlaceInv
<1> QED
  BY <1>1, <1>2, <1>3, PTL DEF Spec

(* The router implements the abstract forwarding service.                   *)
THEOREM RouterImplementsService == Spec => ImplementsService
<1>1. Init => PlaceInv /\ Service!Init
  BY BaseInit, UniqueInit, ServiceInit DEF PlaceInv
<1>2. PlaceInv /\ [Next]_vars => PlaceInv'
  BY PlaceNext
<1>3. PlaceInv /\ [Next]_vars => [Service!Next]_(Service!vars)
  BY ServiceNext DEF ServiceStep
<1> QED
  BY <1>1, <1>2, <1>3, PTL DEF Spec, ImplementsService, Service!Spec
=============================================================================
