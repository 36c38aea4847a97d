------------------------------ MODULE ArpCache ------------------------------
(***************************************************************************)
(* The ARP cache of the router, Project4/router/sr_arpcache.c: a table of   *)
(* IP-to-MAC mappings with a fixed number of slots, a queue of outstanding  *)
(* ARP requests with the packets that wait on each of them, and the lock    *)
(* both are kept under.                                                     *)
(*                                                                          *)
(* Every operator below is the body of one critical section                 *)
(* (pthread_mutex_lock ... pthread_mutex_unlock) of the C file, as a        *)
(* relation on the variables; module ArpRouter says which thread enters     *)
(* which section when.  Nothing is read or written inside a section that    *)
(* another thread touches without the lock, except the fields that          *)
(* sr_arpreq_handle reads and writes, which have steps of their own there.  *)
(*                                                                          *)
(* The linked lists are sets: `requests' is the list cache->requests, the   *)
(* field `pkts' of a request the list req->packets.  Their order decides    *)
(* only in which order packets leave, which no property mentions.           *)
(***************************************************************************)
EXTENDS Integers

CONSTANTS
  IPs,           \* next-hop addresses
  Macs,          \* Ethernet addresses
  Pkts,          \* IP packets the router has to forward, each a distinct one
  Empty,         \* those whose header says that they have no byte at all
  Reqs,          \* addresses calloc can return for a struct sr_arpreq
  None,          \* a NULL pointer, an empty slot, an absent frame
  CACHE_SZ,      \* SR_ARPCACHE_SZ: number of slots (100 in the code)
  CACHE_TO,      \* SR_ARPCACHE_TO: seconds a mapping lives (15 in the code)
  MAX_SENDS,     \* ARP requests before giving up (5 in the code)
  RESEND_GAP,    \* a request is due when older than this (1.0 in the code)
  ASK_BOUND      \* where the count of broadcasts, a history, saturates

Threads == {"main", "timer"}

ASSUME NoneAssumption == None \notin IPs \cup Macs \cup Pkts \cup Reqs \cup Threads
ASSUME EmptyAssumption == Empty \subseteq Pkts
ASSUME SizesAssumption == /\ CACHE_SZ \in Nat /\ CACHE_TO \in Nat
                          /\ MAX_SENDS \in Nat \ {0} /\ RESEND_GAP \in Nat
ASSUME AskBoundAssumption == ASK_BOUND \in Nat /\ ASK_BOUND > MAX_SENDS

VARIABLES
  entries,       \* slot |-> the valid mapping in it, or None
  requests,      \* the request objects linked in cache->requests
  req,           \* address |-> the request object there, None when not allocated
  owner          \* the thread that keeps the mutex between its steps, or None

cacheVars == <<entries, requests, req, owner>>

Slots == 0 .. CACHE_SZ - 1

(* Ages stand for time(0) - added and time(0) - sent.  The code only ever   *)
(* compares them with a threshold, so they saturate just above it; a sent   *)
(* of 0, "never sent", is long ago.                                         *)
ExpiredAge == CACHE_TO + 1
DueAge == RESEND_GAP + 1

Mapping == [ip : IPs, mac : Macs, age : 0 .. ExpiredAge]
Request == [ip : IPs, age : 0 .. DueAge, times : Nat, asked : 0 .. ASK_BOUND,
            pkts : SUBSET Pkts]

ASSUME NoneIsNoObject == None \notin Mapping /\ None \notin Request

CacheInit ==
  /\ entries = [i \in Slots |-> None]
  /\ requests = {}
  /\ req = [r \in Reqs |-> None]
  /\ owner = None

(* Mutant: critical sections that do not take the mutex.                    *)
EnterUnlocked(t) == TRUE

(* The mutex is recursive: the thread that holds it may enter again.        *)
CanLock(t) == owner \in {None, t}

-----------------------------------------------------------------------------
(* Mutant: the loop tests only the valid bit.                               *)
MatchesAnyAddress(ip) == {i \in Slots : entries[i] # None}

(* sr_arpcache_lookup returns a copy of the last slot that matches.         *)
Matches(ip) == {i \in Slots : entries[i] # None /\ entries[i].ip = ip}
Hit(i, ip) == i \in Matches(ip) /\ \A j \in Matches(ip) : j =< i

(* The requests that the loop "req->ip == ip" of queuereq and insert finds. *)
Waiting(ip) == {r \in requests : req[r].ip = ip}

(* sr_arpcache_queuereq: r is the request returned; calloc picks an address *)
(* that is free.  A packet of length 0 is not kept (sr_arpcache.c:117), but *)
(* a request is opened for it all the same.                                 *)
Kept(p) == {p} \ Empty

NewRequest(ip, p) ==
  [ip |-> ip, age |-> DueAge, times |-> 0, asked |-> 0, pkts |-> Kept(p)]

(* Mutant: new_pkt->next is not set to the packets already there.           *)
JoinReplacing(ip, p, r) ==
  /\ r \in Waiting(ip)
  /\ req' = [req EXCEPT ![r].pkts = Kept(p)]
  /\ UNCHANGED requests

JoinRequest(ip, p, r) ==
  /\ r \in Waiting(ip)
  /\ req' = [req EXCEPT ![r].pkts = @ \cup Kept(p)]
  /\ UNCHANGED requests

(* Mutant: a request is opened without searching the list.                  *)
OpenUnsearched(ip, p, r) ==
  /\ req[r] = None
  /\ req' = [req EXCEPT ![r] = NewRequest(ip, p)]
  /\ requests' = requests \cup {r}

OpenRequest(ip, p, r) ==
  /\ Waiting(ip) = {}
  /\ req[r] = None
  /\ req' = [req EXCEPT ![r] = NewRequest(ip, p)]
  /\ requests' = requests \cup {r}

QueueReq(ip, p, r) == JoinRequest(ip, p, r) \/ OpenRequest(ip, p, r)

(* Mutant: the request is returned and left on the list.                    *)
FoundNotUnlinked(ip, r) ==
  /\ IF Waiting(ip) = {} THEN r = None ELSE r \in Waiting(ip)
  /\ UNCHANGED requests

(* sr_arpcache_insert, first half: unlink the request for ip, if any.       *)
Unlink(ip, r) ==
  /\ IF Waiting(ip) = {} THEN r = None ELSE r \in Waiting(ip)
  /\ requests' = requests \ {r}

(* sr_arpcache_insert, second half: the mapping goes to the first invalid   *)
(* slot; with every slot valid it is not stored at all.                     *)
FirstInvalid(i) == entries[i] = None /\ \A j \in 0 .. i - 1 : entries[j] # None
Full == \A i \in Slots : entries[i] # None

StoreMapping(ip, mac) ==
  \/ \E i \in Slots :
       /\ FirstInvalid(i)
       /\ entries' = [entries EXCEPT ![i] = [ip |-> ip, mac |-> mac, age |-> 0]]
  \/ Full /\ UNCHANGED entries

(* Mutant: the memory is freed and the list keeps the pointer.              *)
FreeWithoutUnlink(r) ==
  /\ UNCHANGED requests
  /\ req' = [req EXCEPT ![r] = None]

(* sr_arpreq_destroy of a request that is still allocated: unlinked when it *)
(* is on the queue, and its memory and that of its packets freed.           *)
DestroyReq(r) ==
  /\ requests' = requests \ {r}
  /\ req' = [req EXCEPT ![r] = None]

(* Mutant: difftime with its arguments swapped is never above the limit.    *)
ExpireNothing == UNCHANGED entries

(* The loop of sr_arpcache_timeout over the entries.                        *)
ExpireEntries ==
  entries' = [i \in Slots |-> IF entries[i] # None /\ entries[i].age > CACHE_TO
                                THEN None ELSE entries[i]]

(* Mutant: an age that goes on growing.                                     *)
OlderUnbounded(age, cap) == age + 1

(* One second passes.                                                       *)
Older(age, cap) == IF age < cap THEN age + 1 ELSE age

AgeAll ==
  /\ entries' = [i \in Slots |->
       IF entries[i] = None THEN None
       ELSE [entries[i] EXCEPT !.age = Older(@, ExpiredAge)]]
  /\ req' = [r \in Reqs |->
       IF req[r] = None THEN None
       ELSE [req[r] EXCEPT !.age = Older(@, DueAge)]]

-----------------------------------------------------------------------------
CacheTypeOK ==
  /\ entries \in [Slots -> Mapping \cup {None}]
  /\ requests \subseteq Reqs
  /\ req \in [Reqs -> Request \cup {None}]
  /\ owner \in Threads \cup {None}

(* Lookup and insert both hold the lock, but not across the two calls of    *)
(* sr_handlepacket (sr_router.c:147, 153): still, at most one valid entry   *)
(* per address, so that a lookup can give only one answer.                  *)
UniqueMapping ==
  \A i, j \in Slots :
    entries[i] # None /\ entries[j] # None /\ entries[i].ip = entries[j].ip
      => i = j

(* At most one outstanding request per address, so that one reply releases  *)
(* every packet that waits on it.                                           *)
UniqueRequests ==
  \A r, s \in requests : req[r] # None /\ req[s] # None /\ req[r].ip = req[s].ip
                           => r = s
=============================================================================
