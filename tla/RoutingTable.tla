---------------------------- MODULE RoutingTable ----------------------------
(***************************************************************************)
(* The routing table of the router, Project4/router/sr_rt.c: how main loads *)
(* it from the file (sr_load_rt, sr_add_rt_entry, called once or twice by   *)
(* sr_main.c) and how LongestPrefixMatch walks it.                          *)
(*                                                                          *)
(* An address is the function from a bit's position in network byte order   *)
(* to the bit, a mask the number of its leading ones.  The code does not    *)
(* count ones: it compares masks as the unsigned numbers their four bytes   *)
(* make on the host.  Which numbers those are is the constant MaskValue;    *)
(* that longer masks are larger numbers, on which the walk depends, is the  *)
(* assumption LongerIsLarger.                                               *)
(***************************************************************************)
EXTENDS Integers, Sequences

CONSTANTS
  W,             \* bits of an address (32)
  Dests,         \* addresses routes are written for
  Gateways,
  Targets,       \* addresses that are looked up
  MaskValue,     \* number of leading ones |-> the mask as a host integer
  Blank,         \* a line on which sscanf converts nothing
  Garbled,       \* a line with a field inet_aton refuses
  MAX_LINES      \* bound on the length of the file

Addr == [1 .. W -> {0, 1}]
Route == [dest : Dests, len : 0 .. W, gw : Gateways]
Line == Route \cup {Blank, Garbled}

ASSUME WidthAssumption == W \in Nat /\ MAX_LINES \in Nat
ASSUME AddressAssumption == Dests \subseteq Addr /\ Targets \subseteq Addr
ASSUME LineAssumption == Blank \notin Route /\ Garbled \notin Route /\ Blank # Garbled
ASSUME LongerIsLarger ==
  /\ MaskValue \in [0 .. W -> Nat]
  /\ \A m, n \in 0 .. W : m < n => MaskValue[m] < MaskValue[n]

VARIABLES
  pc,            \* "start", "load", "ready", "walk", "found", "failed", "undefined"
  file,          \* the lines of the file
  loads,         \* how many times main has yet to load it
  pos,           \* the next line to read
  fields,        \* dest, gw, mask: what the last sscanf left, Blank if nothing
  cleared,       \* clear_routing_table
  table,         \* sr->routing_table, in list order
  target,        \* addr
  cur,           \* position of cur in the list, Len(table) + 1 at its end
  lpm,           \* position of the best match so far, 0 for NULL
  lpm_len        \* its mask as a number

loadVars == <<file, loads, pos, fields, cleared, table>>
walkVars == <<target, cur, lpm, lpm_len>>
vars == <<pc, loadVars, walkVars>>

Files == UNION {[1 .. n -> Line] : n \in 0 .. MAX_LINES}

Init ==
  /\ pc = "start"
  /\ file \in Files
  /\ loads \in {1, 2}
  /\ pos = 1
  /\ fields = Blank
  /\ cleared = FALSE
  /\ table = <<>>
  /\ target \in Targets
  /\ cur = 1 /\ lpm = 0 /\ lpm_len = 0

-----------------------------------------------------------------------------
(* main loads the table before it connects, unless a topology template is   *)
(* asked for, and again after: from an empty scanner each time.             *)
Open ==
  /\ pc = "start" /\ loads > 0
  /\ pc' = "load"
  /\ loads' = loads - 1
  /\ pos' = 1
  /\ fields' = Blank
  /\ cleared' = FALSE
  /\ UNCHANGED <<file, table, walkVars>>

(* sr_load_rt returns -1, the file missing: main exits.                     *)
OpenFails ==
  /\ pc = "start" /\ loads > 0
  /\ pc' = "failed"
  /\ UNCHANGED <<loadVars, walkVars>>

(* Mutant: the table of the first load stays.                               *)
AddAlways(r) == table' = Append(table, r) /\ cleared' = TRUE

(* The first good line of a file clears what was there.                     *)
AddEntry(r) ==
  /\ table' = IF cleared THEN Append(table, r) ELSE <<r>>
  /\ cleared' = TRUE

(* Mutant: what inet_aton returns is not tested.                            *)
ReadLineUntested ==
  /\ pc = "load" /\ pos <= Len(file)
  /\ fields' = IF file[pos] = Blank THEN fields ELSE file[pos]
  /\ AddEntry(fields')
  /\ pos' = pos + 1
  /\ UNCHANGED <<pc, file, loads, walkVars>>

(* A blank line leaves the fields of the line before it, which are then     *)
(* added once more.                                                         *)
ReadLine ==
  /\ pc = "load" /\ pos <= Len(file)
  /\ LET r == IF file[pos] = Blank THEN fields ELSE file[pos]
     IN  /\ r \in Route
         /\ fields' = r
         /\ AddEntry(r)
  /\ pos' = pos + 1
  /\ UNCHANGED <<pc, file, loads, walkVars>>

(* inet_aton refuses a field: the lines before stay added, main exits.      *)
ReadGarbled ==
  /\ pc = "load" /\ pos <= Len(file)
  /\ file[pos] = Garbled
  /\ pc' = "failed"
  /\ UNCHANGED <<loadVars, walkVars>>

(* The first line is blank: inet_aton reads an uninitialised buffer.        *)
ReadNothing ==
  /\ pc = "load" /\ pos <= Len(file)
  /\ file[pos] = Blank /\ fields = Blank
  /\ pc' = "undefined"
  /\ UNCHANGED <<loadVars, walkVars>>

EndOfFile ==
  /\ pc = "load" /\ pos > Len(file)
  /\ pc' = IF loads > 0 THEN "start" ELSE "ready"
  /\ UNCHANGED <<loadVars, walkVars>>

-----------------------------------------------------------------------------
(* (dest & mask) == (addr & mask)                                           *)
Matches(i, a) == \A b \in 1 .. table[i].len : table[i].dest[b] = a[b]

Lookup(a) ==
  /\ pc \in {"ready", "found"}
  /\ pc' = "walk"
  /\ target' = a
  /\ cur' = 1
  /\ lpm' = 0
  /\ lpm_len' = 0
  /\ UNCHANGED loadVars

(* Mutant: < for <=, so that a mask of 0 is never taken.                    *)
BetterStrictly(i) == Matches(i, target) /\ lpm_len < MaskValue[table[i].len]

Better(i) == Matches(i, target) /\ lpm_len <= MaskValue[table[i].len]

WalkStep ==
  /\ pc = "walk" /\ cur <= Len(table)
  /\ IF Better(cur)
       THEN lpm' = cur /\ lpm_len' = MaskValue[table[cur].len]
       ELSE UNCHANGED <<lpm, lpm_len>>
  /\ cur' = cur + 1
  /\ UNCHANGED <<pc, target, loadVars>>

WalkEnd ==
  /\ pc = "walk" /\ cur > Len(table)
  /\ pc' = "found"
  /\ UNCHANGED <<loadVars, walkVars>>

(* A process that has ended.                                                *)
Ended == pc \in {"failed", "undefined"} /\ UNCHANGED vars

Next ==
  \/ Open \/ OpenFails \/ ReadLine \/ ReadGarbled \/ ReadNothing \/ EndOfFile
  \/ \E a \in Targets : Lookup(a)
  \/ WalkStep \/ WalkEnd
  \/ Ended

Spec == Init /\ [][Next]_vars

-----------------------------------------------------------------------------
(* Properties                                                               *)

TypeOK ==
  /\ pc \in {"start", "load", "ready", "walk", "found", "failed", "undefined"}
  /\ file \in Seq(Line)
  /\ loads \in 0 .. 2
  /\ pos \in Nat \ {0}
  /\ fields \in Route \cup {Blank}
  /\ cleared \in BOOLEAN
  /\ table \in Seq(Route)
  /\ target \in Targets
  /\ cur \in Nat \ {0} /\ lpm \in Nat /\ lpm_len \in Nat

(* Line n stands for route r: it is r's own, or blank, the last line with   *)
(* something on it being r's.                                               *)
StandsFor(n, r) ==
  \E k \in 1 .. n : file[k] = r /\ \A j \in k + 1 .. n : file[j] = Blank

(* Once main goes on to connect or to forward, the table holds the file,    *)
(* line by line and in its order: loading it a second time (sr_main.c:113,  *)
(* 156) neither doubles a route nor keeps one of before.                    *)
LoadedOnce ==
  pc \in {"ready", "walk", "found"} =>
    /\ Len(table) = Len(file)
    /\ \A n \in 1 .. Len(file) : StandsFor(n, table[n])

(* What LongestPrefixMatch returns for a:  NULL only when no route matches, *)
(* else a matching route none of the others is more specific than, the last *)
(* one in the file of several equal ones.                                   *)
IsLongestMatch(i, a) ==
  IF i = 0 THEN \A j \in 1 .. Len(table) : ~Matches(j, a)
  ELSE /\ i \in 1 .. Len(table) /\ Matches(i, a)
       /\ \A j \in 1 .. Len(table) : Matches(j, a) =>
            \/ table[j].len < table[i].len
            \/ table[j].len = table[i].len /\ j <= i

(* The walk compares masks as host integers and starts from 0 with no match *)
(* (sr_rt.c:186-197): it finds the longest match all the same, the default  *)
(* route with its mask of 0 included.                                       *)
LongestMatch == pc = "found" => IsLongestMatch(lpm, target)
=============================================================================
