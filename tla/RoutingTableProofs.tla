------------------------- MODULE RoutingTableProofs -------------------------
(***************************************************************************)
(* RoutingTable proved correct for addresses of any width, files of any     *)
(* length and any numbering of masks that puts longer ones higher.          *)
(***************************************************************************)
EXTENDS RoutingTable, SequenceTheorems, TLAPS

-----------------------------------------------------------------------------
(* Types                                                                    *)

LEMMA FilesAreSequences == Files \subseteq Seq(Line)
<1>1. SUFFICES ASSUME NEW n \in 0 .. MAX_LINES, NEW f \in [1 .. n -> Line]
               PROVE  f \in Seq(Line)
  BY DEF Files
<1>2. n \in Nat
  BY WidthAssumption
<1>3. QED
  BY <1>1, <1>2, IsASeq

(* Every variable keeps its type.                                           *)
THEOREM TypeCorrect == Spec => []TypeOK
<1>1. Init => TypeOK
  <2>1. SUFFICES ASSUME Init PROVE TypeOK
    OBVIOUS
  <2>2. file \in Seq(Line)
    BY <2>1, FilesAreSequences DEF Init
  <2>3. table \in Seq(Route)
    BY <2>1 DEF Init
  <2>4. cleared \in BOOLEAN
    BY <2>1, Zenon DEF Init
  <2>5. loads \in 0 .. 2 /\ cur \in Nat \ {0} /\ pos \in Nat \ {0} /\ lpm \in Nat
        /\ lpm_len \in Nat
    BY <2>1 DEF Init
  <2>6. QED
    BY <2>1, <2>2, <2>3, <2>4, <2>5 DEF Init, TypeOK
<1>2. TypeOK /\ [Next]_vars => TypeOK'
  <2> SUFFICES ASSUME TypeOK, [Next]_vars PROVE TypeOK'
    OBVIOUS
  <2> USE DEF TypeOK
  <2>1. CASE Open \/ OpenFails
    <3>1. loads' \in 0 .. 2 /\ UNCHANGED <<file, table, walkVars>>
      BY <2>1 DEF Open, OpenFails, loadVars, walkVars
    <3>2. pc' \in {"load", "failed"} /\ pos' \in Nat \ {0}
          /\ fields' \in Route \cup {Blank}
      BY <2>1 DEF Open, OpenFails, loadVars
    <3>3. cleared' \in BOOLEAN
      BY <2>1, Zenon DEF Open, OpenFails, loadVars
    <3>4. QED
      BY <3>1, <3>2, <3>3 DEF walkVars
  <2>2. CASE ReadLine
    <3>1. PICK r \in Route : fields' = r /\ AddEntry(r)
      BY <2>2 DEF ReadLine
    <3>2. table' \in Seq(Route)
      BY <3>1 DEF AddEntry
    <3>3. QED
      BY <2>2, <3>1, <3>2 DEF ReadLine, AddEntry, walkVars
  <2>3. CASE ReadGarbled \/ ReadNothing \/ EndOfFile
    BY <2>3 DEF ReadGarbled, ReadNothing, EndOfFile, loadVars, walkVars
  <2>4. CASE \E a \in Targets : Lookup(a)
    BY <2>4 DEF Lookup, loadVars
  <2>5. CASE WalkStep
    <3>1. cur \in 1 .. Len(table) /\ table[cur] \in Route
      BY <2>5 DEF WalkStep
    <3>2. MaskValue[table[cur].len] \in Nat
      BY <3>1, LongerIsLarger DEF Route
    <3>3. QED
      BY <2>5, <3>1, <3>2 DEF WalkStep, loadVars
  <2>6. CASE WalkEnd
    BY <2>6 DEF WalkEnd, loadVars, walkVars
  <2>7. CASE UNCHANGED vars
    BY <2>7 DEF vars, loadVars, walkVars
  <2>8. QED
    BY <2>1, <2>2, <2>3, <2>4, <2>5, <2>6, <2>7 DEF Next, Ended
<1>3. QED
  BY <1>1, <1>2, PTL DEF Spec

-----------------------------------------------------------------------------
(* Loading                                                                  *)

(* While the file is read, the table holds the lines before pos, and fields *)
(* the last of them; before the first line it holds what it held.           *)
LoadInv ==
  /\ Len(file) = 0 => table = <<>>
  /\ pc = "load" =>
       /\ pos <= Len(file) + 1
       /\ cleared <=> pos > 1
       /\ pos = 1 => fields = Blank
       /\ pos > 1 => /\ Len(table) = pos - 1
                     /\ fields = table[pos - 1]
                     /\ \A n \in 1 .. pos - 1 : StandsFor(n, table[n])

(* The line at pos, read with the table at pos - 1 lines, stands for the    *)
(* route it adds.                                                           *)
LEMMA LineStandsFor ==
  ASSUME TypeOK, LoadInv, ReadLine, NEW r \in Route, fields' = r,
         r = IF file[pos] = Blank THEN fields ELSE file[pos]
  PROVE  StandsFor(pos, r)
<1> USE DEF TypeOK
<1>1. pc = "load" /\ pos \in 1 .. Len(file)
  BY DEF ReadLine
<1>2. CASE file[pos] = Blank
  <2>1. r = fields /\ r # Blank
    BY <1>2, LineAssumption
  <2>2. pos > 1 /\ r = table[pos - 1] /\ StandsFor(pos - 1, r)
    BY <1>1, <2>1 DEF LoadInv
  <2>3. PICK k \in 1 .. pos - 1 :
          file[k] = r /\ \A j \in k + 1 .. pos - 1 : file[j] = Blank
    BY <2>2 DEF StandsFor
  <2>4. \A j \in k + 1 .. pos : file[j] = Blank
    BY <1>2, <2>3
  <2>5. QED
    BY <2>3, <2>4 DEF StandsFor
<1>3. CASE file[pos] # Blank
  BY <1>1, <1>3 DEF StandsFor
<1>4. QED
  BY <1>2, <1>3

LEMMA LoadStep == ASSUME TypeOK, LoadInv, [Next]_vars PROVE LoadInv'
<1> USE DEF TypeOK
<1>1. CASE Open
  BY <1>1 DEF Open, LoadInv
<1>2. CASE ReadLine
  <2>1. PICK r \in Route : /\ r = IF file[pos] = Blank THEN fields ELSE file[pos]
                           /\ fields' = r /\ AddEntry(r)
    BY <1>2 DEF ReadLine
  <2>2. pc = "load" /\ pos \in 1 .. Len(file) /\ pos' = pos + 1 /\ file' = file
    BY <1>2 DEF ReadLine
  <2>3. cleared' /\ Len(table') = pos /\ table'[pos] = r
        /\ \A n \in 1 .. pos - 1 : table'[n] = table[n]
    BY <2>1, <2>2 DEF LoadInv, AddEntry
  <2>4. StandsFor(pos, r)
    BY <1>2, <2>1, LineStandsFor
  <2>5. \A n \in 1 .. pos : StandsFor(n, table'[n])
    BY <2>2, <2>3, <2>4 DEF LoadInv
  <2>6. \A n : StandsFor(n, table'[n]) => StandsFor(n, table[n])'
    BY <2>2 DEF StandsFor
  <2>7. QED
    BY <2>1, <2>2, <2>3, <2>5, <2>6 DEF LoadInv
<1>3. CASE OpenFails \/ ReadGarbled \/ ReadNothing \/ EndOfFile
  BY <1>3 DEF OpenFails, ReadGarbled, ReadNothing, EndOfFile, LoadInv, loadVars
<1>4. CASE (\E a \in Targets : Lookup(a)) \/ WalkStep \/ WalkEnd
  BY <1>4 DEF Lookup, WalkStep, WalkEnd, LoadInv, loadVars
<1>5. CASE UNCHANGED vars
  BY <1>5 DEF vars, loadVars, LoadInv, StandsFor
<1>6. QED
  BY <1>1, <1>2, <1>3, <1>4, <1>5 DEF Next, Ended

LEMMA LoadedStep ==
  ASSUME TypeOK, LoadInv, LoadedOnce, [Next]_vars PROVE LoadedOnce'
<1> USE DEF TypeOK
<1>1. CASE EndOfFile
  <2>1. pc = "load" /\ pos = Len(file) + 1 /\ UNCHANGED loadVars
    BY <1>1 DEF EndOfFile, LoadInv
  <2>2. Len(table) = Len(file) /\ \A n \in 1 .. Len(file) : StandsFor(n, table[n])
    BY <2>1 DEF LoadInv
  <2>3. QED
    BY <2>1, <2>2 DEF LoadedOnce, StandsFor, loadVars
<1>2. CASE Open \/ ReadLine \/ OpenFails \/ ReadGarbled \/ ReadNothing
  BY <1>2 DEF Open, ReadLine, OpenFails, ReadGarbled, ReadNothing, LoadedOnce
<1>3. CASE (\E a \in Targets : Lookup(a)) \/ WalkStep \/ WalkEnd
  <2>1. pc \in {"ready", "walk", "found"} /\ UNCHANGED <<file, table>>
    BY <1>3 DEF Lookup, WalkStep, WalkEnd, loadVars
  <2>2. QED
    BY <2>1 DEF LoadedOnce, StandsFor
<1>4. CASE UNCHANGED vars
  BY <1>4 DEF vars, loadVars, LoadedOnce, StandsFor
<1>5. QED
  BY <1>1, <1>2, <1>3, <1>4 DEF Next, Ended

(* The table that packets are routed by is the file, loaded once or twice.  *)
THEOREM TableIsFile == Spec => []LoadedOnce
<1>1. Init => LoadInv /\ LoadedOnce
  BY DEF Init, LoadInv, LoadedOnce
<1>2. TypeOK /\ LoadInv /\ LoadedOnce /\ [Next]_vars => LoadInv' /\ LoadedOnce'
  BY LoadStep, LoadedStep
<1>3. QED
  BY <1>1, <1>2, TypeCorrect, PTL DEF Spec

-----------------------------------------------------------------------------
(* The walk                                                                 *)

(* Loop invariant of LongestPrefixMatch: lpm is the longest match among the *)
(* entries before cur, and lpm_len the number of its mask.                  *)
WalkInv ==
  /\ pc = "walk" =>
       /\ cur <= Len(table) + 1
       /\ lpm < cur
       /\ lpm = 0 => lpm_len = 0 /\ \A j \in 1 .. cur - 1 : ~Matches(j, target)
       /\ lpm > 0 => /\ Matches(lpm, target)
                     /\ lpm_len = MaskValue[table[lpm].len]
                     /\ \A j \in 1 .. cur - 1 : Matches(j, target) =>
                          \/ table[j].len < table[lpm].len
                          \/ table[j].len = table[lpm].len /\ j <= lpm
  /\ LongestMatch

LEMMA MaskOrder ==
  ASSUME NEW m \in 0 .. W, NEW n \in 0 .. W
  PROVE  MaskValue[m] <= MaskValue[n] <=> m <= n
<1>1. MaskValue[m] \in Nat /\ MaskValue[n] \in Nat /\ m \in Int /\ n \in Int
  BY LongerIsLarger, WidthAssumption
<1>2. m < n => MaskValue[m] < MaskValue[n]
  BY LongerIsLarger
<1>3. n < m => MaskValue[n] < MaskValue[m]
  BY LongerIsLarger
<1>4. QED
  BY <1>1, <1>2, <1>3

LEMMA WalkStepKeeps == ASSUME TypeOK, WalkInv, WalkStep PROVE WalkInv'
<1> DEFINE Len_(j) == table[j].len
<1>0. /\ pc = "walk" /\ pc' = "walk" /\ cur \in 1 .. Len(table) /\ cur' = cur + 1
      /\ target' = target /\ table' = table /\ lpm \in Nat /\ lpm_len \in Nat
  BY DEF WalkStep, TypeOK, loadVars
<1>1. \A j : Matches(j, target)' <=> Matches(j, target)
  BY <1>0 DEF Matches
<1>2. \A j \in 1 .. Len(table) : Len_(j) \in 0 .. W /\ Len_(j) \in Int
  <2>1. \A j \in 1 .. Len(table) : table[j] \in Route
    BY DEF TypeOK
  <2>2. QED
    BY <2>1, WidthAssumption DEF Route
<1>3. \A j \in 1 .. Len(table) : MaskValue[Len_(j)] \in Nat
  BY <1>2, LongerIsLarger
<1>4. CASE Better(cur)
  <2>1. lpm' = cur /\ lpm_len' = MaskValue[Len_(cur)] /\ Matches(cur, target)
    BY <1>4 DEF WalkStep, Better
  <2>2. ASSUME NEW j \in 1 .. cur, Matches(j, target)
        PROVE  Len_(j) < Len_(cur) \/ (Len_(j) = Len_(cur) /\ j <= cur)
    <3>1. CASE j = cur
      BY <3>1, <1>0, <1>2
    <3>2. CASE j # cur
      <4>1. j \in 1 .. cur - 1
        BY <3>2, <1>0
      <4>2. lpm \in 1 .. cur - 1 /\ lpm_len = MaskValue[Len_(lpm)]
        BY <4>1, <2>2, <1>0 DEF WalkInv
      <4>3. Len_(j) <= Len_(lpm)
        BY <4>1, <4>2, <2>2, <1>0, <1>2 DEF WalkInv
      <4>4. MaskValue[Len_(lpm)] <= MaskValue[Len_(cur)]
        BY <1>4, <4>2 DEF Better
      <4>5. Len_(lpm) <= Len_(cur)
        BY <4>2, <4>4, <1>0, <1>2, MaskOrder
      <4>6. QED
        BY <4>1, <4>2, <4>3, <4>5, <1>0, <1>2
    <3>3. QED
      BY <3>1, <3>2
  <2>3. QED
    BY <1>0, <1>1, <2>1, <2>2 DEF WalkInv, LongestMatch
<1>5. CASE ~Better(cur)
  <2>1. lpm' = lpm /\ lpm_len' = lpm_len
    BY <1>5 DEF WalkStep
  <2>2. lpm = 0 => ~Matches(cur, target)
    BY <1>5, <1>0, <1>3 DEF WalkInv, Better
  <2>3. lpm > 0 /\ Matches(cur, target) => Len_(cur) < Len_(lpm)
    <3>1. SUFFICES ASSUME lpm > 0, Matches(cur, target) PROVE Len_(cur) < Len_(lpm)
      OBVIOUS
    <3>2. lpm \in 1 .. cur - 1 /\ lpm_len = MaskValue[Len_(lpm)]
      BY <3>1, <1>0 DEF WalkInv
    <3>3. ~(MaskValue[Len_(lpm)] <= MaskValue[Len_(cur)])
      BY <1>5, <3>1, <3>2 DEF Better
    <3>4. QED
      BY <3>2, <3>3, <1>0, <1>2, MaskOrder
  <2>4. \A j \in 1 .. cur : j \in 1 .. cur - 1 \/ j = cur
    BY <1>0
  <2>5. lpm > 0 => \A j \in 1 .. cur : Matches(j, target) =>
                     \/ Len_(j) < Len_(lpm)
                     \/ Len_(j) = Len_(lpm) /\ j <= lpm
    BY <2>3, <2>4, <1>0 DEF WalkInv
  <2>6. lpm = 0 => \A j \in 1 .. cur : ~Matches(j, target)
    BY <2>2, <2>4, <1>0 DEF WalkInv
  <2>7. QED
    BY <1>0, <1>1, <2>1, <2>5, <2>6 DEF WalkInv, LongestMatch
<1>6. QED
  BY <1>4, <1>5

LEMMA WalkInvStep == ASSUME TypeOK, WalkInv, [Next]_vars PROVE WalkInv'
<1> USE DEF TypeOK
<1>1. CASE \E a \in Targets : Lookup(a)
  BY <1>1 DEF Lookup, WalkInv, LongestMatch
<1>2. CASE WalkStep
  BY <1>2, WalkStepKeeps
<1>3. CASE WalkEnd
  <2>1. pc = "walk" /\ pc' = "found" /\ cur = Len(table) + 1
        /\ UNCHANGED <<table, target, cur, lpm, lpm_len>>
    BY <1>3 DEF WalkEnd, WalkInv, loadVars, walkVars
  <2>2. IsLongestMatch(lpm, target)
    BY <2>1 DEF WalkInv, IsLongestMatch
  <2>3. QED
    BY <2>1, <2>2 DEF WalkInv, LongestMatch, IsLongestMatch, Matches
<1>4. CASE Open \/ OpenFails \/ ReadLine \/ ReadGarbled \/ ReadNothing \/ EndOfFile
  BY <1>4 DEF Open, OpenFails, ReadLine, ReadGarbled, ReadNothing, EndOfFile,
              WalkInv, LongestMatch
<1>5. CASE UNCHANGED vars
  BY <1>5 DEF vars, loadVars, walkVars, WalkInv, LongestMatch, IsLongestMatch, Matches
<1>6. QED
  BY <1>1, <1>2, <1>3, <1>4, <1>5 DEF Next, Ended

(* LongestPrefixMatch returns the longest match, for every table.           *)
THEOREM LookupIsLongestMatch == Spec => []LongestMatch
<1>1. Init => WalkInv
  BY DEF Init, WalkInv, LongestMatch
<1>2. TypeOK /\ WalkInv /\ [Next]_vars => WalkInv'
  BY WalkInvStep
<1>3. WalkInv => LongestMatch
  BY DEF WalkInv
<1>4. QED
  BY <1>1, <1>2, <1>3, TypeCorrect, PTL DEF Spec
=============================================================================
