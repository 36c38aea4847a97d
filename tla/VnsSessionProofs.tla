--------------------------- MODULE VnsSessionProofs --------------------------
(* The router's session with the VNS server, for any commands, descriptions *)
(* and frames.  The first sections are facts about the operators of         *)
(* Interfaces and IpProcessing, for lists, descriptions and headers of any  *)
(* length and words of any width, most of them loops of the code; then come *)
(* the invariants of VnsSession.                                            *)
EXTENDS VnsSession, LoopProofs, SequenceTheorems

------------------------------------------------------------------------------
(* Lists of interfaces                                                      *)

(* sr_get_interface gives the first interface of that name, if there is one. *)
LEMMA GetInterfaceFinds ==
  ASSUME NEW N, NEW A, NEW I, None \notin Interface(N, A, I),
         NEW list \in Seq(Interface(N, A, I)), NEW name
  PROVE  /\ GetInterface(list, name) = None <=> \A i \in DOMAIN list : list[i].name # name
         /\ GetInterface(list, name) # None =>
              \E i \in DOMAIN list :
                 /\ list[i] = GetInterface(list, name) /\ list[i].name = name
                 /\ \A k \in 1 .. i - 1 : list[k].name # name
<1> DEFINE Same == {i \in 1 .. Len(list) : list[i].name = name}
<1>1. DOMAIN list = 1 .. Len(list) /\ Len(list) \in Nat
  OBVIOUS
<1>2. GetInterface(list, name) =
        LET i == IF Same # {} THEN Min(Same) ELSE 0
        IN IF i = 0 THEN None ELSE list[i]
  BY DEF GetInterface, SelectInSeq
<1>3. CASE Same = {}
  BY <1>1, <1>2, <1>3
<1>4. CASE Same # {}
  <2>1. Same \subseteq Nat
    BY <1>1
  <2> HIDE DEF Same
  <2>2. \E n \in Same : \A m \in Same : n =< m
    BY <1>4, <2>1, LeastNat
  <2>3. Min(Same) \in Same /\ \A m \in Same : Min(Same) =< m
    BY <2>2, Zenon DEF Min
  <2>4. GetInterface(list, name) = list[Min(Same)] /\ Min(Same) # 0
    BY <1>2, <1>4, <2>3 DEF Same
  <2>5. list[Min(Same)] # None
    BY <2>3 DEF Same
  <2>6. \A k \in 1 .. Min(Same) - 1 : list[k].name # name
    BY <1>1, <2>3 DEF Same
  <2>7. QED
    BY <1>1, <2>3, <2>4, <2>5, <2>6 DEF Same
<1>5. QED
  BY <1>3, <1>4

(* So it gives what stands in the same place of a list with the same names. *)
LEMMA GetInterfaceKeeps ==
  ASSUME NEW N, NEW A, NEW I, None \notin Interface(N, A, I),
         NEW list \in Seq(Interface(N, A, I)), NEW more \in Seq(Interface(N, A, I)),
         Len(list) =< Len(more), \A i \in 1 .. Len(list) : more[i].name = list[i].name,
         NEW name, GetInterface(list, name) # None
  PROVE  \E i \in 1 .. Len(list) :
           /\ list[i].name = name
           /\ GetInterface(list, name) = list[i] /\ GetInterface(more, name) = more[i]
<1>1. PICK i \in 1 .. Len(list) :
        /\ list[i] = GetInterface(list, name) /\ list[i].name = name
        /\ \A k \in 1 .. i - 1 : list[k].name # name
  BY GetInterfaceFinds
<1>2. i \in DOMAIN more /\ more[i].name = list[i].name
  BY <1>1
<1>3. PICK j \in DOMAIN more :
        /\ more[j] = GetInterface(more, name) /\ more[j].name = name
        /\ \A k \in 1 .. j - 1 : more[k].name # name
  <2>1. GetInterface(more, name) # None
    BY <1>1, <1>2, GetInterfaceFinds
  <2>2. QED
    BY <2>1, GetInterfaceFinds
<1>4. i \notin 1 .. j - 1
  BY <1>1, <1>2, <1>3
<1>5. j \notin 1 .. i - 1
  BY <1>1, <1>3
<1>6. i = j
  BY <1>1, <1>3, <1>4, <1>5
<1>7. QED
  BY <1>1, <1>3, <1>6

(* One entry of a description keeps a list a list of interfaces.            *)
LEMMA HwEntryType ==
  ASSUME NEW N, NEW A, NEW I, NEW list \in Seq(Interface(N, A, I)),
         NEW e \in HwEntries(N, A, I)
  PROVE  HwEntry(list, e) \in Seq(Interface(N, A, I))
<1>1. CASE e.key = "HWINTERFACE"
  <2>1. e.value \in N
    BY <1>1 DEF HwEntries
  <2>2. [name |-> e.value, addr |-> None, ip |-> None] \in Interface(N, A, I)
    BY <2>1 DEF Interface
  <2>3. QED
    BY <1>1, <2>2 DEF HwEntry, AddInterface
<1>2. CASE e.key = "HWETHER"
  <2>1. e.value \in A
    BY <1>2 DEF HwEntries
  <2>2. \A r \in Interface(N, A, I) : [r EXCEPT !.addr = e.value] \in Interface(N, A, I)
    BY <2>1 DEF Interface
  <2>3. [list EXCEPT ![Len(list)].addr = e.value] \in Seq(Interface(N, A, I))
    <3>1. CASE Len(list) = 0
      <4>1. [list EXCEPT ![Len(list)].addr = e.value] = list
        BY <3>1
      <4>2. QED
        BY <4>1
    <3>2. CASE Len(list) # 0
      BY <2>2, <3>2
    <3>3. QED
      BY <3>1, <3>2
  <2>4. QED
    BY <1>2, <2>3 DEF HwEntry, SetEtherAddr
<1>3. CASE e.key = "HWETHIP"
  <2>1. e.value \in I
    BY <1>3 DEF HwEntries
  <2>2. \A r \in Interface(N, A, I) : [r EXCEPT !.ip = e.value] \in Interface(N, A, I)
    BY <2>1 DEF Interface
  <2>3. [list EXCEPT ![Len(list)].ip = e.value] \in Seq(Interface(N, A, I))
    <3>1. CASE Len(list) = 0
      <4>1. [list EXCEPT ![Len(list)].ip = e.value] = list
        BY <3>1
      <4>2. QED
        BY <4>1
    <3>2. CASE Len(list) # 0
      BY <2>2, <3>2
    <3>3. QED
      BY <3>1, <3>2
  <2>4. QED
    BY <1>3, <2>3 DEF HwEntry, SetEtherIp
<1>4. QED
  BY <1>1, <1>2, <1>3 DEF HwEntry

(* The loop over the entries of a description.                              *)
LEMMA HwinfoRounds ==
  ASSUME NEW N, NEW A, NEW I, NEW list \in Seq(Interface(N, A, I)),
         NEW entries \in Seq(HwEntries(N, A, I))
  PROVE  \E after :
           /\ after[0] = list
           /\ \A i \in 1 .. Len(entries) : after[i] = HwEntry(after[i - 1], entries[i])
           /\ \A i \in 0 .. Len(entries) : after[i] \in Seq(Interface(N, A, I))
           /\ HandleHwinfo(list, entries) = after[Len(entries)]
<1> DEFINE n == Len(entries)
           X == Seq(Interface(N, A, I))
           Rounds(f) == [i \in 0 .. n |-> IF i = 0 THEN list ELSE HwEntry(f[i - 1], entries[i])]
           after == CHOOSE f : f = Rounds(f)
           step == [p \in (1 .. n) \X X |-> HwEntry(p[2], entries[p[1]])]
<1>1. n \in Nat /\ \A i \in 1 .. n : entries[i] \in HwEntries(N, A, I)
  OBVIOUS
<1>2. \A i \in 1 .. n, x \in X : HwEntry(x, entries[i]) \in X
  BY <1>1, HwEntryType
<1>3. step \in [(1 .. n) \X X -> X]
  BY <1>2
<1>4. PICK f \in Loop(n, X, list, step) : TRUE
  <2>1. list \in X /\ n \in Nat
    OBVIOUS
  <2> HIDE DEF n, X, step
  <2>2. QED
    BY <1>3, <2>1, LoopExists
<1>5. f = Rounds(f)
  <2>1. f \in [0 .. n -> X] /\ f[0] = list
    BY <1>4 DEF Loop
  <2>2. ASSUME NEW i \in 1 .. n
        PROVE  i \in 0 .. n /\ i # 0 /\ f[i] = HwEntry(f[i - 1], entries[i])
    <3>1. f[i] = step[<<i, f[i - 1]>>] /\ i \in 1 .. n
      BY <1>4 DEF Loop
    <3>2. i - 1 \in 0 .. n /\ i \in 0 .. n /\ i # 0
      BY <1>1, <2>2
    <3>3. f[i - 1] \in X
      BY <2>1, <3>2, Zenon
    <3>4. QED
      BY <3>1, <3>2, <3>3
  <2>3. \A i \in 0 .. n : i # 0 => i \in 1 .. n
    BY <1>1
  <2> HIDE DEF n, X
  <2>4. QED
    BY <2>1, <2>2, <2>3
<1>6. after = Rounds(after)
  BY <1>5
<1>7. HandleHwinfo(list, entries) = after[n]
  BY DEF HandleHwinfo
<1> HIDE DEF after, step
<1>8. after[0] = list /\ list \in X
  BY <1>1, <1>6
<1>9. ASSUME NEW i \in 1 .. n
      PROVE  after[i] = HwEntry(after[i - 1], entries[i])
  <2>1. i \in 0 .. n /\ i # 0
    BY <1>1
  <2>2. QED
    BY <1>6, <2>1
<1>10. \A i \in 1 .. n : after[i - 1] \in X => after[i] \in X
  BY <1>2, <1>9
<1>11. \A i \in 0 .. n : after[i] \in X
  <2> HIDE DEF n, X
  <2>1. QED
    BY <1>1, <1>8, <1>10, LoopKeeps
<1>12. QED
  BY <1>7, <1>8, <1>9, <1>11

(* A whole description keeps a list a list of interfaces.                   *)
LEMMA HandleHwinfoType ==
  ASSUME NEW N, NEW A, NEW I, NEW list \in Seq(Interface(N, A, I)),
         NEW entries \in Seq(HwEntries(N, A, I))
  PROVE  HandleHwinfo(list, entries) \in Seq(Interface(N, A, I))
<1>1. PICK after :
           /\ \A i \in 0 .. Len(entries) : after[i] \in Seq(Interface(N, A, I))
           /\ HandleHwinfo(list, entries) = after[Len(entries)]
  BY HwinfoRounds
<1>2. Len(entries) \in 0 .. Len(entries)
  OBVIOUS
<1>3. QED
  BY <1>1, <1>2

(* More interfaces follow the first m of a list, which are those of old.    *)
Behind(X, old, m) ==
  {x \in Seq(X) : Len(x) > m /\ \A i \in 1 .. m : x[i] = old[i]}

(* An entry changes nothing of the first m interfaces, if the list is longer. *)
LEMMA HwEntryBehind ==
  ASSUME NEW N, NEW A, NEW I, NEW m \in Nat, NEW old,
         NEW list \in Behind(Interface(N, A, I), old, m), NEW e \in HwEntries(N, A, I)
  PROVE  HwEntry(list, e) \in Behind(Interface(N, A, I), old, m)
<1>1. /\ list \in Seq(Interface(N, A, I)) /\ Len(list) > m /\ Len(list) \in Nat
      /\ \A i \in 1 .. m : list[i] = old[i]
  BY DEF Behind
<1>2. HwEntry(list, e) \in Seq(Interface(N, A, I))
  BY <1>1, HwEntryType
<1>3. CASE e.key = "HWINTERFACE"
  <2>1. PICK x : HwEntry(list, e) = Append(list, x)
    BY <1>3 DEF HwEntry, AddInterface
  <2>2. Len(Append(list, x)) = Len(list) + 1
        /\ \A i \in 1 .. Len(list) : Append(list, x)[i] = list[i]
    BY <1>1
  <2>3. /\ Len(HwEntry(list, e)) > m
        /\ \A i \in 1 .. m : HwEntry(list, e)[i] = old[i]
    BY <1>1, <2>1, <2>2
  <2>4. QED
    BY <1>2, <2>3 DEF Behind
<1>4. CASE e.key # "HWINTERFACE"
  <2>1. \/ HwEntry(list, e) = list
        \/ \E x : HwEntry(list, e) = [list EXCEPT ![Len(list)] = x]
    <3>1. CASE e.key = "HWETHER"
      BY <1>4, <3>1 DEF HwEntry, SetEtherAddr
    <3>2. CASE e.key = "HWETHIP"
      BY <1>4, <3>2 DEF HwEntry, SetEtherIp
    <3>3. QED
      BY <1>4, <3>1, <3>2 DEF HwEntry
  <2>2. ASSUME NEW x
        PROVE  /\ Len([list EXCEPT ![Len(list)] = x]) = Len(list)
               /\ \A i \in 1 .. m : [list EXCEPT ![Len(list)] = x][i] = list[i]
    BY <1>1
  <2>3. QED
    BY <1>1, <1>2, <2>1, <2>2 DEF Behind
<1>5. QED
  BY <1>3, <1>4

(* A description without addresses before its first name leaves what was    *)
(* there alone.                                                             *)
LEMMA HandleHwinfoKeeps ==
  ASSUME NEW N, NEW A, NEW I, NEW list \in Seq(Interface(N, A, I)),
         NEW entries \in Seq(HwEntries(N, A, I)), ~Headless(entries)
  PROVE  \/ HandleHwinfo(list, entries) = list
         \/ HandleHwinfo(list, entries) \in Behind(Interface(N, A, I), list, Len(list))
<1> DEFINE n == Len(entries)
           X == Interface(N, A, I)
           m == Len(list)
           B == Behind(X, list, m)
           Nameless(i) == \A j \in 1 .. i : entries[j].key # "HWINTERFACE"
<1>1. PICK after :
           /\ after[0] = list
           /\ \A i \in 1 .. n : after[i] = HwEntry(after[i - 1], entries[i])
           /\ \A i \in 0 .. n : after[i] \in Seq(X)
           /\ HandleHwinfo(list, entries) = after[n]
  BY HwinfoRounds
<1>2. n \in Nat /\ m \in Nat /\ \A i \in 1 .. n : entries[i] \in HwEntries(N, A, I)
  OBVIOUS
<1> DEFINE Good == {i \in 0 .. n : (after[i] = list /\ Nameless(i)) \/ after[i] \in B}
           round == [i \in 0 .. n |-> i]
<1>3. ASSUME NEW i \in 1 .. n, i - 1 \in Good PROVE i \in Good
  <2>1. after[i] = HwEntry(after[i - 1], entries[i]) /\ entries[i] \in HwEntries(N, A, I)
    BY <1>1, <1>2
  <2>2. i \in 0 .. n
    BY <1>2
  <2>3. CASE after[i - 1] \in B
    <3> HIDE DEF n, m
    <3>1. after[i] \in B
      BY <1>2, <2>1, <2>3, HwEntryBehind DEF X
    <3>2. QED
      BY <2>2, <3>1
  <2>4. CASE after[i - 1] = list /\ Nameless(i - 1) /\ entries[i].key = "HWINTERFACE"
    <3>1. PICK x : after[i] = Append(list, x)
      BY <2>1, <2>4 DEF HwEntry, AddInterface
    <3>2. Len(Append(list, x)) = m + 1 /\ \A k \in 1 .. m : Append(list, x)[k] = list[k]
      BY <1>2
    <3>3. after[i] \in Seq(X)
      BY <1>1, <2>2
    <3>4. Len(after[i]) > m /\ \A k \in 1 .. m : after[i][k] = list[k]
      BY <1>2, <3>1, <3>2
    <3>5. after[i] \in B
      BY <3>3, <3>4 DEF Behind
    <3>6. QED
      BY <2>2, <3>5
  <2>5. CASE after[i - 1] = list /\ Nameless(i - 1) /\ entries[i].key # "HWINTERFACE"
    <3>1. i \in DOMAIN entries
      OBVIOUS
    <3>2. entries[i].key \notin {"HWETHER", "HWETHIP"}
      BY <2>5, <3>1 DEF Headless
    <3>3. after[i] = list
      BY <2>1, <2>5, <3>2 DEF HwEntry
    <3>4. Nameless(i)
      BY <1>2, <2>5
    <3>5. QED
      BY <2>2, <3>3, <3>4
  <2>6. (after[i - 1] = list /\ Nameless(i - 1)) \/ after[i - 1] \in B
    BY <1>3
  <2>7. QED
    BY <2>3, <2>4, <2>5, <2>6
<1>4. round[0] \in Good /\ \A i \in 1 .. n : round[i - 1] \in Good => round[i] \in Good
  <2>1. 0 \in Good /\ round[0] = 0
    BY <1>1, <1>2
  <2>2. \A i \in 1 .. n : round[i - 1] = i - 1 /\ round[i] = i
    BY <1>2
  <2> HIDE DEF Good, round
  <2>3. QED
    BY <1>3, <2>1, <2>2
<1>5. n \in Good
  <2>1. round[n] \in Good /\ n \in 0 .. n
    <3> HIDE DEF Good, round, n
    <3>1. n \in 0 .. n
      BY <1>2
    <3>2. QED
      BY <1>2, <1>4, <3>1, LoopKeeps
  <2>2. QED
    BY <2>1
<1>6. QED
  BY <1>1, <1>5

(* Any description leaves names, and all but the last interface, alone.     *)
Renewed(X, old, m) ==
  {x \in Seq(X) : /\ Len(x) >= m /\ \A i \in 1 .. m : x[i].name = old[i].name
                  /\ \A i \in 1 .. m - 1 : x[i] = old[i]}

(* An entry changes no name, and of the first m only the last interface.    *)
LEMMA HwEntryRenews ==
  ASSUME NEW N, NEW A, NEW I, NEW m \in Nat, NEW old,
         NEW list \in Renewed(Interface(N, A, I), old, m), NEW e \in HwEntries(N, A, I)
  PROVE  HwEntry(list, e) \in Renewed(Interface(N, A, I), old, m)
<1>1. /\ list \in Seq(Interface(N, A, I)) /\ Len(list) >= m /\ Len(list) \in Nat
      /\ \A i \in 1 .. m : list[i].name = old[i].name
      /\ \A i \in 1 .. m - 1 : list[i] = old[i]
  BY DEF Renewed
<1>2. HwEntry(list, e) \in Seq(Interface(N, A, I))
  BY <1>1, HwEntryType
<1>3. CASE e.key = "HWINTERFACE"
  <2>1. PICK x : HwEntry(list, e) = Append(list, x)
    BY <1>3 DEF HwEntry, AddInterface
  <2>2. Len(Append(list, x)) = Len(list) + 1
        /\ \A i \in 1 .. Len(list) : Append(list, x)[i] = list[i]
    BY <1>1
  <2>3. /\ Len(HwEntry(list, e)) >= m
        /\ \A i \in 1 .. m : HwEntry(list, e)[i] = list[i]
    BY <1>1, <2>1, <2>2
  <2>4. QED
    BY <1>1, <1>2, <2>3 DEF Renewed
<1>4. CASE e.key # "HWINTERFACE"
  <2>1. \/ HwEntry(list, e) = list
        \/ \E v : HwEntry(list, e) = [list EXCEPT ![Len(list)].addr = v]
        \/ \E v : HwEntry(list, e) = [list EXCEPT ![Len(list)].ip = v]
    <3>1. CASE e.key = "HWETHER"
      BY <1>4, <3>1 DEF HwEntry, SetEtherAddr
    <3>2. CASE e.key = "HWETHIP"
      BY <1>4, <3>2 DEF HwEntry, SetEtherIp
    <3>3. QED
      BY <1>4, <3>1, <3>2 DEF HwEntry
  <2>2. ASSUME NEW x
        PROVE  /\ Len([list EXCEPT ![Len(list)] = x]) = Len(list)
               /\ \A i \in 1 .. Len(list) - 1 : [list EXCEPT ![Len(list)] = x][i] = list[i]
               /\ Len(list) # 0 => [list EXCEPT ![Len(list)] = x][Len(list)] = x
    BY <1>1
  <2>3. ASSUME NEW v, Len(list) # 0
        PROVE  /\ [list[Len(list)] EXCEPT !.addr = v].name = list[Len(list)].name
               /\ [list[Len(list)] EXCEPT !.ip = v].name = list[Len(list)].name
    <3>1. list[Len(list)] \in Interface(N, A, I)
      BY <1>1, <2>3
    <3>2. QED
      BY <3>1 DEF Interface
  <2>4. ASSUME NEW x, HwEntry(list, e) = [list EXCEPT ![Len(list)] = x],
               Len(list) # 0 => x.name = list[Len(list)].name
        PROVE  HwEntry(list, e) \in Renewed(Interface(N, A, I), old, m)
    <3>1. /\ Len(HwEntry(list, e)) = Len(list)
          /\ \A i \in 1 .. Len(list) - 1 : HwEntry(list, e)[i] = list[i]
          /\ Len(list) # 0 => HwEntry(list, e)[Len(list)] = x
      BY <2>2, <2>4
    <3>2. \A i \in 1 .. m - 1 : HwEntry(list, e)[i] = old[i]
      BY <1>1, <3>1
    <3>3. ASSUME NEW i \in 1 .. m PROVE HwEntry(list, e)[i].name = old[i].name
      <4>1. CASE i < Len(list)
        BY <1>1, <3>1, <4>1
      <4>2. CASE i = Len(list)
        BY <1>1, <2>4, <3>1, <4>2
      <4>3. QED
        BY <1>1, <4>1, <4>2
    <3>4. QED
      BY <1>1, <1>2, <3>1, <3>2, <3>3 DEF Renewed
  <2>5. CASE HwEntry(list, e) = list
    BY <2>5
  <2>6. ASSUME NEW v, HwEntry(list, e) = [list EXCEPT ![Len(list)].addr = v]
        PROVE  HwEntry(list, e) \in Renewed(Interface(N, A, I), old, m)
    <3>1. PICK x : x = [list[Len(list)] EXCEPT !.addr = v]
      OBVIOUS
    <3>2. HwEntry(list, e) = [list EXCEPT ![Len(list)] = x]
      BY <2>6, <3>1
    <3>3. QED
      BY <2>3, <2>4, <3>1, <3>2
  <2>7. ASSUME NEW v, HwEntry(list, e) = [list EXCEPT ![Len(list)].ip = v]
        PROVE  HwEntry(list, e) \in Renewed(Interface(N, A, I), old, m)
    <3>1. PICK x : x = [list[Len(list)] EXCEPT !.ip = v]
      OBVIOUS
    <3>2. HwEntry(list, e) = [list EXCEPT ![Len(list)] = x]
      BY <2>7, <3>1
    <3>3. QED
      BY <2>3, <2>4, <3>1, <3>2
  <2>8. QED
    BY <2>1, <2>5, <2>6, <2>7
<1>5. QED
  BY <1>3, <1>4

(* Nor does a whole description, whatever it begins with.                   *)
LEMMA HandleHwinfoRenews ==
  ASSUME NEW N, NEW A, NEW I, NEW list \in Seq(Interface(N, A, I)),
         NEW entries \in Seq(HwEntries(N, A, I))
  PROVE  HandleHwinfo(list, entries) \in Renewed(Interface(N, A, I), list, Len(list))
<1> DEFINE n == Len(entries)
           m == Len(list)
           B == Renewed(Interface(N, A, I), list, m)
<1>1. PICK after :
           /\ after[0] = list
           /\ \A i \in 1 .. n : after[i] = HwEntry(after[i - 1], entries[i])
           /\ HandleHwinfo(list, entries) = after[n]
  BY HwinfoRounds
<1>2. n \in Nat /\ m \in Nat /\ \A i \in 1 .. n : entries[i] \in HwEntries(N, A, I)
  OBVIOUS
<1>3. after[0] \in B
  BY <1>1, <1>2 DEF Renewed
<1>4. ASSUME NEW i \in 1 .. n, after[i - 1] \in B PROVE after[i] \in B
  <2>1. after[i] = HwEntry(after[i - 1], entries[i]) /\ entries[i] \in HwEntries(N, A, I)
    BY <1>1, <1>2
  <2> HIDE DEF n, m
  <2>2. QED
    BY <1>2, <1>4, <2>1, HwEntryRenews
<1>5. n \in 0 .. n
  BY <1>2
<1> HIDE DEF n, B
<1>6. after[n] \in B
  BY <1>2, <1>3, <1>4, <1>5, LoopKeeps
<1>7. QED
  BY <1>1, <1>6 DEF B

------------------------------------------------------------------------------
(* The checksum                                                             *)

(* Folding ends with the residue modulo WORD - 1, from 1 on: in one's       *)
(* complement 0 is only reached from 0.                                     *)
Residue(s) == IF s = 0 THEN 0 ELSE 1 + ((s - 1) % (WORD - 1))

(* A residue is a word, and is 0 for the sum 0 only.                        *)
LEMMA ResidueType ==
  ASSUME NEW s \in Nat
  PROVE  Residue(s) \in 0 .. WORD - 1 /\ (s # 0 => Residue(s) # 0)
<1>1. CASE s = 0
  BY <1>1, WordAssumption DEF Residue
<1>2. CASE s # 0
  <2>1. s - 1 \in Nat /\ WORD - 1 \in Nat /\ WORD - 1 > 0
    BY <1>2, WordAssumption
  <2>2. (s - 1) % (WORD - 1) \in 0 .. WORD - 1 - 1
    BY <2>1, DivMod
  <2>3. QED
    BY <1>2, <2>1, <2>2 DEF Residue
<1>3. QED
  BY <1>1, <1>2

(* One round of folding makes the sum smaller and keeps its residue.        *)
LEMMA FoldRound ==
  ASSUME NEW s \in Nat, s >= WORD
  PROVE  LET t == (s \div WORD) + (s % WORD)
         IN t \in Nat /\ t < s /\ Residue(t) = Residue(s)
<1> DEFINE q == s \div WORD
           r == s % WORD
<1>1. WORD \in Nat /\ WORD > 1
  BY WordAssumption
<1>2. q \in Nat /\ r \in 0 .. WORD - 1 /\ s = WORD * q + r
  BY <1>1, DivMod
<1> HIDE DEF q, r
<1>3. q # 0
  BY <1>1, <1>2
<1> DEFINE m == WORD - 1
<1>4. m \in Nat /\ m > 0 /\ WORD = m + 1
  BY <1>1
<1> HIDE DEF m
<1>5. q * m \in Nat /\ q * m > 0
  BY <1>2, <1>3, <1>4
<1>6. WORD * q = q * m + q
  BY <1>2, <1>4
<1>7. s = q + r + q * m
  BY <1>1, <1>2, <1>5, <1>6
<1>8. q + r - 1 \in Nat /\ s - 1 = (q + r - 1) + q * m /\ q + r < s
  BY <1>1, <1>2, <1>3, <1>5, <1>7
<1>9. (s - 1) % m = (q + r - 1) % m
  <2> DEFINE u == q + r - 1
  <2>1. u \in Nat /\ s - 1 = u + q * m
    BY <1>8
  <2> HIDE DEF u
  <2>2. (u + q * m) % m = u % m
    BY <1>2, <1>4, <2>1, ModShift
  <2>3. QED
    BY <2>1, <2>2 DEF u
<1>10. Residue(q + r) = Residue(s)
  <2>1. s # 0 /\ q + r # 0 /\ q + r \in Nat
    BY <1>1, <1>2, <1>8
  <2>2. ASSUME NEW x \in Nat, x # 0 PROVE Residue(x) = 1 + ((x - 1) % m)
    BY <2>2 DEF Residue, m
  <2>3. Residue(q + r) = 1 + ((q + r - 1) % m)
    BY <1>2, <2>1, <2>2
  <2>4. Residue(s) = 1 + ((s - 1) % m)
    BY <2>1, <2>2
  <2>5. QED
    BY <1>9, <2>3, <2>4
<1>11. QED
  BY <1>1, <1>2, <1>8, <1>10 DEF q, r

(* So that is what folding computes, of a sum of any size.                  *)
LEMMA FoldSumIs ==
  \A s \in Nat : FoldSum[s] = Residue(s)
<1> DEFINE Folds(f) ==
             [s \in Nat |-> IF s < WORD THEN s ELSE f[(s \div WORD) + (s % WORD)]]
           g == [s \in Nat |-> Residue(s)]
<1>1. WORD \in Nat /\ WORD > 1
  BY WordAssumption
<1>2. g = Folds(g)
  <2>1. ASSUME NEW s \in Nat, s < WORD PROVE Residue(s) = s
    <3>1. CASE s = 0
      BY <3>1 DEF Residue
    <3>2. CASE s # 0
      <4>1. s - 1 \in 0 .. WORD - 1 - 1 /\ WORD - 1 \in Nat /\ WORD - 1 > 0
        BY <1>1, <2>1, <3>2
      <4>2. (s - 1) % (WORD - 1) = s - 1
        BY <4>1, RemainderIs
      <4>3. QED
        BY <3>2, <4>2 DEF Residue
    <3>3. QED
      BY <3>1, <3>2
  <2>2. ASSUME NEW s \in Nat, ~(s < WORD)
        PROVE  (s \div WORD) + (s % WORD) \in Nat
               /\ Residue(s) = g[(s \div WORD) + (s % WORD)]
    <3>1. s >= WORD
      BY <1>1, <2>2
    <3>2. QED
      BY <3>1, FoldRound
  <2>3. QED
    BY <2>1, <2>2
<1>3. FoldSum = Folds(FoldSum)
  <2>1. FoldSum = CHOOSE f : f = Folds(f)
    BY DEF FoldSum
  <2> HIDE DEF g
  <2>2. QED
    BY <1>2, <2>1
<1> DEFINE Wrong == {s \in Nat : FoldSum[s] # Residue(s)}
<1>4. SUFFICES ASSUME Wrong # {} PROVE FALSE
  OBVIOUS
<1>5. PICK b \in Wrong : \A s \in Wrong : b =< s
  <2>1. Wrong \subseteq Nat
    OBVIOUS
  <2> HIDE DEF Wrong
  <2>2. QED
    BY <1>4, <2>1, LeastNat
<1>6. CASE b < WORD
  <2>1. FoldSum[b] = b
    BY <1>3, <1>5, <1>6
  <2>2. g[b] = b
    BY <1>2, <1>5, <1>6
  <2>3. QED
    BY <1>5, <2>1, <2>2
<1>7. CASE ~(b < WORD)
  <2> DEFINE t == (b \div WORD) + (b % WORD)
  <2>1. b >= WORD
    BY <1>1, <1>5, <1>7
  <2>2. t \in Nat /\ t < b /\ Residue(t) = Residue(b)
    BY <1>5, <2>1, FoldRound
  <2>3. FoldSum[b] = FoldSum[t]
    BY <1>3, <1>5, <1>7
  <2>4. t \notin Wrong
    <3> HIDE DEF t
    <3>1. QED
      BY <1>5, <2>2
  <2>5. QED
    BY <1>5, <2>2, <2>3, <2>4
<1>8. QED
  BY <1>6, <1>7

(* The rounds of the loop that adds up words.                               *)
LEMMA WordSumRounds ==
  ASSUME NEW ws \in Seq(Nat)
  PROVE  \E sum : /\ sum[0] = 0
                  /\ \A i \in 1 .. Len(ws) : sum[i] = sum[i - 1] + ws[i]
                  /\ WordSum(ws) = sum[Len(ws)]
<1> DEFINE n == Len(ws)
           Rounds(f) == [i \in 0 .. n |-> IF i = 0 THEN 0 ELSE f[i - 1] + ws[i]]
           sum == CHOOSE f : f = Rounds(f)
           step == [p \in (1 .. n) \X Nat |-> p[2] + ws[p[1]]]
<1>1. n \in Nat /\ \A i \in 1 .. n : ws[i] \in Nat
  OBVIOUS
<1>2. step \in [(1 .. n) \X Nat -> Nat]
  BY <1>1
<1>3. PICK f \in Loop(n, Nat, 0, step) : TRUE
  <2>1. 0 \in Nat /\ n \in Nat
    OBVIOUS
  <2> HIDE DEF n, step
  <2>2. QED
    BY <1>2, <2>1, LoopExists
<1>4. f = Rounds(f)
  <2>1. f \in [0 .. n -> Nat] /\ f[0] = 0
    BY <1>3 DEF Loop
  <2>2. ASSUME NEW i \in 1 .. n
        PROVE  i \in 0 .. n /\ i # 0 /\ f[i] = f[i - 1] + ws[i]
    <3>1. f[i] = step[<<i, f[i - 1]>>] /\ i \in 1 .. n
      BY <1>3 DEF Loop
    <3>2. i - 1 \in 0 .. n /\ i \in 0 .. n /\ i # 0
      BY <1>1, <2>2
    <3>3. f[i - 1] \in Nat
      BY <2>1, <3>2, Zenon
    <3>4. QED
      BY <3>1, <3>2, <3>3
  <2>3. \A i \in 0 .. n : i # 0 => i \in 1 .. n
    BY <1>1
  <2> HIDE DEF n
  <2>4. QED
    BY <2>1, <2>2, <2>3
<1>5. sum = Rounds(sum)
  BY <1>4
<1>6. WordSum(ws) = sum[n]
  BY DEF WordSum
<1> HIDE DEF sum, step
<1>7. sum[0] = 0
  BY <1>1, <1>5
<1>8. ASSUME NEW i \in 1 .. n PROVE sum[i] = sum[i - 1] + ws[i]
  <2>1. i \in 0 .. n /\ i # 0
    BY <1>1
  <2>2. QED
    BY <1>5, <2>1
<1>9. QED
  BY <1>6, <1>7, <1>8

(* A sum of words is a natural number.                                      *)
LEMMA WordSumType ==
  ASSUME NEW ws \in Seq(Nat)
  PROVE  WordSum(ws) \in Nat
<1>1. PICK sum : /\ sum[0] = 0
                 /\ \A i \in 1 .. Len(ws) : sum[i] = sum[i - 1] + ws[i]
                 /\ WordSum(ws) = sum[Len(ws)]
  BY WordSumRounds
<1>2. Len(ws) \in Nat /\ \A i \in 1 .. Len(ws) : ws[i] \in Nat
  OBVIOUS
<1>3. \A i \in 1 .. Len(ws) : sum[i - 1] \in Nat => sum[i] \in Nat
  BY <1>1, <1>2
<1>4. \A i \in 0 .. Len(ws) : sum[i] \in Nat
  <2>1. sum[0] \in Nat
    BY <1>1
  <2>2. QED
    BY <1>2, <1>3, <2>1, LoopKeeps, Zenon
<1>5. QED
  BY <1>1, <1>2, <1>4

(* The sum of five words or six.                                            *)
LEMMA WordSumIs ==
  ASSUME NEW ws \in Seq(Nat), Len(ws) \in {5, 6}
  PROVE  /\ Len(ws) = 5 => WordSum(ws) = ws[1] + ws[2] + ws[3] + ws[4] + ws[5]
         /\ Len(ws) = 6 => WordSum(ws) = ws[1] + ws[2] + ws[3] + ws[4] + ws[5] + ws[6]
<1> DEFINE n == Len(ws)
<1>1. PICK sum : /\ sum[0] = 0
                 /\ \A i \in 1 .. n : sum[i] = sum[i - 1] + ws[i]
                 /\ WordSum(ws) = sum[n]
  BY WordSumRounds
<1>2. n \in {5, 6} /\ \A i \in 1 .. n : ws[i] \in Nat
  OBVIOUS
<1> HIDE DEF n
<1>3. 1 \in 1 .. n /\ 2 \in 1 .. n /\ 3 \in 1 .. n /\ 4 \in 1 .. n /\ 5 \in 1 .. n
  BY <1>2
<1>4. /\ sum[1] = 0 + ws[1] /\ sum[2] = sum[1] + ws[2] /\ sum[3] = sum[2] + ws[3]
      /\ sum[4] = sum[3] + ws[4] /\ sum[5] = sum[4] + ws[5]
  BY <1>1, <1>3
<1>5. sum[5] = ws[1] + ws[2] + ws[3] + ws[4] + ws[5]
  <2>1. ws[1] \in Nat /\ ws[2] \in Nat /\ ws[3] \in Nat /\ ws[4] \in Nat /\ ws[5] \in Nat
    BY <1>2, <1>3
  <2>2. 0 + ws[1] = ws[1]
    BY <2>1
  <2>3. QED
    BY <1>4, <2>2, Zenon
<1>6. CASE n = 5
  BY <1>1, <1>5, <1>6 DEF n
<1>7. CASE n = 6
  <2>1. 6 \in 1 .. n
    BY <1>7
  <2>2. sum[6] = sum[5] + ws[6]
    BY <1>1, <2>1
  <2>3. QED
    BY <1>1, <1>5, <1>7, <2>2 DEF n
<1>8. QED
  BY <1>2, <1>6, <1>7

(* A checksum is a word.                                                    *)
LEMMA CksumType ==
  ASSUME NEW ws \in Seq(Nat)
  PROVE  Cksum(ws) \in 0 .. WORD - 1
<1>1. FoldSum[WordSum(ws)] \in 0 .. WORD - 1
  BY WordSumType, FoldSumIs, ResidueType
<1>2. QED
  BY <1>1, WordAssumption DEF Cksum

(* The words of a whole header, in total, apart from the checksum.          *)
Others(h) == h.hl + (2 * h.ttl + h.p) + h.src + h.dst + (IF h.hl = 6 THEN h.opt ELSE 0)

(* The six words of a header.                                               *)
LEMMA AllType ==
  ASSUME NEW h \in Header
  PROVE  /\ All(h) \in Seq(Nat) /\ Len(All(h)) = 6 /\ h.hl \in 0 .. 6
         /\ All(h)[1] = h.hl /\ All(h)[2] = 2 * h.ttl + h.p /\ All(h)[3] = h.sum
         /\ All(h)[4] = h.src /\ All(h)[5] = h.dst /\ All(h)[6] = h.opt
<1>1. /\ h.hl \in Nat /\ h.ttl \in Nat /\ h.p \in Nat /\ h.src \in Nat
      /\ h.dst \in Nat /\ h.opt \in Nat /\ h.sum \in Nat /\ h.hl \in 0 .. 6
  BY WordAssumption DEF Header, ICMP, UDP
<1>2. 2 * h.ttl + h.p \in Nat
  BY <1>1
<1>3. QED
  BY <1>1, <1>2 DEF All

(* The first k of them.                                                     *)
LEMMA FirstWords ==
  ASSUME NEW h \in Header, NEW k \in 0 .. 6
  PROVE  /\ SubSeq(All(h), 1, k) \in Seq(Nat) /\ Len(SubSeq(All(h), 1, k)) = k
         /\ \A i \in 1 .. k : SubSeq(All(h), 1, k)[i] = All(h)[i]
<1>1. PICK w \in Seq(Nat) : w = All(h) /\ Len(w) = 6
  BY AllType
<1>2. ASSUME NEW i \in 1 .. k PROVE w[i] \in Nat
  <2>1. i \in 1 .. Len(w)
    BY <1>1
  <2>2. QED
    BY <2>1
<1> DEFINE u == SubSeq(w, 1, k)
<1>3. /\ u \in Seq(Nat) /\ Len(u) = (IF 1 <= k THEN k - 1 + 1 ELSE 0)
      /\ \A i \in 1 .. k - 1 + 1 : u[i] = w[1 + i - 1]
  BY <1>2, SubSeqProperties
<1> HIDE DEF u
<1>4. u \in Seq(Nat) /\ Len(u) = k /\ \A i \in 1 .. k : u[i] = w[i]
  BY <1>3
<1>5. QED
  BY <1>1, <1>4 DEF u

(* A header's words; with five of them the checksum is one of the terms.    *)
LEMMA WordsType ==
  ASSUME NEW h \in Header
  PROVE  /\ Words(h) \in Seq(Nat)
         /\ h.hl >= 5 => /\ Others(h) \in Nat /\ h.sum \in Nat
                         /\ WordSum(Words(h)) = Others(h) + h.sum
<1>1. /\ h.hl \in 0 .. 6 /\ h.ttl \in Nat /\ h.p \in Nat /\ h.src \in Nat
      /\ h.dst \in Nat /\ h.opt \in Nat /\ h.sum \in Nat
  BY WordAssumption DEF Header, ICMP, UDP
<1>2. Covered(h.hl) \in 0 .. 6 /\ (h.hl >= 5 => Covered(h.hl) = h.hl)
  BY <1>1 DEF Covered
<1>3. Words(h) \in Seq(Nat)
  BY <1>2, FirstWords DEF Words
<1>6. 2 * h.ttl + h.p \in Nat
  BY <1>1
<1>7. Others(h) \in Nat
  BY <1>1, <1>6 DEF Others
<1>8. ASSUME NEW t \in Nat
      PROVE  /\ h.hl + t + h.sum + h.src + h.dst = h.hl + t + h.src + h.dst + 0 + h.sum
             /\ h.hl + t + h.sum + h.src + h.dst + h.opt
                  = h.hl + t + h.src + h.dst + h.opt + h.sum
  BY <1>1
<1>4. ASSUME h.hl >= 5
      PROVE  /\ Others(h) \in Nat /\ h.sum \in Nat
             /\ WordSum(Words(h)) = Others(h) + h.sum
  <2>1. h.hl \in {5, 6} /\ h.hl \in 0 .. 6
    BY <1>1, <1>4
  <2>2. PICK ws \in Seq(Nat) : ws = Words(h)
    BY <1>3
  <2>3. Len(ws) = h.hl /\ \A i \in 1 .. h.hl : ws[i] = All(h)[i]
    BY <1>2, <1>4, <2>2, FirstWords DEF Words
  <2>4. /\ ws[1] = h.hl /\ ws[2] = 2 * h.ttl + h.p /\ ws[3] = h.sum /\ ws[4] = h.src
        /\ ws[5] = h.dst
    <3>1. 1 \in 1 .. h.hl /\ 2 \in 1 .. h.hl /\ 3 \in 1 .. h.hl /\ 4 \in 1 .. h.hl
          /\ 5 \in 1 .. h.hl
      BY <2>1
    <3>2. QED
      BY <2>3, <3>1, AllType
  <2>5. h.hl = 6 => ws[6] = h.opt
    <3>1. h.hl = 6 => 6 \in 1 .. h.hl
      OBVIOUS
    <3>2. QED
      BY <2>3, <3>1, AllType
  <2>6. /\ h.hl = 5 => WordSum(ws) = ws[1] + ws[2] + ws[3] + ws[4] + ws[5]
        /\ h.hl = 6 => WordSum(ws) = ws[1] + ws[2] + ws[3] + ws[4] + ws[5] + ws[6]
    BY <2>1, <2>3, WordSumIs
  <2>9. CASE h.hl = 5
    <3>1. Others(h) = h.hl + (2 * h.ttl + h.p) + h.src + h.dst + 0
      BY <2>9 DEF Others
    <3>2. WordSum(ws) = h.hl + (2 * h.ttl + h.p) + h.sum + h.src + h.dst
      BY <2>4, <2>6, <2>9
    <3>3. WordSum(ws) = Others(h) + h.sum
      BY <1>6, <1>8, <3>1, <3>2, Zenon
    <3>4. QED
      BY <1>1, <1>7, <2>2, <3>3, Zenon
  <2>10. CASE h.hl = 6
    <3>1. Others(h) = h.hl + (2 * h.ttl + h.p) + h.src + h.dst + h.opt
      BY <2>10 DEF Others
    <3>2. WordSum(ws) = h.hl + (2 * h.ttl + h.p) + h.sum + h.src + h.dst + h.opt
      BY <2>4, <2>5, <2>6, <2>10
    <3>3. WordSum(ws) = Others(h) + h.sum
      BY <1>6, <1>8, <3>1, <3>2, Zenon
    <3>4. QED
      BY <1>1, <1>7, <2>2, <3>3, Zenon
  <2>11. QED
    BY <2>1, <2>9, <2>10
<1>5. QED
  BY <1>3, <1>4

(* A sum and its checksum add up to all ones.                               *)
LEMMA Complement ==
  ASSUME NEW t \in Nat
  PROVE  (t + (WORD - 1 - Residue(t))) % (WORD - 1) = 0
<1> DEFINE m == WORD - 1
<1>1. m \in Nat /\ m > 0
  BY WordAssumption
<1>2. CASE t = 0
  <2>1. t + (m - Residue(t)) = 1 * m + 0
    BY <1>1, <1>2 DEF Residue
  <2>2. m % m = 0
    BY <1>1, RemainderIs
  <2>3. t + (m - Residue(t)) = m
    BY <1>1, <2>1
  <2>4. QED
    BY <2>2, <2>3
<1>3. CASE t # 0
  <2> DEFINE u == t - 1
             k == u \div m
  <2>1. u \in Nat
    BY <1>3
  <2> HIDE DEF u
  <2>2. k \in Nat /\ u % m \in Nat /\ u = m * k + (u % m)
    BY <1>1, <2>1, DivMod
  <2>3. Residue(t) = 1 + (u % m)
    BY <1>3 DEF Residue, u
  <2> HIDE DEF k, m
  <2>4. m * k \in Nat /\ (k + 1) * m = m * k + m /\ k + 1 \in Nat
    BY <1>1, <2>2
  <2>5. t + (m - Residue(t)) = (k + 1) * m + 0
    BY <1>1, <2>1, <2>2, <2>3, <2>4 DEF u
  <2>6. t + (m - Residue(t)) \in Nat
    BY <1>1, <2>4, <2>5
  <2>7. (t + (m - Residue(t))) % m = 0
    BY <1>1, <2>4, <2>5, <2>6, RemainderIs
  <2>8. QED
    BY <2>7 DEF m
<1>4. QED
  BY <1>2, <1>3

(* A header that sums to its other words alone gets the checksum that makes *)
(* it valid.                                                                *)
LEMMA SumMakesValid ==
  ASSUME NEW h \in Header, h.hl >= 5, NEW ws \in Seq(Nat), WordSum(ws) = Others(h),
         NEW r, r = [h EXCEPT !.sum = Cksum(ws)]
  PROVE  ValidHeader(r)
<1>1. Cksum(ws) \in 0 .. WORD - 1
  BY CksumType
<1>2. r \in Header /\ r.sum = Cksum(ws) /\ r.hl >= 5 /\ Others(r) = Others(h)
  BY <1>1 DEF Header, Others
<1>3. Others(h) \in Nat
  BY WordsType
<1>4. Cksum(ws) = WORD - 1 - Residue(Others(h))
  BY <1>3, FoldSumIs DEF Cksum
<1>5. WordSum(Words(r)) = Others(h) + (WORD - 1 - Residue(Others(h)))
  <2>1. WordSum(Words(r)) = Others(r) + r.sum
    BY <1>2, WordsType
  <2>2. QED
    BY <1>2, <1>4, <2>1
<1>6. QED
  BY <1>3, <1>5, Complement DEF ValidHeader

(* WithSum makes any whole header valid.                                    *)
LEMMA WithSumValid ==
  ASSUME NEW h \in Header
  PROVE  /\ WithSum(h) \in Header /\ WithSum(h).hl = h.hl
         /\ h.hl >= 5 => ValidHeader(WithSum(h))
<1> DEFINE z == [h EXCEPT !.sum = 0]
<1>1. z \in Header /\ z.sum = 0 /\ z.hl = h.hl /\ Others(z) = Others(h)
  BY WordAssumption DEF Header, Others
<1>2. WithSum(h) = [h EXCEPT !.sum = Cksum(Words(z))]
  BY DEF WithSum
<1> HIDE DEF z
<1>3. Words(z) \in Seq(Nat)
  BY <1>1, WordsType
<1>4. WithSum(h) \in Header /\ WithSum(h).hl = h.hl
  BY <1>2, <1>3, CksumType DEF Header
<1>5. ASSUME h.hl >= 5 PROVE ValidHeader(WithSum(h))
  <2>1. Others(z) \in Nat /\ WordSum(Words(z)) = Others(z) + z.sum
    BY <1>1, <1>5, WordsType
  <2>2. WordSum(Words(z)) = Others(h)
    BY <1>1, <2>1
  <2>3. QED
    BY <1>2, <1>3, <1>5, <2>2, SumMakesValid
<1>6. QED
  BY <1>4, <1>5

(* What is forwarded is valid, although its TTL was changed.                *)
LEMMA ForwardedValid ==
  ASSUME NEW h \in Header
  PROVE  /\ Forwarded(h) \in Header
         /\ Forwarded(h).hl >= 5 => ValidHeader(Forwarded(h))
<1> DEFINE d == [h EXCEPT !.ttl = (h.ttl + TTLS - 1) % TTLS]
<1>1. h.ttl \in 0 .. TTLS - 1 /\ TTLS \in Nat /\ TTLS > 0
  BY WordAssumption DEF Header
<1>2. (h.ttl + TTLS - 1) % TTLS \in 0 .. TTLS - 1
  BY <1>1, DivMod
<1>3. d \in Header
  BY <1>2 DEF Header
<1>4. Forwarded(h) = WithSum(d)
  BY DEF Forwarded
<1> HIDE DEF d
<1>5. QED
  BY <1>3, <1>4, WithSumValid

(* So is an answer to an echo request, if the header has no options: the    *)
(* sum is taken over twenty bytes.                                          *)
LEMMA EchoReplyValid ==
  ASSUME NEW h \in Header, NEW junk \in 0 .. WORD - 1
  PROVE  EchoReply(h, junk) \in Header
         /\ (EchoReply(h, junk).hl = 5 => ValidHeader(EchoReply(h, junk)))
<1> DEFINE r == [h EXCEPT !.src = h.dst, !.dst = h.src, !.ttl = ANSWER_TTL,
                          !.opt = junk, !.sum = 0]
           ws == SubSeq(All(r), 1, 5)
<1>1. r \in Header /\ r.sum = 0 /\ r.hl = h.hl
  <2>1. 0 \in 0 .. WORD - 1 /\ ANSWER_TTL \in 0 .. TTLS - 1
    BY WordAssumption
  <2>2. h.src \in 0 .. WORD - 1 /\ h.dst \in 0 .. WORD - 1
    BY DEF Header
  <2>3. QED
    BY <2>1, <2>2 DEF Header
<1>2. EchoReply(h, junk) = [r EXCEPT !.sum = Cksum(ws)]
  BY DEF EchoReply
<1> HIDE DEF r
<1>3. ws \in Seq(Nat)
  BY <1>1, FirstWords
<1>4. [r EXCEPT !.sum = Cksum(ws)] \in Header
  BY <1>1, <1>3, CksumType DEF Header
<1>5. ASSUME [r EXCEPT !.sum = Cksum(ws)].hl = 5
      PROVE  ValidHeader([r EXCEPT !.sum = Cksum(ws)])
  <2>1. r.hl = 5
    BY <1>1, <1>5 DEF Header
  <2>2. ws = Words(r)
    BY <2>1 DEF Words, Covered
  <2>3. WordSum(ws) = Others(r)
    <3>1. Others(r) \in Nat /\ WordSum(Words(r)) = Others(r) + r.sum
      BY <1>1, <2>1, WordsType
    <3>2. r.sum = 0 /\ Others(r) + 0 = Others(r)
      BY <1>1, <3>1
    <3>3. QED
      BY <2>2, <3>1, <3>2, Zenon
  <2>4. r.hl >= 5
    BY <2>1
  <2> HIDE DEF ws
  <2>5. QED
    BY <1>1, <1>3, <2>3, <2>4, SumMakesValid, Zenon
<1>6. QED
  BY <1>2, <1>4, <1>5

(* The header of an answer to a packet for no port is a header.             *)
LEMMA PortUnreachableType ==
  ASSUME NEW h \in Header, NEW own \in (0 .. WORD - 1) \cup {None},
         NEW junk \in 0 .. WORD - 1
  PROVE  PortUnreachable(h, own, junk) \in Header
<1> DEFINE r == [h EXCEPT !.src = IF own = None THEN junk ELSE own, !.dst = h.src,
                          !.ttl = ANSWER_TTL, !.p = ICMP, !.opt = junk, !.sum = junk]
           ws == SubSeq(All(r), 1, 5)
<1>1. r \in Header
  BY WordAssumption DEF Header
<1>2. PortUnreachable(h, own, junk) = [r EXCEPT !.sum = Cksum(ws)]
  BY DEF PortUnreachable
<1> HIDE DEF r
<1>3. ws \in Seq(Nat)
  BY <1>1, FirstWords
<1>4. QED
  BY <1>1, <1>2, <1>3, CksumType DEF Header

------------------------------------------------------------------------------
(* The handshake                                                            *)

(* The router has authenticated itself and opened a topology; for a         *)
(* template it has got a table, too.                                        *)
Opened == {"reply", "accepted", "open"} \subseteq said
Session == Opened /\ (template => "table" \in said)

(* What the place of main says about the messages that were exchanged.      *)
HandInv ==
  /\ stage = "AUTH_STATUS" => "reply" \in said
  /\ stage = "RTABLE" => Opened
  /\ stage = "loop" => Session
  /\ ifs # <<>> \/ out # None => Session

(* A command other than CLOSE is handled where it is waited for.            *)
LEMMA Expected ==
  ASSUME NEW kind, kind # "CLOSE", Expect(kind)
  PROVE  stage = "loop" \/ stage = kind
BY DEF Expect

(* Loading a table leads on, or to an end.                                  *)
LEMMA Loading ==
  ASSUME NEW content, NEW next, Load(content, next)
  PROVE  stage' = next \/ stage' = "failed"
BY DEF Load

(* Steps that exchange nothing and take nothing, and stay or end.           *)
LEMMA Ending ==
  ASSUME HandInv, stage' \in {stage, "failed", "returned", "killed", "overrun"},
         said' = said, template' = template, ifs' = ifs,
         out' = None \/ out' = out
  PROVE  HandInv'
BY DEF HandInv, Session, Opened

(* The handlers of the handshake's own commands.                            *)
LEMMA HandshakeSteps ==
  ASSUME HandInv, AuthRequest \/ AuthStatus \/ NewTable
  PROVE  HandInv'
<1>1. CASE AuthRequest
  BY <1>1, Expected DEF AuthRequest, options, Failure, HandInv, Session, Opened
<1>2. CASE AuthStatus
  <2>1. stage \in {"loop", "AUTH_STATUS"}
    BY <1>2, Expected DEF AuthStatus
  <2>2. template' = template /\ ifs' = ifs /\ out' = None
    BY <1>2 DEF AuthStatus, options
  <2>3. CASE stage = "AUTH_STATUS" /\ said' = said \cup {"accepted", "open"}
    <3>1. \/ template /\ stage' = "RTABLE"
          \/ ~template /\ Load(file, "loop")
          \/ stage' \in {"failed", "killed"}
      BY <1>2, <2>3 DEF AuthStatus, Failure
    <3>2. QED
      BY <3>1, <2>2, <2>3, Loading DEF HandInv, Session, Opened
  <2>4. CASE said' = said /\ stage' \in {stage, "failed", "returned", "killed"}
    BY <2>2, <2>4, Ending
  <2>5. QED
    BY <1>2, <2>1, <2>3, <2>4 DEF AuthStatus, Failure
<1>3. CASE NewTable
  <2>1. stage \in {"loop", "RTABLE"}
    BY <1>3, Expected DEF NewTable
  <2>2. template' = template /\ ifs' = ifs /\ out' = None
    BY <1>3 DEF NewTable, options
  <2>3. CASE said' = said /\ stage' \in {stage, "failed", "returned", "overrun"}
    BY <2>2, <2>3, Ending
  <2>4. CASE stage = "RTABLE" /\ said' = said \cup {"table"} /\ Load(file', "loop")
    BY <2>2, <2>4, Loading DEF HandInv, Session, Opened
  <2>5. QED
    BY <1>3, <2>1, <2>3, <2>4 DEF NewTable, Failure
<1>4. QED
  BY <1>1, <1>2, <1>3

(* Every step keeps the invariant: HWINFO and PACKET are handled in the     *)
(* loop only.                                                               *)
LEMMA HandStep == HandInv /\ [Next]_vars => HandInv'
<1> SUFFICES ASSUME HandInv, [Next]_vars PROVE HandInv'
  OBVIOUS
<1>1. CASE Start
  <2>1. stage' \in {"AUTH_REQUEST", "failed"}
    BY <1>1, Loading DEF Start
  <2>2. UNCHANGED <<said, template, ifs, out>>
    BY <1>1 DEF Start, options
  <2>3. QED
    BY <2>1, <2>2 DEF HandInv, Session, Opened
<1>2. CASE ConnectFails
  BY <1>2, Ending DEF ConnectFails, options
<1>3. CASE Recv \/ RecvFails \/ RefuseLength \/ ReadBehind
  BY <1>3, Ending DEF Recv, RecvFails, RefuseLength, ReadBehind, options, Failure
<1>4. CASE Unexpected \/ Banner \/ Close
  BY <1>4, Ending DEF Unexpected, Banner, Close, options, Failure
<1>5. CASE AuthRequest \/ AuthStatus \/ NewTable
  BY <1>5, HandshakeSteps
<1>6. CASE Hwinfo \/ Packet
  <2>1. stage = "loop"
    BY <1>6, Expected DEF Hwinfo, Packet, Reading, Handshake, Expect
  <2>2. UNCHANGED <<said, template>>
    BY <1>6 DEF Hwinfo, Packet, options
  <2>3. Session'
    BY <2>1, <2>2 DEF HandInv, Session, Opened
  <2>4. QED
    BY <2>3 DEF HandInv, Session, Opened
<1>7. CASE HangUp \/ \E c \in Commands : SendCommand(c)
  BY <1>7, Ending DEF HangUp, SendCommand, options
<1>8. CASE UNCHANGED vars
  BY <1>8, Ending DEF vars, options
<1>9. QED
  BY <1>1, <1>2, <1>3, <1>4, <1>5, <1>6, <1>7, <1>8 DEF Next, Router

(* Whatever the server sends and in whatever order: no interface is taken   *)
(* and no frame sent before the router is authenticated and has opened its  *)
(* topology, and got the table that a template needs.                       *)
THEOREM Handshaken == Spec => []HandshakeFirst
<1>1. Init => HandInv
  BY DEF Init, HandInv
<1>2. HandInv => HandshakeFirst
  BY DEF HandInv, HandshakeFirst, Session, Opened
<1>3. QED
  BY <1>1, <1>2, HandStep, PTL DEF Spec

------------------------------------------------------------------------------
(* What a frame that is sent looks like                                     *)

(* The interface it leaves by, its source, and the checksum of its header.  *)
Sendable(f) ==
  /\ f \in Out
  /\ \E i \in DOMAIN ifs : ifs[i].name = f.iface /\ ifs[i].addr = f.shost
  /\ /\ f.ip # None
     /\ (f.kind = "forward" /\ f.ip.hl >= 5) \/ (f.kind = "echo" /\ f.ip.hl = 5)
     => ValidHeader(f.ip)

(* What FillAndSendPkt and the senders of ICMP may have done.               *)
Handled ==
  /\ out' = None \/ Sendable(out')
  /\ stage' \in {"loop"} \cup Stopped

(* TypeOK and the assumptions, as far as they are about interfaces.         *)
LEMMA Lists ==
  ASSUME TypeOK
  PROVE  /\ None \notin Interface(Ifaces, Macs, 0 .. WORD - 1) /\ None \notin Ifaces
         /\ ifs \in Seq(Interface(Ifaces, Macs, 0 .. WORD - 1))
         /\ \A i \in DOMAIN ifs :
              /\ ifs[i].name \in Ifaces /\ ifs[i].addr \in Macs \cup {None}
              /\ ifs[i].ip \in (0 .. WORD - 1) \cup {None}
<1>1. ifs \in Seq(Interface(Ifaces, Macs, 0 .. WORD - 1))
  BY DEF TypeOK
<1>2. \A i \in DOMAIN ifs : ifs[i] \in Interface(Ifaces, Macs, 0 .. WORD - 1)
  BY <1>1
<1>3. QED
  BY <1>1, <1>2, SessionAssumption DEF Interface

(* The interface that a name stands for.                                    *)
LEMMA Named ==
  ASSUME TypeOK, NEW name, GetInterface(ifs, name) # None
  PROVE  \E i \in DOMAIN ifs : ifs[i] = GetInterface(ifs, name) /\ ifs[i].name = name
BY Lists, GetInterfaceFinds

(* sr_send_packet sends what has the source of its interface.               *)
LEMMA Sending ==
  ASSUME TypeOK, stage = "loop", NEW f, SendPacket(f),
         \A i \in DOMAIN ifs :
           ifs[i].name = f.iface /\ ifs[i].addr = f.shost => Sendable(f)
  PROVE  Handled /\ stage' # "badroute"
<1>1. CASE out' = None
  BY <1>1 DEF SendPacket, Handled, Stopped
<1>2. CASE out' # None
  <2>1. GetInterface(ifs, f.iface) # None /\ GetInterface(ifs, f.iface).addr = f.shost
        /\ out' = f /\ stage' = stage
    BY <1>2 DEF SendPacket
  <2>2. PICK i \in DOMAIN ifs : ifs[i] = GetInterface(ifs, f.iface) /\ ifs[i].name = f.iface
    BY <2>1, Named
  <2>3. Sendable(f)
    BY <2>1, <2>2
  <2>4. QED
    BY <2>1, <2>3 DEF Handled
<1>3. QED
  BY <1>1, <1>2

(* A packet on its way by a route, and the ARP request for its gateway.     *)
LEMMA Filling ==
  ASSUME TypeOK, stage = "loop", NEW dst, NEW kind \in {"forward", "arp"},
         NEW ip \in Header \cup {None},
         ip # None => kind = "forward" /\ (ip.hl >= 5 => ValidHeader(ip)),
         FillAndSendPkt(dst, kind, ip)
  PROVE  /\ Handled
         /\ stage' = "badroute" =>
              dst \in Hosts /\ table[dst] # None /\ GetInterface(ifs, table[dst]) = None
<1> DEFINE route == IF dst \in Hosts THEN table[dst] ELSE None
           iface == GetInterface(ifs, route)
           Packed(k, h) == [kind |-> k, iface |-> route, shost |-> iface.addr, ip |-> h]
<1>1. CASE route = None
  BY <1>1 DEF FillAndSendPkt, Crash, Handled, Stopped
<1>2. CASE route # None /\ iface = None
  <2>1. \/ Crash("badroute") \/ Crash("noentry") \/ Crash("nopacket")
        \/ out' = None /\ UNCHANGED stage
    BY <1>2 DEF FillAndSendPkt
  <2>2. dst \in Hosts /\ table[dst] # None /\ GetInterface(ifs, table[dst]) = None
    BY <1>2
  <2>3. QED
    BY <2>1, <2>2 DEF Crash, Handled, Stopped
<1>3. CASE route # None /\ iface # None
  <2>1. ASSUME NEW k \in {"forward", "arp"}, NEW h \in Header \cup {None},
               SendPacket(Packed(k, h)),
               h # None => k = "forward" /\ (h.hl >= 5 => ValidHeader(h))
        PROVE  Handled /\ stage' # "badroute"
    <3>1. PICK i \in DOMAIN ifs : ifs[i] = iface /\ ifs[i].name = route
      BY <1>3, Named
    <3>2. route \in Ifaces /\ iface.addr \in Macs \cup {None}
      BY <3>1, Lists
    <3>3. Sendable(Packed(k, h))
      BY <2>1, <3>1, <3>2 DEF Sendable, Out
    <3>4. QED
      BY <2>1, <3>3, Sending
  <2>2. \/ SendPacket(Packed(kind, ip))
        \/ Crash("noentry") \/ Crash("nopacket")
        \/ kind # "arp" /\ SendPacket(Packed("arp", None))
        \/ out' = None /\ UNCHANGED stage
    BY <1>3 DEF FillAndSendPkt
  <2>3. CASE SendPacket(Packed(kind, ip)) \/ (kind # "arp" /\ SendPacket(Packed("arp", None)))
    BY <2>1, <2>3
  <2>4. CASE Crash("noentry") \/ Crash("nopacket") \/ (out' = None /\ UNCHANGED stage)
    BY <2>4 DEF Crash, Handled, Stopped
  <2>5. QED
    BY <2>2, <2>3, <2>4
<1>4. QED
  BY <1>1, <1>2, <1>3

------------------------------------------------------------------------------
(* VNSPACKET                                                                *)

(* A frame comes by any interface.                                          *)
LEMMA Framing ==
  ASSUME NEW f \in Frame
  PROVE  /\ f.iface \in Ifaces /\ f.dhost \in Macs
         /\ f.type = "ip" => f.ip \in Header
<1>1. f.iface \in Ifaces /\ f.dhost \in Macs
  BY DEF Frame
<1>2. f.type = "ip" => f.ip \in Header
  BY SessionAssumption DEF Frame
<1>3. QED
  BY <1>1, <1>2

(* What leads to the interface of a route and finds none did so because the *)
(* routes were not verified.                                                *)
LEMMA PacketHandled ==
  ASSUME TypeOK, stage = "loop", Packet
  PROVE  /\ Handled
         /\ stage' = "badroute" => ifs = <<>> \/ ~Verified(ifs, table)
<1> SUFFICES ASSUME ~Crash("overrun")
             PROVE  /\ Handled
                    /\ stage' = "badroute" => ifs = <<>> \/ ~Verified(ifs, table)
  BY DEF Crash, Handled, Stopped
<1>1. PICK f \in Frame :
        Assertion(f) \/ Drop(f) \/ Arp(f) \/ Echo(f) \/ Unreachable(f) \/ Forward(f)
  BY DEF Packet
<1>2. \A d \in Hosts : ifs # <<>> /\ table[d] # None /\ GetInterface(ifs, table[d]) = None
                         => ~Verified(ifs, table)
  BY SessionAssumption DEF Verified, TypeOK
<1>3. CASE Assertion(f) \/ Drop(f)
  BY <1>3 DEF Assertion, Drop, Crash, Handled, Stopped
<1>4. CASE Arp(f)
  <2>1. CASE FillAndSendPkt(f.sip, "arp", None)
    <3>1. /\ Handled
          /\ stage' = "badroute" => /\ f.sip \in Hosts /\ table[f.sip] # None
                                    /\ GetInterface(ifs, table[f.sip]) = None
      BY <2>1, Filling
    <3>2. QED
      BY <3>1, <1>2
  <2>2. CASE out' = None /\ UNCHANGED stage
    BY <2>2 DEF Handled
  <2>3. QED
    BY <1>4, <2>1, <2>2 DEF Arp
<1>5. CASE Echo(f)
  <2>2. ASSUME NEW junk \in Junk,
               SendPacket([kind |-> "echo", iface |-> f.iface, shost |-> f.dhost,
                           ip |-> EchoReply(f.ip, junk)])
        PROVE  Handled /\ stage' # "badroute"
    <3> DEFINE r == EchoReply(f.ip, junk)
               g == [kind |-> "echo", iface |-> f.iface, shost |-> f.dhost, ip |-> r]
    <3>1. f.ip \in Header /\ junk \in 0 .. WORD - 1
      BY <1>5, Framing, SessionAssumption DEF Echo, Ip
    <3>2. r \in Header /\ (r.hl = 5 => ValidHeader(r))
      BY <3>1, EchoReplyValid
    <3> HIDE DEF r
    <3>3. g \in Out
      BY <3>2, Framing DEF Out
    <3>4. \A i \in DOMAIN ifs :
            ifs[i].name = g.iface /\ ifs[i].addr = g.shost => Sendable(g)
      BY <3>2, <3>3 DEF Sendable
    <3>5. SendPacket(g)
      BY <2>2 DEF r
    <3> HIDE DEF g
    <3>6. QED
      BY <3>4, <3>5, Sending
  <2>3. QED
    BY <1>5, <2>2 DEF Echo
<1>6. CASE Unreachable(f)
  <2> DEFINE iface == GetInterface(ifs, f.iface)
  <2>1. CASE iface = None
    <3>1. Crash("nulliface")
      BY <1>6, <2>1 DEF Unreachable
    <3>2. QED
      BY <3>1 DEF Crash, Handled, Stopped
  <2>2. CASE iface # None
    <3>1. PICK junk \in Junk :
            SendPacket([kind |-> "unreachable", iface |-> f.iface, shost |-> iface.addr,
                        ip |-> PortUnreachable(f.ip, iface.ip, junk)])
      BY <1>6, <2>2 DEF Unreachable
    <3> DEFINE r == PortUnreachable(f.ip, iface.ip, junk)
               g == [kind |-> "unreachable", iface |-> f.iface, shost |-> iface.addr, ip |-> r]
    <3>2. f.ip \in Header /\ junk \in 0 .. WORD - 1
      BY <1>6, Framing, SessionAssumption DEF Unreachable, Ip
    <3>3. PICK i \in DOMAIN ifs : ifs[i] = iface /\ ifs[i].name = f.iface
      BY <2>2, Named
    <3>4. iface.addr \in Macs \cup {None} /\ iface.ip \in (0 .. WORD - 1) \cup {None}
      BY <3>3, Lists
    <3>5. r \in Header
      BY <3>2, <3>4, PortUnreachableType
    <3> HIDE DEF r
    <3>6. Sendable(g)
      BY <3>3, <3>4, <3>5, Framing DEF Sendable, Out
    <3>7. SendPacket(g)
      BY <3>1 DEF r
    <3> HIDE DEF g
    <3>8. QED
      BY <3>6, <3>7, Sending
  <2>3. QED
    BY <2>1, <2>2
<1>7. CASE Forward(f)
  <2>1. f.ip \in Header
    BY <1>7, Framing DEF Forward, Ip
  <2>2. PICK ip \in {Forwarded(f.ip), None} : FillAndSendPkt(f.ip.dst, "forward", ip)
    BY <1>7 DEF Forward
  <2>3. ip \in Header \cup {None} /\ (ip # None /\ ip.hl >= 5 => ValidHeader(ip))
    BY <2>1, <2>2, ForwardedValid
  <2>4. /\ Handled
        /\ stage' = "badroute" => /\ f.ip.dst \in Hosts /\ table[f.ip.dst] # None
                                  /\ GetInterface(ifs, table[f.ip.dst]) = None
    BY <2>2, <2>3, Filling
  <2>5. QED
    BY <2>4, <1>2
<1>8. QED
  BY <1>1, <1>3, <1>4, <1>5, <1>6, <1>7

------------------------------------------------------------------------------
(* What the reader holds                                                    *)

(* The part of TypeOK about the reader and the server.                      *)
InputTypes ==
  /\ todo \in Seq(Commands)
  /\ stream \in Seq(Cell) /\ len \in Seq(Cell) /\ body \in Seq(Cell)
  /\ server \in {"open", "gone"}

(* All cells that were sent and belong to no command handled before.        *)
Cut == len \o body \o stream

(* Where the commands to do begin: start[k] cells come before the k-th. All *)
(* of them were sent unless the connection was cut.                         *)
Placed(start) ==
  /\ start \in [1 .. Len(todo) + 1 -> Int] /\ start[1] = 0
  /\ \A k \in 1 .. Len(todo) :
       start[k + 1] = start[k] + Span(todo[k]) /\ start[k + 1] =< start[Len(todo) + 1]
  /\ Len(Cut) =< start[Len(todo) + 1]
  /\ server = "open" => Len(Cut) = start[Len(todo) + 1]
  /\ \A k \in 1 .. Len(todo) : \A i \in 1 .. Span(todo[k]) :
       start[k] + i \in 1 .. Len(Cut) =>
         Cut[start[k] + i] = [cmd |-> todo[k], at |-> i]

StreamInv ==
  /\ InputTypes
  /\ Len(len) =< LEN_CELLS
  /\ body # <<>> => Len(len) = LEN_CELLS
  /\ Len(len) = LEN_CELLS => Len(body) =< Span(todo[1]) - LEN_CELLS
  /\ \E start : Placed(start)

(* The cells a command takes: its size, or those of its length alone.       *)
LEMMA CommandSizes ==
  ASSUME NEW c \in Commands
  PROVE  /\ c \in Command /\ c.size \in Nat /\ Span(c) \in Nat /\ Span(c) >= LEN_CELLS
         /\ c.size > LEN_CELLS => Span(c) = c.size
         /\ c.size =< LEN_CELLS => Span(c) = LEN_CELLS
         /\ LEN_CELLS \in Nat /\ LEN_CELLS > 0
BY SessionAssumption DEF Command, Span

(* The cells of a command, one by one.                                      *)
LEMMA CellsType ==
  ASSUME NEW c \in Commands
  PROVE  Cells(c) \in Seq(Cell) /\ Len(Cells(c)) = Span(c)
           /\ \A i \in 1 .. Span(c) : Cells(c)[i] = [cmd |-> c, at |-> i]
<1>1. \A i \in 1 .. Span(c) : [cmd |-> c, at |-> i] \in Cell
  BY CommandSizes DEF Cell
<1>2. Cells(c) \in [1 .. Span(c) -> Cell]
  BY <1>1 DEF Cells
<1>3. QED
  BY CommandSizes, <1>2 DEF Cells

(* Concatenation is associative.                                            *)
LEMMA Regroup ==
  ASSUME NEW S, NEW a \in Seq(S), NEW b \in Seq(S), NEW c \in Seq(S)
  PROVE  (a \o b) \o c = a \o (b \o c)
BY ConcatAssociative

(* Three sequences in a row.                                                *)
LEMMA InARow ==
  ASSUME NEW S, NEW a \in Seq(S), NEW b \in Seq(S), NEW c \in Seq(S)
  PROVE  /\ a \o b \o c \in Seq(S) /\ Len(a \o b \o c) = Len(a) + Len(b) + Len(c)
         /\ Len(a) \in Nat /\ Len(b) \in Nat /\ Len(c) \in Nat
         /\ \A i \in 1 .. Len(a) + Len(b) + Len(c) :
              (a \o b \o c)[i] = IF i =< Len(a) THEN a[i]
                                 ELSE IF i =< Len(a) + Len(b) THEN b[i - Len(a)]
                                 ELSE c[i - Len(a) - Len(b)]
<1>1. /\ a \o b \in Seq(S) /\ Len(a \o b) = Len(a) + Len(b)
      /\ Len(a) \in Nat /\ Len(b) \in Nat /\ Len(c) \in Nat
      /\ \A i \in 1 .. Len(a) + Len(b) :
           (a \o b)[i] = IF i =< Len(a) THEN a[i] ELSE b[i - Len(a)]
  BY ConcatProperties, LenProperties
<1> DEFINE d == a \o b
<1> HIDE DEF d
<1>2. /\ d \o c \in Seq(S) /\ Len(d \o c) = Len(d) + Len(c)
      /\ \A i \in 1 .. Len(d) + Len(c) :
           (d \o c)[i] = IF i =< Len(d) THEN d[i] ELSE c[i - Len(d)]
  BY <1>1, ConcatProperties DEF d
<1>3. Len(d) = Len(a) + Len(b)
  BY <1>1 DEF d
<1>4. ASSUME NEW i \in 1 .. Len(a) + Len(b) + Len(c)
      PROVE  (d \o c)[i] = IF i =< Len(a) THEN a[i]
                           ELSE IF i =< Len(a) + Len(b) THEN b[i - Len(a)]
                           ELSE c[i - Len(a) - Len(b)]
  <2>1. CASE i =< Len(a) + Len(b)
    <3>1. i \in 1 .. Len(a) + Len(b) /\ (d \o c)[i] = d[i]
      BY <1>1, <1>2, <1>3, <2>1
    <3>2. d[i] = IF i =< Len(a) THEN a[i] ELSE b[i - Len(a)]
      BY <1>1, <3>1 DEF d
    <3>3. QED
      BY <2>1, <3>1, <3>2
  <2>2. CASE ~(i =< Len(a) + Len(b))
    <3>1. (d \o c)[i] = c[i - Len(d)] /\ i - Len(d) = i - Len(a) - Len(b)
      BY <1>1, <1>2, <1>3, <2>2
    <3>2. ~(i =< Len(a))
      BY <1>1, <2>2
    <3>3. QED
      BY <2>2, <3>1, <3>2
  <2>3. QED
    BY <2>1, <2>2
<1>5. QED
  BY <1>1, <1>2, <1>3, <1>4 DEF d

(* What is held of the stream and what is left of it, cell by cell.         *)
LEMMA CutType ==
  ASSUME InputTypes
  PROVE  /\ Cut \in Seq(Cell) /\ Len(Cut) = Len(len) + Len(body) + Len(stream)
         /\ Len(len) \in Nat /\ Len(body) \in Nat /\ Len(stream) \in Nat
         /\ Len(todo) \in Nat
         /\ \A i \in 1 .. Len(Cut) :
              Cut[i] = IF i =< Len(len) THEN len[i]
                       ELSE IF i =< Len(len) + Len(body) THEN body[i - Len(len)]
                       ELSE stream[i - Len(len) - Len(body)]
BY InARow DEF InputTypes, Cut

(* The first command to do is the one that the reader is in.                *)
LEMMA Present ==
  ASSUME StreamInv, Len(len) + Len(body) + Len(stream) > 0
  PROVE  /\ Len(todo) > 0 /\ todo[1] \in Commands
         /\ \A i \in 1 .. Span(todo[1]) : i =< Len(Cut) => Cut[i] = [cmd |-> todo[1], at |-> i]
         /\ len # <<>> => len[1].cmd = todo[1]
<1>1. PICK start : Placed(start)
  BY DEF StreamInv
<1>2. /\ Len(Cut) = Len(len) + Len(body) + Len(stream) /\ Len(todo) \in Nat
      /\ Len(len) \in Nat /\ Len(body) \in Nat /\ Len(stream) \in Nat
  BY CutType DEF StreamInv
<1>3. Len(todo) > 0
  <2>1. Len(todo) = 0 => start[Len(todo) + 1] = 0
    BY <1>1 DEF Placed
  <2>2. Len(Cut) =< start[Len(todo) + 1]
    BY <1>1 DEF Placed
  <2>3. QED
    BY <1>2, <2>1, <2>2
<1>4. todo[1] \in Commands /\ 1 \in 1 .. Len(todo)
  BY <1>2, <1>3 DEF StreamInv, InputTypes
<1>5. Span(todo[1]) \in Nat /\ Span(todo[1]) > 0
  BY <1>4, CommandSizes
<1>6. ASSUME NEW i \in 1 .. Span(todo[1]), i =< Len(Cut)
      PROVE  Cut[i] = [cmd |-> todo[1], at |-> i]
  <2>1. start[1] + i = i /\ i \in 1 .. Len(Cut)
    BY <1>1, <1>2, <1>5, <1>6 DEF Placed
  <2>2. start[1] + i \in 1 .. Len(Cut) =>
         Cut[start[1] + i] = [cmd |-> todo[1], at |-> i]
    BY <1>1, <1>4 DEF Placed
  <2>3. QED
    BY <2>1, <2>2
<1>7. ASSUME len # <<>> PROVE len[1].cmd = todo[1]
  <2>1. Len(len) >= 1
    BY <1>7, <1>2, EmptySeq DEF StreamInv, InputTypes
  <2>2. 1 \in 1 .. Len(Cut) /\ 1 \in 1 .. Span(todo[1])
    BY <1>2, <1>5, <2>1
  <2>3. Cut[1] = len[1]
    BY <2>1, <2>2, CutType DEF StreamInv
  <2>4. Cut[1] = [cmd |-> todo[1], at |-> 1]
    BY <1>6, <2>2
  <2>5. QED
    BY <2>3, <2>4
<1>8. QED
  BY <1>3, <1>4, <1>6, <1>7

(* What was cut off at the end is all that may be missing.                  *)
LEMMA StillPlaced ==
  ASSUME InputTypes, InputTypes', NEW start, Placed(start), todo' = todo,
         server' = "open" => server = "open" /\ Len(Cut') = Len(Cut),
         Len(Cut') =< Len(Cut), \A i \in 1 .. Len(Cut') : Cut'[i] = Cut[i]
  PROVE  Placed(start)'
<1>1. Len(Cut) \in Nat /\ Len(todo) \in Nat
  BY CutType
<1>2. Len(Cut') \in Nat
  BY InARow DEF InputTypes, Cut
<1>3. start[Len(todo) + 1] \in Int
  BY <1>1 DEF Placed
<1>4. /\ Len(Cut') =< start[Len(todo) + 1]
      /\ server' = "open" => Len(Cut') = start[Len(todo) + 1]
  BY <1>1, <1>2, <1>3 DEF Placed
<1>5. ASSUME NEW k \in 1 .. Len(todo), NEW i \in 1 .. Span(todo[k]), start[k] + i \in 1 .. Len(Cut')
      PROVE  Cut'[start[k] + i] = [cmd |-> todo[k], at |-> i]
  <2>1. start[k] + i \in 1 .. Len(Cut)
    BY <1>1, <1>2, <1>5
  <2>2. Cut[start[k] + i] = [cmd |-> todo[k], at |-> i]
    BY <2>1 DEF Placed
  <2>3. QED
    BY <2>2, <1>5
<1>6. QED
  BY <1>4, <1>5 DEF Placed

(* recv moves cells from the connection to what the reader holds.           *)
LEMMA RecvStream ==
  ASSUME StreamInv, Recv
  PROVE  StreamInv'
<1>1. PICK n \in 1 .. Want :
        /\ n =< Len(stream)
        /\ stream' = SubSeq(stream, n + 1, Len(stream))
        /\ IF Len(len) < LEN_CELLS
           THEN len' = len \o SubSeq(stream, 1, n) /\ UNCHANGED body
           ELSE body' = body \o SubSeq(stream, 1, n) /\ UNCHANGED len
  BY DEF Recv
<1>2. InputTypes /\ UNCHANGED <<todo, server>>
  BY DEF StreamInv, Recv
<1>3. /\ Len(len) \in Nat /\ Len(body) \in Nat /\ Len(stream) \in Nat
      /\ Len(Cut) = Len(len) + Len(body) + Len(stream)
  BY <1>2, CutType
<1>4. n \in Nat /\ n > 0
  <2>1. n \in Int /\ n >= 1
    OBVIOUS
  <2>2. QED
    BY <2>1
<1> DEFINE got == SubSeq(stream, 1, n)
           rest == SubSeq(stream, n + 1, Len(stream))
<1>5. got \in Seq(Cell) /\ Len(got) = n /\ rest \in Seq(Cell)
  <2>1. \A i \in 1 .. Len(stream) : stream[i] \in Cell
    BY <1>2 DEF InputTypes
  <2>2. got \in Seq(Cell) /\ Len(got) = (IF 1 <= n THEN n - 1 + 1 ELSE 0)
    <3>1. \A i \in 1 .. n : stream[i] \in Cell
      BY <1>1, <1>3, <1>4, <2>1
    <3>2. QED
      BY <1>4, <3>1, SubSeqProperties
  <2>3. rest \in Seq(Cell)
    <3>1. \A i \in n + 1 .. Len(stream) : stream[i] \in Cell
      BY <1>3, <1>4, <2>1
    <3>2. n + 1 \in Int /\ Len(stream) \in Int
      BY <1>3, <1>4
    <3>3. QED
      BY <3>1, <3>2, SubSeqProperties
  <2> HIDE DEF got, rest
  <2>4. QED
    BY <1>4, <2>2, <2>3
<1> HIDE DEF got, rest
<1>6. LEN_CELLS \in Nat /\ LEN_CELLS > 0
  BY SessionAssumption
<1>7. /\ todo[1] \in Commands
      /\ todo[1].size \in Nat /\ Span(todo[1]) \in Nat /\ Span(todo[1]) >= LEN_CELLS
      /\ todo[1].size =< Span(todo[1])
      /\ len # <<>> => len[1].cmd = todo[1]
  <2>1. Len(len) + Len(body) + Len(stream) > 0
    BY <1>1, <1>3, <1>4
  <2>2. QED
    BY <2>1, Present, CommandSizes
<1>9. got \o rest = stream
  <2>1. 1 \in 1 .. Len(stream) + 1 /\ n \in 1 - 1 .. Len(stream) /\ Len(stream) \in n .. Len(stream)
    BY <1>1, <1>3, <1>4
  <2>2. got \o rest = SubSeq(stream, 1, Len(stream))
    BY <1>2, <2>1, ConcatAdjacentSubSeq DEF got, rest, InputTypes
  <2>3. QED
    BY <1>2, <2>2, SubSeqFull DEF InputTypes
<1>10. ASSUME InputTypes', Cut' = Cut PROVE \E start : Placed(start)'
  <2>1. PICK start : Placed(start)
    BY DEF StreamInv
  <2>2. Len(Cut') =< Len(Cut)
    BY <1>3, <1>10
  <2>3. Placed(start)'
    BY <1>2, <1>10, <2>1, <2>2, StillPlaced
  <2>4. QED
    BY <2>3
<1>8. CASE Len(len) < LEN_CELLS
  <2>1. len' = len \o got /\ body' = body /\ stream' = rest
    BY <1>1, <1>8 DEF got, rest
  <2>2. body = <<>> /\ Len(body) = 0
    BY <1>3, <1>6, <1>8 DEF StreamInv
  <2>3. len' \in Seq(Cell) /\ Len(len') = Len(len) + n
    BY <1>2, <1>5, <2>1, ConcatProperties DEF InputTypes
  <2>4. InputTypes'
    BY <1>2, <1>5, <2>1, <2>3 DEF InputTypes
  <2>5. Len(len') =< LEN_CELLS
    BY <1>1, <1>3, <1>4, <1>6, <1>8, <2>3 DEF Want
  <2>6. (Len(len) = LEN_CELLS => Len(body) =< Span(todo[1]) - LEN_CELLS)'
    BY <1>2, <1>6, <1>7, <2>1, <2>2
  <2>7. Cut' = Cut
    <3>1. Cut' = (len \o got) \o rest
      BY <2>1, <2>2, <2>3, ConcatEmptySeq DEF Cut
    <3>2. Cut = len \o stream
      BY <1>2, <2>2, ConcatEmptySeq DEF Cut, InputTypes
    <3>3. len \in Seq(Cell)
      BY <1>2 DEF InputTypes
    <3>4. (len \o got) \o rest = len \o (got \o rest)
      BY <1>5, <3>3, Regroup
    <3>5. QED
      BY <1>9, <3>1, <3>2, <3>4, Zenon
  <2>8. QED
    BY <1>10, <2>1, <2>2, <2>4, <2>5, <2>6, <2>7 DEF StreamInv
<1>11. CASE ~(Len(len) < LEN_CELLS)
  <2>1. len' = len /\ body' = body \o got /\ stream' = rest
    BY <1>1, <1>11 DEF got, rest
  <2>2. Len(len) = LEN_CELLS /\ len # <<>>
    BY <1>2, <1>3, <1>6, <1>11, EmptySeq DEF StreamInv
  <2>3. body' \in Seq(Cell) /\ Len(body') = Len(body) + n
    BY <1>2, <1>5, <2>1, ConcatProperties DEF InputTypes
  <2>4. InputTypes'
    BY <1>2, <1>5, <2>1, <2>3 DEF InputTypes
  <2>5. n =< Span(todo[1]) - LEN_CELLS - Len(body)
    <3>1. Want = todo[1].size - LEN_CELLS - Len(body) /\ n \in 1 .. Want
      BY <1>6, <1>7, <2>2 DEF Want
    <3>2. n =< todo[1].size - LEN_CELLS - Len(body)
      BY <1>3, <1>6, <1>7, <3>1
    <3>3. QED
      BY <1>3, <1>4, <1>6, <1>7, <3>2
  <2>6. Len(body') =< Span(todo[1]) - LEN_CELLS
    BY <1>3, <1>4, <1>6, <1>7, <2>3, <2>5
  <2>7. Cut' = Cut
    <3>1. Cut' = len \o (body \o got) \o rest
      BY <2>1 DEF Cut
    <3>2. len \in Seq(Cell) /\ body \in Seq(Cell) /\ len \o body \in Seq(Cell)
      BY <1>2, ConcatProperties DEF InputTypes
    <3>3. (len \o body) \o got = len \o (body \o got)
      BY <1>5, <3>2, Regroup
    <3>4. ((len \o body) \o got) \o rest = (len \o body) \o (got \o rest)
      BY <1>5, <3>2, Regroup
    <3>5. QED
      BY <1>9, <3>1, <3>3, <3>4, Zenon DEF Cut
  <2>8. QED
    BY <1>2, <1>10, <2>1, <2>2, <2>4, <2>6, <2>7 DEF StreamInv
<1>12. QED
  BY <1>8, <1>11

(* What main has read is one whole command, of which it takes nothing more  *)
(* than it holds, or its length alone if it is no longer than that; the     *)
(* next one begins with the next cell.                                      *)
LEMMA ConsumeStream ==
  ASSUME StreamInv, AllRead, Consume
  PROVE  StreamInv'
<1>1. InputTypes /\ LEN_CELLS \in Nat /\ LEN_CELLS > 0
  BY SessionAssumption DEF StreamInv
<1>2. /\ Len(len) \in Nat /\ Len(body) \in Nat /\ Len(stream) \in Nat /\ Len(todo) \in Nat
      /\ Len(Cut) = Len(len) + Len(body) + Len(stream)
  BY <1>1, CutType
<1>3. Len(len) = LEN_CELLS /\ len # <<>>
  BY <1>1, <1>2, EmptySeq DEF AllRead, StreamInv, InputTypes
<1> DEFINE size == Span(todo[1])
<1>4. /\ Len(todo) > 0 /\ todo # <<>> /\ len[1].cmd = todo[1]
      /\ size \in Nat /\ size > 0 /\ todo[1] \in Commands
  <2>1. Len(len) + Len(body) + Len(stream) > 0
    BY <1>1, <1>2, <1>3
  <2>2. Len(todo) > 0 => todo # <<>>
    BY EmptySeq, <1>1 DEF InputTypes
  <2>3. QED
    BY <1>3, <2>1, <2>2, Present, CommandSizes
<1>5. Len(len) + Len(body) = size
  <2>1. /\ todo[1].size \in Nat /\ size \in Nat
        /\ todo[1].size > LEN_CELLS => size = todo[1].size
        /\ todo[1].size =< LEN_CELLS => size = LEN_CELLS
    BY <1>4, CommandSizes
  <2>2. todo[1].size - LEN_CELLS - Len(body) =< 0
    BY <1>1, <1>3, <1>4 DEF AllRead, Want
  <2>3. Len(body) =< size - LEN_CELLS
    BY <1>3 DEF StreamInv
  <2> HIDE DEF size
  <2>4. QED
    BY <1>1, <1>2, <1>3, <2>1, <2>2, <2>3
<1>6. /\ len' = <<>> /\ body' = <<>> /\ stream' = stream /\ server' = server
      /\ todo' = Tail(todo)
  BY DEF Consume
<1>7. /\ todo' \in Seq(Commands) /\ Len(todo') = Len(todo) - 1
      /\ \A k \in 1 .. Len(todo') : todo'[k] = todo[k + 1]
  BY <1>1, <1>4, <1>6, HeadTailProperties DEF InputTypes
<1>8. InputTypes'
  BY <1>1, <1>6, <1>7, EmptySeq DEF InputTypes
<1>9. Cut' = stream
  BY <1>1, <1>6, ConcatEmptySeq DEF Cut, InputTypes
<1>10. PICK start : Placed(start)
  BY DEF StreamInv
<1>11. PICK next : next = [k \in 1 .. Len(todo) |-> start[k + 1] - size]
  OBVIOUS
<1> HIDE DEF size
<1>12. /\ start[1] = 0 /\ \A k \in 1 .. Len(todo) + 1 : start[k] \in Int
       /\ \A k \in 1 .. Len(todo) : start[k + 1] = start[k] + Span(todo[k])
       /\ \A k \in 1 .. Len(todo) : start[k + 1] =< start[Len(todo) + 1]
       /\ Len(Cut) =< start[Len(todo) + 1]
       /\ server = "open" => Len(Cut) = start[Len(todo) + 1]
  BY <1>10 DEF Placed
<1>13. Len(todo') + 1 = Len(todo) /\ Len(todo') \in Nat
  BY <1>2, <1>4, <1>7
<1>14. /\ next \in [1 .. Len(todo') + 1 -> Int]
       /\ \A k \in 1 .. Len(todo) : next[k] = start[k + 1] - size /\ start[k + 1] \in Int
  <2>1. \A k \in 1 .. Len(todo) : k + 1 \in 1 .. Len(todo) + 1
    BY <1>2
  <2>2. QED
    BY <1>4, <1>11, <1>12, <1>13, <2>1
<1>15. next[1] = 0
  <2>1. 1 \in 1 .. Len(todo) /\ start[1 + 1] = 0 + Span(todo[1])
    BY <1>2, <1>4, <1>12
  <2>2. QED
    BY <1>4, <1>14, <2>1 DEF size
<1>16. ASSUME NEW k \in 1 .. Len(todo')
       PROVE  /\ next[k + 1] = next[k] + Span(todo'[k])
              /\ next[k + 1] =< next[Len(todo') + 1]
  <2>1. k \in 1 .. Len(todo) /\ k + 1 \in 1 .. Len(todo) /\ Len(todo) \in 1 .. Len(todo)
    BY <1>2, <1>13
  <2>2. todo'[k] = todo[k + 1] /\ Span(todo[k + 1]) \in Nat
    <3>1. todo[k + 1] \in Commands
      BY <1>1, <2>1 DEF InputTypes
    <3>2. QED
      BY <1>7, <3>1, CommandSizes
  <2>3. /\ next[k + 1] = start[k + 1 + 1] - size
        /\ next[k] = start[k + 1] - size
        /\ next[Len(todo)] = start[Len(todo) + 1] - size
        /\ start[k + 1 + 1] = start[k + 1] + Span(todo[k + 1])
        /\ start[k + 1 + 1] =< start[Len(todo) + 1]
        /\ start[k + 1] \in Int /\ start[Len(todo) + 1] \in Int
    BY <1>12, <1>14, <2>1
  <2>4. ASSUME NEW a \in Int, NEW w \in Nat, NEW z \in Int, a + w =< z
        PROVE  (a + w) - size = (a - size) + w /\ (a + w) - size =< z - size
    BY <1>4, <2>4
  <2>5. Span(todo'[k]) = Span(todo[k + 1]) /\ Len(todo') + 1 = Len(todo)
    BY <1>13, <2>2, Zenon
  <2>6. start[k + 1] + Span(todo[k + 1]) =< start[Len(todo) + 1]
    BY <2>3, Zenon
  <2>7. /\ (start[k + 1] + Span(todo[k + 1])) - size = (start[k + 1] - size) + Span(todo[k + 1])
        /\ (start[k + 1] + Span(todo[k + 1])) - size =< start[Len(todo) + 1] - size
    BY <2>2, <2>3, <2>4, <2>6, Zenon
  <2>8. QED
    BY <2>3, <2>5, <2>7, Zenon
<1>17. /\ Len(Cut') =< next[Len(todo') + 1]
       /\ server' = "open" => Len(Cut') = next[Len(todo') + 1]
  <2>1. next[Len(todo') + 1] = start[Len(todo) + 1] - size /\ start[Len(todo) + 1] \in Int
    BY <1>2, <1>4, <1>13, <1>14
  <2>2. Len(Cut') = Len(Cut) - size
    BY <1>2, <1>5, <1>9, <1>4
  <2>3. QED
    BY <1>2, <1>4, <1>6, <1>12, <2>1, <2>2
<1>18. ASSUME NEW k \in 1 .. Len(todo'), NEW i \in 1 .. Span(todo'[k]),
              next[k] + i \in 1 .. Len(Cut')
       PROVE  Cut'[next[k] + i] = [cmd |-> todo'[k], at |-> i]
  <2>1. k + 1 \in 1 .. Len(todo) /\ k \in 1 .. Len(todo)
    BY <1>2, <1>13
  <2>2. todo'[k] = todo[k + 1] /\ Span(todo[k + 1]) \in Nat
    <3>1. todo[k + 1] \in Commands
      BY <1>1, <2>1 DEF InputTypes
    <3>2. QED
      BY <1>7, <3>1, CommandSizes
  <2>3. i \in 1 .. Span(todo[k + 1]) /\ i \in Int
    BY <2>2
  <2>4. next[k] = start[k + 1] - size /\ start[k + 1] \in Int
    BY <1>14, <2>1
  <2>5. PICK j : j = next[k] + i
    OBVIOUS
  <2>6. j \in 1 .. Len(stream) /\ start[k + 1] + i = j + size /\ j + size \in 1 .. Len(Cut)
    <3>1. j \in 1 .. Len(stream)
      BY <1>9, <1>18, <2>5
    <3>2. start[k + 1] + i = j + size
      BY <1>4, <2>3, <2>4, <2>5
    <3>3. j + size \in 1 .. Len(Cut)
      BY <1>2, <1>4, <1>5, <3>1
    <3>4. QED
      BY <3>1, <3>2, <3>3
  <2>7. Cut[start[k + 1] + i] = [cmd |-> todo[k + 1], at |-> i]
    BY <1>10, <2>1, <2>3, <2>6 DEF Placed
  <2>8. Cut[j + size] = stream[j]
    <3>1. j \in Int /\ j >= 1
      BY <1>2, <2>6
    <3>2. PICK m : m = j + size
      OBVIOUS
    <3>3. /\ m \in 1 .. Len(Cut) /\ ~(m =< Len(len)) /\ ~(m =< Len(len) + Len(body))
          /\ m - Len(len) - Len(body) = j
      <4>1. m \in 1 .. Len(Cut)
        BY <2>6, <3>2
      <4>2. m = j + (Len(len) + Len(body))
        BY <1>5, <3>2
      <4>3. QED
        BY <1>2, <3>1, <4>1, <4>2
    <3>4. Cut[m] = stream[m - Len(len) - Len(body)]
      BY <1>1, <3>3, CutType
    <3>5. QED
      BY <3>2, <3>3, <3>4
  <2>9. QED
    BY <1>9, <2>2, <2>5, <2>6, <2>7, <2>8
<1>19. Placed(next)'
  BY <1>14, <1>15, <1>16, <1>17, <1>18 DEF Placed
<1>20. Len(len') =< LEN_CELLS /\ body' = <<>> /\ Len(len') # LEN_CELLS
  BY <1>1, <1>6, EmptySeq
<1>21. QED
  BY <1>8, <1>19, <1>20 DEF StreamInv

(* A new command goes to the end.                                           *)
LEMMA SendStream ==
  ASSUME StreamInv, NEW c \in Commands, SendCommand(c)
  PROVE  StreamInv'
<1>1. InputTypes /\ LEN_CELLS \in Nat /\ LEN_CELLS > 0
  BY SessionAssumption DEF StreamInv
<1>2. /\ Len(len) \in Nat /\ Len(body) \in Nat /\ Len(stream) \in Nat /\ Len(todo) \in Nat
      /\ Cut \in Seq(Cell) /\ Len(Cut) = Len(len) + Len(body) + Len(stream)
  BY <1>1, CutType
<1>3. /\ len' = len /\ body' = body /\ server' = server /\ server = "open"
      /\ todo' = Append(todo, c) /\ stream' = stream \o Cells(c)
  BY DEF SendCommand
<1>4. /\ Span(c) \in Nat /\ Cells(c) \in Seq(Cell) /\ Len(Cells(c)) = Span(c)
      /\ \A i \in 1 .. Span(c) : Cells(c)[i] = [cmd |-> c, at |-> i]
  BY CellsType, CommandSizes
<1>5. /\ todo' \in Seq(Commands) /\ Len(todo') = Len(todo) + 1
      /\ \A k \in 1 .. Len(todo) : todo'[k] = todo[k]
      /\ todo'[Len(todo) + 1] = c
  BY <1>1, <1>3, AppendProperties DEF InputTypes
<1>6. stream' \in Seq(Cell)
  BY <1>1, <1>3, <1>4, ConcatProperties DEF InputTypes
<1>7. InputTypes'
  BY <1>1, <1>3, <1>5, <1>6 DEF InputTypes
<1>8. Cut' = Cut \o Cells(c)
  <2> DEFINE held == len \o body
             cells == Cells(c)
  <2>1. held \in Seq(Cell) /\ stream \in Seq(Cell) /\ cells \in Seq(Cell)
    BY <1>1, <1>4, ConcatProperties DEF InputTypes
  <2>2. Cut' = held \o (stream \o cells) /\ Cut = held \o stream
    BY <1>3 DEF Cut
  <2> HIDE DEF held, cells
  <2>3. held \o (stream \o cells) = (held \o stream) \o cells
    BY <2>1, Regroup
  <2>4. QED
    BY <2>2, <2>3 DEF cells
<1>9. /\ Len(Cut') = Len(Cut) + Span(c)
      /\ \A i \in 1 .. Len(Cut) + Span(c) :
           Cut'[i] = IF i =< Len(Cut) THEN Cut[i] ELSE Cells(c)[i - Len(Cut)]
  <2> DEFINE cells == Cells(c)
  <2>1. cells \in Seq(Cell) /\ Len(cells) = Span(c)
    BY <1>4
  <2> HIDE DEF cells
  <2>2. /\ Len(Cut \o cells) = Len(Cut) + Span(c)
        /\ \A i \in 1 .. Len(Cut) + Span(c) :
             (Cut \o cells)[i] = IF i =< Len(Cut) THEN Cut[i] ELSE cells[i - Len(Cut)]
    <3>1. PICK s \in Seq(Cell) : s = Cut
      BY <1>2
    <3>2. /\ Len(s \o cells) = Len(s) + Len(cells)
          /\ \A i \in 1 .. Len(s) + Len(cells) :
               (s \o cells)[i] = IF i =< Len(s) THEN s[i] ELSE cells[i - Len(s)]
      BY <2>1, ConcatProperties
    <3>3. QED
      BY <2>1, <3>1, <3>2
  <2>3. QED
    BY <1>8, <2>2 DEF cells
<1>10. PICK start : Placed(start)
  BY DEF StreamInv
<1> DEFINE n == Len(todo)
           end == start[Len(todo) + 1]
<1>11. PICK next : next = [k \in 1 .. n + 2 |-> IF k = n + 2 THEN end + Span(c) ELSE start[k]]
  OBVIOUS
<1>12. /\ start[1] = 0 /\ \A k \in 1 .. n + 1 : start[k] \in Int
       /\ \A k \in 1 .. n : start[k + 1] = start[k] + Span(todo[k])
       /\ \A k \in 1 .. n : start[k + 1] =< end
       /\ Len(Cut) = end
  BY <1>3, <1>10 DEF Placed
<1>13. n \in Nat /\ end \in Int
  BY <1>2, <1>12
<1>14. /\ next \in [1 .. n + 2 -> Int]
       /\ \A k \in 1 .. n + 1 : next[k] = start[k]
       /\ next[n + 2] = end + Span(c) /\ next[n + 1] = end
  <2> HIDE DEF end
  <2>1. \A k \in 1 .. n + 2 : k # n + 2 => k \in 1 .. n + 1
    BY <1>13
  <2>2. n + 2 \in 1 .. n + 2 /\ n + 1 \in 1 .. n + 1 /\ \A k \in 1 .. n + 1 : k \in 1 .. n + 2 /\ k # n + 2
    BY <1>13
  <2>3. next \in [1 .. n + 2 -> Int]
    BY <1>4, <1>11, <1>12, <1>13, <2>1
  <2>4. \A k \in 1 .. n + 1 : next[k] = start[k]
    BY <1>11, <2>2
  <2>5. next[n + 2] = end + Span(c)
    BY <1>11, <2>2
  <2>6. QED
    BY <2>2, <2>3, <2>4, <2>5 DEF end
<1> HIDE DEF n, end
<1>15. Len(todo') + 1 = n + 2 /\ Len(todo') = n + 1
  BY <1>5, <1>13 DEF n
<1>16. ASSUME NEW k \in 1 .. n + 1
       PROVE  next[k + 1] = next[k] + Span(todo'[k]) /\ next[k + 1] =< next[n + 2]
  <2>1. CASE k = n + 1
    BY <1>4, <1>5, <1>13, <1>14, <2>1 DEF n
  <2>2. CASE k # n + 1
    <3>1. k \in 1 .. n /\ k + 1 \in 1 .. n + 1 /\ k \in 1 .. n + 1
      BY <1>13, <2>2
    <3>2. todo'[k] = todo[k]
      BY <1>5, <3>1 DEF n
    <3>3. start[k + 1] =< end + Span(c)
      BY <1>4, <1>12, <1>13, <3>1
    <3>4. QED
      BY <1>12, <1>14, <3>1, <3>2, <3>3
  <2>3. QED
    BY <2>1, <2>2
<1>17. Len(Cut') = next[n + 2] /\ next[1] = 0
  BY <1>9, <1>12, <1>13, <1>14
<1>18. ASSUME NEW k \in 1 .. n + 1, NEW i \in 1 .. Span(todo'[k]),
              next[k] + i \in 1 .. Len(Cut')
       PROVE  Cut'[next[k] + i] = [cmd |-> todo'[k], at |-> i]
  <2>1. CASE k = n + 1
    <3>1. todo'[k] = c /\ i \in 1 .. Span(c) /\ next[k] = Len(Cut)
      BY <1>5, <1>12, <1>14, <2>1 DEF n
    <3>2. PICK m : m = Len(Cut) + i
      OBVIOUS
    <3>3. m \in 1 .. Len(Cut) + Span(c) /\ ~(m =< Len(Cut)) /\ m - Len(Cut) = i
      BY <1>2, <1>4, <3>1, <3>2
    <3>4. Cut'[m] = Cells(c)[i]
      BY <1>9, <3>3
    <3>5. QED
      BY <1>4, <3>1, <3>2, <3>4
  <2>2. CASE k # n + 1
    <3>1. k \in 1 .. n /\ k + 1 \in 1 .. n + 1 /\ k \in 1 .. n + 1
      BY <1>13, <2>2
    <3>2. todo'[k] = todo[k] /\ next[k] = start[k] /\ start[k] \in Int
      BY <1>5, <1>12, <1>14, <3>1 DEF n
    <3>3. todo[k] \in Commands
      BY <1>1, <3>1 DEF n, InputTypes
    <3>4. Span(todo[k]) \in Nat
      BY <3>3, CommandSizes
    <3>5. i \in 1 .. Span(todo[k]) /\ i \in Int
      BY <3>2, <3>4
    <3>6. start[k] + i =< Len(Cut)
      <4>1. start[k] + Span(todo[k]) =< Len(Cut)
        BY <1>12, <3>1
      <4>2. QED
        BY <1>2, <3>2, <3>4, <3>5, <4>1
    <3>7. start[k] + i \in 1 .. Len(Cut) /\ start[k] + i \in 1 .. Len(Cut) + Span(c)
      BY <1>2, <1>4, <1>18, <3>2, <3>5, <3>6
    <3>8. Cut[start[k] + i] = [cmd |-> todo[k], at |-> i]
      BY <1>10, <3>1, <3>5, <3>7 DEF Placed, n
    <3>9. QED
      BY <1>9, <3>2, <3>6, <3>7, <3>8
  <2>3. QED
    BY <2>1, <2>2
<1>19. Placed(next)'
  <2>1. next \in [1 .. Len(todo') + 1 -> Int]
    BY <1>14, <1>15
  <2>2. next[Len(todo') + 1] = next[n + 2] /\ Len(Cut') =< next[n + 2]
    <3>1. next[n + 2] \in Int
      BY <1>4, <1>13, <1>14
    <3>2. QED
      BY <1>15, <1>17, <3>1
  <2>3. QED
    BY <1>15, <1>16, <1>17, <1>18, <2>1, <2>2 DEF Placed
<1>20. Len(len') = LEN_CELLS => Len(body') =< Span(todo'[1]) - LEN_CELLS
  <2>1. SUFFICES ASSUME Len(len) = LEN_CELLS PROVE Len(body) =< Span(todo'[1]) - LEN_CELLS
    BY <1>3
  <2>2. Len(len) + Len(body) + Len(stream) > 0
    BY <1>1, <1>2, <2>1
  <2>3. Len(todo) > 0
    BY <2>2, Present
  <2>4. todo'[1] = todo[1]
    BY <1>2, <1>5, <2>3
  <2>5. QED
    BY <2>1, <2>4 DEF StreamInv
<1>21. QED
  BY <1>3, <1>7, <1>19, <1>20 DEF StreamInv

(* When the connection is closed, its end is cut off.                       *)
LEMMA HangUpStream ==
  ASSUME StreamInv, HangUp
  PROVE  StreamInv'
<1>1. InputTypes /\ UNCHANGED <<todo, len, body>> /\ server' = "gone"
  BY DEF StreamInv, HangUp
<1>2. /\ Len(len) \in Nat /\ Len(body) \in Nat /\ Len(stream) \in Nat
      /\ Len(Cut) = Len(len) + Len(body) + Len(stream)
  BY <1>1, CutType
<1>3. PICK n \in 0 .. Len(stream) : stream' = SubSeq(stream, 1, n)
  BY DEF HangUp
<1>4. n \in Nat /\ n =< Len(stream)
  BY <1>2
<1>5. /\ stream' \in Seq(Cell) /\ Len(stream') = n
      /\ \A i \in 1 .. n : stream'[i] = stream[i]
  <2> DEFINE left == SubSeq(stream, 1, n)
  <2>1. \A i \in 1 .. n : stream[i] \in Cell
    BY <1>1, <1>2, <1>4 DEF InputTypes
  <2>2. /\ left \in Seq(Cell) /\ Len(left) = (IF 1 <= n THEN n - 1 + 1 ELSE 0)
        /\ \A i \in 1 .. n - 1 + 1 : left[i] = stream[1 + i - 1]
    BY <1>4, <2>1, SubSeqProperties
  <2> HIDE DEF left
  <2>3. Len(left) = n /\ \A i \in 1 .. n : left[i] = stream[i]
    BY <1>4, <2>2
  <2>4. QED
    BY <1>3, <2>2, <2>3 DEF left
<1>6. InputTypes'
  BY <1>1, <1>5 DEF InputTypes
<1>7. /\ Len(Cut') = Len(len) + Len(body) + n
      /\ \A i \in 1 .. Len(len) + Len(body) + n :
           Cut'[i] = IF i =< Len(len) THEN len[i]
                     ELSE IF i =< Len(len) + Len(body) THEN body[i - Len(len)]
                     ELSE stream'[i - Len(len) - Len(body)]
  BY <1>1, <1>5, InARow DEF InputTypes, Cut
<1>8. ASSUME NEW i \in 1 .. Len(Cut') PROVE Cut'[i] = Cut[i]
  <2>1. i \in 1 .. Len(Cut) /\ i \in 1 .. Len(len) + Len(body) + n /\ i \in Int
    BY <1>2, <1>4, <1>7
  <2>2. Cut[i] = IF i =< Len(len) THEN len[i]
                 ELSE IF i =< Len(len) + Len(body) THEN body[i - Len(len)]
                 ELSE stream[i - Len(len) - Len(body)]
    BY <1>1, <2>1, CutType
  <2>3. ~(i =< Len(len) + Len(body)) => i - Len(len) - Len(body) \in 1 .. n
    BY <1>2, <1>4, <2>1
  <2>4. QED
    BY <1>5, <1>7, <2>1, <2>2, <2>3
<1>9. PICK start : Placed(start)
  BY DEF StreamInv
<1>10. Placed(start)'
  <2>1. Len(Cut') =< Len(Cut)
    BY <1>2, <1>4, <1>7
  <2>2. QED
    BY <1>1, <1>6, <1>8, <1>9, <2>1, StillPlaced
<1>11. QED
  BY <1>1, <1>6, <1>10 DEF StreamInv

(* Every step keeps the reader on the commands.                             *)
LEMMA StreamStep == StreamInv /\ [Next]_vars => StreamInv'
<1> SUFFICES ASSUME StreamInv, [Next]_vars PROVE StreamInv'
  OBVIOUS
<1>1. CASE Recv
  BY <1>1, RecvStream
<1>2. CASE HangUp
  BY <1>2, HangUpStream
<1>3. CASE \E c \in Commands : SendCommand(c)
  BY <1>3, SendStream
<1>4. CASE AllRead /\ Consume
  BY <1>4, ConsumeStream
<1>5. CASE UNCHANGED inputs
  <2>1. InputTypes /\ InputTypes' /\ Cut' = Cut
    BY <1>5 DEF inputs, StreamInv, InputTypes, Cut
  <2>2. PICK start : Placed(start)
    BY DEF StreamInv
  <2>3. Len(Cut') =< Len(Cut)
    BY <2>1, CutType
  <2>4. Placed(start)'
    BY <1>5, <2>1, <2>2, <2>3, StillPlaced DEF inputs
  <2>5. QED
    BY <1>5, <2>1, <2>4 DEF inputs, StreamInv
<1>6. CASE Start \/ ConnectFails \/ RecvFails \/ RefuseLength
  BY <1>5, <1>6 DEF Start, ConnectFails, RecvFails, RefuseLength
<1>7. CASE \/ Unexpected \/ AuthRequest \/ AuthStatus \/ NewTable \/ Banner
           \/ Close \/ Hwinfo \/ Packet
  BY <1>4, <1>7 DEF Unexpected, AuthRequest, AuthStatus, NewTable, Banner, Close,
                    Hwinfo, Packet, Expect, Complete
<1>8. CASE UNCHANGED vars
  BY <1>5, <1>8 DEF vars, inputs
<1>9. CASE ReadBehind
  <2>1. AllRead /\ Consume
    BY <1>9 DEF ReadBehind, Consume
  <2>2. QED
    BY <1>4, <2>1
<1>10. QED
  BY <1>1, <1>2, <1>3, <1>6, <1>7, <1>8, <1>9 DEF Next, Router

(* In the beginning nothing is sent and nothing held.                       *)
LEMMA StreamInit == Init => StreamInv
<1> SUFFICES ASSUME Init PROVE StreamInv
  OBVIOUS
<1>1. todo = <<>> /\ stream = <<>> /\ len = <<>> /\ body = <<>> /\ server = "open"
  BY DEF Init
<1>2. InputTypes /\ Len(todo) = 0 /\ Len(len) = 0 /\ LEN_CELLS \in Nat /\ LEN_CELLS > 0
  BY <1>1, EmptySeq, SessionAssumption DEF InputTypes
<1>3. Cut = <<>> /\ Len(Cut) = 0
  BY <1>1, EmptySeq, ConcatEmptySeq DEF Cut
<1>4. Placed([k \in 1 .. 1 |-> 0])
  BY <1>2, <1>3 DEF Placed
<1>5. QED
  BY <1>1, <1>2, <1>4 DEF StreamInv

(* So what is held is the beginning of the present command.                 *)
LEMMA StreamFramed == StreamInv => Framed
<1> SUFFICES ASSUME StreamInv, len # <<>>
    PROVE  LET c == Cells(Head(todo))
           IN /\ Len(len) =< LEN_CELLS /\ (body # <<>> => Len(len) = LEN_CELLS)
              /\ len \o body = SubSeq(c, 1, Len(len) + Len(body))
  BY DEF Framed
<1>1. InputTypes
  BY DEF StreamInv
<1>2. /\ Len(len) \in Nat /\ Len(body) \in Nat /\ Len(stream) \in Nat /\ Len(todo) \in Nat
      /\ Len(Cut) = Len(len) + Len(body) + Len(stream) /\ Len(len) > 0
  BY <1>1, CutType, EmptySeq DEF InputTypes
<1>3. /\ Len(todo) > 0 /\ todo[1] \in Commands
      /\ \A i \in 1 .. Span(todo[1]) : i =< Len(Cut) => Cut[i] = [cmd |-> todo[1], at |-> i]
  BY <1>2, Present
<1>4. Head(todo) = todo[1]
  BY <1>1, <1>3 DEF InputTypes
<1> DEFINE held == len \o body
           n == Len(len) + Len(body)
           c == Cells(todo[1])
           front == SubSeq(c, 1, n)
<1>5. /\ LEN_CELLS \in Nat /\ Span(todo[1]) \in Nat /\ Span(todo[1]) >= LEN_CELLS
      /\ c \in Seq(Cell) /\ Len(c) = Span(todo[1])
      /\ \A i \in 1 .. Span(todo[1]) : c[i] = [cmd |-> todo[1], at |-> i]
  BY <1>3, CellsType, CommandSizes
<1>6. n \in Nat /\ n > 0 /\ n =< Span(todo[1])
  <2>1. CASE body # <<>>
    BY <1>2, <1>5, <2>1 DEF StreamInv
  <2>2. CASE body = <<>>
    <3>1. Len(body) = 0
      BY <2>2, EmptySeq
    <3>2. Len(len) =< LEN_CELLS
      BY DEF StreamInv
    <3>3. QED
      BY <1>2, <1>5, <3>1, <3>2
  <2>3. QED
    BY <2>1, <2>2
<1>7. /\ held \in Seq(Cell) /\ Len(held) = n
      /\ \A i \in 1 .. n : held[i] = IF i =< Len(len) THEN len[i] ELSE body[i - Len(len)]
  BY <1>1, ConcatProperties DEF InputTypes
<1> HIDE DEF c
<1>8. /\ front \in Seq(Cell) /\ Len(front) = n
      /\ \A i \in 1 .. n : front[i] = c[i]
  <2>1. \A i \in 1 .. n : c[i] \in Cell
    BY <1>5, <1>6
  <2>2. /\ front \in Seq(Cell) /\ Len(front) = (IF 1 <= n THEN n - 1 + 1 ELSE 0)
        /\ \A i \in 1 .. n - 1 + 1 : front[i] = c[1 + i - 1]
    <3> HIDE DEF n
    <3>1. QED
      BY <1>6, <2>1, SubSeqProperties
  <2> HIDE DEF front, n
  <2>3. QED
    BY <1>6, <2>2
<1> HIDE DEF held, front
<1>9. ASSUME NEW i \in 1 .. n PROVE held[i] = front[i]
  <2>1. i \in 1 .. Len(Cut) /\ i \in 1 .. Span(todo[1]) /\ i =< Len(Cut)
        /\ i =< Len(len) + Len(body)
    BY <1>2, <1>5, <1>6
  <2>2. Cut[i] = held[i]
    BY <1>1, <1>7, <2>1, CutType
  <2>3. Cut[i] = c[i]
    BY <1>3, <1>5, <2>1
  <2>4. QED
    BY <1>8, <2>2, <2>3
<1>10. held = front
  BY <1>7, <1>8, <1>9, SeqEqual
<1>11. QED
  BY <1>4, <1>10 DEF StreamInv, held, front, c

------------------------------------------------------------------------------
(* Every step                                                               *)

(* What holds between the handlers: interfaces come in the loop only, and   *)
(* main stays there only while every route has one of them.                 *)
SessionInv ==
  /\ TypeOK
  /\ stage \in Handshake \cup {"start"} => ifs = <<>>
  /\ stage = "loop" /\ ifs # <<>> => Verified(ifs, table)
  /\ RoutesVerified
  /\ out # None => Sendable(out)

Said == {"reply", "accepted", "open", "table"}

(* The part of TypeOK about what the reader does not touch.                 *)
LEMMA StepType ==
  ASSUME SessionInv, InputTypes', UNCHANGED options,
         ifs' \in Seq(Interface(Ifaces, Macs, 0 .. WORD - 1)), table' \in Tables,
         file' \in Tables \cup {None}, said' \subseteq Said,
         stage' \in Reading \cup Stopped \cup {"start"},
         out' \in Out \cup {None}
  PROVE  TypeOK'
<1>1. template' \in BOOLEAN /\ vrhost' \in BOOLEAN
  BY Zenon DEF SessionInv, TypeOK, options
<1>2. todo' \in Seq(Command)
  <2>1. Commands \subseteq Command
    BY SessionAssumption
  <2>2. QED
    BY <2>1, SeqMonotonic DEF InputTypes
<1>3. QED
  BY <1>1, <1>2 DEF TypeOK, InputTypes, Said

(* Steps that leave interfaces and table alone, and the stage, or end.      *)
LEMMA Quiet ==
  ASSUME SessionInv, InputTypes', UNCHANGED <<options, ifs, table>>,
         file' \in Tables \cup {None}, said' \subseteq Said,
         stage' \in {stage, "failed", "returned", "killed", "overrun"},
         out' = None \/ out' = out
  PROVE  SessionInv'
<1>1. TypeOK'
  <2>1. out' \in Out \cup {None} /\ table' \in Tables
    BY Zenon DEF SessionInv, TypeOK
  <2>2. stage' \in Reading \cup Stopped \cup {"start"}
    BY DEF SessionInv, TypeOK, Stopped
  <2>3. ifs' \in Seq(Interface(Ifaces, Macs, 0 .. WORD - 1))
    BY DEF SessionInv, TypeOK
  <2>4. QED
    BY <2>1, <2>2, <2>3, StepType
<1>2. out' # None => Sendable(out)'
  BY DEF SessionInv, Sendable
<1>3. QED
  BY <1>1, <1>2 DEF SessionInv, RoutesVerified, Handshake

(* Steps on the way to the loop, where there are no interfaces yet.         *)
LEMMA OnTheWay ==
  ASSUME SessionInv, InputTypes', UNCHANGED <<options, ifs>>,
         stage \in Handshake \cup {"start"}, table' \in Tables,
         file' \in Tables \cup {None}, said' \subseteq Said,
         stage' \in Handshake \cup {"loop", "failed", "returned", "killed", "overrun"},
         out' = None \/ out' = out
  PROVE  SessionInv'
<1>1. ifs' = <<>>
  BY DEF SessionInv
<1>2. TypeOK'
  <2>1. out' \in Out \cup {None}
    BY Zenon DEF SessionInv, TypeOK
  <2>2. stage' \in Reading \cup Stopped \cup {"start"}
    BY DEF Stopped, Reading
  <2>3. ifs' \in Seq(Interface(Ifaces, Macs, 0 .. WORD - 1))
    BY DEF SessionInv, TypeOK
  <2>4. QED
    BY <2>1, <2>2, <2>3, StepType
<1>3. out' # None => Sendable(out)'
  BY DEF SessionInv, Sendable
<1>4. QED
  BY <1>1, <1>2, <1>3 DEF SessionInv, RoutesVerified, Handshake

(* Loading a file gives a table, or ends main.                              *)
LEMMA LoadType ==
  ASSUME NEW content \in Tables \cup {None}, NEW next, Load(content, next),
         table \in Tables
  PROVE  table' \in Tables /\ stage' \in {next, "failed"}
BY DEF Load

(* Every step keeps the types and what is claimed of routes and frames.     *)
LEMMA SessionStep ==
  ASSUME SessionInv, StreamInv', [Next]_vars
  PROVE  SessionInv'
<1>1. /\ InputTypes' /\ table \in Tables /\ file \in Tables \cup {None}
      /\ said \subseteq Said
  BY DEF StreamInv, SessionInv, TypeOK, Said
<1>2. CASE Start
  <2>1. table' \in Tables /\ stage' \in {"AUTH_REQUEST", "failed"}
    BY <1>1, <1>2, LoadType DEF Start
  <2>2. QED
    BY <1>1, <1>2, <2>1, OnTheWay DEF Start, Handshake
<1>3. CASE ConnectFails
  BY <1>1, <1>3, Quiet DEF ConnectFails
<1>4. CASE Recv \/ RecvFails \/ RefuseLength \/ ReadBehind
  BY <1>1, <1>4, Quiet DEF Recv, RecvFails, RefuseLength, ReadBehind, Failure
<1>5. CASE Unexpected \/ Banner \/ Close
  BY <1>1, <1>5, Quiet DEF Unexpected, Banner, Close, Failure
<1>6. CASE AuthRequest
  <2>1. /\ UNCHANGED <<options, file, table, ifs>> /\ out' = None
        /\ said' \subseteq Said
        /\ stage' \in {stage, "AUTH_STATUS", "failed", "returned", "killed"}
        /\ stage' = "AUTH_STATUS" => stage # "loop"
    BY <1>1, <1>6 DEF AuthRequest, Failure, Said
  <2>2. stage = "loop" \/ stage = "AUTH_REQUEST"
    BY <1>6, Expected DEF AuthRequest
  <2>3. CASE stage = "loop"
    <3>1. stage' \in {stage, "failed", "returned", "killed"}
      BY <2>1, <2>3
    <3>2. QED
      BY <1>1, <2>1, <3>1, Quiet
  <2>4. CASE stage = "AUTH_REQUEST"
    BY <1>1, <2>1, <2>4, OnTheWay DEF Handshake
  <2>5. QED
    BY <2>2, <2>3, <2>4
<1>7. CASE AuthStatus
  <2>1. UNCHANGED <<options, file, ifs>> /\ out' = None /\ said' \subseteq Said
    BY <1>1, <1>7 DEF AuthStatus, Said
  <2>2. stage = "loop" \/ stage = "AUTH_STATUS"
    BY <1>7, Expected DEF AuthStatus
  <2>3. CASE stage = "loop"
    <3>1. table' = table /\ stage' \in {stage, "failed", "returned", "killed"}
      BY <1>7, <2>3 DEF AuthStatus, Failure
    <3>2. QED
      BY <1>1, <2>1, <3>1, Quiet
  <2>4. CASE stage = "AUTH_STATUS"
    <3>1. \/ Load(file, "loop")
          \/ table' = table /\ stage' \in {"RTABLE", "loop", "AUTH_STATUS", "failed", "returned", "killed"}
      BY <1>7, <2>4 DEF AuthStatus, Failure
    <3>2. /\ table' \in Tables
          /\ stage' \in {"RTABLE", "loop", "AUTH_STATUS", "failed", "returned", "killed"}
      BY <1>1, <3>1, LoadType
    <3>3. QED
      BY <1>1, <2>1, <2>4, <3>2, OnTheWay DEF Handshake
  <2>5. QED
    BY <2>2, <2>3, <2>4
<1>8. CASE NewTable
  <2>1. /\ UNCHANGED <<options, ifs>> /\ out' = None /\ said' \subseteq Said
        /\ file' \in Tables \cup {None}
    BY <1>1, <1>8 DEF NewTable, Said
  <2>2. stage = "loop" \/ stage = "RTABLE"
    BY <1>8, Expected DEF NewTable
  <2>3. CASE stage = "loop"
    <3>1. table' = table /\ stage' \in {stage, "failed", "returned", "overrun"}
      BY <1>8, <2>3 DEF NewTable, Failure
    <3>2. QED
      BY <1>1, <2>1, <3>1, Quiet
  <2>4. CASE stage = "RTABLE"
    <3>1. \/ Load(file', "loop")
          \/ table' = table /\ stage' \in {"failed", "returned", "overrun"}
      BY <1>8, <2>4 DEF NewTable, Failure
    <3>2. table' \in Tables /\ stage' \in {"loop", "failed", "returned", "overrun"}
      BY <1>1, <2>1, <3>1, LoadType
    <3>3. QED
      BY <1>1, <2>1, <2>4, <3>2, OnTheWay DEF Handshake
  <2>5. QED
    BY <2>2, <2>3, <2>4
<1>9. CASE Hwinfo
  <2>1. stage = "loop" /\ UNCHANGED <<options, file, table, said>> /\ out' = None
    BY <1>9, Expected DEF Hwinfo, Reading, Handshake, Expect
  <2>2. PICK d \in Descriptions :
          IF Orphan(ifs, d) THEN stage' = "aborted" /\ UNCHANGED ifs
          ELSE /\ ifs' = HandleHwinfo(ifs, d)
               /\ stage' = IF Verified(ifs', table) THEN "loop" ELSE Failure
    BY <1>9 DEF Hwinfo
  <2>3. ifs' \in Seq(Interface(Ifaces, Macs, 0 .. WORD - 1))
    <3>1. d \in Seq(HwEntries(Ifaces, Macs, 0 .. WORD - 1))
      BY SessionAssumption
    <3>2. ifs \in Seq(Interface(Ifaces, Macs, 0 .. WORD - 1))
      BY DEF SessionInv, TypeOK
    <3>3. QED
      BY <2>2, <3>1, <3>2, HandleHwinfoType
  <2>4. /\ stage' \in {"loop", "returned", "aborted"}
        /\ stage' = "loop" => Verified(ifs', table')
    BY <2>1, <2>2 DEF Failure
  <2>5. TypeOK'
    BY <1>1, <2>1, <2>3, <2>4, StepType DEF Reading, Stopped
  <2>6. QED
    BY <2>1, <2>4, <2>5 DEF SessionInv, RoutesVerified, Handshake
<1>10. CASE Packet
  <2>1. stage = "loop" /\ UNCHANGED <<options, file, table, ifs, said>>
    BY <1>10, Expected DEF Packet, Reading, Handshake, Expect
  <2>2. /\ out' = None \/ (Sendable(out') /\ out' \in Out)
        /\ stage' \in {"loop"} \cup Stopped
        /\ stage' = "badroute" => ifs = <<>> \/ ~Verified(ifs, table)
    BY <1>10, <2>1, PacketHandled DEF SessionInv, Handled, Sendable
  <2>3. TypeOK'
    <3>1. ifs' \in Seq(Interface(Ifaces, Macs, 0 .. WORD - 1))
      BY <2>1 DEF SessionInv, TypeOK
    <3>2. QED
      BY <1>1, <2>1, <2>2, <3>1, StepType DEF Reading
  <2>4. out' # None => Sendable(out)'
    BY <2>1, <2>2 DEF Sendable
  <2>5. QED
    BY <2>1, <2>2, <2>3, <2>4 DEF SessionInv, RoutesVerified, Handshake, Stopped
<1>11. CASE HangUp \/ \E c \in Commands : SendCommand(c)
  BY <1>1, <1>11, Quiet DEF HangUp, SendCommand
<1>12. CASE UNCHANGED vars
  BY <1>1, <1>12, Quiet DEF vars, options
<1>13. QED
  BY <1>2, <1>3, <1>4, <1>5, <1>6, <1>7, <1>8, <1>9, <1>10, <1>11, <1>12 DEF Next, Router

(* In the beginning there are no interfaces and no routes.                  *)
LEMMA SessionInit == Init => SessionInv
<1> SUFFICES ASSUME Init PROVE SessionInv
  OBVIOUS
<1>1. TypeOK
  BY SessionAssumption, EmptySeq DEF Init, TypeOK, Reading, Handshake
<1>2. QED
  BY <1>1 DEF Init, SessionInv, RoutesVerified

(* For descriptions, tables, headers and commands of any sizes.             *)
THEOREM SessionHolds == Spec => [](StreamInv /\ SessionInv)
<1>1. Init => StreamInv /\ SessionInv
  BY StreamInit, SessionInit
<1>2. StreamInv /\ SessionInv /\ [Next]_vars => (StreamInv /\ SessionInv)'
  BY StreamStep, SessionStep
<1>3. QED
  BY <1>1, <1>2, PTL DEF Spec

(* The types of the session's state.                                        *)
THEOREM SessionTyped == Spec => []TypeOK
<1>1. SessionInv => TypeOK
  BY DEF SessionInv
<1>2. QED
  BY <1>1, SessionHolds, PTL

(* However recv cuts the stream, sr_read_from_server holds the present      *)
(* command from its beginning.                                              *)
THEOREM NeverOffByACell == Spec => []Framed
BY StreamFramed, SessionHolds, PTL

(* sr_verify_routing_table protects every frame after a description.        *)
THEOREM RouteHasInterface == Spec => []RoutesVerified
<1>1. SessionInv => RoutesVerified
  BY DEF SessionInv
<1>2. QED
  BY <1>1, SessionHolds, PTL

(* sr_send_packet's test of the source holds for what every caller sends.   *)
THEOREM SentFromInterface == Spec => []SourceIsInterface
<1>1. SessionInv => SourceIsInterface
  BY DEF SessionInv, SourceIsInterface, Sendable
<1>2. QED
  BY <1>1, SessionHolds, PTL

(* TTL and addresses are changed, and the checksum of the standard holds,   *)
(* for words of any width.                                                  *)
THEOREM SentWithValidHeader == Spec => []HeadersValid
<1>1. SessionInv => HeadersValid
  BY DEF SessionInv, HeadersValid, Sendable
<1>2. QED
  BY <1>1, SessionHolds, PTL

(* A second description appends: what sr_get_interface gave for a name, it  *)
(* gives for ever, unless a description begins with addresses, which go to  *)
(* the last interface there is.                                             *)
THEOREM DescriptionsAppend == Spec => FirstDescriptionWins
<1> DEFINE Kept(n) ==
      \/ GetInterface(ifs', n) = GetInterface(ifs, n)
      \/ /\ ifs[Len(ifs)].name = n
         /\ \E d \in Descriptions : Headless(d) /\ ifs' = HandleHwinfo(ifs, d)
<1>1. ASSUME SessionInv, [Next]_vars, NEW n \in Ifaces, GetInterface(ifs, n) # None
      PROVE  Kept(n)
  <2>1. CASE ifs' = ifs
    BY <2>1
  <2>2. CASE ifs' # ifs
    <3>1. Hwinfo
      BY <1>1, <2>2 DEF Next, Router, vars, Start, ConnectFails, Recv, RecvFails,
           RefuseLength, ReadBehind, Unexpected, Banner, Close, AuthRequest, AuthStatus,
           NewTable, Packet, HangUp, SendCommand
    <3>2. PICK d \in Descriptions : ifs' = HandleHwinfo(ifs, d)
      BY <2>2, <3>1 DEF Hwinfo
    <3>3. /\ d \in Seq(HwEntries(Ifaces, Macs, 0 .. WORD - 1))
          /\ ifs \in Seq(Interface(Ifaces, Macs, 0 .. WORD - 1))
          /\ None \notin Interface(Ifaces, Macs, 0 .. WORD - 1)
      BY <1>1, SessionAssumption DEF SessionInv, TypeOK
    <3>4. /\ ifs' \in Seq(Interface(Ifaces, Macs, 0 .. WORD - 1)) /\ Len(ifs) =< Len(ifs')
          /\ \A i \in 1 .. Len(ifs) : ifs'[i].name = ifs[i].name
          /\ \A i \in 1 .. Len(ifs) - 1 : ifs'[i] = ifs[i]
      <4>1. ifs' \in Renewed(Interface(Ifaces, Macs, 0 .. WORD - 1), ifs, Len(ifs))
        BY <3>2, <3>3, HandleHwinfoRenews
      <4>2. Len(ifs') >= Len(ifs) => Len(ifs) =< Len(ifs')
        BY <3>3
      <4>3. QED
        BY <3>3, <4>1, <4>2 DEF Renewed
    <3>5. PICK i \in 1 .. Len(ifs) :
            ifs[i].name = n /\ GetInterface(ifs, n) = ifs[i] /\ GetInterface(ifs', n) = ifs'[i]
      BY <1>1, <3>3, <3>4, GetInterfaceKeeps
    <3>6. CASE Headless(d)
      <4>1. i = Len(ifs) \/ i \in 1 .. Len(ifs) - 1
        BY <3>3
      <4>2. QED
        BY <3>2, <3>4, <3>5, <3>6, <4>1
    <3>7. CASE ~Headless(d)
      <4>1. ifs' \in Behind(Interface(Ifaces, Macs, 0 .. WORD - 1), ifs, Len(ifs))
        BY <2>2, <3>2, <3>3, <3>7, HandleHwinfoKeeps
      <4>2. ifs'[i] = ifs[i]
        BY <4>1 DEF Behind
      <4>3. QED
        BY <3>5, <4>2
    <3>8. QED
      BY <3>6, <3>7
  <2>3. QED
    BY <2>1, <2>2
<1>2. SessionInv /\ [Next]_vars =>
        [\A n \in Ifaces : GetInterface(ifs, n) # None =>
           \/ GetInterface(ifs', n) = GetInterface(ifs, n)
           \/ /\ ifs[Len(ifs)].name = n
              /\ \E d \in Descriptions : Headless(d) /\ ifs' = HandleHwinfo(ifs, d)]_vars
  BY <1>1
<1>3. StreamInv /\ SessionInv => SessionInv
  OBVIOUS
<1>4. QED
  BY <1>2, <1>3, SessionHolds, PTL DEF FirstDescriptionWins, Spec
==============================================================================
