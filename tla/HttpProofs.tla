------------------------------ MODULE HttpProofs -----------------------------
(* The proxy's table of headers, what its children and those of server1     *)
(* have open, and the answers they send, for any clients, requests and      *)
(* files.                                                                   *)
EXTENDS HttpSystem, LoopProofs, SequenceTheorems

------------------------------------------------------------------------------
(* The table of headers                                                     *)

(* The slots of a table, and a table.                                       *)
Slots == Slot \cup {Removed}
Table == [slots : Seq(Slots), cap : Nat, buf : BOOLEAN, method : Methods]

(* No two slots in use have the same key.                                   *)
KeysOnce(slots) ==
  \A i, j \in 1 .. Len(slots) :
    slots[i] # Removed /\ slots[j] # Removed /\ slots[i].key = slots[j].key => i = j

Good == {r \in Table : Len(r.slots) =< r.cap /\ r.cap >= 1 /\ KeysOnce(r.slots)}

(* What the parser makes of the line n and those without colon above it:    *)
(* a slot whose key ends with that line's, and whose value is that line's.  *)
FromLine(lines, s) ==
  \E n \in 1 .. Len(lines) :
    /\ Len(s.key) \in Nat /\ Len(s.key) >= 1 /\ s.key[Len(s.key)] = lines[n].key
    /\ Len(s.key) > 1 => n > 1 /\ lines[n - 1].form = "nocolon"
    /\ s.value = Value(lines, n)

CloseSlot == [key |-> CONNECTION, value |-> <<"close">>]

(* All slots in use are from the lines, but one that the proxy has set.     *)
Sourced(lines, slots) ==
  \A i \in 1 .. Len(slots) :
    slots[i] # Removed => slots[i] = CloseSlot \/ FromLine(lines, slots[i])

NoKey(slots, key) ==
  \A i \in 1 .. Len(slots) : slots[i] # Removed => slots[i].key # key

(* ParsedRequest_create.                                                    *)
LEMMA NewRequestGood == NewRequest \in Good
<1>1. <<>> \in Seq(Slots) /\ Len(<<>>) = 0
  OBVIOUS
<1>2. NewRequest \in Table
  BY <1>1, TableAssumption DEF NewRequest, Table, Methods
<1>3. QED
  BY <1>1, <1>2, TableAssumption DEF NewRequest, Good, KeysOnce

(* ParsedHeader_get finds a slot in use with that key, if there is one.     *)
LEMMA HeaderIndexFinds ==
  ASSUME NEW pr \in Table, NEW key
  PROVE  \/ HeaderIndex(pr, key) = 0 /\ NoKey(pr.slots, key)
         \/ /\ HeaderIndex(pr, key) \in 1 .. Len(pr.slots)
            /\ pr.slots[HeaderIndex(pr, key)] # Removed
            /\ pr.slots[HeaderIndex(pr, key)].key = key
<1> DEFINE WithKey == {i \in 1 .. Len(pr.slots) : pr.slots[i] # Removed /\ pr.slots[i].key = key}
<1>1. pr.slots \in Seq(Slots) /\ Len(pr.slots) \in Nat
  BY DEF Table
<1>2. HeaderIndex(pr, key) = IF WithKey # {} THEN Min(WithKey) ELSE 0
  BY DEF HeaderIndex, SelectInSeq
<1>3. CASE WithKey = {}
  BY <1>2, <1>3 DEF NoKey
<1>4. CASE WithKey # {}
  <2>1. WithKey \subseteq Nat
    BY <1>1
  <2> HIDE DEF WithKey
  <2>2. \E n \in WithKey : \A m \in WithKey : n =< m
    BY <1>4, <2>1, LeastNat
  <2>3. Min(WithKey) \in WithKey
    BY <2>2, Zenon DEF Min
  <2>4. QED
    BY <1>2, <1>4, <2>3 DEF WithKey
<1>5. QED
  BY <1>3, <1>4

(* ParsedHeader_remove: the key is gone, and nothing else has changed.      *)
LEMMA RemoveHeaderGood ==
  ASSUME NEW pr \in Good, NEW key
  PROVE  /\ RemoveHeader(pr, key) \in Good
         /\ NoKey(RemoveHeader(pr, key).slots, key)
         /\ RemoveHeader(pr, key).buf = pr.buf /\ RemoveHeader(pr, key).method = pr.method
         /\ \A lines : Sourced(lines, pr.slots) => Sourced(lines, RemoveHeader(pr, key).slots)
<1> DEFINE i == HeaderIndex(pr, key)
           s == [pr.slots EXCEPT ![i] = Removed]
           r == [pr EXCEPT !.slots = s]
<1>1. pr \in Table /\ pr.slots \in Seq(Slots) /\ Len(pr.slots) \in Nat /\ KeysOnce(pr.slots)
  BY DEF Good, Table
<1>2. CASE i = 0
  BY <1>1, <1>2, HeaderIndexFinds DEF RemoveHeader
<1>3. CASE i # 0
  <2>1. i \in 1 .. Len(pr.slots) /\ pr.slots[i] # Removed /\ pr.slots[i].key = key
    BY <1>1, <1>3, HeaderIndexFinds
  <2> HIDE DEF i
  <2>2. RemoveHeader(pr, key) = r
    BY <1>3 DEF RemoveHeader, i
  <2>3. /\ s \in Seq(Slots) /\ Len(s) = Len(pr.slots) /\ s[i] = Removed
        /\ \A k \in 1 .. Len(pr.slots) : k # i => s[k] = pr.slots[k]
    BY <1>1, <2>1 DEF Slots
  <2> HIDE DEF s
  <2>4. /\ r \in Table /\ r.slots = s /\ r.cap = pr.cap /\ r.buf = pr.buf
        /\ r.method = pr.method
    BY <1>1, <2>3 DEF Table
  <2> HIDE DEF r
  <2>5. KeysOnce(s)
    BY <1>1, <2>3 DEF KeysOnce
  <2>6. NoKey(s, key)
    BY <1>1, <2>1, <2>3 DEF NoKey, KeysOnce
  <2>7. r \in Good
    BY <2>3, <2>4, <2>5 DEF Good
  <2>8. \A lines : Sourced(lines, pr.slots) => Sourced(lines, s)
    BY <1>1, <2>1, <2>3 DEF Sourced
  <2>9. QED
    BY <2>2, <2>4, <2>6, <2>7, <2>8
<1>4. QED
  BY <1>2, <1>3

(* The table doubles in time: there is room for one more.                   *)
LEMMA GrownGood ==
  ASSUME NEW pr \in Good
  PROVE  /\ Grown(pr) \in Table /\ Grown(pr).slots = pr.slots
         /\ Len(pr.slots) + 1 =< Grown(pr).cap
         /\ Grown(pr).buf = pr.buf /\ Grown(pr).method = pr.method
<1>1. /\ pr \in Table /\ Len(pr.slots) \in Nat /\ pr.cap \in Nat /\ pr.cap >= 1
      /\ Len(pr.slots) =< pr.cap
  BY DEF Good, Table
<1>2. 2 * pr.cap \in Nat /\ Len(pr.slots) + 1 =< 2 * pr.cap
  BY <1>1
<1>3. CASE pr.cap =< Len(pr.slots) + 1
  <2>1. Grown(pr) = [pr EXCEPT !.cap = 2 * pr.cap]
    BY <1>3 DEF Grown
  <2>2. QED
    BY <1>1, <1>2, <2>1 DEF Table
<1>4. CASE ~(pr.cap =< Len(pr.slots) + 1)
  BY <1>1, <1>4 DEF Grown
<1>5. QED
  BY <1>3, <1>4

(* ParsedHeader_set: the last slot has the key and the value, no other the  *)
(* key.                                                                     *)
LEMMA SetHeaderGood ==
  ASSUME NEW pr \in Good, NEW key \in Seq(Texts), NEW value \in Seq(Texts)
  PROVE  /\ SetHeader(pr, key, value) \in Good
         /\ SetHeader(pr, key, value).slots # <<>>
         /\ SetHeader(pr, key, value).slots[Len(SetHeader(pr, key, value).slots)]
              = [key |-> key, value |-> value]
         /\ SetHeader(pr, key, value).buf = pr.buf
         /\ SetHeader(pr, key, value).method = pr.method
         /\ \A lines :
              /\ Sourced(lines, pr.slots)
              /\ \/ [key |-> key, value |-> value] = CloseSlot
                 \/ FromLine(lines, [key |-> key, value |-> value])
              => Sourced(lines, SetHeader(pr, key, value).slots)
<1> DEFINE a == RemoveHeader(pr, key)
           b == Grown(a)
           e == [key |-> key, value |-> value]
           s == Append(b.slots, e)
           r == [b EXCEPT !.slots = s]
<1>1. a \in Good /\ NoKey(a.slots, key) /\ a.buf = pr.buf /\ a.method = pr.method
  BY RemoveHeaderGood
<1>0. \A lines : Sourced(lines, pr.slots) => Sourced(lines, a.slots)
  BY RemoveHeaderGood
<1> HIDE DEF a
<1>2. /\ b \in Table /\ b.slots = a.slots /\ Len(a.slots) + 1 =< b.cap
      /\ b.buf = a.buf /\ b.method = a.method
  BY <1>1, GrownGood
<1>3. e \in Slot /\ e # Removed /\ e.key = key
  BY TableAssumption DEF Slot
<1>4. SetHeader(pr, key, value) = r
  BY DEF SetHeader, a
<1> HIDE DEF b, e
<1>5. a.slots \in Seq(Slots) /\ Len(a.slots) \in Nat /\ KeysOnce(a.slots)
  BY <1>1 DEF Good, Table
<1>6. /\ s \in Seq(Slots) /\ Len(s) = Len(a.slots) + 1 /\ s[Len(s)] = e
      /\ \A k \in 1 .. Len(a.slots) : s[k] = a.slots[k]
  BY <1>2, <1>3, <1>5 DEF Slots
<1> HIDE DEF s
<1>7. /\ r \in Table /\ r.slots = s /\ r.cap = b.cap /\ r.buf = b.buf
      /\ r.method = b.method
  BY <1>2, <1>6 DEF Table
<1> HIDE DEF r
<1>8. KeysOnce(s)
  <2>1. SUFFICES ASSUME NEW i \in 1 .. Len(s), NEW j \in 1 .. Len(s),
                        s[i] # Removed, s[j] # Removed, s[i].key = s[j].key
                 PROVE  i = j
    BY DEF KeysOnce
  <2>2. CASE i =< Len(a.slots) /\ j =< Len(a.slots)
    <3>1. i \in 1 .. Len(a.slots) /\ j \in 1 .. Len(a.slots)
      BY <1>5, <1>6, <2>2
    <3>2. s[i] = a.slots[i] /\ s[j] = a.slots[j]
      BY <1>6, <3>1
    <3>3. QED
      BY <1>5, <2>1, <3>1, <3>2 DEF KeysOnce
  <2>0. \A k \in 1 .. Len(a.slots) : a.slots[k] # Removed => a.slots[k].key # key
    BY <1>1 DEF NoKey
  <2>3. CASE i = Len(s) /\ j =< Len(a.slots)
    <3>1. s[i].key = key /\ j \in 1 .. Len(a.slots)
      BY <1>3, <1>5, <1>6, <2>1, <2>3
    <3>2. s[j] = a.slots[j]
      BY <1>6, <3>1
    <3>3. QED
      BY <2>0, <2>1, <3>1, <3>2
  <2>4. CASE i =< Len(a.slots) /\ j = Len(s)
    <3>1. s[j].key = key /\ i \in 1 .. Len(a.slots)
      BY <1>3, <1>5, <1>6, <2>1, <2>4
    <3>2. s[i] = a.slots[i]
      BY <1>6, <3>1
    <3>3. QED
      BY <2>0, <2>1, <3>1, <3>2
  <2>5. QED
    BY <1>5, <1>6, <2>1, <2>2, <2>3, <2>4
<1>9. r \in Good
  BY <1>2, <1>5, <1>6, <1>7, <1>8 DEF Good, Table
<1>10. \A lines : Sourced(lines, pr.slots) /\ (e = CloseSlot \/ FromLine(lines, e))
                    => Sourced(lines, s)
  <2>1. SUFFICES ASSUME NEW lines, Sourced(lines, pr.slots),
                        e = CloseSlot \/ FromLine(lines, e), NEW i \in 1 .. Len(s),
                        s[i] # Removed
                 PROVE  s[i] = CloseSlot \/ FromLine(lines, s[i])
    BY DEF Sourced
  <2>2. CASE i = Len(s)
    BY <1>6, <2>1, <2>2, Zenon
  <2>3. CASE i # Len(s)
    <3>1. i \in 1 .. Len(a.slots) /\ s[i] = a.slots[i]
      BY <1>5, <1>6, <2>3
    <3>2. Sourced(lines, a.slots)
      BY <1>0, <2>1
    <3>3. QED
      BY <2>1, <3>1, <3>2, Zenon DEF Sourced
  <2>4. QED
    BY <2>2, <2>3
<1>11. QED
  BY <1>1, <1>2, <1>4, <1>5, <1>6, <1>7, <1>9, <1>10, EmptySeq DEF e

LEMMA ThreeSeq ==
  ASSUME NEW T, NEW a \in T, NEW b \in T, NEW c \in T
  PROVE  <<a>> \in Seq(T) /\ <<a, b, c>> \in Seq(T)
OBVIOUS

LEMMA TextSeq ==
  ASSUME NEW a \in Texts, NEW b \in Texts
  PROVE  /\ <<a>> \in Seq(Texts) /\ <<"newline">> \in Seq(Texts)
         /\ <<"newline", a, b>> \in Seq(Texts)
<1>1. "newline" \in Texts
  BY TableAssumption
<1>2. QED
  BY <1>1, ThreeSeq, Zenon

(* The key of a header and its value are made of what is in the lines, and  *)
(* belong to one of them.                                                   *)
LEMMA KeyType ==
  ASSUME NEW lines \in Seq(HeaderLine), NEW i \in 1 .. Len(lines), Key(lines, i) # <<>>
  PROVE  /\ Key(lines, i) \in Seq(Texts)
         /\ Value(lines, i + Len(Key(lines, i)) - 1) \in Seq(Texts)
         /\ FromLine(lines, [key |-> Key(lines, i),
                             value |-> Value(lines, i + Len(Key(lines, i)) - 1)])
<1> DEFINE Colons == {k \in i .. Len(lines) : lines[k].form # "nocolon"}
           n == IF Colons # {} THEN Min(Colons) ELSE 0
           key == [k \in 1 .. n - i + 1 |-> lines[i + k - 1].key]
<1>1. /\ Len(lines) \in Nat
      /\ \A k \in 1 .. Len(lines) : lines[k].key \in Texts /\ lines[k].value \in Texts
  <2>1. \A l \in HeaderLine : l.key \in Texts /\ l.value \in Texts
    BY DEF HeaderLine
  <2>2. Len(lines) \in Nat /\ \A k \in 1 .. Len(lines) : lines[k] \in HeaderLine
    OBVIOUS
  <2>3. QED
    BY <2>1, <2>2
<1>2. Key(lines, i) = IF n = 0 THEN <<>> ELSE key
  BY DEF Key, SelectInSubSeq
<1>3. n \in i .. Len(lines) /\ \A k \in i .. Len(lines) : k < n => lines[k].form = "nocolon"
  <2>1. Colons # {}
    BY <1>2
  <2>2. Colons \subseteq Nat
    BY <1>1
  <2> HIDE DEF Colons
  <2>3. \E k \in Colons : \A m \in Colons : k =< m
    BY <2>1, <2>2, LeastNat
  <2>4. Min(Colons) \in Colons /\ \A m \in Colons : Min(Colons) =< m
    BY <2>3, Zenon DEF Min
  <2>5. n \in Colons /\ \A m \in Colons : n =< m
    BY <2>1, <2>4
  <2> HIDE DEF n
  <2>6. n \in i .. Len(lines)
    BY <2>5 DEF Colons
  <2>7. ASSUME NEW k \in i .. Len(lines), k < n PROVE lines[k].form = "nocolon"
    BY <1>1, <2>5, <2>6, <2>7 DEF Colons
  <2>8. QED
    BY <2>6, <2>7
<1> HIDE DEF n
<1>4. n - i + 1 \in Nat /\ \A k \in 1 .. n - i + 1 : i + k - 1 \in 1 .. Len(lines)
  BY <1>1, <1>3
<1>5. key \in Seq(Texts) /\ Len(key) = n - i + 1
  <2>1. PICK m \in Nat : m = n - i + 1
    BY <1>4
  <2>2. \A k \in 1 .. m : lines[i + k - 1].key \in Texts
    BY <1>1, <1>4, <2>1
  <2>3. key = [k \in 1 .. m |-> lines[i + k - 1].key]
    BY <2>1
  <2>4. [k \in 1 .. m |-> lines[i + k - 1].key] \in [1 .. m -> Texts]
    BY <2>2
  <2> HIDE DEF key
  <2>5. key \in [1 .. m -> Texts]
    BY <2>3, <2>4
  <2>6. QED
    BY <2>1, <2>5
<1> HIDE DEF key
<1>6. Key(lines, i) = key
  BY <1>2, <1>3
<1>7. i + Len(key) - 1 = n
  BY <1>3, <1>5
<1>8. Value(lines, n) \in Seq(Texts)
  <2>1. n \in 1 .. Len(lines) /\ (n # Len(lines) => n + 1 \in 1 .. Len(lines))
    BY <1>1, <1>3
  <2>2. PICK v \in Texts : v = lines[n].value
    BY <1>1, <2>1
  <2>3. <<v>> \in Seq(Texts) /\ <<"newline">> \in Seq(Texts)
    BY TextSeq
  <2>4. CASE n # Len(lines)
    <3>1. PICK a \in Texts, b \in Texts : a = lines[n + 1].key /\ b = lines[n + 1].value
      BY <1>1, <2>1, <2>4
    <3>2. <<"newline", a, b>> \in Seq(Texts)
      BY TextSeq
    <3>3. QED
      BY <2>2, <2>3, <2>4, <3>1, <3>2 DEF Value
  <2>5. CASE n = Len(lines)
    BY <2>2, <2>3, <2>5 DEF Value
  <2>6. QED
    BY <2>4, <2>5
<1>9. FromLine(lines, [key |-> key, value |-> Value(lines, n)])
  <2>1. n \in 1 .. Len(lines) /\ Len(key) \in Nat /\ Len(key) >= 1
    BY <1>1, <1>3, <1>5
  <2>2. key[Len(key)] = lines[n].key
    <3>1. Len(key) \in 1 .. n - i + 1 /\ i + Len(key) - 1 = n
      BY <1>1, <1>3, <1>5
    <3>2. QED
      BY <3>1 DEF key
  <2>3. Len(key) > 1 => n > 1 /\ lines[n - 1].form = "nocolon"
    <3>1. ASSUME Len(key) > 1 PROVE n > 1 /\ n - 1 \in i .. Len(lines) /\ n - 1 < n
      BY <1>1, <1>3, <1>5, <3>1
    <3>2. QED
      BY <1>3, <3>1
  <2> DEFINE s == [key |-> key, value |-> Value(lines, n)]
  <2>4. s.key = key /\ s.value = Value(lines, n)
    OBVIOUS
  <2> HIDE DEF s
  <2>5. FromLine(lines, s)
    BY <2>1, <2>2, <2>3, <2>4, Zenon DEF FromLine
  <2>6. QED
    BY <2>5 DEF s
<1>10. QED
  BY <1>5, <1>6, <1>7, <1>8, <1>9

(* What ParsedHeader_parse does with line i.                                *)
LineParsed(pr, lines, i) ==
  LET key == Key(lines, i)
  IN IF key = <<>> THEN pr ELSE SetHeader(pr, key, Value(lines, i + Len(key) - 1))

LEMMA LineParsedGood ==
  ASSUME NEW pr \in Good, NEW lines \in Seq(HeaderLine), NEW i \in 1 .. Len(lines)
  PROVE  /\ LineParsed(pr, lines, i) \in Good
         /\ LineParsed(pr, lines, i).buf = pr.buf
         /\ LineParsed(pr, lines, i).method = pr.method
         /\ Sourced(lines, pr.slots) => Sourced(lines, LineParsed(pr, lines, i).slots)
<1>1. CASE Key(lines, i) = <<>>
  BY <1>1 DEF LineParsed
<1>2. CASE Key(lines, i) # <<>>
  <2>1. LineParsed(pr, lines, i)
          = SetHeader(pr, Key(lines, i), Value(lines, i + Len(Key(lines, i)) - 1))
    BY <1>2 DEF LineParsed
  <2>2. PICK key \in Seq(Texts), value \in Seq(Texts) :
          /\ key = Key(lines, i) /\ value = Value(lines, i + Len(Key(lines, i)) - 1)
          /\ FromLine(lines, [key |-> key, value |-> value])
    BY <1>2, KeyType
  <2>3. LineParsed(pr, lines, i) = SetHeader(pr, key, value)
    BY <2>1, <2>2
  <2>4. /\ SetHeader(pr, key, value) \in Good
        /\ SetHeader(pr, key, value).buf = pr.buf
        /\ SetHeader(pr, key, value).method = pr.method
    BY SetHeaderGood, Zenon
  <2>5. Sourced(lines, pr.slots) => Sourced(lines, SetHeader(pr, key, value).slots)
    BY <2>2, SetHeaderGood
  <2>6. QED
    BY <2>3, <2>4, <2>5, Zenon
<1>3. QED
  BY <1>1, <1>2

(* All lines.                                                               *)
LEMMA ParseHeadersGood ==
  ASSUME NEW pr \in Good, NEW lines \in Seq(HeaderLine), Sourced(lines, pr.slots)
  PROVE  /\ ParseHeaders(pr, lines) \in Good
         /\ Sourced(lines, ParseHeaders(pr, lines).slots)
         /\ ParseHeaders(pr, lines).buf = pr.buf /\ ParseHeaders(pr, lines).method = pr.method
<1> DEFINE n == Len(lines)
           X == {r \in Good : r.buf = pr.buf /\ r.method = pr.method /\ Sourced(lines, r.slots)}
           Rounds(f) == [i \in 0 .. n |->
             IF i = 0 THEN pr
             ELSE LET key == Key(lines, i)
                  IN IF key = <<>> THEN f[i - 1]
                     ELSE SetHeader(f[i - 1], key, Value(lines, i + Len(key) - 1))]
           after == CHOOSE f : f = Rounds(f)
           step == [p \in (1 .. n) \X X |-> LineParsed(p[2], lines, p[1])]
<1>1. n \in Nat /\ pr \in X
  OBVIOUS
<1>2. \A i \in 1 .. n, x \in X : LineParsed(x, lines, i) \in X
  BY LineParsedGood
<1>3. step \in [(1 .. n) \X X -> X]
  BY <1>2
<1>4. PICK f \in Loop(n, X, pr, step) : TRUE
  <2> HIDE DEF n, X, step
  <2>1. QED
    BY <1>1, <1>3, LoopExists
<1>5. f = Rounds(f)
  <2>1. f \in [0 .. n -> X] /\ f[0] = pr
    BY <1>4 DEF Loop
  <2>2. ASSUME NEW i \in 1 .. n
        PROVE  i \in 0 .. n /\ i # 0 /\ f[i] = LineParsed(f[i - 1], lines, i)
    <3>1. f[i] = step[<<i, f[i - 1]>>] /\ i \in 1 .. n
      BY <1>4 DEF Loop
    <3>2. i - 1 \in 0 .. n /\ i \in 0 .. n /\ i # 0
      BY <1>1, <2>2
    <3>3. f[i - 1] \in X
      BY <2>1, <3>2, Zenon
    <3> HIDE DEF X, n
    <3>4. QED
      BY <3>1, <3>2, <3>3
  <2>3. \A i \in 0 .. n : i # 0 => i \in 1 .. n
    BY <1>1
  <2> HIDE DEF n, X
  <2>4. QED
    BY <2>1, <2>2, <2>3 DEF LineParsed
<1>6. after = Rounds(after)
  BY <1>5
<1>7. ParseHeaders(pr, lines) = after[n]
  BY DEF ParseHeaders
<1> HIDE DEF after, step
<1>8. after[0] \in X
  BY <1>1, <1>6
<1>9. ASSUME NEW i \in 1 .. n
      PROVE  after[i] = LineParsed(after[i - 1], lines, i)
  <2>1. i \in 0 .. n /\ i # 0
    BY <1>1
  <2>2. QED
    BY <1>6, <2>1 DEF LineParsed
<1>10. \A i \in 1 .. n : after[i - 1] \in X => after[i] \in X
  BY <1>2, <1>9
<1>11. after[n] \in X
  <2> HIDE DEF n, X
  <2>1. \A i \in 0 .. n : after[i] \in X
    BY <1>1, <1>8, <1>10, LoopKeeps
  <2>2. QED
    BY <1>1, <2>1
<1>12. QED
  BY <1>7, <1>11

RequestLines == {"get", "refused", "blank", "unfinished"}

(* ParsedRequest_parse, whatever it is given.                               *)
LEMMA ParsedGood ==
  ASSUME NEW line \in RequestLines, NEW lines \in Seq(HeaderLine)
  PROVE  Parsed(line, lines) \in Good /\ Sourced(lines, Parsed(line, lines).slots)
<1>1. NewRequest \in Good /\ NewRequest.slots = <<>> /\ Len(<<>>) = 0
  BY NewRequestGood DEF NewRequest
<1>2. \A slots : Len(slots) = 0 => Sourced(lines, slots)
  BY DEF Sourced
<1>3. CASE line \in {"unfinished", "blank"}
  BY <1>1, <1>2, <1>3 DEF Parsed
<1>4. CASE line = "refused"
  <2> DEFINE r == [NewRequest EXCEPT !.method = "dangling"]
  <2>1. r \in Good /\ r.slots = <<>>
    BY <1>1 DEF Good, Table, Methods
  <2>2. Parsed(line, lines) = r
    BY <1>4 DEF Parsed
  <2> HIDE DEF r
  <2>3. QED
    BY <1>1, <1>2, <2>1, <2>2
<1>5. CASE line = "get"
  <2> DEFINE r == [NewRequest EXCEPT !.method = "GET", !.buf = TRUE]
  <2>1. r \in Good /\ r.slots = <<>>
    BY <1>1 DEF Good, Table, Methods
  <2>2. Parsed(line, lines) = ParseHeaders(r, lines)
    BY <1>5 DEF Parsed
  <2> HIDE DEF r
  <2>3. Sourced(lines, r.slots)
    BY <1>1, <1>2, <2>1
  <2>4. QED
    BY <2>1, <2>2, <2>3, ParseHeadersGood
<1>6. QED
  BY <1>3, <1>4, <1>5 DEF RequestLines

------------------------------------------------------------------------------
(* What goes out                                                            *)

(* A sequence of slots in use, taken from the first i in their order.       *)
Taken(slots, i) ==
  {x \in Seq(Slot) :
     \E at \in [1 .. Len(x) -> 1 .. i] :
       /\ \A k \in 1 .. Len(x) : x[k] = slots[at[k]] /\ slots[at[k]] # Removed
       /\ \A j, k \in 1 .. Len(x) : j < k => at[j] < at[k]}

LEMMA TakenNone == \A slots, i : <<>> \in Taken(slots, i)
<1> SUFFICES ASSUME NEW slots, NEW i PROVE <<>> \in Taken(slots, i)
  OBVIOUS
<1>1. PICK x \in Seq(Slot) : x = <<>> /\ Len(x) = 0
  BY EmptySeq
<1> DEFINE at == [k \in 1 .. Len(x) |-> k]
<1>3. \A k : k \notin 1 .. Len(x)
  BY <1>1
<1>4. at \in [1 .. Len(x) -> 1 .. i]
  BY <1>3
<1> HIDE DEF at
<1>5. x \in Taken(slots, i)
  BY <1>3, <1>4 DEF Taken
<1>6. QED
  BY <1>1, <1>5

LEMMA TakenGrows ==
  ASSUME NEW slots \in Seq(Slots), NEW i \in 1 .. Len(slots), NEW x \in Taken(slots, i - 1)
  PROVE  x \o (IF slots[i] = Removed THEN <<>> ELSE <<slots[i]>>) \in Taken(slots, i)
<1>1. x \in Seq(Slot) /\ Len(x) \in Nat /\ i \in Nat
  BY DEF Taken
<1>2. PICK at \in [1 .. Len(x) -> 1 .. i - 1] :
        /\ \A k \in 1 .. Len(x) : x[k] = slots[at[k]] /\ slots[at[k]] # Removed
        /\ \A j, k \in 1 .. Len(x) : j < k => at[j] < at[k]
  BY DEF Taken
<1>3. CASE slots[i] = Removed
  <2>1. x \o <<>> = x
    BY <1>1
  <2>2. at \in [1 .. Len(x) -> 1 .. i]
    BY <1>1, <1>2
  <2>3. QED
    BY <1>1, <1>2, <1>3, <2>1, <2>2 DEF Taken
<1>4. CASE slots[i] # Removed
  <2> DEFINE e == slots[i]
             y == x \o <<e>>
             more == [k \in 1 .. Len(x) + 1 |-> IF k =< Len(x) THEN at[k] ELSE i]
  <2>1. e \in Slot
    BY <1>4 DEF Slots
  <2>2. /\ y \in Seq(Slot) /\ Len(y) = Len(x) + 1 /\ y[Len(x) + 1] = e
        /\ \A k \in 1 .. Len(x) : y[k] = x[k]
    <3> HIDE DEF e
    <3>1. QED
      BY <1>1, <2>1
  <2> HIDE DEF e, y
  <2>3. more \in [1 .. Len(x) + 1 -> 1 .. i]
    BY <1>1, <1>2
  <2>4. \A k \in 1 .. Len(x) + 1 : y[k] = slots[more[k]] /\ slots[more[k]] # Removed
    BY <1>1, <1>2, <1>4, <2>2 DEF e
  <2>5. \A j, k \in 1 .. Len(x) + 1 : j < k => more[j] < more[k]
    BY <1>1, <1>2
  <2>6. y \in Taken(slots, i)
    BY <2>2, <2>3, <2>4, <2>5 DEF Taken
  <2>7. QED
    BY <1>4, <2>6 DEF y, e
<1>5. QED
  BY <1>3, <1>4

(* ParsedRequest_unparse.  If the last slot is in use it goes out last.     *)
LEMMA UnparsedTaken ==
  ASSUME NEW pr \in Table
  PROVE  /\ Unparsed(pr) \in Taken(pr.slots, Len(pr.slots))
         /\ pr.buf /\ pr.slots # <<>> /\ pr.slots[Len(pr.slots)] # Removed =>
              /\ Unparsed(pr) # <<>>
              /\ Unparsed(pr)[Len(Unparsed(pr))] = pr.slots[Len(pr.slots)]
<1> DEFINE n == Len(pr.slots)
           slots == pr.slots
           X == Seq(Slot)
           One(i) == IF slots[i] = Removed THEN <<>> ELSE <<slots[i]>>
           Rounds(f) == [i \in 0 .. n |->
             IF i = 0 THEN <<>> ELSE f[i - 1] \o (IF slots[i] = Removed THEN <<>> ELSE <<slots[i]>>)]
           live == CHOOSE f : f = Rounds(f)
           step == [p \in (1 .. n) \X X |-> p[2] \o One(p[1])]
<1>1. n \in Nat /\ <<>> \in X /\ slots \in Seq(Slots)
  BY DEF Table
<1>2. \A i \in 1 .. n : One(i) \in X
  <2>1. \A i \in 1 .. n : slots[i] \in Slot \/ slots[i] = Removed
    BY <1>1 DEF Slots
  <2> HIDE DEF slots
  <2>2. QED
    BY <2>1
<1>3. step \in [(1 .. n) \X X -> X]
  <2>1. \A i \in 1 .. n, x \in X : x \o One(i) \in X
    <3> HIDE DEF One, n
    <3>1. QED
      BY <1>2
  <2> HIDE DEF One, n, X
  <2>2. QED
    BY <2>1
<1>4. PICK f \in Loop(n, X, <<>>, step) : TRUE
  <2> HIDE DEF n, X, step
  <2>1. QED
    BY <1>1, <1>3, LoopExists
<1>5. f = Rounds(f)
  <2>1. f \in [0 .. n -> X] /\ f[0] = <<>>
    BY <1>4 DEF Loop
  <2>2. ASSUME NEW i \in 1 .. n
        PROVE  i \in 0 .. n /\ i # 0 /\ f[i] = f[i - 1] \o One(i)
    <3>1. f[i] = step[<<i, f[i - 1]>>] /\ i \in 1 .. n
      BY <1>4 DEF Loop
    <3>2. i - 1 \in 0 .. n /\ i \in 0 .. n /\ i # 0
      BY <1>1, <2>2
    <3>3. f[i - 1] \in X
      BY <2>1, <3>2, Zenon
    <3> HIDE DEF X, n, One
    <3>4. QED
      BY <3>1, <3>2, <3>3
  <2>3. \A i \in 0 .. n : i # 0 => i \in 1 .. n
    BY <1>1
  <2> HIDE DEF n, X
  <2>4. QED
    BY <2>1, <2>2, <2>3
<1>6. live = Rounds(live)
  BY <1>5
<1>7. Unparsed(pr) = IF pr.buf THEN live[n] ELSE <<>>
  BY DEF Unparsed
<1> HIDE DEF live, step
<1>8. live[0] = <<>>
  BY <1>1, <1>6
<1>9. ASSUME NEW i \in 1 .. n
      PROVE  live[i] = live[i - 1] \o One(i)
  <2>1. i \in 0 .. n /\ i # 0
    BY <1>1
  <2> HIDE DEF n, slots
  <2>2. QED
    BY <1>6, <2>1
<1> DEFINE T(i) == Taken(slots, i)
<1>10. \A i \in 0 .. n : live[i] \in T(i)
  <2> DEFINE Round == {i \in 0 .. n : live[i] \in T(i)}
             id == [i \in 0 .. n |-> i]
  <2>1. <<>> \in T(0)
    BY TakenNone
  <2>2. ASSUME NEW i \in 1 .. n, live[i - 1] \in T(i - 1)
        PROVE  live[i] \in T(i)
    <3>1. i \in 1 .. Len(slots)
      OBVIOUS
    <3> HIDE DEF slots, n
    <3>2. QED
      BY <1>1, <1>9, <2>2, <3>1, TakenGrows
  <2>3. id[0] \in Round
    BY <1>1, <1>8, <2>1
  <2>4. ASSUME NEW i \in 1 .. n, id[i - 1] \in Round
        PROVE  id[i] \in Round
    <3> HIDE DEF n, T
    <3>1. QED
      BY <1>1, <2>2, <2>4
  <2> HIDE DEF id, Round, n, T
  <2>5. \A i \in 0 .. n : id[i] \in Round
    BY <1>1, <2>3, <2>4, LoopKeeps
  <2>6. QED
    BY <2>5 DEF id, Round
<1>11. Unparsed(pr) \in T(n)
  <2>1. <<>> \in T(n)
    BY TakenNone
  <2>2. n \in 0 .. n
    BY <1>1
  <2> HIDE DEF T, n
  <2>3. QED
    BY <1>7, <1>10, <2>1, <2>2
<1>12. ASSUME pr.buf, slots # <<>>, slots[n] # Removed
       PROVE  Unparsed(pr) # <<>> /\ Unparsed(pr)[Len(Unparsed(pr))] = slots[n]
  <2>1. n \in 1 .. n /\ n - 1 \in 0 .. n
    BY <1>1, <1>12
  <2>2. PICK x \in Seq(Slot) : x = live[n - 1]
    <3>1. live[n - 1] \in T(n - 1)
      BY <1>10, <2>1
    <3>2. QED
      BY <3>1 DEF Taken
  <2>3. PICK e \in Slot : e = slots[n]
    BY <1>1, <1>12, <2>1 DEF Slots
  <2>4. Unparsed(pr) = x \o <<e>>
    <3>1. One(n) = <<e>>
      BY <1>12, <2>3
    <3>2. live[n] = live[n - 1] \o One(n)
      BY <1>9, <2>1
    <3>3. QED
      BY <1>7, <1>12, <2>2, <3>1, <3>2
  <2>5. Len(x \o <<e>>) = Len(x) + 1 /\ (x \o <<e>>)[Len(x) + 1] = e /\ Len(x) \in Nat
    OBVIOUS
  <2>6. QED
    BY <2>3, <2>4, <2>5
<1>13. QED
  BY <1>11, <1>12

(* So it goes out with every key once.                                      *)
LEMMA UnparsedOnce ==
  ASSUME NEW pr \in Good
  PROVE  \A i, j \in DOMAIN Unparsed(pr) :
           Unparsed(pr)[i].key = Unparsed(pr)[j].key => i = j
<1>1. pr \in Table /\ KeysOnce(pr.slots) /\ Len(pr.slots) \in Nat
  BY DEF Good, Table
<1>2. PICK x \in Taken(pr.slots, Len(pr.slots)) : x = Unparsed(pr)
  BY <1>1, UnparsedTaken
<1>3. x \in Seq(Slot) /\ DOMAIN x = 1 .. Len(x) /\ Len(x) \in Nat
  BY DEF Taken
<1>4. PICK at \in [1 .. Len(x) -> 1 .. Len(pr.slots)] :
        /\ \A k \in 1 .. Len(x) : x[k] = pr.slots[at[k]] /\ pr.slots[at[k]] # Removed
        /\ \A j, k \in 1 .. Len(x) : j < k => at[j] < at[k]
  BY DEF Taken
<1>5. ASSUME NEW i \in 1 .. Len(x), NEW j \in 1 .. Len(x), x[i].key = x[j].key
      PROVE  i = j
  <2>1. at[i] = at[j]
    BY <1>1, <1>4, <1>5 DEF KeysOnce
  <2>2. ~(i < j) /\ ~(j < i)
    BY <1>1, <1>4, <2>1
  <2>3. QED
    BY <1>3, <2>2
<1>6. QED
  BY <1>2, <1>3, <1>5

------------------------------------------------------------------------------
(* The bytes of an answer                                                   *)

Part == [status : Status \cup {0}, bytes : Nat]

(* The sum of an answer's bytes, written without recursion.                 *)
LEMMA BodyRounds ==
  ASSUME NEW a \in Seq(Part)
  PROVE  \E total :
           /\ total[0] = 0 /\ BodyOf(a) = total[Len(a)]
           /\ \A i \in 1 .. Len(a) :
                total[i] = IF i =< 1 THEN 0 ELSE total[i - 1] + a[i].bytes
           /\ \A i \in 0 .. Len(a) : total[i] \in Nat
<1> DEFINE n == Len(a)
           Rounds(f) == [i \in 0 .. n |-> IF i =< 1 THEN 0 ELSE f[i - 1] + a[i].bytes]
           total == CHOOSE f : f = Rounds(f)
           step == [p \in (1 .. n) \X Nat |-> IF p[1] =< 1 THEN 0 ELSE p[2] + a[p[1]].bytes]
<1>1. n \in Nat /\ \A i \in 1 .. n : a[i].bytes \in Nat
  <2>1. \A x \in Part : x.bytes \in Nat
    BY DEF Part
  <2>2. QED
    BY <2>1
<1>2. step \in [(1 .. n) \X Nat -> Nat]
  BY <1>1
<1>3. PICK f \in Loop(n, Nat, 0, step) : TRUE
  <2> HIDE DEF n, step
  <2>1. QED
    BY <1>1, <1>2, LoopExists
<1>4. f = Rounds(f)
  <2>1. f \in [0 .. n -> Nat] /\ f[0] = 0
    BY <1>3 DEF Loop
  <2>2. ASSUME NEW i \in 1 .. n
        PROVE  f[i] = IF i =< 1 THEN 0 ELSE f[i - 1] + a[i].bytes
    <3>1. f[i] = step[<<i, f[i - 1]>>]
      BY <1>3 DEF Loop
    <3>2. i - 1 \in 0 .. n
      BY <1>1
    <3>3. f[i - 1] \in Nat
      BY <2>1, <3>2, Zenon
    <3>4. QED
      BY <3>1, <3>3
  <2>3. \A i \in 0 .. n : i # 0 => i \in 1 .. n
    BY <1>1
  <2>4. f = [i \in 0 .. n |-> f[i]]
    BY <2>1
  <2>5. \A i \in 0 .. n : f[i] = IF i =< 1 THEN 0 ELSE f[i - 1] + a[i].bytes
    BY <2>1, <2>2, <2>3
  <2> HIDE DEF n
  <2>6. QED
    BY <2>4, <2>5
<1>5. total = Rounds(total)
  BY <1>4
<1>6. BodyOf(a) = total[n]
  BY DEF BodyOf
<1> HIDE DEF total, step
<1>7. total[0] = 0
  BY <1>1, <1>5
<1>8. ASSUME NEW i \in 1 .. n
      PROVE  total[i] = IF i =< 1 THEN 0 ELSE total[i - 1] + a[i].bytes
  <2>1. i \in 0 .. n
    BY <1>1
  <2> HIDE DEF n
  <2>2. QED
    BY <1>5, <2>1
<1>9. \A i \in 1 .. n : total[i - 1] \in Nat => total[i] \in Nat
  BY <1>1, <1>8
<1>10. \A i \in 0 .. n : total[i] \in Nat
  <2> DEFINE N == Nat
  <2>1. n \in Nat /\ total[0] \in N /\ \A i \in 1 .. n : total[i - 1] \in N => total[i] \in N
    BY <1>1, <1>7, <1>9
  <2> HIDE DEF n, N
  <2>2. \A i \in 0 .. n : total[i] \in N
    BY <2>1, LoopKeeps
  <2>3. QED
    BY <2>2 DEF N
<1>11. QED
  BY <1>6, <1>7, <1>8, <1>10

(* It is a number.                                                          *)
LEMMA BodyType == ASSUME NEW a \in Seq(Part) PROVE BodyOf(a) \in Nat
<1>1. Len(a) \in 0 .. Len(a)
  OBVIOUS
<1>2. QED
  BY <1>1, BodyRounds

(* A header alone has no bytes.                                             *)
LEMMA BodyOne ==
  ASSUME NEW x \in Part
  PROVE  <<x>> \in Seq(Part) /\ <<x>> # <<>> /\ Head(<<x>>) = x /\ BodyOf(<<x>>) = 0
<1>1. PICK a \in Seq(Part) : a = <<x>> /\ Len(a) = 1 /\ a # <<>> /\ Head(a) = x
  <2>1. <<x>> \in Seq(Part)
    OBVIOUS
  <2>2. Len(<<x>>) = 1 /\ <<x>> # <<>> /\ Head(<<x>>) = x
    OBVIOUS
  <2>3. QED
    BY <2>1, <2>2
<1>2. BodyOf(a) = 0
  BY <1>1, BodyRounds
<1>3. QED
  BY <1>1, <1>2

(* What is written behind it counts.                                        *)
LEMMA BodyAppend ==
  ASSUME NEW a \in Seq(Part), a # <<>>, NEW x \in Part
  PROVE  /\ Append(a, x) \in Seq(Part) /\ Append(a, x) # <<>>
         /\ Head(Append(a, x)) = Head(a) /\ Len(Append(a, x)) = Len(a) + 1
         /\ BodyOf(Append(a, x)) = BodyOf(a) + x.bytes
<1>1. PICK b \in Seq(Part) :
        /\ b = Append(a, x) /\ b # <<>> /\ Head(b) = Head(a) /\ Len(b) = Len(a) + 1
        /\ b[Len(a) + 1] = x /\ \A i \in 1 .. Len(a) : b[i] = a[i]
  <2>1. /\ Append(a, x) \in Seq(Part) /\ Len(Append(a, x)) = Len(a) + 1
        /\ Append(a, x)[Len(a) + 1] = x /\ \A i \in 1 .. Len(a) : Append(a, x)[i] = a[i]
    BY AppendProperties
  <2>2. PICK b \in Seq(Part) :
          /\ b = Append(a, x) /\ Len(b) = Len(a) + 1
          /\ b[Len(a) + 1] = x /\ \A i \in 1 .. Len(a) : b[i] = a[i]
    BY <2>1
  <2>3. Len(a) \in Nat /\ Len(a) >= 1
    BY EmptySeq
  <2>4. b # <<>> /\ b[1] = a[1]
    BY <2>2, <2>3
  <2>5. Head(b) = b[1] /\ Head(a) = a[1]
    BY <2>4
  <2>6. QED
    BY <2>2, <2>4, <2>5
<1>2. PICK t : /\ t[0] = 0 /\ BodyOf(a) = t[Len(a)]
               /\ \A i \in 1 .. Len(a) : t[i] = IF i =< 1 THEN 0 ELSE t[i - 1] + a[i].bytes
  BY BodyRounds
<1>3. PICK u : /\ u[0] = 0 /\ BodyOf(b) = u[Len(b)]
               /\ \A i \in 1 .. Len(b) : u[i] = IF i =< 1 THEN 0 ELSE u[i - 1] + b[i].bytes
  BY BodyRounds
<1>4. PICK n \in Nat : n = Len(a) /\ n >= 1
  BY EmptySeq
<1> DEFINE Same == {i \in 0 .. n : t[i] = u[i]}
           id == [i \in 0 .. n |-> i]
<1>5. id[0] \in Same
  BY <1>2, <1>3
<1>6. ASSUME NEW i \in 1 .. n, id[i - 1] \in Same
      PROVE  id[i] \in Same
  <2>1. t[i - 1] = u[i - 1] /\ i \in 1 .. Len(a) /\ i \in 1 .. Len(b)
    BY <1>1, <1>4, <1>6
  <2>2. t[i] = u[i]
    BY <1>1, <1>2, <1>3, <2>1
  <2>3. QED
    BY <2>2
<1> HIDE DEF Same, id
<1>7. \A i \in 0 .. n : id[i] \in Same
  BY <1>5, <1>6, LoopKeeps
<1>8. t[n] = u[n]
  BY <1>7 DEF Same, id
<1>9. u[n + 1] = u[n] + x.bytes
  <2>1. n + 1 \in 1 .. Len(b) /\ ~(n + 1 =< 1) /\ (n + 1) - 1 = n /\ b[n + 1] = x
    BY <1>1, <1>4
  <2>2. u[n + 1] = u[(n + 1) - 1] + b[n + 1].bytes
    BY <1>3, <2>1
  <2>3. QED
    BY <2>1, <2>2
<1>10. BodyOf(b) = BodyOf(a) + x.bytes
  BY <1>1, <1>2, <1>3, <1>4, <1>8, <1>9
<1>11. QED
  BY <1>1, <1>10

------------------------------------------------------------------------------
(* Both servers are fork servers; their facts are those of ForkServerProofs *)

PF == INSTANCE ForkServerProofs WITH Conns <- Clients, Parent <- Nobody,
        backlog <- pqueue, parent <- pparent, born <- pborn, open <- popen
WF == INSTANCE ForkServerProofs WITH Conns <- Clients, Parent <- Nobody,
        backlog <- wqueue, parent <- wparent, born <- wborn, open <- wopen

------------------------------------------------------------------------------
(* The invariant                                                            *)

(* A table whose last slot, if its lines go out, tells the server to close. *)
Ready ==
  {r \in Good : r.buf => /\ r.slots # <<>>
                        /\ r.slots[Len(r.slots)]
                             = [key |-> CONNECTION, value |-> <<"close">>]}

State ==
  /\ \A c \in Clients : want[c] \in Requests[c]
  /\ client \in [Clients -> {"away", "connected", "sent", "left", "gone"}]
  /\ child \in [Clients -> {"reading", "parsed", "relaying", "refused", "over"}]
  /\ request \in [Clients -> Ready]
  /\ passed \in [Clients -> Nat]
  /\ web \in [Clients -> {"reading", "missing", "found", "directory", "sending",
                          "endless", "eof", "undefined", "over"}]
  /\ left \in [Clients -> Nat]
  /\ sent \in [Clients -> Seq(Part)]
  /\ whole \in [Clients -> BOOLEAN]

(* Who serves c: server1, or another server by way of the proxy.            *)
ByWeb(c) == ~Proxied(c) \/ want[c].host = Web

(* How far the connections and the children of c are.                       *)
Life(c) ==
  /\ ~Proxied(c) \/ client[c] = "away" => PF!Fresh(c)
  /\ ~Proxied(c) /\ client[c] = "away" => WF!Fresh(c)
  /\ Proxied(c) /\ child[c] \in {"reading", "parsed", "refused"} => WF!Fresh(c)
  /\ ~ByWeb(c) => WF!Fresh(c)
  /\ ~Proxied(c) => child[c] = "reading"
  /\ child[c] \in {"parsed", "relaying"} => PF!Running(c)
  /\ child[c] \in {"refused", "over"} => PF!Ended(c)
  /\ child[c] \in {"reading", "parsed", "refused"} => passed[c] = 0
  /\ Proxied(c) /\ web[c] # "reading" => child[c] \in {"relaying", "over"}
  /\ ByWeb(c) /\ web[c] \notin {"reading", "over"} => WF!Running(c)

(* Nobody reads any more what a server sends to c.                          *)
Gone(c) == IF Proxied(c) THEN PF!Ended(c) ELSE client[c] \in {"left", "gone"}

(* An answer announces what has been sent and what is left, and one that is *)
(* cut short has no reader.                                                 *)
Answer(c) ==
  /\ passed[c] =< Len(sent[c])
  /\ web[c] \in {"reading", "missing", "found", "directory", "undefined"} => sent[c] = <<>>
  /\ web[c] \in {"sending", "eof", "endless"} => sent[c] # <<>>
  /\ web[c] = "sending" => BodyOf(sent[c]) + left[c] = Head(sent[c]).bytes
  /\ web[c] = "eof" => Complete(sent[c])
  /\ web[c] = "over" /\ sent[c] # <<>> => Complete(sent[c]) \/ Gone(c)
  /\ child[c] = "over" /\ passed[c] > 0 /\ whole[c] /\ client[c] # "gone" =>
       passed[c] = Len(sent[c]) /\ Complete(sent[c]) /\ web[c] = "over"

(* server1 sends to its own client the file that it was asked for.          *)
RightFile(c) ==
  ~Proxied(c) /\ whole[c] =>
    /\ web[c] \in {"found", "directory"} =>
         want[c].uri \in DOMAIN Size /\ left[c] = Size[want[c].uri]
    /\ sent[c] # <<>> /\ Head(sent[c]).status = 200 =>
         want[c].uri \in DOMAIN Size /\ Head(sent[c]).bytes = Size[want[c].uri]

Forks == PF!ForkInv /\ PF!QueueInv /\ WF!ForkInv /\ WF!QueueInv

(* What is in the table of c's request is from its lines.                   *)
FromClient(c) == Sourced(want[c].lines, request[c].slots)

HttpInv ==
  /\ State /\ Forks
  /\ \A c \in Clients : Life(c) /\ Answer(c) /\ RightFile(c) /\ FromClient(c)

------------------------------------------------------------------------------
(* Whose step it is                                                         *)

(* The names under which HttpSystem and these proofs know them.             *)
LEMMA ProxyNames ==
  /\ P!Main <=> PF!Main
  /\ P!ForkFails <=> PF!ForkFails
  /\ \A c : /\ P!Connect(c) <=> PF!Connect(c)
            /\ P!Exit(c) <=> PF!Exit(c)
            /\ P!Running(c) <=> PF!Running(c)
            /\ P!Over(c) <=> popen[c] = {} /\ ~PF!Waiting(c)
BY DEF P!Main, P!ForkFails, P!Accept, P!Fork, P!ParentCloses, P!Closed, P!Connect,
   P!Exit, P!Running, P!Over, PF!Main, PF!ForkFails, PF!Accept, PF!Fork,
   PF!ParentCloses, PF!Closed, PF!Connect, PF!Exit, PF!Running, PF!Waiting

LEMMA WebNames ==
  /\ S!Main <=> WF!Main
  /\ S!ForkFails <=> WF!ForkFails
  /\ \A c : /\ S!Connect(c) <=> WF!Connect(c)
            /\ S!Exit(c) <=> WF!Exit(c)
            /\ S!Running(c) <=> WF!Running(c)
            /\ S!Over(c) <=> wopen[c] = {} /\ ~WF!Waiting(c)
BY DEF S!Main, S!ForkFails, S!Accept, S!Fork, S!ParentCloses, S!Closed, S!Connect,
   S!Exit, S!Running, S!Over, WF!Main, WF!ForkFails, WF!Accept, WF!Fork,
   WF!ParentCloses, WF!Closed, WF!Connect, WF!Exit, WF!Running, WF!Waiting

(* A step that leaves a main process alone leaves all that is known of it.  *)
LEMMA ProxyStill ==
  ASSUME UNCHANGED proxyMain
  PROVE  /\ UNCHANGED PF!vars
         /\ \A c : /\ PF!Fresh(c)' <=> PF!Fresh(c)
                   /\ PF!Running(c)' <=> PF!Running(c)
                   /\ PF!Ended(c)' <=> PF!Ended(c)
BY DEF proxyMain, PF!vars, PF!Fresh, PF!Running, PF!Ended, PF!Waiting

LEMMA WebStill ==
  ASSUME UNCHANGED webMain
  PROVE  /\ UNCHANGED WF!vars
         /\ \A c : /\ WF!Fresh(c)' <=> WF!Fresh(c)
                   /\ WF!Running(c)' <=> WF!Running(c)
                   /\ WF!Ended(c)' <=> WF!Ended(c)
BY DEF webMain, WF!vars, WF!Fresh, WF!Running, WF!Ended, WF!Waiting

(* A connection is new, served or over, and no two of these at once.        *)
LEMMA Exclude ==
  ASSUME NEW c
  PROVE  /\ ~(PF!Fresh(c) /\ PF!Running(c)) /\ ~(PF!Fresh(c) /\ PF!Ended(c))
         /\ ~(PF!Running(c) /\ PF!Ended(c))
         /\ ~(WF!Fresh(c) /\ WF!Running(c)) /\ ~(WF!Fresh(c) /\ WF!Ended(c))
         /\ ~(WF!Running(c) /\ WF!Ended(c))
BY DEF PF!Fresh, PF!Running, PF!Ended, WF!Fresh, WF!Running, WF!Ended

(* The steps that are c's: its client's and those of what serves it.        *)
Own(c) == Client(c) \/ ProxyChild(c) \/ WebChild(c) \/ OtherAnswers(c)

(* Nothing that is c's own changes.                                         *)
Same(c) ==
  /\ want' = want /\ client'[c] = client[c] /\ child'[c] = child[c]
  /\ request'[c] = request[c] /\ passed'[c] = passed[c] /\ web'[c] = web[c]
  /\ left'[c] = left[c] /\ sent'[c] = sent[c] /\ whole'[c] = whole[c]

(* What a step of c does to the proxy's main process, and to server1's.     *)
LEMMA OwnForks ==
  ASSUME HttpInv, NEW c \in Clients, Own(c)
  PROVE  /\ UNCHANGED proxyMain \/ (PF!Fresh(c) /\ PF!Connect(c)) \/ PF!Exit(c)
         /\ UNCHANGED webMain \/ (WF!Fresh(c) /\ WF!Connect(c)) \/ WF!Exit(c)
<1>1. Life(c)
  BY DEF HttpInv
<1>2. CASE Client(c)
  BY <1>1, <1>2, ProxyNames, WebNames DEF Client, Connect, Send, Leave, Life
<1>3. CASE ProxyChild(c)
  <2>1. CASE ReadRequest(c) \/ Relay(c)
    BY <2>1 DEF ReadRequest, Relay
  <2>2. CASE ConnectServer(c)
    <3>1. Proxied(c) /\ child[c] = "parsed"
      BY <1>1, <2>2, ProxyNames, Exclude DEF ConnectServer, ProxyAt, Life
    <3>2. QED
      BY <1>1, <2>2, <3>1, WebNames DEF ConnectServer, Life
  <2>3. ASSUME NEW place, ChildEnds(c, place)
        PROVE  PF!Exit(c) /\ UNCHANGED webMain
    BY <2>3, ProxyNames DEF ChildEnds
  <2>4. QED
    BY <1>3, <2>1, <2>2, <2>3 DEF ProxyChild, ReadsNothing, Crash, NoServer,
       ProxyKilled, NotImplemented, RelayEnds
<1>4. CASE WebChild(c)
  <2>1. CASE WebRead(c) \/ SendHeader(c) \/ SendBytes(c)
    BY <2>1 DEF WebRead, SendHeader, SendBytes
  <2>2. CASE WebEnds(c)
    BY <2>2, WebNames DEF WebEnds
  <2>3. CASE WordsOverrun(c)
    BY <2>2, <2>3 DEF WordsOverrun
  <2>4. QED
    BY <1>4, <2>1, <2>2, <2>3 DEF WebChild, WebReadsNothing, NotFound, FileSent, WebKilled
<1>5. CASE OtherAnswers(c)
  BY <1>5 DEF OtherAnswers
<1>6. QED
  BY <1>2, <1>3, <1>4, <1>5 DEF Own

(* A step of neither a client nor a child is one of the main processes.     *)
LEMMA MainForks ==
  ASSUME ProxyMain \/ WebMain \/ UNCHANGED vars
  PROVE  /\ PF!Main \/ PF!ForkFails \/ UNCHANGED PF!vars
         /\ WF!Main \/ WF!ForkFails \/ UNCHANGED WF!vars
BY ProxyNames, WebNames, ProxyStill, WebStill DEF ProxyMain, WebMain, vars

(* What is another client's does not change in a step of c.                 *)
LEMMA OwnOthers ==
  ASSUME HttpInv, NEW c \in Clients, Own(c), NEW d \in Clients, d # c
  PROVE  Same(d)
<1> USE DEF HttpInv, State, Same
<1>1. CASE Client(c)
  BY <1>1 DEF Client, Connect, Send, Leave, proxyChild, webChild
<1>2. CASE ProxyChild(c)
  BY <1>2 DEF ProxyChild, ReadRequest, ReadsNothing, Crash, NoServer, ProxyKilled,
     NotImplemented, ConnectServer, Relay, RelayEnds, ChildEnds, webChild
<1>3. CASE WebChild(c)
  BY <1>3 DEF WebChild, WebRead, WordsOverrun, WebReadsNothing, NotFound, SendHeader, SendBytes,
     FileSent, WebKilled, WebEnds, proxyChild
<1>4. CASE OtherAnswers(c)
  BY <1>4 DEF OtherAnswers, proxyChild
<1>5. QED
  BY <1>1, <1>2, <1>3, <1>4 DEF Own

(* Each step is of one client or of a main process; to all the others it is *)
(* one of somebody else.                                                    *)
LEMMA WhoMoves ==
  ASSUME HttpInv, [Next]_vars
  PROVE  /\ PF!ServerStep /\ WF!ServerStep
         /\ \A d \in Clients : Own(d) \/ (Same(d) /\ PF!OtherStep(d) /\ WF!OtherStep(d))
<1>1. CASE ProxyMain \/ WebMain \/ UNCHANGED vars
  <2>1. \A d \in Clients : Same(d)
    BY <1>1 DEF ProxyMain, WebMain, vars, proxyChild, webChild, Same
  <2>2. QED
    BY <1>1, <2>1, MainForks
       DEF PF!ServerStep, PF!OtherStep, WF!ServerStep, WF!OtherStep
<1>2. ASSUME NEW c \in Clients, Own(c)
      PROVE  /\ PF!ServerStep /\ WF!ServerStep
             /\ \A d \in Clients : d # c =>
                  Same(d) /\ PF!OtherStep(d) /\ WF!OtherStep(d)
  <2>1. /\ UNCHANGED PF!vars \/ (PF!Fresh(c) /\ PF!Connect(c)) \/ PF!Exit(c)
        /\ UNCHANGED WF!vars \/ (WF!Fresh(c) /\ WF!Connect(c)) \/ WF!Exit(c)
    BY <1>2, OwnForks, ProxyStill, WebStill
  <2>2. PF!ServerStep /\ WF!ServerStep
    BY <2>1 DEF PF!ServerStep, WF!ServerStep
  <2>3. \A d \in Clients : d # c => PF!OtherStep(d) /\ WF!OtherStep(d)
    BY <2>1 DEF PF!OtherStep, WF!OtherStep
  <2>4. QED
    BY <1>2, <2>2, <2>3, OwnOthers
<1>3. CASE \E c \in Clients : Own(c)
  <2>1. PICK c \in Clients : Own(c)
    BY <1>3
  <2>2. QED
    BY <1>2, <2>1
<1>4. QED
  BY <1>1, <1>3 DEF Next, Own

(* What somebody else's step leaves of c's part of the invariant: all.      *)
LEMMA OthersKeep ==
  ASSUME HttpInv, NEW c \in Clients, Same(c), PF!OtherStep(c), WF!OtherStep(c),
         PF!ServerStep, WF!ServerStep
  PROVE  Life(c)' /\ Answer(c)' /\ RightFile(c)'
<1>1. /\ PF!ForkInv /\ PF!QueueInv /\ WF!ForkInv /\ WF!QueueInv /\ Nobody \notin Clients
      /\ Life(c) /\ Answer(c) /\ RightFile(c)
  BY HttpAssumption DEF HttpInv, Forks
<1>2. /\ PF!Fresh(c) => PF!Fresh(c)'
      /\ PF!Running(c) => PF!Running(c)'
      /\ PF!Ended(c) => PF!Ended(c)'
  BY <1>1, PF!FreshKept, PF!RunningKept, PF!EndedKept
<1>3. /\ WF!Fresh(c) => WF!Fresh(c)'
      /\ WF!Running(c) => WF!Running(c)'
  BY <1>1, WF!FreshKept, WF!RunningKept
<1>4. Life(c)'
  BY <1>1, <1>2, <1>3 DEF Life, Same, Proxied, ByWeb
<1>5. Gone(c) => Gone(c)'
  BY <1>2 DEF Gone, Same, Proxied
<1>6. Answer(c)'
  BY <1>1, <1>5 DEF Answer, Same, Complete
<1>7. RightFile(c)'
  BY <1>1 DEF RightFile, Same, Proxied
<1>8. QED
  BY <1>4, <1>6, <1>7

------------------------------------------------------------------------------
(* c's own steps                                                            *)

(* What there is to know before a step of c.                                *)
LEMMA Known ==
  ASSUME HttpInv, NEW c \in Clients
  PROVE  /\ State /\ Life(c) /\ Answer(c) /\ RightFile(c)
         /\ Proxied(c) \in BOOLEAN /\ want[c].lines \in Seq(HeaderLine)
         /\ want[c].line \in RequestLines
         /\ sent[c] \in Seq(Part) /\ passed[c] \in Nat /\ left[c] \in Nat
BY HttpAssumption DEF HttpInv, State, Proxied, RequestLines

(* After exit a child does not run any more.                                *)
LEMMA OwnEnds ==
  ASSUME HttpInv, NEW c \in Clients
  PROVE  /\ PF!Running(c) /\ PF!Exit(c) => PF!Ended(c)'
         /\ WF!Running(c) /\ WF!Exit(c) => WF!Ended(c)'
BY PF!ExitEnds, WF!ExitEnds DEF HttpInv, Forks, PF!Running, WF!Running

(* The client connects, sends and leaves.                                   *)
LEMMA ClientKeeps ==
  ASSUME HttpInv, NEW c \in Clients, Client(c)
  PROVE  Life(c)' /\ Answer(c)' /\ RightFile(c)'
<1>1. /\ UNCHANGED <<want, proxyChild, webChild, whole>>
      /\ client[c] \in {"away", "connected", "sent"}
      /\ client'[c] \in {"connected", "sent", "left", "gone"}
      /\ client[c] = "away" \/ UNCHANGED <<proxyMain, webMain>>
  BY DEF HttpInv, State, Client, Connect, Send, Leave
<1>2. Life(c)'
  <2>1. CASE UNCHANGED <<proxyMain, webMain>>
    BY <1>1, <2>1, Known, ProxyStill, WebStill
       DEF Life, Proxied, ByWeb, proxyChild, webChild
  <2>2. CASE Connect(c) /\ Proxied(c)
    <3>1. client[c] = "away" /\ PF!Fresh(c) /\ UNCHANGED webMain
      BY <2>2, Known DEF Connect, Life
    <3>2. child[c] = "reading"
      BY <3>1, Known, Exclude DEF Life, State
    <3>3. QED
      BY <1>1, <2>2, <3>1, <3>2, Known, WebStill
         DEF Life, Proxied, ByWeb, proxyChild, webChild
  <2>3. CASE Connect(c) /\ ~Proxied(c)
    <3>1. client[c] = "away" /\ WF!Fresh(c) /\ UNCHANGED proxyMain
      BY <2>3, Known DEF Connect, Life
    <3>2. web[c] \in {"reading", "over"} /\ child[c] = "reading"
      BY <2>3, <3>1, Known, Exclude DEF Life, State, ByWeb
    <3>3. QED
      BY <1>1, <2>3, <3>1, <3>2, Known, ProxyStill
         DEF Life, Proxied, ByWeb, proxyChild, webChild
  <2>4. QED
    BY <2>1, <2>2, <2>3, Known DEF Client, Send, Leave
<1>3. Gone(c) => Gone(c)'
  <2>1. CASE Proxied(c)
    <3>1. UNCHANGED proxyMain \/ PF!Fresh(c)
      BY <1>1, Known DEF Life
    <3>2. QED
      BY <1>1, <2>1, <3>1, ProxyStill, Exclude DEF Gone, Proxied
  <2>2. CASE ~Proxied(c)
    BY <1>1, <2>2 DEF Gone, Proxied
  <2>3. QED
    BY <2>1, <2>2
<1>4. Answer(c)'
  BY <1>1, <1>3, Known DEF Answer, Complete, proxyChild, webChild
<1>5. RightFile(c)'
  BY <1>1, Known DEF RightFile, Proxied, webChild
<1>6. QED
  BY <1>2, <1>4, <1>5

(* The proxy's child reads and parses the request.                          *)
LEMMA ReadKeeps ==
  ASSUME HttpInv, NEW c \in Clients, ReadRequest(c)
  PROVE  Life(c)' /\ Answer(c)' /\ RightFile(c)'
<1>1. /\ UNCHANGED <<want, client, proxyMain, passed, webMain, webChild>>
      /\ child[c] = "reading" /\ child'[c] = "parsed" /\ PF!Running(c)
  BY Known, ProxyNames DEF ReadRequest, ProxyAt, State
<1>2. Proxied(c)
  BY <1>1, Known, Exclude DEF Life
<1>3. Life(c)'
  BY <1>1, <1>2, Known, ProxyStill, WebStill DEF Life, Proxied, ByWeb, webChild
<1>4. Answer(c)'
  BY <1>1, <1>2, Known, ProxyStill DEF Answer, Gone, Complete, Proxied, Life, webChild
<1>5. RightFile(c)'
  BY <1>1, <1>2 DEF RightFile, Proxied
<1>6. QED
  BY <1>3, <1>4, <1>5

(* The child ends, before it has relayed anything.                          *)
LEMMA EarlyEndKeeps ==
  ASSUME HttpInv, NEW c \in Clients, NEW place \in {"refused", "over"},
         ChildEnds(c, place), PF!Running(c),
         \/ child[c] = "reading" /\ place = "over"
         \/ child[c] = "parsed"
  PROVE  Life(c)' /\ Answer(c)' /\ RightFile(c)'
<1>1. /\ UNCHANGED <<want, client, request, passed, webMain, webChild, whole>>
      /\ child'[c] = place /\ PF!Ended(c)'
  BY Known, OwnEnds, ProxyNames DEF ChildEnds, State
<1>2. /\ Proxied(c) /\ client[c] # "away" /\ passed[c] = 0 /\ WF!Fresh(c)
      /\ web[c] = "reading"
  BY <1>1, Known, Exclude DEF Life
<1>3. Life(c)'
  BY <1>1, <1>2, Known, WebStill DEF Life, Proxied, ByWeb, webChild
<1>4. Answer(c)'
  BY <1>1, <1>2, Known DEF Answer, webChild
<1>5. RightFile(c)'
  BY <1>1, <1>2 DEF RightFile, Proxied
<1>6. QED
  BY <1>3, <1>4, <1>5

(* The child ends when the client is gone, or the server through.           *)
LEMMA LateEndKeeps ==
  ASSUME HttpInv, NEW c \in Clients, ProxyKilled(c) \/ RelayEnds(c)
  PROVE  Life(c)' /\ Answer(c)' /\ RightFile(c)'
<1>1. /\ UNCHANGED <<want, client, request, passed, webMain, webChild, whole>>
      /\ child[c] = "relaying" /\ child'[c] = "over" /\ PF!Running(c) /\ PF!Ended(c)'
  BY Known, OwnEnds, ProxyNames DEF ProxyKilled, RelayEnds, ProxyAt, ChildEnds, State
<1>2. Proxied(c) /\ client[c] # "away"
  BY <1>1, Known, Exclude DEF Life
<1>3. Life(c)'
  BY <1>1, <1>2, Known, WebStill DEF Life, Proxied, ByWeb, webChild
<1>4. Gone(c)'
  BY <1>1, <1>2 DEF Gone, Proxied
<1>5. ASSUME passed[c] > 0, whole[c], client[c] # "gone"
      PROVE  passed[c] = Len(sent[c]) /\ Complete(sent[c]) /\ web[c] = "over"
  <2>1. RelayEnds(c)
    BY <1>5 DEF ProxyKilled
  <2>2. passed[c] = Len(sent[c])
    BY <1>5, <2>1 DEF RelayEnds
  <2>3. sent[c] # <<>>
    BY <1>5, <2>2
  <2>4. web[c] = "over"
    <3>1. CASE want[c].host = Web
      <4>1. ~WF!Running(c)
        BY <2>1, <3>1, WebNames DEF RelayEnds, ServerOver, WF!Running
      <4>2. web[c] \in {"reading", "over"}
        BY <3>1, <4>1, Known DEF Life, ByWeb
      <4>3. QED
        BY <2>3, <4>2, Known DEF Answer
    <3>2. CASE want[c].host # Web
      BY <2>1, <3>2 DEF RelayEnds, ServerOver
    <3>3. QED
      BY <3>1, <3>2
  <2>5. ~Gone(c)
    BY <1>1, <1>2, Exclude DEF Gone
  <2>6. QED
    BY <2>2, <2>3, <2>4, <2>5, Known DEF Answer
<1>6. Answer(c)'
  BY <1>1, <1>4, <1>5, Known DEF Answer, Complete, webChild
<1>7. RightFile(c)'
  BY <1>1, <1>2 DEF RightFile, Proxied
<1>8. QED
  BY <1>3, <1>6, <1>7

(* It connects, and relays an answer after the other.                       *)
LEMMA RelayKeeps ==
  ASSUME HttpInv, NEW c \in Clients, ConnectServer(c) \/ Relay(c)
  PROVE  Life(c)' /\ Answer(c)' /\ RightFile(c)'
<1>1. /\ UNCHANGED <<want, client, proxyMain, request, webChild, whole>>
      /\ child[c] \in {"parsed", "relaying"} /\ child'[c] = "relaying" /\ PF!Running(c)
      /\ passed'[c] \in Nat /\ passed'[c] =< Len(sent[c])
  BY Known, ProxyNames DEF ConnectServer, Relay, ProxyAt, State, Answer
<1>2. Proxied(c)
  BY <1>1, Known DEF Life
<1>3. Life(c)'
  <2>1. CASE UNCHANGED webMain
    BY <1>1, <1>2, <2>1, Known, ProxyStill, WebStill
       DEF Life, Proxied, ByWeb, webChild
  <2>2. CASE ConnectServer(c) /\ want[c].host = Web
    <3>1. web[c] = "reading"
      BY <2>2, Known DEF Life, ConnectServer, ProxyAt
    <3>2. QED
      BY <1>1, <1>2, <2>2, <3>1, Known, ProxyStill
         DEF Life, Proxied, ByWeb, webChild
  <2>3. QED
    BY <2>1, <2>2 DEF ConnectServer, Relay
<1>4. Answer(c)'
  BY <1>1, <1>2, Known, ProxyStill DEF Answer, Gone, Complete, Proxied, webChild
<1>5. RightFile(c)'
  BY <1>1, <1>2 DEF RightFile, Proxied
<1>6. QED
  BY <1>3, <1>4, <1>5

(* All steps of the proxy's child.                                          *)
LEMMA ProxyChildKeeps ==
  ASSUME HttpInv, NEW c \in Clients, ProxyChild(c)
  PROVE  Life(c)' /\ Answer(c)' /\ RightFile(c)'
<1>1. CASE ReadRequest(c)
  BY <1>1, ReadKeeps
<1>2. CASE ReadsNothing(c) \/ Crash(c) \/ NoServer(c) \/ NotImplemented(c)
  BY <1>2, EarlyEndKeeps, ProxyNames
     DEF ReadsNothing, Crash, NoServer, NotImplemented, ProxyAt
<1>3. CASE ProxyKilled(c) \/ RelayEnds(c)
  BY <1>3, LateEndKeeps
<1>4. CASE ConnectServer(c) \/ Relay(c)
  BY <1>4, RelayKeeps
<1>5. QED
  BY <1>1, <1>2, <1>3, <1>4 DEF ProxyChild

(* Of server1's child, at a place before its end.                           *)
LEMMA WebKnown ==
  ASSUME HttpInv, NEW c \in Clients, S!Running(c)
  PROVE  /\ WF!Running(c) /\ ~WF!Fresh(c)
         /\ Proxied(c) => child[c] \in {"relaying", "over"}
         /\ ByWeb(c) /\ (Proxied(c) \/ client[c] # "away")
BY Known, WebNames, Exclude DEF Life, State

(* Steps that leave server1's main process alone: what c's life needs.      *)
LEMMA WebGoesOn ==
  ASSUME HttpInv, NEW c \in Clients, S!Running(c),
         UNCHANGED <<want, client, proxyMain, proxyChild, webMain>>
  PROVE  Life(c)' /\ (Gone(c)' <=> Gone(c))
<1>1. Life(c)'
  BY Known, WebKnown, ProxyStill, WebStill DEF Life, Proxied, ByWeb, proxyChild
<1>2. QED
  BY <1>1, ProxyStill DEF Gone, Proxied

(* Read and look for the file.                                              *)
LEMMA WebReadKeeps ==
  ASSUME HttpInv, NEW c \in Clients, WebRead(c)
  PROVE  Life(c)' /\ Answer(c)' /\ RightFile(c)'
<1>1. /\ UNCHANGED <<want, client, proxyMain, proxyChild, webMain, sent>>
      /\ S!Running(c) /\ web[c] = "reading" /\ sent[c] = <<>> /\ passed[c] = 0
      /\ web'[c] \in {"missing", "found", "directory"}
  <2>1. sent[c] = <<>>
    BY Known DEF WebRead, WebAt, Answer
  <2>2. Len(sent[c]) = 0
    BY <2>1
  <2>3. passed[c] = 0
    BY <2>2, Known DEF Answer
  <2>4. QED
    BY <2>1, <2>3, Known DEF WebRead, WebAt, State
<1>2. Life(c)'
  BY <1>1, WebGoesOn
<1>3. Answer(c)'
  BY <1>1, Known DEF Answer, proxyChild
<1>4. ASSUME ~Proxied(c), whole'[c], web'[c] \in {"found", "directory"}
      PROVE  want[c].uri \in DOMAIN Size /\ left'[c] = Size[want[c].uri]
  <2>0. PICK all \in BOOLEAN : \E uri \in Opened(c, all) :
          /\ whole' = [whole EXCEPT ![c] = @ /\ all]
          /\ IF uri \in DOMAIN Size
             THEN left' = [left EXCEPT ![c] = Size[uri]]
             ELSE web' = [web EXCEPT ![c] = "missing"]
    BY DEF WebRead
  <2>1. PICK uri \in Opened(c, all) :
          /\ whole' = [whole EXCEPT ![c] = @ /\ all]
          /\ IF uri \in DOMAIN Size
             THEN left' = [left EXCEPT ![c] = Size[uri]]
             ELSE web' = [web EXCEPT ![c] = "missing"]
    BY <2>0
  <2>2. uri \in DOMAIN Size /\ left'[c] = Size[uri]
    BY <1>4, <2>1, Known DEF State
  <2>3. all
    BY <1>4, <2>1, Known DEF State
  <2>4. uri = want[c].uri
    BY <1>4, <2>1, <2>2, <2>3, HttpAssumption DEF Opened
  <2>5. QED
    BY <2>2, <2>4
<1>5. RightFile(c)'
  BY <1>1, <1>4 DEF RightFile, Proxied
<1>6. QED
  BY <1>2, <1>3, <1>5

(* The child of server1 ends.                                               *)
LEMMA WebEndKeeps ==
  ASSUME HttpInv, NEW c \in Clients, S!Running(c), WebEnds(c),
         UNCHANGED sent,
         sent[c] = <<>> \/ Complete(sent[c]) \/ Gone(c)
  PROVE  Life(c)' /\ Answer(c)' /\ RightFile(c)'
<1>1. /\ UNCHANGED <<want, client, proxyMain, proxyChild, left, whole>> /\ web'[c] = "over"
      /\ WF!Exit(c) /\ sent'[c] = sent[c]
  BY Known, WebNames DEF WebEnds, State
<1>2. Life(c)'
  BY <1>1, Known, WebKnown, ProxyStill DEF Life, Proxied, ByWeb, proxyChild
<1>3. Gone(c)' <=> Gone(c)
  BY <1>1, ProxyStill DEF Gone, Proxied
<1>4. Answer(c)'
  BY <1>1, <1>3, Known DEF Answer, Complete, proxyChild
<1>5. RightFile(c)'
  BY <1>1, Known DEF RightFile, Proxied
<1>6. QED
  BY <1>2, <1>4, <1>5

(* A server that finds its peer gone: nobody reads any more.                *)
LEMMA PeerGoneIsGone ==
  ASSUME HttpInv, NEW c \in Clients, S!Running(c), PeerGone(c)
  PROVE  Gone(c)
BY Known, WebKnown, ProxyNames DEF PeerGone, Gone, Life

(* A header alone, as an answer.                                            *)
LEMMA HeaderAlone ==
  ASSUME NEW status \in Status, NEW n \in Nat
  PROVE  \E a \in Seq(Part) :
           /\ a = <<Header(status, n)>> /\ a # <<>> /\ BodyOf(a) = 0
           /\ Head(a).status = status /\ Head(a).bytes = n
<1>1. Header(status, n) \in Part
  BY DEF Header, Part
<1>2. PICK x \in Part : x = Header(status, n)
  BY <1>1
<1>3. x.status = status /\ x.bytes = n
  BY <1>2 DEF Header
<1>4. PICK a \in Seq(Part) : a = <<x>> /\ a # <<>> /\ BodyOf(a) = 0 /\ Head(a) = x
  BY BodyOne, Zenon
<1>5. a = <<Header(status, n)>>
  BY <1>2, <1>4
<1>6. QED
  BY <1>3, <1>4, <1>5

(* The answer 404.                                                          *)
LEMMA NotFoundKeeps ==
  ASSUME HttpInv, NEW c \in Clients, NotFound(c)
  PROVE  Life(c)' /\ Answer(c)' /\ RightFile(c)'
<1>1. PICK a \in Seq(Part) :
        /\ a = <<Header(404, 0)>> /\ a # <<>> /\ Complete(a) /\ Head(a).status = 404
  <2>1. 404 \in Status /\ 0 \in Nat
    BY DEF Status
  <2>2. PICK b \in Seq(Part) : /\ b = <<Header(404, 0)>> /\ b # <<>> /\ BodyOf(b) = 0
                               /\ Head(b).status = 404 /\ Head(b).bytes = 0
    BY <2>1, HeaderAlone
  <2>3. Complete(b)
    BY <2>2 DEF Complete
  <2>4. QED
    BY <2>2, <2>3, Zenon
<1>2. /\ UNCHANGED <<want, client, proxyMain, proxyChild, left, whole>> /\ web'[c] = "over"
      /\ sent'[c] = a /\ S!Running(c) /\ WF!Exit(c) /\ sent[c] = <<>>
  BY <1>1, Known, WebNames DEF NotFound, WebAt, WebEnds, State, Answer
<1>3. passed[c] = 0 /\ Len(a) \in Nat
  <2>1. Len(sent[c]) = 0
    BY <1>2
  <2>2. QED
    BY <2>1, Known DEF Answer
<1>4. Life(c)'
  BY <1>2, Known, WebKnown, ProxyStill DEF Life, Proxied, ByWeb, proxyChild
<1>5. Answer(c)'
  BY <1>1, <1>2, <1>3 DEF Answer, Complete, proxyChild
<1>6. RightFile(c)'
  BY <1>1, <1>2 DEF RightFile, Proxied
<1>7. QED
  BY <1>4, <1>5, <1>6

(* The header announces what is left to send.                               *)
LEMMA SendHeaderKeeps ==
  ASSUME HttpInv, NEW c \in Clients, SendHeader(c)
  PROVE  Life(c)' /\ Answer(c)' /\ RightFile(c)'
<1>1. PICK a \in Seq(Part) :
        /\ a = <<Header(200, left[c])>> /\ a # <<>> /\ BodyOf(a) = 0
        /\ Head(a).bytes = left[c]
  <2>1. 200 \in Status
    BY DEF Status
  <2>2. QED
    BY <2>1, Known, HeaderAlone
<1>2. /\ UNCHANGED <<want, client, proxyMain, proxyChild, webMain, left, whole>>
      /\ web[c] \in {"found", "directory"} /\ web'[c] \in {"sending", "endless"}
      /\ sent'[c] = a /\ S!Running(c) /\ sent[c] = <<>>
  BY <1>1, Known DEF SendHeader, WebAt, State, Answer
<1>3. passed[c] = 0 /\ Len(a) \in Nat
  <2>1. Len(sent[c]) = 0
    BY <1>2
  <2>2. QED
    BY <2>1, Known DEF Answer
<1>4. Life(c)'
  BY <1>2, WebGoesOn
<1>5. Answer(c)'
  BY <1>1, <1>2, <1>3, Known DEF Answer, Complete, proxyChild
<1>6. RightFile(c)'
  BY <1>1, <1>2, Known DEF RightFile, Proxied
<1>7. QED
  BY <1>4, <1>5, <1>6

(* Bytes go out, or there are none left.                                    *)
LEMMA BytesSent ==
  ASSUME NEW a \in Seq(Part), a # <<>>, NEW n \in Nat
  PROVE  /\ Append(a, Bytes(n)) \in Seq(Part) /\ Append(a, Bytes(n)) # <<>>
         /\ Len(Append(a, Bytes(n))) = Len(a) + 1
         /\ Head(Append(a, Bytes(n))) = Head(a)
         /\ BodyOf(Append(a, Bytes(n))) = BodyOf(a) + n
<1>1. Bytes(n) \in Part /\ Bytes(n).bytes = n
  BY DEF Bytes, Part
<1> HIDE DEF Bytes
<1>2. QED
  BY <1>1, BodyAppend

(* What is sent now is not left any more.                                   *)
LEMMA SendBytesKeeps ==
  ASSUME HttpInv, NEW c \in Clients, SendBytes(c)
  PROVE  Life(c)' /\ Answer(c)' /\ RightFile(c)'
<1>1. PICK n \in Nat : n = BytesRead(left[c]) /\ n =< left[c] /\ (left[c] < CHUNK => n = left[c])
  BY Known, HttpAssumption DEF BytesRead
<1>2. /\ UNCHANGED <<want, client, proxyMain, proxyChild, webMain, whole>>
      /\ web[c] = "sending" /\ S!Running(c) /\ sent[c] # <<>>
      /\ left'[c] = left[c] - n
      /\ sent'[c] = IF n = 0 THEN sent[c] ELSE Append(sent[c], Bytes(n))
      /\ web'[c] = IF left[c] < CHUNK THEN "eof" ELSE "sending"
  BY <1>1, Known DEF SendBytes, WebAt, State, Answer
<1>3. /\ BodyOf(sent[c]) \in Nat
      /\ BodyOf(sent[c]) + left[c] = Head(sent[c]).bytes
  BY <1>2, Known, BodyType DEF Answer
<1>4. /\ sent'[c] # <<>> /\ Head(sent'[c]) = Head(sent[c])
      /\ BodyOf(sent'[c]) = BodyOf(sent[c]) + n
      /\ Len(sent'[c]) >= Len(sent[c]) /\ Len(sent'[c]) \in Nat /\ Len(sent[c]) \in Nat
  <2>1. CASE n = 0
    BY <1>2, <1>3, <2>1, Known
  <2>2. CASE n # 0
    <3>1. sent'[c] = Append(sent[c], Bytes(n))
      BY <1>2, <2>2
    <3>2. QED
      BY <1>2, <3>1, Known, BytesSent
  <2>3. QED
    BY <2>1, <2>2
<1>5. Life(c)'
  BY <1>2, WebGoesOn
<1>6. BodyOf(sent'[c]) + left'[c] = Head(sent'[c]).bytes
  BY <1>1, <1>2, <1>3, <1>4, Known
<1>7. web'[c] = "eof" => Complete(sent'[c])
  BY <1>1, <1>2, <1>3, <1>4, Known DEF Complete
<1>8. passed[c] =< Len(sent'[c])
  BY <1>4, Known DEF Answer
<1>9. Answer(c)'
  BY <1>2, <1>4, <1>6, <1>7, <1>8, Known DEF Answer, proxyChild
<1>10. RightFile(c)'
  BY <1>2, <1>4, Known DEF RightFile, Proxied
<1>11. QED
  BY <1>5, <1>9, <1>10

(* Too many words: nothing has been sent yet.                               *)
LEMMA OverrunKeeps ==
  ASSUME HttpInv, NEW c \in Clients, WordsOverrun(c)
  PROVE  Life(c)' /\ Answer(c)' /\ RightFile(c)'
<1>1. S!Running(c) /\ sent' = sent /\ sent[c] = <<>>
  BY Known DEF WordsOverrun, WebAt, Answer
<1>2. CASE WebEnds(c)
  BY <1>1, <1>2, WebEndKeeps
<1>3. CASE /\ web' = [web EXCEPT ![c] = "undefined"]
           /\ UNCHANGED <<want, client, proxyMain, proxyChild, webMain, left, whole>>
  <2>1. web'[c] = "undefined"
    BY <1>3, Known DEF State
  <2>2. Life(c)'
    BY <1>1, <1>3, WebGoesOn
  <2>3. Answer(c)'
    <3>1. passed[c] = 0
      <4>1. Len(sent[c]) = 0
        BY <1>1
      <4>2. QED
        BY <4>1, Known DEF Answer
    <3>2. QED
      BY <1>1, <1>3, <2>1, <3>1, Known DEF Answer, proxyChild
  <2>4. RightFile(c)'
    BY <1>1, <1>3, <2>1, Known DEF RightFile, Proxied
  <2>5. QED
    BY <2>2, <2>3, <2>4
<1>4. QED
  BY <1>2, <1>3 DEF WordsOverrun

(* All steps of server1's child.                                            *)
LEMMA WebChildKeeps ==
  ASSUME HttpInv, NEW c \in Clients, WebChild(c)
  PROVE  Life(c)' /\ Answer(c)' /\ RightFile(c)'
<1>1. CASE WebReadsNothing(c) \/ FileSent(c) \/ WebKilled(c)
  <2>1. S!Running(c) /\ WebEnds(c) /\ UNCHANGED sent
    BY <1>1 DEF WebReadsNothing, FileSent, WebKilled, WebAt
  <2>2. sent[c] = <<>> \/ Complete(sent[c]) \/ Gone(c)
    <3>1. WebReadsNothing(c) => sent[c] = <<>>
      BY Known DEF WebReadsNothing, WebAt, Answer
    <3>2. FileSent(c) => Complete(sent[c])
      BY Known DEF FileSent, WebAt, Answer
    <3>3. WebKilled(c) => Gone(c)
      BY <2>1, PeerGoneIsGone DEF WebKilled
    <3>4. QED
      BY <1>1, <3>1, <3>2, <3>3
  <2>3. QED
    BY <2>1, <2>2, WebEndKeeps
<1>2. QED
  BY <1>1, WebReadKeeps, OverrunKeeps, NotFoundKeeps, SendHeaderKeeps, SendBytesKeeps
     DEF WebChild

(* The other server.                                                        *)
LEMMA OtherKeeps ==
  ASSUME HttpInv, NEW c \in Clients, OtherAnswers(c)
  PROVE  Life(c)' /\ Answer(c)' /\ RightFile(c)'
<1>1. /\ UNCHANGED <<want, client, proxyMain, proxyChild, webMain, whole>>
      /\ want[c].host # Web /\ child[c] = "relaying" /\ PF!Running(c)
      /\ web'[c] \in {"sending", "over"} /\ web[c] \in {"reading", "sending"}
  BY Known, ProxyNames DEF OtherAnswers, OtherAsked, ProxyAt, State
<1>2. Proxied(c) /\ ~ByWeb(c)
  BY <1>1, Known DEF Life, ByWeb
<1>3. Life(c)'
  BY <1>1, <1>2, Known, ProxyStill, WebStill DEF Life, Proxied, ByWeb, proxyChild
<1>4. RightFile(c)'
  BY <1>1, <1>2 DEF RightFile, Proxied
<1>5. passed[c] =< Len(sent[c]) /\ Len(sent[c]) \in Nat
  BY Known DEF Answer
<1>6. Answer(c)'
  <2>1. CASE web[c] = "reading"
    <3>1. PICK n \in 0 .. MAX_BODY :
            sent'[c] = <<Header(200, n)>> /\ left'[c] = n /\ web'[c] = "sending"
      BY <2>1, Known DEF OtherAnswers, State
    <3>2. 200 \in Status /\ n \in Nat
      BY HttpAssumption DEF Status
    <3>3. PICK a \in Seq(Part) : /\ a = <<Header(200, n)>> /\ a # <<>> /\ BodyOf(a) = 0
                                 /\ Head(a).bytes = n
      BY <3>2, HeaderAlone
    <3>4. Len(a) \in Nat /\ passed[c] = 0
      <4>1. sent[c] = <<>>
        BY <2>1, Known DEF Answer
      <4>2. Len(sent[c]) = 0
        BY <4>1
      <4>3. QED
        BY <1>5, <4>2, Known
    <3>5. QED
      BY <1>1, <3>1, <3>2, <3>3, <3>4 DEF Answer, proxyChild
  <2>2. CASE web[c] = "sending" /\ left[c] > 0 /\ web'[c] = "sending"
    <3>1. /\ sent'[c] = Append(sent[c], Bytes(1)) /\ left'[c] = left[c] - 1
      BY <2>2, Known DEF OtherAnswers, State
    <3>2. /\ sent[c] # <<>> /\ BodyOf(sent[c]) \in Nat
          /\ BodyOf(sent[c]) + left[c] = Head(sent[c]).bytes
      BY <2>2, Known, BodyType DEF Answer
    <3>3. /\ sent'[c] # <<>> /\ Head(sent'[c]) = Head(sent[c])
          /\ BodyOf(sent'[c]) = BodyOf(sent[c]) + 1 /\ Len(sent'[c]) = Len(sent[c]) + 1
      <4>1. 1 \in Nat /\ sent[c] \in Seq(Part)
        BY Known
      <4>2. QED
        BY <3>1, <3>2, <4>1, BytesSent, Zenon
    <3>4. passed[c] =< Len(sent'[c]) /\ BodyOf(sent'[c]) + left'[c] = Head(sent'[c]).bytes
      BY <1>5, <2>2, <3>1, <3>2, <3>3, Known
    <3>5. QED
      BY <1>1, <2>2, <3>3, <3>4 DEF Answer, proxyChild
  <2>3. CASE web[c] = "sending" /\ left[c] = 0 /\ web'[c] = "over"
    <3>1. sent'[c] = sent[c]
      BY <2>3, Known DEF OtherAnswers, State
    <3>2. Complete(sent[c])
      BY <2>3, Known, BodyType DEF Answer, Complete
    <3>3. QED
      BY <1>1, <1>5, <2>3, <3>1, <3>2 DEF Answer, Complete, proxyChild
  <2>4. QED
    BY <1>1, <2>1, <2>2, <2>3, Known DEF OtherAnswers, State
<1>7. QED
  BY <1>3, <1>4, <1>6

------------------------------------------------------------------------------
(* Every step                                                               *)

LEMMA OwnKeeps ==
  ASSUME HttpInv, NEW c \in Clients, Own(c)
  PROVE  Life(c)' /\ Answer(c)' /\ RightFile(c)'
BY ClientKeeps, ProxyChildKeeps, WebChildKeeps, OtherKeeps DEF Own

(* What ReadRequest makes of any request: the client's lines, and close.    *)
LEMMA PreparedReady ==
  ASSUME NEW line \in RequestLines, NEW lines \in Seq(HeaderLine)
  PROVE  Prepared(line, lines) \in Ready /\ Sourced(lines, Prepared(line, lines).slots)
<1>1. PICK pr \in Good : /\ pr = RemoveHeader(Parsed(line, lines), CONNECTION)
                         /\ Sourced(lines, pr.slots)
  BY ParsedGood, RemoveHeaderGood
<1>2. PICK key \in Seq(Texts) : key = CONNECTION
  BY TextSeq, TableAssumption DEF CONNECTION
<1>3. PICK value \in Seq(Texts) : value = <<"close">>
  BY TextSeq, TableAssumption
<1>4. PICK r \in Good : /\ r = SetHeader(pr, key, value) /\ r.slots # <<>>
                        /\ r.slots[Len(r.slots)] = [key |-> key, value |-> value]
  BY SetHeaderGood, Zenon
<1>7. Sourced(lines, r.slots)
  <2>1. [key |-> key, value |-> value] = CloseSlot
    BY <1>2, <1>3 DEF CloseSlot
  <2>2. QED
    BY <1>1, <1>4, <2>1, SetHeaderGood
<1>5. r = Prepared(line, lines)
  BY <1>1, <1>2, <1>3, <1>4, Zenon DEF Prepared
<1>6. QED
  BY <1>2, <1>3, <1>4, <1>5, <1>7 DEF Ready

(* The table is set once, from the request's lines.                         *)
LEMMA FromClientKept ==
  ASSUME HttpInv, NEW c \in Clients, Own(c) \/ Same(c)
  PROVE  FromClient(c)'
<1>1. FromClient(c) /\ want[c].line \in RequestLines /\ want[c].lines \in Seq(HeaderLine)
  BY Known DEF HttpInv
<1>2. CASE ReadRequest(c)
  <2>1. PICK line \in RequestLines : request'[c] = Prepared(line, want[c].lines)
    <3>1. "unfinished" \in RequestLines /\ c \in DOMAIN request
      BY Known DEF RequestLines, State
    <3>2. QED
      BY <1>1, <1>2, <3>1 DEF ReadRequest
  <2>2. Sourced(want[c].lines, request'[c].slots)
    BY <1>1, <2>1, PreparedReady
  <2>3. QED
    BY <1>2, <2>2 DEF FromClient, ReadRequest
<1>3. CASE want' = want /\ request'[c] = request[c]
  BY <1>1, <1>3 DEF FromClient
<1>4. Own(c) \/ Same(c) => ReadRequest(c) \/ (want' = want /\ request' = request) \/ Same(c)
  <2>1. Client(c) => want' = want /\ request' = request
    BY DEF Client, Connect, Send, Leave, proxyChild
  <2>2. ProxyChild(c) => ReadRequest(c) \/ (want' = want /\ request' = request)
    BY DEF ProxyChild, ReadsNothing, Crash, NoServer, ProxyKilled, NotImplemented,
           ConnectServer, Relay, RelayEnds, ChildEnds
  <2>3. WebChild(c) => want' = want /\ request' = request
    BY DEF WebChild, WebRead, WordsOverrun, WebReadsNothing, NotFound, SendHeader,
           SendBytes, FileSent, WebKilled, WebEnds, proxyChild
  <2>4. OtherAnswers(c) => want' = want /\ request' = request
    BY DEF OtherAnswers, proxyChild
  <2>5. QED
    BY <2>1, <2>2, <2>3, <2>4 DEF Own
<1>5. QED
  BY <1>2, <1>3, <1>4 DEF Same

(* The types, through each kind of step.                                    *)
LEMMA ClientState == ASSUME HttpInv, NEW c \in Clients, Client(c) PROVE State'
BY DEF HttpInv, State, Client, Connect, Send, Leave, proxyChild, webChild

LEMMA ProxyChildState == ASSUME HttpInv, NEW c \in Clients, ProxyChild(c) PROVE State'
<1> USE DEF HttpInv, State
<1>1. CASE ReadRequest(c)
  <2>1. PICK all \in BOOLEAN :
          /\ whole' = [whole EXCEPT ![c] = all]
          /\ request' = [request EXCEPT ![c] =
               Prepared(IF all THEN want[c].line ELSE "unfinished", want[c].lines)]
    BY <1>1 DEF ReadRequest
  <2>2. PICK r \in Ready :
          r = Prepared(IF all THEN want[c].line ELSE "unfinished", want[c].lines)
    BY Known, PreparedReady DEF RequestLines
  <2>3. request' \in [Clients -> Ready]
    BY <2>1, <2>2
  <2>4. QED
    BY <1>1, <2>1, <2>3 DEF ReadRequest, webChild
<1>2. ASSUME NEW place \in {"over", "refused"}, ChildEnds(c, place) PROVE State'
  BY <1>2 DEF ChildEnds, webChild
<1>3. CASE ConnectServer(c)
  BY <1>3 DEF ConnectServer, webChild
<1>4. CASE Relay(c)
  <2>1. passed' \in [Clients -> Nat]
    BY <1>4, Known DEF Relay
  <2>2. QED
    BY <1>4, <2>1 DEF Relay, webChild
<1>5. QED
  BY <1>1, <1>2, <1>3, <1>4 DEF ProxyChild, ReadsNothing, Crash, NoServer, ProxyKilled,
     NotImplemented, RelayEnds

LEMMA WebChildState == ASSUME HttpInv, NEW c \in Clients, WebChild(c) PROVE State'
<1> USE DEF HttpInv, State
<1>1. CASE WebRead(c)
  <2>1. PICK all \in BOOLEAN : \E uri \in Opened(c, all) :
          /\ whole' = [whole EXCEPT ![c] = @ /\ all]
          /\ \/ uri \in DOMAIN Size /\ left' = [left EXCEPT ![c] = Size[uri]]
             \/ UNCHANGED left
    BY <1>1 DEF WebRead
  <2>2. whole' \in [Clients -> BOOLEAN]
    BY <2>1
  <2>3. left' \in [Clients -> Nat]
    <3>1. \A uri \in DOMAIN Size : Size[uri] \in Nat
      BY HttpAssumption
    <3>2. QED
      BY <2>1, <3>1
  <2>4. web' \in [Clients -> {"reading", "missing", "found", "directory", "sending",
                              "endless", "eof", "undefined", "over"}]
    BY <1>1 DEF WebRead
  <2>5. QED
    BY <1>1, <2>2, <2>3, <2>4 DEF WebRead, proxyChild
<1>2. CASE (WebEnds(c) /\ UNCHANGED sent) \/ WordsOverrun(c)
  BY <1>2 DEF WordsOverrun, WebEnds, proxyChild
<1>3. CASE NotFound(c)
  <2>1. PICK a \in Seq(Part) : a = <<Header(404, 0)>>
    BY HeaderAlone DEF Status
  <2>2. QED
    BY <1>3, <2>1 DEF NotFound, WebEnds, proxyChild
<1>4. CASE SendHeader(c)
  <2>1. PICK a \in Seq(Part) : a = <<Header(200, left[c])>>
    BY Known, HeaderAlone DEF Status
  <2>2. QED
    BY <1>4, <2>1 DEF SendHeader, proxyChild
<1>5. CASE SendBytes(c)
  <2>1. PICK n \in Nat : n = BytesRead(left[c]) /\ n =< left[c]
    BY Known, HttpAssumption DEF BytesRead
  <2>2. left' \in [Clients -> Nat]
    BY <1>5, <2>1, Known DEF SendBytes
  <2>3. web' \in [Clients -> {"reading", "missing", "found", "directory", "sending",
                              "endless", "eof", "undefined", "over"}]
    BY <1>5 DEF SendBytes
  <2>4. sent' \in [Clients -> Seq(Part)]
    <3>1. Append(sent[c], Bytes(n)) \in Seq(Part)
      BY <1>5, Known, BytesSent DEF SendBytes, WebAt, Answer
    <3>2. QED
      BY <1>5, <2>1, <3>1 DEF SendBytes
  <2>5. QED
    BY <1>5, <2>2, <2>3, <2>4 DEF SendBytes, proxyChild
<1>6. QED
  BY <1>1, <1>2, <1>3, <1>4, <1>5
     DEF WebChild, WebReadsNothing, FileSent, WebKilled

LEMMA OtherState == ASSUME HttpInv, NEW c \in Clients, OtherAnswers(c) PROVE State'
<1> USE DEF HttpInv, State
<1>1. /\ web' \in [Clients -> {"reading", "missing", "found", "directory", "sending",
                               "endless", "eof", "undefined", "over"}]
      /\ UNCHANGED <<want, client, proxyMain, proxyChild, webMain, whole>>
  BY DEF OtherAnswers
<1>2. left' \in [Clients -> Nat]
  BY Known, HttpAssumption DEF OtherAnswers
<1>3. sent' \in [Clients -> Seq(Part)]
  <2>1. CASE web[c] = "reading"
    <3>1. PICK n \in 0 .. MAX_BODY : sent' = [sent EXCEPT ![c] = <<Header(200, n)>>]
      BY <2>1 DEF OtherAnswers
    <3>2. PICK a \in Seq(Part) : a = <<Header(200, n)>>
      BY HeaderAlone, HttpAssumption DEF Status
    <3>3. QED
      BY <3>1, <3>2
  <2>2. CASE web[c] = "sending"
    <3>1. Append(sent[c], Bytes(1)) \in Seq(Part)
      BY <2>2, Known, BytesSent DEF Answer
    <3>2. QED
      BY <2>2, <3>1 DEF OtherAnswers
  <2>3. QED
    BY <2>1, <2>2 DEF OtherAnswers
<1>4. QED
  BY <1>1, <1>2, <1>3 DEF proxyChild

(* The invariant is inductive.                                              *)
LEMMA StepKeeps == HttpInv /\ [Next]_vars => HttpInv'
<1> SUFFICES ASSUME HttpInv, [Next]_vars PROVE HttpInv'
  OBVIOUS
<1>1. State'
  <2>1. CASE \E c \in Clients : Own(c)
    BY <2>1, ClientState, ProxyChildState, WebChildState, OtherState DEF Own
  <2>2. CASE ProxyMain \/ WebMain \/ UNCHANGED vars
    BY <2>2 DEF HttpInv, State, ProxyMain, WebMain, vars, proxyChild, webChild
  <2>3. QED
    BY <2>1, <2>2 DEF Next, Own
<1>2. Forks'
  <2>1. /\ PF!ForkInv /\ PF!QueueInv /\ WF!ForkInv /\ WF!QueueInv /\ Nobody \notin Clients
        /\ PF!ServerStep /\ WF!ServerStep
    BY WhoMoves, HttpAssumption DEF HttpInv, Forks
  <2>2. PF!ForkInv' /\ WF!ForkInv'
    BY <2>1, PF!ForkKept, WF!ForkKept
  <2>3. PF!QueueInv' /\ WF!QueueInv'
    BY <2>1, PF!QueueKept, WF!QueueKept
  <2>4. QED
    BY <2>2, <2>3 DEF Forks
<1>3. ASSUME NEW c \in Clients
      PROVE  Life(c)' /\ Answer(c)' /\ RightFile(c)' /\ FromClient(c)'
  <2>1. Own(c) \/ (Same(c) /\ PF!OtherStep(c) /\ WF!OtherStep(c))
    BY WhoMoves
  <2>2. Life(c)' /\ Answer(c)' /\ RightFile(c)'
    BY <2>1, WhoMoves, OwnKeeps, OthersKeep
  <2>3. FromClient(c)'
    BY <2>1, FromClientKept
  <2>4. QED
    BY <2>2, <2>3
<1>4. QED
  BY <1>1, <1>2, <1>3 DEF HttpInv

LEMMA HttpInit == Init => HttpInv
<1> SUFFICES ASSUME Init PROVE HttpInv
  OBVIOUS
<1>1. PF!Init /\ WF!Init
  BY DEF Init, P!Init, S!Init, PF!Init, WF!Init
<1>2. Forks
  BY <1>1, PF!ForkInit, WF!ForkInit, PF!QueueInit, WF!QueueInit DEF Forks
<1>3. State
  <2>1. NewRequest \in Ready
    BY NewRequestGood DEF NewRequest, Ready
  <2>2. <<>> \in Seq(Part)
    BY EmptySeq
  <2>3. QED
    BY <2>1, <2>2 DEF Init, State
<1>4. ASSUME NEW c \in Clients PROVE PF!Fresh(c) /\ WF!Fresh(c)
  BY <1>1, HttpAssumption
     DEF PF!Init, WF!Init, PF!Fresh, WF!Fresh, PF!Waiting, WF!Waiting
<1>5. ASSUME NEW c \in Clients PROVE Life(c)
  BY <1>4 DEF Init, Life
<1>6. ASSUME NEW c \in Clients PROVE Answer(c)
  <2>1. Len(sent[c]) = 0 /\ passed[c] = 0
    BY DEF Init
  <2>2. QED
    BY <2>1 DEF Init, Answer
<1>7. ASSUME NEW c \in Clients PROVE RightFile(c)
  BY DEF Init, RightFile
<1>8. ASSUME NEW c \in Clients PROVE FromClient(c)
  <2>1. request[c].slots = <<>> /\ Len(<<>>) = 0
    BY DEF Init, NewRequest
  <2>2. QED
    BY <2>1 DEF FromClient, Sourced
<1>9. QED
  BY <1>2, <1>3, <1>5, <1>6, <1>7, <1>8 DEF HttpInv

LEMMA HttpHolds == Spec => []HttpInv
BY HttpInit, StepKeeps, PTL DEF Spec

------------------------------------------------------------------------------
(* Theorems                                                                 *)

(* No child ever has a connection but its own, however many are accepted,   *)
(* forked, and end in whatever order: fork copies what the parent has open, *)
(* and the parent has nothing open but the connection it forks for.         *)
THEOREM NoForeign == Spec => []NoForeignConnection
<1>1. HttpInv => NoForeignConnection
  BY HttpAssumption DEF HttpInv, Forks, PF!ForkInv, WF!ForkInv, PF!OwnOnly, WF!OwnOnly,
     NoForeignConnection
<1>2. QED
  BY <1>1, HttpHolds, PTL

(* The table never has more slots than ParsedHeader_set has made room for,  *)
(* whatever the request, and no more is relayed than was sent.              *)
THEOREM TypeCorrect == Spec => []TypeOK
<1>1. HttpInv => TypeOK
  <2> SUFFICES ASSUME HttpInv PROVE TypeOK
    OBVIOUS
  <2>1. P!TypeOK /\ S!TypeOK
    BY DEF HttpInv, Forks, PF!ForkInv, WF!ForkInv, P!TypeOK, S!TypeOK
  <2>2. ASSUME NEW c \in Clients
        PROVE  /\ request[c].method \in Methods /\ Len(request[c].slots) =< request[c].cap
               /\ passed[c] \in 0 .. Len(sent[c])
    <3>1. request[c] \in Table /\ Len(request[c].slots) =< request[c].cap
      BY DEF HttpInv, State, Ready, Good
    <3>2. passed[c] \in 0 .. Len(sent[c])
      <4>1. Len(sent[c]) \in Nat /\ passed[c] \in Nat /\ passed[c] =< Len(sent[c])
        BY Known DEF Answer
      <4>2. QED
        BY <4>1
    <3>3. QED
      BY <3>1, <3>2 DEF Table
  <2>3. QED
    BY <2>1, <2>2 DEF HttpInv, State, TypeOK, Part
<1>2. QED
  BY <1>1, HttpHolds, PTL

(* A slot from lines in which the parser could find all Connection headers  *)
(* names Connection by its key alone.                                       *)
LEMMA FoundByKey ==
  ASSUME NEW lines \in Seq(HeaderLine), ConnectionsFound(lines), NEW s \in Slot,
         s = CloseSlot \/ FromLine(lines, s), NamesConnection(s)
  PROVE  s.key = CONNECTION
<1>1. CASE s = CloseSlot
  BY <1>1 DEF CloseSlot
<1>2. CASE FromLine(lines, s)
  <2>1. PICK n \in 1 .. Len(lines) :
          /\ Len(s.key) \in Nat /\ Len(s.key) >= 1 /\ s.key[Len(s.key)] = lines[n].key
          /\ Len(s.key) > 1 => n > 1 /\ lines[n - 1].form = "nocolon"
          /\ s.value = Value(lines, n)
    BY <1>2, Zenon DEF FromLine
  <2>2. \A i \in 1 .. Len(lines) : lines[i].key \in Spellings =>
          lines[i].key = "Connection" /\ (i > 1 => lines[i - 1].form = "plain")
    BY DEF ConnectionsFound
  <2>3. CASE s.key[Len(s.key)] \in Spellings
    <3>1. lines[n].key = "Connection" /\ (n > 1 => lines[n - 1].form = "plain")
      BY <2>1, <2>2, <2>3
    <3>2. Len(s.key) = 1 /\ s.key[1] = "Connection"
      <4>1. ~(Len(s.key) > 1)
        BY <2>1, <3>1
      <4>2. Len(s.key) = 1
        <5>1. \A m \in Nat : m >= 1 /\ ~(m > 1) => m = 1
          OBVIOUS
        <5>2. QED
          BY <2>1, <4>1, <5>1, Zenon
      <4>3. QED
        BY <2>1, <3>1, <4>2, Zenon
    <3>3. s.key \in Seq(Texts)
      BY DEF Slot
    <3>4. QED
      BY <3>2, <3>3 DEF CONNECTION
  <2>4. CASE Len(s.value) = 3 /\ s.value[2] \in Spellings
    <3>1. lines[n].form = "empty" /\ n # Len(lines) /\ s.value[2] = lines[n + 1].key
      <4>1. \A v : Len(<<v>>) = 1
        OBVIOUS
      <4>2. \A u, v, w : <<u, v, w>>[2] = v
        OBVIOUS
      <4>3. lines[n].form # "empty" => s.value = <<lines[n].value>>
        <5>1. lines[n].form # "empty" => Value(lines, n) = <<lines[n].value>>
          BY DEF Value
        <5>2. QED
          BY <2>1, <5>1
      <4>4. lines[n].form = "empty" /\ n = Len(lines) => s.value = <<"newline">>
        BY <2>1 DEF Value
      <4>5. lines[n].form = "empty" /\ n # Len(lines) =>
              s.value = <<"newline", lines[n + 1].key, lines[n + 1].value>>
        BY <2>1 DEF Value
      <4>6. QED
        BY <2>4, <4>1, <4>2, <4>3, <4>4, <4>5
    <3>2. n + 1 \in 1 .. Len(lines) /\ n + 1 > 1 /\ (n + 1) - 1 = n
      BY <3>1
    <3>3. lines[n].form = "plain"
      BY <2>2, <2>4, <3>1, <3>2
    <3>4. QED
      BY <3>1, <3>3
  <2>5. QED
    BY <2>3, <2>4 DEF NamesConnection
<1>3. QED
  BY <1>1, <1>2

(* What goes to the server ends with Connection: close, for every request   *)
(* the parser can be given; and no other line names Connection, if those of *)
(* the client are spelled as the parser does and each can be found.         *)
THEOREM CloseOnce == Spec => []OneClose
<1>1. HttpInv => OneClose
  <2> SUFFICES ASSUME HttpInv, NEW c \in Clients, Unparsed(request[c]) # <<>>
               PROVE  LET slots == Unparsed(request[c])
                      IN /\ slots[Len(slots)] = [key |-> CONNECTION, value |-> <<"close">>]
                         /\ ConnectionsFound(want[c].lines) =>
                              \A i \in DOMAIN slots :
                                NamesConnection(slots[i]) => i = Len(slots)
    BY Zenon DEF OneClose
  <2>1. PICK r \in Ready : r = request[c] /\ r \in Good /\ r \in Table
    BY DEF HttpInv, State, Ready, Good
  <2>2. r.buf
    BY <2>1 DEF Unparsed
  <2>3. PICK s : s = r.slots[Len(r.slots)] /\ s = [key |-> CONNECTION, value |-> <<"close">>]
    BY <2>1, <2>2 DEF Ready
  <2>4. s # Removed
    <3>1. CONNECTION \in Seq(Texts) /\ <<"close">> \in Seq(Texts)
      BY TextSeq, TableAssumption DEF CONNECTION
    <3>2. s \in Slot
      BY <2>3, <3>1 DEF Slot
    <3>3. QED
      BY <3>2, TableAssumption
  <2>5. PICK x \in Taken(r.slots, Len(r.slots)) :
          x = Unparsed(r) /\ x # <<>> /\ x[Len(x)] = s
    BY <2>1, <2>2, <2>3, <2>4, UnparsedTaken DEF Ready
  <2>6. x \in Seq(Slot) /\ DOMAIN x = 1 .. Len(x) /\ Len(x) \in Nat /\ Len(x) \in DOMAIN x
    BY <2>5, EmptySeq DEF Taken
  <2>7. ASSUME ConnectionsFound(want[c].lines), NEW i \in DOMAIN x, NamesConnection(x[i])
        PROVE  i = Len(x)
    <3>1. PICK k \in 1 .. Len(r.slots) : x[i] = r.slots[k] /\ r.slots[k] # Removed
      BY <2>5, <2>6 DEF Taken
    <3>2. x[i] = CloseSlot \/ FromLine(want[c].lines, x[i])
      BY <2>1, <3>1 DEF HttpInv, FromClient, Sourced
    <3>3. x[i] \in Slot /\ want[c].lines \in Seq(HeaderLine)
      BY <2>6, Known
    <3>4. x[i].key = CONNECTION
      BY <2>7, <3>2, <3>3, FoundByKey
    <3>5. x[Len(x)].key = CONNECTION
      BY <2>3, <2>5
    <3>6. \A j, l \in DOMAIN x : x[j].key = x[l].key => j = l
      BY <2>1, <2>5, UnparsedOnce
    <3>7. QED
      BY <2>6, <3>4, <3>5, <3>6
  <2>8. QED
    BY <2>1, <2>3, <2>5, <2>7
<1>2. QED
  BY <1>1, HttpHolds, PTL

(* An answer that a waiting client has seen when its connection ends is     *)
(* whole, and server1's is the file that it asked for.                      *)
THEOREM AnswersWhole == Spec => []WholeAnswers
<1>1. HttpInv => WholeAnswers
  <2> SUFFICES ASSUME HttpInv, NEW c \in Clients,
                      client[c] = "sent", Over(c), whole[c], Seen(c) # <<>>
               PROVE  /\ Complete(Seen(c))
                      /\ ~Proxied(c) /\ Head(Seen(c)).status = 200
                           => want[c].uri \in DOMAIN Size
                              /\ Head(Seen(c)).bytes = Size[want[c].uri]
    BY Zenon DEF WholeAnswers
  <2>1. CASE ~Proxied(c)
    <3>1. Seen(c) = sent[c] /\ sent[c] # <<>>
      BY <2>1, Known DEF Seen, Life
    <3>2. ~Gone(c)
      BY <2>1 DEF Gone
    <3>3. ~WF!Running(c)
      BY <2>1, WebNames DEF Over, WF!Running
    <3>4. web[c] = "over"
      BY <2>1, <3>1, <3>3, Known DEF Life, ByWeb, Answer
    <3>5. QED
      BY <2>1, <3>1, <3>2, <3>4, Known DEF Answer, RightFile
  <2>2. CASE Proxied(c) /\ child[c] = "refused"
    <3>1. 501 \in Status /\ 0 \in Nat
      BY DEF Status
    <3>2. PICK a \in Seq(Part) : a = <<Header(501, 0)>> /\ BodyOf(a) = 0 /\ Head(a).bytes = 0
      BY <3>1, HeaderAlone
    <3>3. Complete(a) /\ Seen(c) = a
      BY <2>2, <3>2 DEF Complete, Seen
    <3>4. QED
      BY <2>2, <3>3
  <2>3. CASE Proxied(c) /\ child[c] # "refused"
    <3>1. Seen(c) = SubSeq(sent[c], 1, passed[c])
      BY <2>3 DEF Seen
    <3>2. passed[c] > 0
      <4>1. CASE passed[c] = 0
        <5>1. SubSeq(sent[c], 1, 0) = <<>>
          BY Known
        <5>2. QED
          BY <3>1, <4>1, <5>1
      <4>2. QED
        BY <4>1, Known
    <3>3. ~PF!Running(c)
      BY <2>3, ProxyNames DEF Over, PF!Running
    <3>4. child[c] = "over"
      BY <2>3, <3>2, <3>3, Known DEF Life, State
    <3>5. passed[c] = Len(sent[c]) /\ Complete(sent[c])
      BY <3>2, <3>4, Known DEF Answer
    <3>6. SubSeq(sent[c], 1, Len(sent[c])) = sent[c]
      BY Known
    <3>7. QED
      BY <2>3, <3>1, <3>5, <3>6
  <2>4. QED
    BY <2>1, <2>2, <2>3
<1>2. QED
  BY <1>1, HttpHolds, PTL
==============================================================================
