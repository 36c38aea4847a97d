-------------------------- MODULE FileTransferProofs -------------------------
(* What a client of the file server shows, for any clients, files and size  *)
(* of packets.                                                              *)
EXTENDS FileTransfer, LoopProofs, SequenceTheorems

------------------------------------------------------------------------------
(* What there is to know of a state                                         *)

Cells == {"welcome", "-1", "count", "text", "nul"} \X Nat
NoFile == Cell("-1", 0)
IsFun(f) == f = [c \in Clients |-> f[c]]

State ==
  /\ client \in [Clients -> {"away", "connected", "prompt", "mute", "asked", "reading",
                             "gone"}]
  /\ backlog \in Seq(Clients)
  /\ asked \in [Clients -> Seq(DOMAIN File)]
  /\ steady \in [Clients -> BOOLEAN]
  /\ IsFun(up) /\ IsFun(down) /\ IsFun(shown) /\ IsFun(count)

(* A client connects once, waits once, and is served after that.            *)
Waiting(c) == \E i \in DOMAIN backlog : backlog[i] = c
QueueInv ==
  /\ \A i, j \in DOMAIN backlog : backlog[i] = backlog[j] => i = j
  /\ \A c \in Clients : /\ Waiting(c) => client[c] # "away" /\ current # c
                        /\ client[c] = "away" => current # c

------------------------------------------------------------------------------
(* What is written for a file                                               *)

(* Cell j of it: the count, padded, then the text, padded.                  *)
Written(text, j) ==
  IF j = 1 THEN Cell("count", Count(Len(text)))
  ELSE IF j > PKT /\ j - PKT =< Len(text) THEN text[j - PKT]
  ELSE Nul

(* s is packets r up to w - 1 of it; packet 0 is the count.                 *)
Flow(s, text, r, w) ==
  /\ r \in Nat /\ w \in Nat /\ r =< w
  /\ s \in Seq(Cells) /\ Len(s) = (w - r) * PKT
  /\ \A k \in 1 .. Len(s) : s[k] = Written(text, r * PKT + k)

(* The packets that are still to be written begin with w.                   *)
ToWrite(text, w) ==
  /\ Len(packets) = Count(Len(text)) + 1 - w
  /\ packets = [i \in 1 .. Len(packets) |-> Packet(text, w - 1 + i)]

(* r packets of it have been read.                                          *)
Sending(c, text, r) ==
  \E w \in 1 .. Count(Len(text)) + 1 :
    /\ Flow(down[c], text, r, w) /\ ToWrite(text, w)
    /\ server = "sending" \/ (server = "loop" /\ w = Count(Len(text)) + 1)

(* s is what of the text is in its packets up to r - 1.                     *)
Beginning(s, text, r) ==
  /\ s \in Seq({"text"} \X Nat)
  /\ Len(s) = IF (r - 1) * PKT =< Len(text) THEN (r - 1) * PKT ELSE Len(text)
  /\ \A k \in 1 .. Len(s) : s[k] = text[k]

------------------------------------------------------------------------------
(* The invariant                                                            *)

Name(c) == asked[c][Len(asked[c])]

(* The server waits for a name.                                             *)
Ready == server \in {"loop", "first"} \/ (server = "sending" /\ packets = <<>>)

Fresh(c) ==
  client[c] \in {"away", "connected"} =>
    /\ up[c] = <<>> /\ asked[c] = <<>>
    /\ client[c] = "away" => down[c] = <<>>

Greeted(c) ==
  client[c] = "connected" =>
    \/ current # c /\ down[c] = <<>>
    \/ current = c /\ server \in {"loop", "first"} /\ down[c] = Welcome

Prompted(c) ==
  client[c] \in {"prompt", "mute"} =>
    /\ current = c /\ Ready /\ up[c] = <<>> /\ down[c] = <<>>
    /\ asked[c] # <<>> => shown[c] = File[Name(c)]

Answered(c) ==
  client[c] = "asked" =>
    /\ current = c /\ asked[c] # <<>> /\ shown[c] = <<>>
    /\ \/ Ready /\ up[c] = <<Name(c)>> /\ down[c] = <<>>
       \/ /\ server = "loop" /\ up[c] = <<>> /\ File[Name(c)] = Missing
          /\ down[c] = <<NoFile>>
       \/ up[c] = <<>> /\ File[Name(c)] # Missing /\ Sending(c, File[Name(c)], 0)

Reading(c) ==
  client[c] = "reading" =>
    LET text == File[Name(c)]
    IN /\ current = c /\ asked[c] # <<>> /\ up[c] = <<>> /\ text # Missing
       /\ \E r \in 1 .. Count(Len(text)) :
            /\ count[c] = Count(Len(text)) + 1 - r
            /\ Sending(c, text, r) /\ Beginning(shown[c], text, r)

Agree(c) == steady[c] => Greeted(c) /\ Prompted(c) /\ Answered(c) /\ Reading(c)

FileInv == State /\ QueueInv /\ \A c \in Clients : Fresh(c) /\ Agree(c)

------------------------------------------------------------------------------
(* Packets                                                                  *)

(* The text of a file.                                                      *)
TextOf(text) ==
  /\ text \in Seq({"text"} \X Nat)
  /\ \A i \in 1 .. Len(text) : text[i] # Nul /\ text[i] \in Cells

(* A file that is there has a text, without NULs.                           *)
LEMMA FileText ==
  ASSUME NEW name \in DOMAIN File, File[name] # Missing
  PROVE  TextOf(File[name])
<1>1. PICK text \in Seq({"text"} \X Nat) :
        text = File[name] /\ \A i \in DOMAIN text : text[i] = Cell("text", i)
  BY TransferAssumption
<1>2. ASSUME NEW i \in 1 .. Len(text) PROVE text[i] # Nul /\ text[i] \in Cells
  <2>1. text[i] = <<"text", i>> /\ i \in Nat
    BY <1>1 DEF Cell
  <2>2. QED
    BY <2>1 DEF Nul, Cells
<1>3. QED
  BY <1>1, <1>2 DEF TextOf

(* Products of positions and the size of a packet.                          *)
LEMMA Times ==
  ASSUME NEW a \in Nat, NEW b \in Nat, a =< b, NEW m \in Nat, m > 0
  PROVE  /\ a * m \in Nat /\ b * m \in Nat /\ (b - a) * m \in Nat
         /\ b * m = a * m + (b - a) * m
         /\ (a + 1) * m = a * m + m /\ (b + 1) * m = b * m + m
         /\ (b + 1 - a) * m = (b - a) * m + m
         /\ (b - (a + 1)) * m = (b - a) * m - m
         /\ IF a = b THEN (b - a) * m = 0 ELSE (b - a) * m >= m
<1>1. PICK d \in Nat : d = b - a /\ b = a + d
  OBVIOUS
<1>2. /\ a * m \in Nat /\ b * m \in Nat /\ d * m \in Nat
      /\ (a + 1) * m = a * m + m /\ (b + 1) * m = b * m + m
      /\ (d + 1) * m = d * m + m /\ (d - 1) * m = d * m - m
      /\ (a + d) * m = a * m + d * m
  OBVIOUS
<1>3. IF d = 0 THEN d * m = 0 ELSE d * m >= m
  OBVIOUS
<1>4. b + 1 - a = d + 1 /\ b - (a + 1) = d - 1 /\ (a = b <=> d = 0)
  BY <1>1
<1>5. QED
  BY <1>1, <1>2, <1>3, <1>4

(* There are packets enough for a text.                                     *)
LEMMA CountCovers ==
  ASSUME NEW n \in Nat
  PROVE  Count(n) \in Nat /\ n =< Count(n) * PKT
<1>1. PKT \in Nat /\ PKT > 0
  BY TransferAssumption
<1>2. PICK q \in Nat : q = n \div PKT
  BY <1>1, DivMod
<1>3. PICK e \in 0 .. PKT - 1 : e = n % PKT
  BY <1>1, DivMod
<1>4. n = PKT * q + e /\ Count(n) = IF e = 0 THEN q ELSE q + 1
  BY <1>1, <1>2, <1>3, DivMod DEF Count
<1>5. (q + 1) * PKT = PKT * q + PKT /\ q * PKT = PKT * q /\ PKT * q \in Nat
  BY <1>1
<1>6. QED
  BY <1>1, <1>4, <1>5

(* The first packet, and those of the text.                                 *)
Whole(p, text, i) ==
  /\ p \in Seq(Cells) /\ Len(p) = PKT
  /\ \A k \in 1 .. PKT : p[k] = Written(text, i * PKT + k)

(* Every message is made of cells.                                          *)
LEMMA CellTypes ==
  ASSUME NEW n \in Nat
  PROVE  Cell("count", n) \in Cells /\ Nul \in Cells /\ NoFile \in Cells
         /\ Cell("welcome", 0) \in Cells
BY DEF Cell, Cells, Nul, NoFile

(* The first packet is the count.                                           *)
LEMMA CountPacket ==
  ASSUME NEW text, TextOf(text)
  PROVE  Whole([k \in 1 .. PKT |-> IF k = 1 THEN Cell("count", Count(Len(text))) ELSE Nul],
               text, 0)
<1>1. Len(text) \in Nat /\ Count(Len(text)) \in Nat /\ PKT \in Nat /\ PKT > 0
  BY CountCovers, TransferAssumption DEF TextOf
<1> DEFINE one == Cell("count", Count(Len(text)))
           p == [k \in 1 .. PKT |-> IF k = 1 THEN one ELSE Nul]
<1>2. one \in Cells /\ Nul \in Cells
  BY <1>1, CellTypes
<1> HIDE DEF one
<1>3. p \in Seq(Cells) /\ Len(p) = PKT /\ \A k \in 1 .. PKT : p[k] = IF k = 1 THEN one ELSE Nul
  BY <1>1, <1>2
<1>4. ASSUME NEW k \in 1 .. PKT PROVE p[k] = Written(text, 0 * PKT + k)
  <2>1. 0 * PKT + k = k /\ ~(k > PKT)
    BY <1>1
  <2>2. QED
    BY <1>3, <2>1 DEF Written, one
<1>5. QED
  BY <1>3, <1>4 DEF Whole, one

(* Packet i of a text is where the client expects it.                       *)
LEMMA TextPacket ==
  ASSUME NEW text, TextOf(text), NEW i \in Nat, i >= 1
  PROVE  Whole(Packet(text, i), text, i)
<1>1. PKT \in Nat /\ PKT > 0 /\ Len(text) \in Nat /\ Nul \in Cells
  BY TransferAssumption, CellTypes DEF TextOf
<1>2. PICK b \in Nat : b = (i - 1) * PKT /\ i * PKT = b + PKT
  <2>1. i - 1 \in Nat
    OBVIOUS
  <2>2. (i - 1) * PKT \in Nat /\ ((i - 1) + 1) * PKT = (i - 1) * PKT + PKT
    BY <1>1, <2>1, Times
  <2>3. QED
    BY <2>2
<1>3. Packet(text, i) = [k \in 1 .. PKT |-> IF b + k =< Len(text) THEN text[b + k] ELSE Nul]
  BY <1>2 DEF Packet
<1>4. ASSUME NEW k \in 1 .. PKT PROVE Packet(text, i)[k] \in Cells
  <2>1. PICK j \in Nat : j = b + k /\ j >= 1
    BY <1>1, <1>2
  <2>2. j =< Len(text) => text[j] \in Cells
    BY <1>1, <2>1 DEF TextOf
  <2>3. QED
    BY <1>1, <1>3, <2>1, <2>2
<1>5. Packet(text, i) \in Seq(Cells) /\ Len(Packet(text, i)) = PKT
  BY <1>1, <1>3, <1>4
<1>6. ASSUME NEW k \in 1 .. PKT PROVE Packet(text, i)[k] = Written(text, i * PKT + k)
  <2>1. PICK j \in Nat : j = i * PKT + k /\ j - PKT = b + k /\ j > PKT /\ j # 1
    BY <1>1, <1>2
  <2>2. Written(text, j) = IF b + k =< Len(text) THEN text[b + k] ELSE Nul
    BY <2>1 DEF Written
  <2>3. QED
    BY <1>3, <2>1, <2>2
<1>7. QED
  BY <1>5, <1>6 DEF Whole

(* One more packet is written.                                              *)
LEMMA FlowGrows ==
  ASSUME NEW text, NEW s, NEW r, NEW w, Flow(s, text, r, w), NEW p, Whole(p, text, w)
  PROVE  Flow(s \o p, text, r, w + 1)
<1>1. /\ r \in Nat /\ w \in Nat /\ r =< w /\ PKT \in Nat /\ PKT > 0
      /\ s \in Seq(Cells) /\ p \in Seq(Cells) /\ Len(p) = PKT
  BY TransferAssumption DEF Flow, Whole
<1>2. PICK n \in Nat : n = Len(s) /\ n = (w - r) * PKT
  BY <1>1 DEF Flow
<1>3. PICK a \in Nat : a = r * PKT /\ w * PKT = a + n /\ (w + 1 - r) * PKT = n + PKT
  BY <1>1, <1>2, Times
<1>4. /\ s \o p \in Seq(Cells) /\ Len(s \o p) = n + PKT
      /\ \A k \in 1 .. n + PKT : (s \o p)[k] = IF k =< n THEN s[k] ELSE p[k - n]
  <2>1. /\ s \o p \in Seq(Cells) /\ Len(s \o p) = Len(s) + Len(p)
        /\ \A k \in 1 .. Len(s) + Len(p) : (s \o p)[k] = IF k <= Len(s) THEN s[k]
                                                        ELSE p[k - Len(s)]
    BY <1>1, ConcatProperties, Zenon
  <2>2. QED
    BY <1>1, <1>2, <2>1
<1>5. ASSUME NEW k \in 1 .. n + PKT PROVE (s \o p)[k] = Written(text, r * PKT + k)
  <2>1. CASE k =< n
    BY <1>2, <1>4, <2>1 DEF Flow
  <2>2. CASE k > n
    <3>1. k - n \in 1 .. PKT /\ w * PKT + (k - n) = r * PKT + k /\ ~(k =< n)
      BY <1>1, <1>2, <1>3, <2>2
    <3>2. p[k - n] = Written(text, w * PKT + (k - n))
      BY <3>1 DEF Whole
    <3>3. QED
      BY <1>4, <3>1, <3>2
  <2>3. k =< n \/ k > n
    BY <1>1
  <2>4. QED
    BY <2>1, <2>2, <2>3
<1>6. w + 1 \in Nat /\ r =< w + 1
  BY <1>1
<1>7. Len(s \o p) = (w + 1 - r) * PKT
  BY <1>3, <1>4, Zenon
<1>8. \A k \in 1 .. Len(s \o p) : (s \o p)[k] = Written(text, r * PKT + k)
  BY <1>4, <1>5, Zenon
<1>9. r \in Nat /\ s \o p \in Seq(Cells)
  BY <1>1, <1>4, Zenon
<1>10. QED
  BY <1>6, <1>7, <1>8, <1>9 DEF Flow

(* Nothing is on its way when all that is written is read.                  *)
LEMMA FlowEmpty ==
  ASSUME NEW text, NEW r \in Nat
  PROVE  Flow(<<>>, text, r, r)
<1>1. PKT \in Nat /\ PKT > 0
  BY TransferAssumption
<1>2. (r - r) * PKT = 0
  BY <1>1, Times
<1>3. <<>> \in Seq(Cells) /\ Len(<<>>) = 0
  BY EmptySeq
<1>4. QED
  BY <1>2, <1>3 DEF Flow

(* A piece of a sequence, by its elements.                                  *)
LEMMA Slice ==
  ASSUME NEW S, NEW s \in Seq(S), NEW m \in 1 .. Len(s) + 1, NEW n \in m - 1 .. Len(s)
  PROVE  /\ SubSeq(s, m, n) \in Seq(S) /\ Len(SubSeq(s, m, n)) = n - m + 1
         /\ \A k \in 1 .. n - m + 1 : SubSeq(s, m, n)[k] = s[m + k - 1]
<1>1. m \in Int /\ n \in Int /\ \A i \in m .. n : s[i] \in S
  OBVIOUS
<1>2. /\ SubSeq(s, m, n) \in Seq(S) /\ Len(SubSeq(s, m, n)) = IF m <= n THEN n - m + 1 ELSE 0
      /\ \A k \in 1 .. n - m + 1 : SubSeq(s, m, n)[k] = s[m + k - 1]
  BY <1>1, SubSeqProperties, SMT
<1>3. QED
  BY <1>1, <1>2

(* Both ends of a sequence.                                                 *)
LEMMA CutAt ==
  ASSUME NEW S, NEW s \in Seq(S), NEW n \in 1 .. Len(s)
  PROVE  /\ SubSeq(s, 1, n) \in Seq(S) /\ Len(SubSeq(s, 1, n)) = n
         /\ \A k \in 1 .. n : SubSeq(s, 1, n)[k] = s[k]
         /\ SubSeq(s, n + 1, Len(s)) \in Seq(S)
         /\ Len(SubSeq(s, n + 1, Len(s))) = Len(s) - n
         /\ \A k \in 1 .. Len(s) - n : SubSeq(s, n + 1, Len(s))[k] = s[n + k]
<1>1. /\ 1 \in 1 .. Len(s) + 1 /\ n \in 1 - 1 .. Len(s)
      /\ n + 1 \in 1 .. Len(s) + 1 /\ Len(s) \in (n + 1) - 1 .. Len(s)
  OBVIOUS
<1>2. /\ SubSeq(s, 1, n) \in Seq(S) /\ Len(SubSeq(s, 1, n)) = n - 1 + 1
      /\ \A k \in 1 .. n - 1 + 1 : SubSeq(s, 1, n)[k] = s[1 + k - 1]
  BY <1>1, Slice
<1>3. /\ SubSeq(s, n + 1, Len(s)) \in Seq(S)
      /\ Len(SubSeq(s, n + 1, Len(s))) = Len(s) - (n + 1) + 1
      /\ \A k \in 1 .. Len(s) - (n + 1) + 1 :
           SubSeq(s, n + 1, Len(s))[k] = s[(n + 1) + k - 1]
  BY <1>1, Slice
<1>4. n - 1 + 1 = n /\ Len(s) - (n + 1) + 1 = Len(s) - n
  OBVIOUS
<1>5. \A k \in Nat : 1 + k - 1 = k /\ (n + 1) + k - 1 = n + k
  OBVIOUS
<1>6. ASSUME NEW k \in 1 .. n PROVE SubSeq(s, 1, n)[k] = s[k]
  <2>1. k \in Nat /\ k \in 1 .. n - 1 + 1
    BY <1>4
  <2>2. SubSeq(s, 1, n)[k] = s[1 + k - 1]
    BY <1>2, <2>1, Zenon
  <2>3. QED
    BY <1>5, <2>1, <2>2
<1>7. ASSUME NEW k \in 1 .. Len(s) - n PROVE SubSeq(s, n + 1, Len(s))[k] = s[n + k]
  <2>1. k \in Nat /\ k \in 1 .. Len(s) - (n + 1) + 1
    BY <1>4
  <2>2. SubSeq(s, n + 1, Len(s))[k] = s[(n + 1) + k - 1]
    BY <1>3, <2>1, Zenon
  <2>3. QED
    BY <1>5, <2>1, <2>2
<1>8. Len(SubSeq(s, 1, n)) = n /\ Len(SubSeq(s, n + 1, Len(s))) = Len(s) - n
  <2>1. Len(SubSeq(s, 1, n)) = n - 1 + 1
    BY <1>2, Zenon
  <2>2. Len(SubSeq(s, n + 1, Len(s))) = Len(s) - (n + 1) + 1
    BY <1>3, Zenon
  <2>3. QED
    BY <1>4, <2>1, <2>2, Zenon
<1>9. QED
  BY <1>2, <1>3, <1>6, <1>7, <1>8, Zenon

(* A read that is not short gets just the next packet.                      *)
LEMMA FlowRead ==
  ASSUME NEW text, NEW s, NEW r, NEW w, Flow(s, text, r, w), NEW n \in 1 .. PKT,
         n =< Len(s), n \in {PKT, Len(s)}
  PROVE  /\ n = PKT /\ r < w /\ Whole(SubSeq(s, 1, n), text, r)
         /\ Flow(SubSeq(s, n + 1, Len(s)), text, r + 1, w)
<1>1. /\ r \in Nat /\ w \in Nat /\ r =< w /\ PKT \in Nat /\ PKT > 0 /\ s \in Seq(Cells)
  BY TransferAssumption DEF Flow
<1>2. PICK l \in Nat : l = Len(s) /\ l = (w - r) * PKT
  BY <1>1 DEF Flow
<1>3. PICK a \in Nat : a = r * PKT /\ (r + 1) * PKT = a + PKT /\ (w - (r + 1)) * PKT = l - PKT
                       /\ IF r = w THEN l = 0 ELSE l >= PKT
  BY <1>1, <1>2, Times
<1>4. n = PKT /\ r < w /\ l >= PKT
  BY <1>1, <1>2, <1>3
<1>5. ASSUME NEW k \in 1 .. l PROVE s[k] = Written(text, a + k) /\ s[k] \in Cells
  BY <1>1, <1>2, <1>3 DEF Flow
<1>6. PKT \in 1 .. Len(s) /\ l = Len(s)
  BY <1>1, <1>2, <1>4
<1>7. /\ SubSeq(s, 1, PKT) \in Seq(Cells) /\ Len(SubSeq(s, 1, PKT)) = PKT
      /\ \A k \in 1 .. PKT : SubSeq(s, 1, PKT)[k] = s[k]
      /\ SubSeq(s, PKT + 1, l) \in Seq(Cells) /\ Len(SubSeq(s, PKT + 1, l)) = l - PKT
      /\ \A k \in 1 .. l - PKT : SubSeq(s, PKT + 1, l)[k] = s[PKT + k]
  BY <1>1, <1>6, CutAt, Zenon
<1>8. Whole(SubSeq(s, 1, n), text, r)
  <2>1. ASSUME NEW k \in 1 .. PKT PROVE SubSeq(s, 1, PKT)[k] = Written(text, r * PKT + k)
    <3>1. k \in 1 .. l
      BY <1>1, <1>4
    <3>2. QED
      BY <1>3, <1>5, <1>7, <3>1
  <2>2. QED
    BY <1>4, <1>7, <2>1 DEF Whole
<1>9. ASSUME NEW k \in 1 .. l - PKT
      PROVE  SubSeq(s, PKT + 1, l)[k] = Written(text, (r + 1) * PKT + k)
  <2>1. PKT + k \in 1 .. l /\ a + (PKT + k) = (r + 1) * PKT + k
    BY <1>1, <1>3, <1>4
  <2>2. QED
    BY <1>5, <1>7, <2>1
<1>10. r + 1 \in Nat /\ r + 1 =< w
  BY <1>1, <1>4
<1>11. QED
  BY <1>1, <1>2, <1>3, <1>4, <1>7, <1>8, <1>9, <1>10 DEF Flow

(* printf stops at the first NUL.                                           *)
LEMMA PrintedIs ==
  ASSUME NEW buffer \in Seq(Cells), NEW n \in 0 .. Len(buffer),
         \A i \in 1 .. n : buffer[i] # Nul, n < Len(buffer) => buffer[n + 1] = Nul
  PROVE  Printed(buffer) = SubSeq(buffer, 1, n)
<1> DEFINE Is(k) == /\ \A i \in 1 .. k : buffer[i] # Nul
                    /\ k < Len(buffer) => buffer[k + 1] = Nul
           c == CHOOSE k \in 0 .. Len(buffer) : Is(k)
<1>1. Is(n)
  OBVIOUS
<1>2. c \in 0 .. Len(buffer) /\ Is(c)
  BY <1>1
<1>3. c = n
  <2>1. ~(c < n)
    BY <1>2
  <2>2. ~(n < c)
    BY <1>2
  <2>3. QED
    BY <1>2, <2>1, <2>2
<1>4. QED
  BY <1>3 DEF Printed

Chars == {"text"} \X Nat

(* What is printed of a packet goes on where the last one ended.            *)
LEMMA BeginningGrows ==
  ASSUME NEW text, TextOf(text), NEW r \in Nat, r >= 1, NEW p, Whole(p, text, r),
         NEW s, Beginning(s, text, r)
  PROVE  Beginning(s \o Printed(p), text, r + 1)
<1>1. PICK t \in Nat : t = Len(text)
  BY DEF TextOf
<1>2. PKT \in Nat /\ PKT > 0 /\ p \in Seq(Cells) /\ Len(p) = PKT /\ r - 1 \in Nat
  BY TransferAssumption DEF Whole
<1>3. (r - 1) * PKT \in Nat /\ ((r - 1) + 1) * PKT = (r - 1) * PKT + PKT /\ (r - 1) + 1 = r
  BY <1>2, Times
<1>4. PICK b \in Nat : b = (r - 1) * PKT /\ r * PKT = b + PKT
  BY <1>3
<1>5. ASSUME NEW k \in 1 .. PKT PROVE p[k] = IF b + k =< t THEN text[b + k] ELSE Nul
  <2>1. PICK j \in Nat : j = b + PKT + k /\ j - PKT = b + k /\ j > PKT /\ j # 1
    BY <1>2
  <2>2. p[k] = Written(text, j)
    BY <1>4, <2>1 DEF Whole
  <2>3. QED
    BY <1>1, <2>1, <2>2 DEF Written
<1>6. /\ s \in Seq(Chars) /\ Len(s) = (IF b =< t THEN b ELSE t)
      /\ \A k \in 1 .. Len(s) : s[k] = text[k]
  BY <1>1, <1>4 DEF Beginning, Chars
<1>7. \A i \in 1 .. t : text[i] # Nul /\ text[i] \in Chars
  BY <1>1 DEF TextOf, Chars
<1>8. PICK n \in 0 .. PKT : n = IF b + PKT =< t THEN PKT ELSE IF b =< t THEN t - b ELSE 0
  <2>1. PKT \in 0 .. PKT /\ 0 \in 0 .. PKT
    BY <1>2
  <2>2. b =< t /\ ~(b + PKT =< t) => t - b \in 0 .. PKT
    BY <1>2
  <2>3. QED
    BY <2>1, <2>2
<1>9. ASSUME NEW k \in 1 .. n PROVE p[k] = text[b + k] /\ p[k] # Nul /\ p[k] \in Chars
  <2>1. k \in 1 .. PKT /\ b + k \in 1 .. t
    BY <1>2, <1>8
  <2>2. QED
    BY <1>5, <1>7, <2>1
<1>10. n < PKT => p[n + 1] = Nul
  <2>1. ASSUME n < PKT PROVE n + 1 \in 1 .. PKT /\ ~(b + (n + 1) =< t)
    BY <1>2, <1>8, <2>1
  <2>2. QED
    BY <1>5, <2>1
<1>11. Printed(p) = SubSeq(p, 1, n)
  BY <1>2, <1>9, <1>10, PrintedIs
<1>12. PICK q \in Seq(Chars) :
         /\ q = SubSeq(p, 1, n) /\ Len(q) = n /\ \A k \in 1 .. n : q[k] = text[b + k]
  <2>1. 1 \in Int /\ n \in Int /\ \A i \in 1 .. n : p[i] \in Chars
    BY <1>9
  <2>2. /\ SubSeq(p, 1, n) \in Seq(Chars)
        /\ Len(SubSeq(p, 1, n)) = IF 1 <= n THEN n - 1 + 1 ELSE 0
        /\ \A i \in 1 .. n - 1 + 1 : SubSeq(p, 1, n)[i] = p[1 + i - 1]
    BY <2>1, SubSeqProperties, SMT
  <2>3. Len(SubSeq(p, 1, n)) = n
    BY <2>2
  <2>4. ASSUME NEW k \in 1 .. n PROVE SubSeq(p, 1, n)[k] = text[b + k]
    <3>1. k \in 1 .. n - 1 + 1 /\ 1 + k - 1 = k
      OBVIOUS
    <3>2. QED
      BY <1>9, <2>2, <3>1
  <2>5. QED
    BY <2>2, <2>3, <2>4
<1>13. /\ s \o q \in Seq(Chars) /\ Len(s \o q) = Len(s) + n
       /\ \A k \in 1 .. Len(s) + n : (s \o q)[k] = IF k =< Len(s) THEN s[k] ELSE q[k - Len(s)]
  <2>1. /\ s \o q \in Seq(Chars) /\ Len(s \o q) = Len(s) + Len(q)
        /\ \A k \in 1 .. Len(s) + Len(q) : (s \o q)[k] = IF k <= Len(s) THEN s[k]
                                                        ELSE q[k - Len(s)]
    BY <1>6, ConcatProperties, Zenon
  <2>2. QED
    BY <1>12, <2>1
<1>14. Len(s \o q) = IF b + PKT =< t THEN b + PKT ELSE t
  BY <1>2, <1>6, <1>8, <1>13
<1>15. ASSUME NEW k \in 1 .. Len(s \o q) PROVE (s \o q)[k] = text[k]
  <2>1. CASE k =< Len(s)
    BY <1>6, <1>13, <2>1
  <2>2. CASE ~(k =< Len(s))
    <3>1. Len(s) = b /\ k - b \in 1 .. n /\ b + (k - b) = k /\ k \in 1 .. Len(s) + n
      BY <1>6, <1>8, <1>13, <2>2
    <3>2. QED
      BY <1>12, <1>13, <2>2, <3>1
  <2>3. QED
    BY <2>1, <2>2
<1>16. (r + 1) - 1 = r
  OBVIOUS
<1>17. QED
  BY <1>1, <1>4, <1>11, <1>12, <1>13, <1>14, <1>15, <1>16 DEF Beginning, Chars

(* The first packet to read begins the text.                                *)
LEMMA BeginningNone ==
  ASSUME NEW text, TextOf(text)
  PROVE  Beginning(<<>>, text, 1)
<1>1. PKT \in Nat /\ Len(text) \in Nat
  BY TransferAssumption DEF TextOf
<1>2. (1 - 1) * PKT = 0
  BY <1>1
<1>3. <<>> \in Seq({"text"} \X Nat) /\ Len(<<>>) = 0
  BY EmptySeq
<1>4. QED
  BY <1>1, <1>2, <1>3 DEF Beginning

(* After the last packet the whole text has been shown.                     *)
LEMMA BeginningAll ==
  ASSUME NEW text, TextOf(text), NEW s, Beginning(s, text, Count(Len(text)) + 1)
  PROVE  s = text
<1>1. PICK n \in Nat : n = Count(Len(text)) /\ Len(text) =< n * PKT /\ Len(text) \in Nat
  BY CountCovers DEF TextOf
<1>2. PKT \in Nat /\ (n + 1) - 1 = n
  BY TransferAssumption
<1>3. n * PKT \in Nat
  BY <1>2
<1>4. Len(s) = Len(text)
  BY <1>1, <1>2, <1>3 DEF Beginning
<1>5. s \in Seq(Chars) /\ text \in Seq(Chars) /\ \A k \in 1 .. Len(s) : s[k] = text[k]
  BY DEF Beginning, TextOf, Chars
<1>6. QED
  BY <1>4, <1>5

------------------------------------------------------------------------------
(* Steps of others                                                          *)

(* Nothing that is c's own changes.                                         *)
Same(c) ==
  /\ client'[c] = client[c] /\ count'[c] = count[c] /\ up'[c] = up[c]
  /\ down'[c] = down[c] /\ asked'[c] = asked[c] /\ shown'[c] = shown[c]
  /\ steady'[c] = steady[c]

(* What the invariant says of one client.                                   *)
LEMMA Known ==
  ASSUME FileInv, NEW c \in Clients
  PROVE  /\ State /\ QueueInv /\ Fresh(c) /\ Agree(c)
         /\ client[c] \in {"away", "connected", "prompt", "mute", "asked", "reading",
                           "gone"}
         /\ steady[c] \in BOOLEAN /\ asked[c] \in Seq(DOMAIN File)
         /\ Waiting(c) => client[c] # "away" /\ current # c
         /\ client[c] = "away" => current # c
         /\ asked[c] # <<>> => Name(c) \in DOMAIN File
BY DEF FileInv, State, QueueInv, Name

(* To a client that is not touched nothing changes.                         *)
LEMMA StillKeeps ==
  ASSUME FileInv, NEW c \in Clients, Same(c), current' = c <=> current = c,
         current = c => server' = server /\ packets' = packets
  PROVE  Fresh(c)' /\ Agree(c)'
<1>1. Fresh(c)'
  BY Known DEF Fresh, Same
<1>2. ASSUME current = c
      PROVE  /\ Ready' <=> Ready
             /\ \A text, r : Sending(c, text, r)' <=> Sending(c, text, r)
  BY <1>2 DEF Ready, Sending, ToWrite, Same
<1>3. Name(c)' = Name(c)
  BY DEF Name, Same
<1>4. ASSUME steady[c] PROVE Greeted(c)' /\ Prompted(c)' /\ Answered(c)' /\ Reading(c)'
  <2>1. Greeted(c)'
    BY <1>4, Known DEF Agree, Greeted, Same
  <2>2. Prompted(c)'
    BY <1>2, <1>3, <1>4, Known DEF Agree, Prompted, Same
  <2>3. Answered(c)'
    BY <1>2, <1>3, <1>4, Known DEF Agree, Answered, Same
  <2>4. Reading(c)'
    BY <1>2, <1>3, <1>4, Known DEF Agree, Reading, Same
  <2>5. QED
    BY <2>1, <2>2, <2>3, <2>4
<1>5. QED
  BY <1>1, <1>4 DEF Agree, Same

(* Only one that has gone loses its place.                                  *)
LEMMA NotServed ==
  ASSUME FileInv, NEW c \in Clients, steady[c],
         \/ client[c] \in {"prompt", "mute", "asked", "reading"}
         \/ (client[c] = "connected" /\ current = c)
  PROVE  current = c /\ server \in {"loop", "first", "sending"}
BY Known DEF Agree, Greeted, Prompted, Answered, Reading, Ready, Sending

(* accept takes the client that has waited longest.                         *)
LEMMA AcceptTakes ==
  ASSUME FileInv, Accept
  PROVE  /\ Head(backlog) \in Clients /\ Waiting(Head(backlog))
         /\ backlog' \in Seq(Clients)
         /\ \A i, j \in DOMAIN backlog' : backlog'[i] = backlog'[j] => i = j
         /\ \A c : Waiting(c)' => Waiting(c) /\ c # Head(backlog)
<1>1. /\ backlog \in Seq(Clients) /\ backlog # <<>> /\ Len(backlog) \in Nat /\ Len(backlog) >= 1
      /\ Head(backlog) = backlog[1] /\ backlog' = Tail(backlog)
      /\ DOMAIN backlog = 1 .. Len(backlog)
      /\ \A i, j \in DOMAIN backlog : backlog[i] = backlog[j] => i = j
  BY DEF FileInv, State, QueueInv, Accept
<1>2. /\ Tail(backlog) \in Seq(Clients) /\ DOMAIN Tail(backlog) = 1 .. Len(backlog) - 1
      /\ \A i \in 1 .. Len(backlog) - 1 : Tail(backlog)[i] = backlog[i + 1]
  BY <1>1
<1>3. Head(backlog) \in Clients /\ 1 \in DOMAIN backlog
  BY <1>1
<1>4. \A i \in DOMAIN backlog' : i + 1 \in DOMAIN backlog /\ i + 1 # 1 /\ i \in Nat
                                 /\ backlog'[i] = backlog[i + 1]
  BY <1>1, <1>2
<1>5. ASSUME NEW c, Waiting(c)' PROVE Waiting(c) /\ c # Head(backlog)
  BY <1>1, <1>3, <1>4, <1>5 DEF Waiting
<1>6. \A i, j \in DOMAIN backlog' : backlog'[i] = backlog'[j] => i = j
  BY <1>1, <1>4
<1>7. QED
  BY <1>1, <1>2, <1>3, <1>5, <1>6 DEF Waiting

(* The client accepted has its welcome; all others wait on.                 *)
LEMMA AcceptKeeps ==
  ASSUME FileInv, Accept, NEW c \in Clients
  PROVE  Fresh(c)' /\ Agree(c)'
<1> DEFINE d == Head(backlog)
<1>1. d \in Clients /\ current' = d /\ client[d] # "away" /\ current # d
  BY AcceptTakes, Known DEF Accept
<1>2. /\ UNCHANGED <<client, count, asked, shown, steady, up, packets>>
      /\ server \in {"start", "next"} /\ server' \in {"loop", "first"}
      /\ down' = [down EXCEPT ![d] = Welcome] /\ IsFun(down)
  BY <1>1, Known DEF Accept, clientVars, State
<1> HIDE DEF d
<1>3. CASE c = d
  <2>1. down'[c] = Welcome
    BY <1>2, <1>3 DEF IsFun
  <2>2. steady[c] => client[c] \in {"connected", "gone"}
    BY <1>1, <1>2, <1>3, NotServed, Known
  <2>3. QED
    BY <1>1, <1>2, <1>3, <2>1, <2>2, Known
       DEF Fresh, Agree, Greeted, Prompted, Answered, Reading
<1>4. CASE c # d
  <2>1. Same(c)
    BY <1>2, <1>4 DEF Same
  <2>2. CASE current = c
    <3>1. client[c] # "away" /\ (steady[c] => client[c] = "gone")
      BY <1>2, <2>2, NotServed, Known
    <3>2. QED
      BY <2>1, <3>1, Known
         DEF Same, Fresh, Agree, Greeted, Prompted, Answered, Reading
  <2>3. CASE current # c
    BY <1>1, <1>4, <2>1, <2>3, StillKeeps
  <2>4. QED
    BY <2>2, <2>3
<1>5. QED
  BY <1>3, <1>4

(* The server turns away only from one that has gone.                       *)
LEMMA TurnKeeps ==
  ASSUME FileInv, NextClient \/ Die, NEW c \in Clients
  PROVE  Fresh(c)' /\ Agree(c)'
<1>1. /\ UNCHANGED <<current, packets, client, count, asked, shown, steady, up, down>>
      /\ current = c => client[c] = "gone"
  BY DEF NextClient, Die, clientVars, Gone
<1>2. Same(c)
  BY <1>1 DEF Same
<1>3. CASE current # c
  BY <1>1, <1>2, <1>3, StillKeeps
<1>4. CASE current = c
  BY <1>1, <1>4 DEF Fresh, Agree, Greeted, Prompted, Answered, Reading
<1>5. QED
  BY <1>3, <1>4

------------------------------------------------------------------------------
(* The server's replies                                                     *)

(* The server takes the name and answers with -1 or the count.              *)
LEMMA ReadNameKeeps ==
  ASSUME FileInv, ReadName, NEW c \in Clients
  PROVE  Fresh(c)' /\ Agree(c)'
<1> DEFINE text == File[Head(up[current])]
<1>1. /\ UNCHANGED <<current, backlog, client, count, asked, shown, steady>>
      /\ server \in {"loop", "first"} /\ up[current] # <<>> /\ IsFun(up) /\ IsFun(down)
  BY Known DEF ReadName, clientVars, State
<1>2. PICK n \in 1 .. Len(up[current]) :
        up' = [up EXCEPT ![current] = SubSeq(@, n + 1, Len(@))]
  BY DEF ReadName
<1>3. \/ /\ text = Missing
         /\ down' = [down EXCEPT ![current] = Append(@, NoFile)] /\ server' = "loop"
      \/ /\ text # Missing /\ packets' = Packets(text) /\ server' = "sending"
         /\ down' = [down EXCEPT ![current] = @ \o
              [k \in 1 .. PKT |-> IF k = 1 THEN Cell("count", Count(Len(text))) ELSE Nul]]
  BY DEF ReadName, NoFile
<1>4. CASE current # c
  <2>1. Same(c)
    BY <1>1, <1>2, <1>3, <1>4 DEF Same, IsFun
  <2>2. QED
    BY <1>1, <1>4, <2>1, StillKeeps
<1>5. CASE current = c
  <2>1. client[c] \notin {"away", "connected"}
    BY <1>1, <1>5, Known DEF Fresh
  <2>2. CASE steady[c] /\ client[c] # "gone"
    <3>1. /\ client[c] = "asked" /\ up[c] = <<Name(c)>> /\ down[c] = <<>>
          /\ asked[c] # <<>> /\ shown[c] = <<>>
      BY <1>1, <1>5, <2>1, <2>2, Known DEF Agree, Prompted, Answered, Reading
    <3>2. n = 1 /\ Len(up[c]) = 1 /\ text = File[Name(c)]
      BY <1>2, <1>5, <3>1
    <3>3. up'[c] = <<>>
      <4>1. up'[c] = SubSeq(<<Name(c)>>, 2, 1)
        BY <1>1, <1>2, <1>5, <3>1, <3>2 DEF IsFun
      <4>2. QED
        BY <4>1, SubSeqEmpty
    <3>4. Name(c)' = Name(c) /\ current' = c /\ asked'[c] # <<>> /\ shown'[c] = <<>>
          /\ client'[c] = "asked"
      BY <1>1, <1>5, <3>1 DEF Name
    <3>5. CASE text = Missing
      <4>1. down'[c] = <<NoFile>> /\ server' = "loop"
        BY <1>1, <1>3, <1>5, <3>1, <3>5 DEF IsFun
      <4>2. Answered(c)'
        BY <3>2, <3>3, <3>4, <3>5, <4>1 DEF Answered
      <4>3. QED
        BY <3>4, <4>2 DEF Fresh, Agree, Greeted, Prompted, Reading
    <3>6. CASE text # Missing
      <4>1. PICK t : t = text /\ t = File[Name(c)] /\ t # Missing /\ TextOf(t)
        BY <3>1, <3>2, <3>6, Known, FileText
      <4> HIDE DEF text
      <4>2. PICK p : /\ p = [k \in 1 .. PKT |-> IF k = 1 THEN Cell("count", Count(Len(t)))
                                                ELSE Nul]
                     /\ Whole(p, t, 0)
        BY <4>1, CountPacket
      <4>3. down'[c] = <<>> \o p /\ packets' = Packets(t) /\ server' = "sending"
        BY <1>1, <1>3, <1>5, <3>1, <3>6, <4>1, <4>2 DEF IsFun
      <4>4. Flow(<<>> \o p, t, 0, 0 + 1)
        BY <4>2, FlowEmpty, FlowGrows
      <4>5. Count(Len(t)) \in Nat /\ Len(t) \in Nat
        <5>1. Len(t) \in Nat
          BY <4>1 DEF TextOf
        <5>2. QED
          BY <5>1, CountCovers
      <4>6. Len(packets') = Count(Len(t)) + 1 - 1
            /\ packets' = [i \in 1 .. Len(packets') |-> Packet(t, 1 - 1 + i)]
        BY <4>3, <4>5 DEF Packets
      <4>7. Sending(c, t, 0)'
        BY <4>3, <4>4, <4>5, <4>6 DEF Sending, ToWrite
      <4>8. Answered(c)'
        BY <3>3, <3>4, <4>1, <4>7 DEF Answered
      <4>9. QED
        BY <3>4, <4>8 DEF Fresh, Agree, Greeted, Prompted, Reading
    <3>7. QED
      BY <3>5, <3>6
  <2>3. CASE ~steady[c] \/ client[c] = "gone"
    BY <1>1, <2>1, <2>3, Known DEF Fresh, Agree, Greeted, Prompted, Answered, Reading
  <2>4. QED
    BY <2>2, <2>3
<1>6. QED
  BY <1>4, <1>5

(* The next packet goes out.                                                *)
LEMMA SendingGrows ==
  ASSUME FileInv, WritePacket, NEW c \in Clients, current = c,
         NEW text, TextOf(text), NEW r, Sending(c, text, r)
  PROVE  Sending(c, text, r)'
<1>1. PICK n \in Nat : n = Count(Len(text))
  BY CountCovers DEF TextOf
<1>2. /\ server = "sending" /\ packets # <<>> /\ packets' = Tail(packets)
      /\ server' = "sending" /\ down'[c] = down[c] \o Head(packets)
  BY Known DEF WritePacket, State, IsFun
<1>3. PICK w \in 1 .. n + 1 : Flow(down[c], text, r, w) /\ ToWrite(text, w)
  BY <1>1 DEF Sending
<1>4. PICK m \in Nat : m = n + 1 - w /\ m = Len(packets)
  BY <1>1, <1>3 DEF ToWrite
<1>5. packets = [i \in 1 .. m |-> Packet(text, w - 1 + i)]
  BY <1>3, <1>4 DEF ToWrite
<1>6. m >= 1
  BY <1>2, <1>4, <1>5
<1>7. Head(packets) = Packet(text, w)
  <2>1. Head(packets) = packets[1]
    BY <1>5
  <2>2. packets[1] = Packet(text, w - 1 + 1) /\ w - 1 + 1 = w
    BY <1>3, <1>5, <1>6
  <2>3. QED
    BY <2>1, <2>2
<1>8. Tail(packets) = [i \in 1 .. m - 1 |-> Packet(text, (w + 1) - 1 + i)]
  <2>1. Tail(packets) = [i \in 1 .. m - 1 |-> packets[i + 1]]
    BY <1>5, <1>6
  <2>2. ASSUME NEW i \in 1 .. m - 1 PROVE packets[i + 1] = Packet(text, (w + 1) - 1 + i)
    <3>1. i + 1 \in 1 .. m /\ w - 1 + (i + 1) = (w + 1) - 1 + i
      BY <1>3
    <3>2. QED
      BY <1>5, <3>1
  <2>3. QED
    BY <2>1, <2>2
<1>9. Len(Tail(packets)) = m - 1
  BY <1>6, <1>8
<1>10. w \in Nat /\ w >= 1 /\ w + 1 \in 1 .. n + 1 /\ m - 1 = n + 1 - (w + 1)
  BY <1>3, <1>4, <1>6
<1>11. Whole(Packet(text, w), text, w)
  BY <1>10, TextPacket
<1>12. Flow(down'[c], text, r, w + 1)
  BY <1>2, <1>3, <1>7, <1>11, FlowGrows
<1>13. ToWrite(text, w + 1)'
  BY <1>1, <1>2, <1>8, <1>9, <1>10 DEF ToWrite
<1>14. QED
  BY <1>1, <1>2, <1>10, <1>12, <1>13 DEF Sending

(* The next packet goes behind what is on its way.                          *)
LEMMA WritePacketKeeps ==
  ASSUME FileInv, WritePacket, NEW c \in Clients
  PROVE  Fresh(c)' /\ Agree(c)'
<1>1. /\ UNCHANGED <<server, current, backlog, client, count, asked, shown, steady, up>>
      /\ server = "sending" /\ packets # <<>> /\ IsFun(down)
      /\ down' = [down EXCEPT ![current] = @ \o Head(packets)]
  BY Known DEF WritePacket, clientVars, State
<1>2. CASE current # c
  <2>1. Same(c)
    BY <1>1, <1>2 DEF Same, IsFun
  <2>2. QED
    BY <1>1, <1>2, <2>1, StillKeeps
<1>3. CASE current = c
  <2>1. Fresh(c)'
    BY <1>1, <1>3, Known DEF Fresh
  <2>2. ASSUME steady[c] PROVE Greeted(c)' /\ Prompted(c)' /\ Answered(c)' /\ Reading(c)'
    <3>1. client[c] \notin {"connected", "prompt", "mute"}
      BY <1>1, <1>3, <2>2, Known DEF Agree, Greeted, Prompted, Ready
    <3>2. Name(c)' = Name(c)
      BY <1>1 DEF Name
    <3>3. Answered(c)'
      <4>1. CASE client[c] = "asked"
        <5>1. /\ asked[c] # <<>> /\ shown[c] = <<>> /\ up[c] = <<>> /\ File[Name(c)] # Missing
              /\ Sending(c, File[Name(c)], 0)
          BY <1>1, <2>2, <4>1, Known DEF Agree, Answered, Ready
        <5>2. Sending(c, File[Name(c)], 0)'
          BY <1>3, <3>2, <5>1, Known, FileText, SendingGrows
        <5>3. QED
          BY <1>1, <1>3, <3>2, <5>1, <5>2 DEF Answered
      <4>2. QED
        BY <1>1, <4>1 DEF Answered
    <3>4. Reading(c)'
      <4>1. CASE client[c] = "reading"
        <5>1. PICK t : /\ t = File[Name(c)] /\ t # Missing /\ TextOf(t) /\ asked[c] # <<>>
                       /\ up[c] = <<>>
          BY <2>2, <4>1, Known, FileText DEF Agree, Reading
        <5>2. PICK r \in 1 .. Count(Len(t)) :
                /\ count[c] = Count(Len(t)) + 1 - r
                /\ Sending(c, t, r) /\ Beginning(shown[c], t, r)
          BY <2>2, <4>1, <5>1, Known DEF Agree, Reading
        <5>3. Sending(c, t, r)'
          BY <1>3, <5>1, <5>2, SendingGrows
        <5>4. QED
          BY <1>1, <1>3, <3>2, <5>1, <5>2, <5>3 DEF Reading
      <4>2. QED
        BY <1>1, <4>1 DEF Reading
    <3>5. QED
      BY <1>1, <3>1, <3>3, <3>4 DEF Greeted, Prompted
  <2>3. QED
    BY <1>1, <2>1, <2>2 DEF Agree
<1>4. QED
  BY <1>2, <1>3

(* All packets are written: the server waits for the next name.             *)
LEMMA CloseFileKeeps ==
  ASSUME FileInv, CloseFile, NEW c \in Clients
  PROVE  Fresh(c)' /\ Agree(c)'
<1>1. /\ UNCHANGED <<current, backlog, packets, client, count, asked, shown, steady, up, down>>
      /\ server = "sending" /\ packets = <<>> /\ server' = "loop"
  BY DEF CloseFile, clientVars
<1>2. Same(c) /\ Name(c)' = Name(c)
  BY <1>1 DEF Same, Name
<1>3. CASE current # c
  BY <1>1, <1>2, <1>3, StillKeeps
<1>4. CASE current = c
  <2>1. ASSUME NEW text, TextOf(text), NEW r, Sending(c, text, r) PROVE Sending(c, text, r)'
    <3>1. PICK n \in Nat : n = Count(Len(text))
      BY <2>1, CountCovers DEF TextOf
    <3>2. PICK w \in 1 .. n + 1 : Flow(down[c], text, r, w) /\ ToWrite(text, w)
      BY <2>1, <3>1 DEF Sending
    <3>3. Len(packets) = 0
      BY <1>1
    <3>4. w = n + 1
      BY <3>1, <3>2, <3>3 DEF ToWrite
    <3>5. ToWrite(text, w)'
      BY <1>1, <3>2 DEF ToWrite
    <3>6. QED
      BY <1>1, <3>1, <3>2, <3>4, <3>5 DEF Sending
  <2>2. Ready'
    BY <1>1 DEF Ready
  <2>3. asked[c] # <<>> /\ File[Name(c)] # Missing => TextOf(File[Name(c)])
    BY Known, FileText
  <2>4. ASSUME steady[c] PROVE Greeted(c)' /\ Prompted(c)' /\ Answered(c)' /\ Reading(c)'
    <3>1. Greeted(c)' /\ Prompted(c)'
      BY <1>1, <1>2, <1>4, <2>2, <2>4, Known DEF Agree, Greeted, Prompted
    <3>2. Answered(c)'
      BY <1>1, <1>2, <1>4, <2>1, <2>2, <2>3, <2>4, Known DEF Agree, Answered
    <3>3. Reading(c)'
      BY <1>1, <1>2, <1>4, <2>1, <2>3, <2>4, Known DEF Agree, Reading
    <3>4. QED
      BY <3>1, <3>2, <3>3
  <2>5. QED
    BY <1>1, <2>4, Known DEF Fresh, Agree
<1>5. QED
  BY <1>3, <1>4

------------------------------------------------------------------------------
(* The client's own steps                                                   *)

(* It connects, is cut, or asks for a name.                                 *)
LEMMA UserKeeps ==
  ASSUME FileInv, NEW c \in Clients,
         Connect(c) \/ Cut(c) \/ EndOfInput(c) \/ \E name \in DOMAIN File : Ask(c, name)
  PROVE  Fresh(c)' /\ Agree(c)'
<1>1. CASE Connect(c)
  <2>1. /\ client[c] = "away" /\ client'[c] = "connected" /\ current # c
        /\ UNCHANGED <<server, current, packets, count, up, down, asked, shown, steady>>
    BY <1>1, Known DEF Connect, State
  <2>2. QED
    BY <2>1, Known DEF Fresh, Agree, Greeted, Prompted, Answered, Reading
<1>2. CASE Cut(c)
  <2>1. client'[c] = "gone"
    BY <1>2, Known DEF Cut, State
  <2>2. QED
    BY <2>1 DEF Fresh, Agree, Greeted, Prompted, Answered, Reading
<1>3. ASSUME NEW name \in DOMAIN File, Ask(c, name) PROVE Fresh(c)' /\ Agree(c)'
  <2>1. /\ client[c] = "prompt" /\ client'[c] = "asked"
        /\ asked'[c] = Append(asked[c], name) /\ shown'[c] = <<>>
        /\ up'[c] = Append(up[c], name)
        /\ UNCHANGED <<server, current, packets, down, steady>>
    BY <1>3, Known DEF Ask, State, IsFun, serverVars
  <2>2. asked'[c] # <<>> /\ Name(c)' = name
    <3>1. asked[c] \in Seq(DOMAIN File)
      BY Known, Zenon
    <3>2. Append(asked[c], name) # <<>>
          /\ Append(asked[c], name)[Len(Append(asked[c], name))] = name
      BY <3>1
    <3>3. QED
      BY <2>1, <3>2, Zenon DEF Name
  <2>3. ASSUME steady[c]
        PROVE  current = c /\ Ready' /\ up'[c] = <<name>> /\ down'[c] = <<>>
    <3>1. current = c /\ Ready /\ up[c] = <<>> /\ down[c] = <<>>
      BY <2>1, <2>3, Known DEF Agree, Prompted
    <3>2. Append(<<>>, name) = <<name>>
      OBVIOUS
    <3>3. QED
      BY <2>1, <3>1, <3>2 DEF Ready
  <2>4. QED
    BY <2>1, <2>2, <2>3 DEF Fresh, Agree, Greeted, Prompted, Answered, Reading
<1>4. CASE EndOfInput(c)
  <2>1. /\ client[c] = "prompt" /\ client'[c] = "mute"
        /\ UNCHANGED <<server, current, packets, up, down, asked, shown, steady>>
    BY <1>4, Known DEF EndOfInput, State, serverVars
  <2>2. Agree(c) /\ Name(c)' = Name(c)
    BY <2>1, Known DEF Name
  <2>3. steady[c] => Prompted(c)'
    BY <2>1, <2>2 DEF Agree, Prompted, Ready
  <2>4. QED
    BY <2>1, <2>3 DEF Fresh, Agree, Greeted, Answered, Reading
<1>5. QED
  BY <1>1, <1>2, <1>3, <1>4

(* What a read that is not short gives, and leaves.                         *)
LEMMA ReadIs ==
  ASSUME FileInv, NEW c \in Clients, NEW buffer \in Readable(c), Read(c, buffer), steady'[c],
         down[c] \in Seq(Cells)
  PROVE  /\ steady[c] /\ buffer # <<>>
         /\ \E n \in 1 .. PKT :
              /\ n =< Len(down[c]) /\ n \in {PKT, Len(down[c])}
              /\ buffer = SubSeq(down[c], 1, n)
              /\ down'[c] = SubSeq(down[c], n + 1, Len(down[c]))
<1>1. PKT \in Nat /\ Len(down[c]) \in Nat
  BY TransferAssumption
<1>2. PICK n \in 0 .. PKT : n =< Len(down[c]) /\ buffer = SubSeq(down[c], 1, n)
  BY DEF Readable
<1>3. buffer # <<>>
  BY Known DEF Read, State
<1>4. n # 0
  BY <1>2, <1>3, SubSeqEmpty
<1>5. n \in 1 .. Len(down[c])
  BY <1>1, <1>2, <1>4
<1>6. Len(buffer) = n
  BY <1>2, <1>5, CutAt
<1>7. /\ down' = [down EXCEPT ![c] = SubSeq(@, Len(buffer) + 1, Len(@))] /\ IsFun(down)
      /\ steady[c] /\ Len(buffer) \in {PKT, Len(down[c])}
  BY <1>3, Known DEF Read, State
<1>8. QED
  <2>1. n \in 1 .. PKT
    BY <1>1, <1>4
  <2>2. down'[c] = SubSeq(down[c], n + 1, Len(down[c]))
    BY <1>6, <1>7 DEF IsFun
  <2>3. QED
    BY <1>2, <1>3, <1>6, <1>7, <2>1, <2>2

(* A message of one cell is read at once.                                   *)
LEMMA ReadOne ==
  ASSUME NEW x \in Cells, NEW n \in 1 .. 1
  PROVE  SubSeq(<<x>>, 1, n)[1] = x /\ SubSeq(<<x>>, n + 1, 1) = <<>>
<1>1. <<x>> \in Seq(Cells) /\ Len(<<x>>) = 1 /\ <<x>>[1] = x
  OBVIOUS
<1>2. n = 1
  OBVIOUS
<1>3. QED
  BY <1>1, <1>2, CutAt, SubSeqEmpty

(* A welcome read at once leaves nothing behind.                            *)
LEMMA WelcomeKeeps ==
  ASSUME FileInv, NEW c \in Clients, NEW buffer \in Readable(c), ReadWelcome(c, buffer)
  PROVE  Fresh(c)' /\ Agree(c)'
<1>1. /\ client[c] = "connected" /\ client'[c] = "prompt" /\ Read(c, buffer)
      /\ UNCHANGED <<server, current, backlog, packets, count, shown, up, asked>>
  BY Known DEF ReadWelcome, Read, serverVars, State
<1>2. up[c] = <<>> /\ asked[c] = <<>>
  BY <1>1, Known DEF Fresh
<1>3. ASSUME steady'[c]
      PROVE  current = c /\ server \in {"loop", "first"} /\ down'[c] = <<>>
  <2>1. steady[c]
    BY <1>1, <1>3, Known DEF Read, State
  <2>2. down[c] = <<>> \/ (current = c /\ server \in {"loop", "first"} /\ down[c] = Welcome)
    BY <1>1, <2>1, Known DEF Agree, Greeted
  <2>3. PICK x \in Cells : Welcome = <<x>>
    BY CellTypes DEF Welcome
  <2>4. down[c] \in Seq(Cells)
    <3>1. <<x>> \in Seq(Cells) /\ <<>> \in Seq(Cells)
      BY EmptySeq
    <3>2. QED
      BY <2>2, <2>3, <3>1, Zenon
  <2>5. PICK n \in 1 .. PKT : /\ n =< Len(down[c])
                              /\ down'[c] = SubSeq(down[c], n + 1, Len(down[c]))
    BY <1>1, <1>3, <2>4, ReadIs
  <2>6. down[c] # <<>>
    <3>1. Len(down[c]) # 0
      BY <2>4, <2>5
    <3>2. QED
      BY <3>1
  <2>7. down[c] = <<x>> /\ Len(down[c]) = 1 /\ n \in 1 .. 1
    <3>1. down[c] = <<x>>
      BY <2>2, <2>3, <2>6, Zenon
    <3>2. Len(<<x>>) = 1
      OBVIOUS
    <3>3. Len(down[c]) = 1
      BY <3>1, <3>2, Zenon
    <3>4. n \in 1 .. 1
      BY <2>5, <3>3, TransferAssumption
    <3>5. QED
      BY <3>1, <3>3, <3>4
  <2>8. QED
    BY <2>2, <2>5, <2>6, <2>7, ReadOne
<1>4. QED
  BY <1>1, <1>2, <1>3 DEF Fresh, Agree, Greeted, Prompted, Answered, Reading, Ready

(* A packet of a file is read.                                              *)
LEMMA SendingRead ==
  ASSUME FileInv, NEW c \in Clients, NEW buffer \in Readable(c), Read(c, buffer), steady'[c],
         NEW text, TextOf(text), NEW r, Sending(c, text, r)
  PROVE  /\ steady[c] /\ Whole(buffer, text, r) /\ r \in Nat /\ r =< Count(Len(text))
         /\ Sending(c, text, r + 1)'
<1>1. PICK k \in Nat : k = Count(Len(text))
  BY CountCovers DEF TextOf
<1>2. PICK w \in 1 .. k + 1 :
        /\ Flow(down[c], text, r, w) /\ ToWrite(text, w)
        /\ server = "sending" \/ (server = "loop" /\ w = k + 1)
  BY <1>1 DEF Sending
<1>3. down[c] \in Seq(Cells) /\ r \in Nat
  BY <1>2 DEF Flow
<1>4. PICK n \in 1 .. PKT :
        /\ n =< Len(down[c]) /\ n \in {PKT, Len(down[c])}
        /\ buffer = SubSeq(down[c], 1, n)
        /\ down'[c] = SubSeq(down[c], n + 1, Len(down[c]))
  BY <1>3, ReadIs
<1>5. /\ r < w /\ Whole(buffer, text, r) /\ Flow(down'[c], text, r + 1, w)
  BY <1>2, <1>4, FlowRead
<1>6. server' = server /\ ToWrite(text, w)'
  BY <1>2 DEF Read, serverVars, ToWrite
<1>7. steady[c]
  BY <1>3, ReadIs
<1>8. Sending(c, text, r + 1)'
  BY <1>1, <1>2, <1>5, <1>6 DEF Sending
<1>9. QED
  BY <1>1, <1>2, <1>3, <1>5, <1>7, <1>8

(* Nothing is left to send when all has been read.                          *)
LEMMA SendingDone ==
  ASSUME NEW c \in Clients, NEW text, TextOf(text), Sending(c, text, Count(Len(text)) + 1)'
  PROVE  down'[c] = <<>> /\ Ready'
<1>1. PICK n \in Nat : n = Count(Len(text)) /\ PKT \in Nat /\ PKT > 0
  BY CountCovers, TransferAssumption DEF TextOf
<1>2. PICK w \in 1 .. n + 1 :
        /\ Flow(down'[c], text, n + 1, w) /\ ToWrite(text, w)'
        /\ server' = "sending" \/ (server' = "loop" /\ w = n + 1)
  BY <1>1 DEF Sending
<1>3. w = n + 1 /\ n + 1 \in Nat
  BY <1>1, <1>2 DEF Flow
<1>4. Len(down'[c]) = 0 /\ down'[c] \in Seq(Cells)
  <2>1. ((n + 1) - (n + 1)) * PKT = 0
    BY <1>1, <1>3, Times
  <2>2. QED
    BY <1>2, <1>3, <2>1 DEF Flow
<1>5. Len(packets') = 0 /\ packets' = [i \in 1 .. Len(packets') |-> Packet(text, w - 1 + i)]
  BY <1>1, <1>2, <1>3 DEF ToWrite
<1>6. packets' = <<>>
  BY <1>5
<1>7. QED
  BY <1>2, <1>4, <1>6 DEF Ready

(* The reply is -1, or the count.                                           *)
LEMMA ReplyKeeps ==
  ASSUME FileInv, NEW c \in Clients, NEW buffer \in Readable(c), ReadReply(c, buffer)
  PROVE  Fresh(c)' /\ Agree(c)'
<1>1. /\ client[c] \in {"asked", "mute"} /\ client'[c] \in {"prompt", "reading"} /\ Read(c, buffer)
      /\ UNCHANGED <<server, current, backlog, packets, up, asked>>
  BY Known DEF ReadReply, Read, serverVars, State
<1>2. Name(c)' = Name(c)
  BY <1>1 DEF Name
<1>3. Fresh(c)'
  BY <1>1 DEF Fresh
<1>4. ASSUME steady'[c] PROVE Prompted(c)' /\ Reading(c)'
  <2>1. steady[c]
    BY <1>1, <1>4, Known DEF Read, State
  <2>0. CASE client[c] = "mute"
    <3>1. down[c] = <<>>
      BY <2>0, <2>1, Known DEF Agree, Prompted
    <3>2. down[c] \in Seq(Cells) /\ Len(down[c]) = 0
      BY <3>1, EmptySeq
    <3>3. \E n \in 1 .. PKT : n =< Len(down[c])
      BY <1>1, <1>4, <3>2, ReadIs
    <3>4. QED
      BY <3>2, <3>3, TransferAssumption
  <2> SUFFICES ASSUME client[c] = "asked" PROVE Prompted(c)' /\ Reading(c)'
    BY <1>1, <2>0
  <2>2. /\ current = c /\ asked[c] # <<>> /\ shown[c] = <<>>
        /\ \/ Ready /\ up[c] = <<Name(c)>> /\ down[c] = <<>>
           \/ /\ server = "loop" /\ up[c] = <<>> /\ File[Name(c)] = Missing
              /\ down[c] = <<NoFile>>
           \/ up[c] = <<>> /\ File[Name(c)] # Missing /\ Sending(c, File[Name(c)], 0)
    BY <2>1, Known DEF Agree, Answered
  <2>3. CASE down[c] = <<>>
    <3>1. down[c] \in Seq(Cells) /\ Len(down[c]) = 0
      BY <2>3, EmptySeq
    <3>2. \E n \in 1 .. PKT : n =< Len(down[c])
      BY <1>1, <1>4, <3>1, ReadIs
    <3>3. QED
      BY <3>1, <3>2, TransferAssumption
  <2>4. CASE /\ server = "loop" /\ up[c] = <<>> /\ File[Name(c)] = Missing
             /\ down[c] = <<NoFile>>
    <3>1. PICK x \in Cells : x = NoFile
      BY CellTypes
    <3>2. down[c] = <<x>> /\ <<x>> \in Seq(Cells) /\ Len(<<x>>) = 1
      BY <2>4, <3>1
    <3>3. /\ buffer # <<>>
          /\ \E n \in 1 .. PKT : /\ n =< Len(down[c]) /\ buffer = SubSeq(down[c], 1, n)
                                 /\ down'[c] = SubSeq(down[c], n + 1, Len(down[c]))
      BY <1>1, <1>4, <3>2, ReadIs
    <3>4. \E n \in 1 .. 1 : buffer = SubSeq(<<x>>, 1, n) /\ down'[c] = SubSeq(<<x>>, n + 1, 1)
      BY <3>2, <3>3, TransferAssumption
    <3>5. buffer[1] = NoFile /\ down'[c] = <<>>
      BY <3>1, <3>4, ReadOne
    <3>6. client'[c] = "prompt" /\ shown'[c] = Missing
      BY <3>3, <3>5, Known DEF ReadReply, State, IsFun, NoFile
    <3>7. QED
      BY <1>1, <1>2, <2>2, <2>4, <3>5, <3>6 DEF Prompted, Reading, Ready
  <2>5. CASE up[c] = <<>> /\ File[Name(c)] # Missing /\ Sending(c, File[Name(c)], 0)
    <3>1. PICK t : t = File[Name(c)] /\ t # Missing /\ TextOf(t) /\ Sending(c, t, 0)
      BY <2>2, <2>5, Known, FileText
    <3>2. PICK k \in Nat : k = Count(Len(t)) /\ PKT \in Nat /\ PKT > 0
      <4>1. Len(t) \in Nat
        BY <3>1 DEF TextOf
      <4>2. QED
        BY <4>1, CountCovers, TransferAssumption
    <3>3. Whole(buffer, t, 0) /\ Sending(c, t, 0 + 1)'
      BY <1>1, <1>4, <3>1, SendingRead
    <3>4. buffer # <<>> /\ buffer[1] = Cell("count", k)
      <4>1. Len(buffer) = PKT /\ buffer[1] = Written(t, 0 * PKT + 1) /\ 0 * PKT + 1 = 1
        BY <3>2, <3>3 DEF Whole
      <4>2. Len(buffer) # 0
        BY <3>2, <4>1
      <4>3. QED
        BY <3>2, <4>1, <4>2 DEF Written
    <3>5. Values(buffer) = {k} /\ buffer[1] # Cell("-1", 0)
      <4>1. buffer[1] = <<"count", k>>
        BY <3>4 DEF Cell
      <4>2. buffer[1][1] = "count" /\ buffer[1][2] = k
        BY <4>1
      <4>3. QED
        BY <3>4, <4>1, <4>2 DEF Values, Cell
    <3>6. count'[c] = k /\ client'[c] = (IF k = 0 THEN "prompt" ELSE "reading") /\ shown'[c] = <<>>
      BY <2>2, <3>5, Known DEF ReadReply, State, IsFun
    <3>7. Beginning(<<>>, t, 1)
      BY <3>1, BeginningNone
    <3>8. CASE k = 0
      <4>1. Sending(c, t, k + 1)' /\ Beginning(<<>>, t, k + 1)
        BY <3>3, <3>7, <3>8
      <4>2. down'[c] = <<>> /\ Ready' /\ t = <<>>
        BY <3>1, <3>2, <4>1, SendingDone, BeginningAll
      <4>3. QED
        BY <1>1, <1>2, <2>2, <2>5, <3>1, <3>6, <3>8, <4>2 DEF Prompted, Reading
    <3>9. CASE k # 0
      <4>1. 1 \in 1 .. k /\ k = k + 1 - 1
        BY <3>9
      <4>2. Sending(c, t, 1)' /\ Beginning(shown'[c], t, 1)
        BY <3>3, <3>6, <3>7
      <4>3. Reading(c)'
        BY <1>1, <1>2, <2>2, <2>5, <3>1, <3>2, <3>6, <4>1, <4>2 DEF Reading
      <4>4. QED
        BY <3>6, <3>9, <4>3 DEF Prompted
    <3>10. QED
      BY <3>8, <3>9
  <2>6. QED
    BY <2>2, <2>3, <2>4, <2>5
<1>5. QED
  BY <1>1, <1>3, <1>4 DEF Agree, Greeted, Answered

(* A packet is read and printed.                                            *)
LEMMA PacketKeeps ==
  ASSUME FileInv, NEW c \in Clients, NEW buffer \in Readable(c), ReadPacket(c, buffer)
  PROVE  Fresh(c)' /\ Agree(c)'
<1>1. /\ client[c] = "reading" /\ Read(c, buffer)
      /\ client'[c] = (IF count[c] = 1 THEN "prompt" ELSE "reading")
      /\ count'[c] = count[c] - 1 /\ shown'[c] = shown[c] \o Printed(buffer)
      /\ UNCHANGED <<server, current, backlog, packets, up, asked>>
  BY Known DEF ReadPacket, Read, serverVars, State, IsFun
<1>2. Name(c)' = Name(c)
  BY <1>1 DEF Name
<1>3. Fresh(c)'
  BY <1>1 DEF Fresh
<1>4. ASSUME steady'[c] PROVE Prompted(c)' /\ Reading(c)'
  <2>1. steady[c]
    BY <1>1, <1>4, Known DEF Read, State
  <2>2. PICK t : /\ t = File[Name(c)] /\ t # Missing /\ TextOf(t) /\ asked[c] # <<>>
                 /\ up[c] = <<>> /\ current = c
    BY <1>1, <2>1, Known, FileText DEF Agree, Reading
  <2>3. PICK k \in Nat : k = Count(Len(t))
    BY <2>2, CountCovers DEF TextOf
  <2>4. PICK r \in 1 .. k :
          count[c] = k + 1 - r /\ Sending(c, t, r) /\ Beginning(shown[c], t, r)
    BY <1>1, <2>1, <2>2, <2>3, Known DEF Agree, Reading
  <2>5. Whole(buffer, t, r) /\ Sending(c, t, r + 1)'
    BY <1>1, <1>4, <2>2, <2>4, SendingRead
  <2>6. Beginning(shown'[c], t, r + 1)
    <3>1. r \in Nat /\ r >= 1
      BY <2>4
    <3>2. QED
      BY <1>1, <2>2, <2>4, <2>5, <3>1, BeginningGrows
  <2>7. CASE r = k
    <3>1. client'[c] = "prompt"
      BY <1>1, <2>3, <2>4, <2>7
    <3>2. down'[c] = <<>> /\ Ready' /\ shown'[c] = t
      BY <2>2, <2>3, <2>5, <2>6, <2>7, SendingDone, BeginningAll
    <3>3. QED
      BY <1>1, <1>2, <2>2, <3>1, <3>2 DEF Prompted, Reading
  <2>8. CASE r # k
    <3>1. /\ client'[c] = "reading" /\ r + 1 \in 1 .. k
          /\ count'[c] = k + 1 - (r + 1)
      BY <1>1, <2>3, <2>4, <2>8
    <3>2. Reading(c)'
      BY <1>1, <1>2, <2>2, <2>3, <2>5, <2>6, <3>1 DEF Reading
    <3>3. QED
      BY <3>1, <3>2 DEF Prompted
  <2>9. QED
    BY <2>7, <2>8
<1>5. QED
  BY <1>1, <1>3, <1>4 DEF Agree, Greeted, Answered

------------------------------------------------------------------------------
(* Every step                                                               *)

(* What a user does and what a client reads.                                *)
UserStep(c) ==
  \/ Connect(c) \/ Cut(c) \/ EndOfInput(c) \/ ClientReads(c)
  \/ \E name \in DOMAIN File : Ask(c, name)

(* A step of one client leaves the server's and the other clients' alone.   *)
LEMMA UserDoes ==
  ASSUME FileInv, NEW c \in Clients, UserStep(c)
  PROVE  /\ UNCHANGED <<server, current, packets>>
         /\ \A d \in Clients : d # c => Same(d)
         /\ client' \in [Clients -> {"away", "connected", "prompt", "mute", "asked", "reading",
                                     "gone"}]
         /\ asked' \in [Clients -> Seq(DOMAIN File)]
         /\ steady' \in [Clients -> BOOLEAN]
         /\ IsFun(up') /\ IsFun(down') /\ IsFun(shown') /\ IsFun(count')
         /\ \A d \in Clients : client'[d] = "away" => client[d] = "away"
         /\ backlog' = backlog
            \/ (backlog' = Append(backlog, c) /\ client[c] = "away" /\ client'[c] = "connected")
<1> DEFINE Goal ==
  /\ UNCHANGED <<server, current, packets>>
  /\ \A d \in Clients : d # c => Same(d)
  /\ client' \in [Clients -> {"away", "connected", "prompt", "mute", "asked", "reading",
                              "gone"}]
  /\ asked' \in [Clients -> Seq(DOMAIN File)]
  /\ steady' \in [Clients -> BOOLEAN]
  /\ IsFun(up') /\ IsFun(down') /\ IsFun(shown') /\ IsFun(count')
  /\ \A d \in Clients : client'[d] = "away" => client[d] = "away"
  /\ backlog' = backlog
     \/ (backlog' = Append(backlog, c) /\ client[c] = "away" /\ client'[c] = "connected")
<1>1. State
  BY Known
<1>2. CASE Connect(c)
  BY <1>1, <1>2 DEF Connect, State, IsFun, Same
<1>3. CASE Cut(c) \/ EndOfInput(c)
  BY <1>1, <1>3 DEF Cut, EndOfInput, State, IsFun, Same, serverVars
<1>4. ASSUME NEW name \in DOMAIN File, Ask(c, name) PROVE Goal
  <2>1. asked' \in [Clients -> Seq(DOMAIN File)]
    BY <1>1, <1>4 DEF Ask, State
  <2>2. QED
    BY <1>1, <1>4, <2>1 DEF Ask, State, IsFun, Same, serverVars
<1>5. ASSUME NEW buffer, Read(c, buffer)
      PROVE  /\ UNCHANGED <<server, current, packets, backlog, up, asked>>
             /\ IsFun(down') /\ \A d \in Clients : d # c => down'[d] = down[d]
             /\ steady' \in [Clients -> BOOLEAN]
             /\ \A d \in Clients : d # c => steady'[d] = steady[d]
  <2>1. CASE buffer # <<>>
    BY <1>1, <1>5, <2>1 DEF Read, State, IsFun, serverVars
  <2>2. CASE buffer = <<>>
    BY <1>1, <1>5, <2>2 DEF Read, State, IsFun, serverVars
  <2>3. QED
    BY <2>1, <2>2
<1>6. ASSUME NEW buffer, ReadWelcome(c, buffer) PROVE Goal
  BY <1>1, <1>5, <1>6 DEF ReadWelcome, State, IsFun, Same
<1>7. ASSUME NEW buffer, ReadReply(c, buffer) PROVE Goal
  <2>1. Read(c, buffer)
    BY <1>7 DEF ReadReply
  <2>2. \/ /\ shown' = [shown EXCEPT ![c] = Missing]
           /\ client' = [client EXCEPT ![c] = "prompt"] /\ count' = count
        \/ \E n : /\ count' = [count EXCEPT ![c] = n] /\ shown' = shown
                 /\ client' = [client EXCEPT ![c] = IF n = 0 THEN "prompt" ELSE "reading"]
    BY <1>7 DEF ReadReply
  <2>3. QED
    BY <1>1, <1>5, <2>1, <2>2 DEF State, IsFun, Same
<1>8. ASSUME NEW buffer, ReadPacket(c, buffer) PROVE Goal
  BY <1>1, <1>5, <1>8 DEF ReadPacket, State, IsFun, Same
<1>9. QED
  BY <1>2, <1>3, <1>4, <1>6, <1>7, <1>8 DEF UserStep, ClientReads

(* A client's step keeps the invariant of every client.                     *)
LEMMA UserStepKeeps ==
  ASSUME FileInv, NEW c \in Clients, UserStep(c), NEW d \in Clients
  PROVE  Fresh(d)' /\ Agree(d)'
<1>1. CASE d = c
  BY <1>1, UserKeeps, WelcomeKeeps, ReplyKeeps, PacketKeeps DEF UserStep, ClientReads
<1>2. CASE d # c
  <2>1. Same(d) /\ UNCHANGED <<server, current, packets>>
    BY <1>2, UserDoes
  <2>2. QED
    BY <2>1, StillKeeps
<1>3. QED
  BY <1>1, <1>2

(* Only a client that was away enters the queue.                            *)
LEMMA UserQueue ==
  ASSUME FileInv, NEW c \in Clients, UserStep(c)
  PROVE  QueueInv' /\ backlog' \in Seq(Clients)
<1>1. /\ backlog \in Seq(Clients) /\ current' = current
      /\ \A d \in Clients : client'[d] = "away" => client[d] = "away"
      /\ backlog' = backlog
         \/ (backlog' = Append(backlog, c) /\ client[c] = "away" /\ client'[c] = "connected")
  BY UserDoes, Known DEF State
<1>2. CASE backlog' = backlog
  <2>1. \A d : Waiting(d)' <=> Waiting(d)
    BY <1>2 DEF Waiting
  <2>2. \A d \in Clients : /\ Waiting(d) => client[d] # "away" /\ current # d
                           /\ client[d] = "away" => current # d
    BY DEF FileInv, QueueInv
  <2>3. \A i, j \in DOMAIN backlog : backlog[i] = backlog[j] => i = j
    BY DEF FileInv, QueueInv
  <2>4. QED
    BY <1>1, <1>2, <2>1, <2>2, <2>3 DEF QueueInv
<1>3. CASE /\ backlog' = Append(backlog, c) /\ client[c] = "away"
           /\ client'[c] = "connected"
  <2>1. PICK n \in Nat : n = Len(backlog) /\ DOMAIN backlog = 1 .. n
    BY <1>1
  <2>2. /\ backlog' \in Seq(Clients) /\ DOMAIN backlog' = 1 .. n + 1
        /\ \A i \in 1 .. n : backlog'[i] = backlog[i]
        /\ backlog'[n + 1] = c
    BY <1>1, <1>3, <2>1
  <2>3. ~Waiting(c) /\ current # c
    BY <1>3, Known
  <2>4. \A d : Waiting(d)' => Waiting(d) \/ d = c
    <3>1. \A i \in 1 .. n + 1 : i \in 1 .. n \/ i = n + 1
      BY <2>1
    <3>2. QED
      BY <2>1, <2>2, <3>1 DEF Waiting
  <2>5. ASSUME NEW i \in DOMAIN backlog', NEW j \in DOMAIN backlog', backlog'[i] = backlog'[j]
        PROVE  i = j
    <3>1. \A k \in 1 .. n : backlog[k] # c
      BY <2>1, <2>3 DEF Waiting
    <3>2. (i \in 1 .. n \/ i = n + 1) /\ (j \in 1 .. n \/ j = n + 1)
      BY <2>1, <2>2
    <3>3. i \in 1 .. n /\ j \in 1 .. n => i = j
      BY <2>1, <2>2, <2>5 DEF FileInv, QueueInv
    <3>4. QED
      BY <2>2, <2>5, <3>1, <3>2, <3>3
  <2>6. \A d \in Clients : /\ Waiting(d) => client[d] # "away" /\ current # d
                           /\ client[d] = "away" => current # d
    BY DEF FileInv, QueueInv
  <2>7. QED
    BY <1>1, <1>3, <2>2, <2>3, <2>4, <2>5, <2>6 DEF QueueInv
<1>4. QED
  BY <1>1, <1>2, <1>3

(* A server's step keeps the types and the queue.                           *)
LEMMA ServerDoes ==
  ASSUME FileInv, Server
  PROVE  State' /\ QueueInv'
<1>1. CASE Accept
  <2>1. QueueInv'
    <3>1. /\ current' = Head(backlog) /\ client' = client /\ client[Head(backlog)] # "away"
          /\ \A d \in Clients : Waiting(d) => client[d] # "away"
      BY <1>1, AcceptTakes DEF Accept, clientVars, FileInv, QueueInv
    <3>2. QED
      BY <1>1, <3>1, AcceptTakes DEF QueueInv
  <2>2. IsFun(down)'
    BY <1>1 DEF Accept, FileInv, State, IsFun
  <2>3. QED
    BY <1>1, <2>1, <2>2, AcceptTakes DEF Accept, clientVars, FileInv, State, IsFun
<1>2. CASE NextClient \/ Die \/ ReadName \/ WritePacket \/ CloseFile
  <2>1. UNCHANGED <<current, backlog, clientVars>>
    BY <1>2 DEF NextClient, Die, ReadName, WritePacket, CloseFile
  <2>2. QueueInv'
    BY <2>1 DEF clientVars, FileInv, QueueInv, Waiting
  <2>3. IsFun(up)' /\ IsFun(down)'
    BY <1>2 DEF NextClient, Die, ReadName, WritePacket, CloseFile, FileInv, State, IsFun
  <2>4. QED
    BY <2>1, <2>2, <2>3 DEF clientVars, FileInv, State, IsFun
<1>3. QED
  BY <1>1, <1>2 DEF Server

(* The invariant is inductive.                                              *)
LEMMA StepKeeps == FileInv /\ [Next]_vars => FileInv'
<1> SUFFICES ASSUME FileInv, [Next]_vars PROVE FileInv'
  OBVIOUS
<1>1. CASE Server
  <2>1. State' /\ QueueInv'
    BY <1>1, ServerDoes
  <2>2. ASSUME NEW c \in Clients PROVE Fresh(c)' /\ Agree(c)'
    BY <1>1, AcceptKeeps, TurnKeeps, ReadNameKeeps, WritePacketKeeps, CloseFileKeeps
       DEF Server
  <2>3. QED
    BY <2>1, <2>2 DEF FileInv
<1>2. ASSUME NEW c \in Clients, UserStep(c) PROVE FileInv'
  <2>1. QueueInv' /\ backlog' \in Seq(Clients)
    BY <1>2, UserQueue
  <2>2. State'
    BY <1>2, <2>1, UserDoes DEF State, IsFun
  <2>3. \A d \in Clients : Fresh(d)' /\ Agree(d)'
    BY <1>2, UserStepKeeps
  <2>4. QED
    BY <2>1, <2>2, <2>3 DEF FileInv
<1>3. CASE UNCHANGED vars
  <2>1. ASSUME NEW c \in Clients PROVE Fresh(c)' /\ Agree(c)'
    BY <1>3, StillKeeps DEF vars, Same
  <2>2. State' /\ QueueInv'
    BY <1>3 DEF vars, FileInv, State, QueueInv, IsFun, Waiting
  <2>3. QED
    BY <2>1, <2>2 DEF FileInv
<1>4. QED
  BY <1>1, <1>2, <1>3 DEF Next, UserStep

(* A client none of whose reads was short shows each file that it asked     *)
(* for, for texts and packets of any size and any number of clients that    *)
(* come, wait and are cut meanwhile.                                        *)
THEOREM ShowsTheFile == Spec => []FileShown
<1>1. Init => FileInv
  <2> SUFFICES ASSUME Init PROVE FileInv
    OBVIOUS
  <2>1. State
    <3>1. <<>> \in Seq(Clients) /\ <<>> \in Seq(DOMAIN File)
      BY EmptySeq
    <3>2. QED
      BY <3>1 DEF Init, State, IsFun
  <2>2. QueueInv
    BY TransferAssumption DEF Init, QueueInv, Waiting
  <2>3. \A c \in Clients : Fresh(c) /\ Agree(c)
    BY DEF Init, Fresh, Agree, Greeted, Prompted, Answered, Reading
  <2>4. QED
    BY <2>1, <2>2, <2>3 DEF FileInv
<1>2. FileInv => FileShown
  BY DEF FileInv, State, Agree, Prompted, FileShown, Name
<1>3. QED
  BY <1>1, <1>2, StepKeeps, PTL DEF Spec
==============================================================================
