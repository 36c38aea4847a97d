------------------------------ MODULE StcpProofs ------------------------------
(* One STCP connection, for streams, segments and numbers of any size.      *)
EXTENDS Stcp, LoopProofs, SequenceTheorems

------------------------------------------------------------------------------
(* Numbers                                                                  *)

Width == BASE * BASE

LEMMA WidthType == Width \in Nat /\ Width > 1 /\ BASE \in Nat /\ BASE > 1
<1>1. BASE \in Nat /\ BASE > 1
  BY SizeAssumption
<1>2. BASE * BASE \in Nat /\ BASE * BASE >= 2 * BASE
  BY <1>1
<1>3. QED
  BY <1>1, <1>2 DEF Width

(* A remainder, from any way to write the number.                           *)
LEMMA RemainderInt ==
  ASSUME NEW a \in Int, NEW m \in Nat, m > 0, NEW q \in Int, NEW r \in 0 .. m - 1,
         a = q * m + r
  PROVE  a % m = r
OBVIOUS

LEMMA DivModInt ==
  ASSUME NEW a \in Int, NEW m \in Nat, m > 0
  PROVE  /\ a \div m \in Int /\ a % m \in 0 .. m - 1
         /\ a = (a \div m) * m + (a % m)
<1>1. a % m = a - m * (a \div m)
  OBVIOUS
<1>2. a \div m \in Int /\ a % m \in 0 .. m - 1
  OBVIOUS
<1>3. m * (a \div m) = (a \div m) * m /\ m * (a \div m) \in Int
  BY <1>2
<1>4. QED
  BY <1>1, <1>2, <1>3

LEMMA PlusType ==
  ASSUME NEW n \in Int, NEW k \in Int
  PROVE  Plus(n, k) \in Numbers
<1>1. n + k \in Int
  OBVIOUS
<1>2. (n + k) % Width \in 0 .. Width - 1
  BY <1>1, WidthType, DivModInt
<1>3. QED
  BY <1>2 DEF Plus, Numbers, Width

(* Sums wrap once at the end or at each step.                               *)
LEMMA PlusPlus ==
  ASSUME NEW n \in Int, NEW j \in Int, NEW k \in Int
  PROVE  Plus(Plus(n, j), k) = Plus(n, j + k)
<1> DEFINE q == (n + j) \div Width
           r == (n + j) % Width
           p == (r + k) \div Width
           s == (r + k) % Width
<1>1. q \in Int /\ r \in 0 .. Width - 1 /\ n + j = q * Width + r
  BY WidthType, DivModInt
<1> HIDE DEF q, r
<1>2. p \in Int /\ s \in 0 .. Width - 1 /\ r + k = p * Width + s
  BY <1>1, WidthType, DivModInt
<1> HIDE DEF p, s
<1>3. n + (j + k) = (q + p) * Width + s /\ q + p \in Int
  BY <1>1, <1>2, WidthType
<1>4. (n + (j + k)) % Width = s
  <2> DEFINE x == n + (j + k)
             d == q + p
  <2>1. x \in Int /\ d \in Int /\ x = d * Width + s
    BY <1>3
  <2> HIDE DEF x, d
  <2>2. x % Width = s
    BY <1>2, <2>1, WidthType, RemainderInt
  <2>3. QED
    BY <2>2 DEF x
<1>5. Plus(n, j + k) = s /\ Plus(n, j) = r /\ Plus(r, k) = s
  BY <1>4 DEF Plus, Width, r, s
<1>6. QED
  BY <1>5

LEMMA PlusZero ==
  ASSUME NEW n \in Numbers
  PROVE  Plus(n, 0) = n
<1>1. n \in Int /\ n \in 0 .. Width - 1 /\ n + 0 = 0 * Width + n
  BY WidthType DEF Numbers, Width
<1>2. (n + 0) % Width = n
  BY <1>1, WidthType, RemainderInt
<1>3. QED
  BY <1>2 DEF Plus, Width

(* The difference of two sums wraps to that of what was added.              *)
LEMMA Difference ==
  ASSUME NEW n \in Int, NEW j \in Int, NEW k \in Int, j - k \in 0 .. Width - 1
  PROVE  Plus(Plus(n, j), -Plus(n, k)) = j - k
<1> DEFINE q == (n + j) \div Width
           r == (n + j) % Width
           p == (n + k) \div Width
           s == (n + k) % Width
<1>1. q \in Int /\ r \in 0 .. Width - 1 /\ n + j = q * Width + r
  BY WidthType, DivModInt
<1>2. p \in Int /\ s \in 0 .. Width - 1 /\ n + k = p * Width + s
  BY WidthType, DivModInt
<1> HIDE DEF q, r, p, s
<1>3. r + (-s) = (p - q) * Width + (j - k) /\ p - q \in Int /\ r + (-s) \in Int
  BY <1>1, <1>2, WidthType
<1>4. (r + (-s)) % Width = j - k
  <2> DEFINE x == r + (-s)
             d == p - q
             e == j - k
  <2>1. x \in Int /\ d \in Int /\ e \in 0 .. Width - 1 /\ x = d * Width + e
    BY <1>1, <1>2, <1>3, WidthType
  <2> HIDE DEF x, d, e
  <2>2. x % Width = e
    BY <2>1, WidthType, RemainderInt
  <2>3. QED
    BY <2>2 DEF x, e
<1>5. Plus(n, j) = r /\ Plus(n, k) = s /\ Plus(r, -s) = j - k
  BY <1>4 DEF Plus, Width, r, s
<1>6. QED
  BY <1>5

LEMMA SwapSwap ==
  ASSUME NEW n \in Numbers
  PROVE  Swap(n) \in Numbers /\ Swap(Swap(n)) = n
<1> DEFINE h == n \div BASE
           l == n % BASE
<1>1. n \in Nat /\ n =< BASE * BASE - 1 /\ BASE * BASE \in Nat
  BY WidthType DEF Numbers, Width
<1>2. h \in Nat /\ l \in 0 .. BASE - 1 /\ n = BASE * h + l
  BY <1>1, WidthType, DivMod
<1> HIDE DEF h, l
<1>3. h =< BASE - 1
  <2>1. SUFFICES ASSUME h >= BASE PROVE FALSE
    BY <1>2, WidthType
  <2>2. BASE * h >= BASE * BASE
    BY <1>2, <2>1, WidthType
  <2>3. QED
    BY <1>1, <1>2, <2>2, WidthType
<1>4. l * BASE + h \in Nat /\ l * BASE + h =< BASE * BASE - 1
  <2>1. l * BASE =< (BASE - 1) * BASE /\ l * BASE \in Nat
    BY <1>2, WidthType
  <2>2. (BASE - 1) * BASE = BASE * BASE - BASE
    BY WidthType
  <2>3. QED
    BY <1>1, <1>2, <1>3, <2>1, <2>2, WidthType
<1>5. Swap(n) = l * BASE + h
  BY DEF Swap, h, l
<1>6. (l * BASE + h) % BASE = h
  BY <1>2, <1>3, <1>4, WidthType, RemainderIs
<1>7. (l * BASE + h) \div BASE = l
  <2> DEFINE m == l * BASE + h
             d == m \div BASE
  <2>1. d \in Nat /\ m = BASE * d + (m % BASE)
    BY <1>4, WidthType, DivMod
  <2> HIDE DEF d
  <2>2. BASE * d = BASE * l
    BY <1>2, <1>6, <2>1, WidthType
  <2>3. d = l
    BY <1>2, <2>1, <2>2, WidthType
  <2>4. QED
    BY <2>3 DEF d
<1>8. Swap(l * BASE + h) = h * BASE + l
  BY <1>6, <1>7 DEF Swap
<1>9. QED
  BY <1>1, <1>2, <1>4, <1>5, <1>8, WidthType DEF Numbers

------------------------------------------------------------------------------
(* Queues of pieces of a stream: chunks and packets                         *)

Pieces(S) == \A e \in S : e.from \in Nat /\ e.data \in Seq(Nat)

(* Where the k-th piece of a queue begins; the queue ends at end.           *)
Bound(q, k, end) == IF k =< Len(q) THEN q[k].from ELSE end

(* Each piece ends where the next one begins.                               *)
Linked(q, end) ==
  \A k \in 1 .. Len(q) :
    /\ q[k].from + Len(q[k].data) = Bound(q, k + 1, end)
    /\ q[k].from + Len(q[k].data) =< end

LEMMA PieceType ==
  ASSUME NEW S, Pieces(S), NEW q \in Seq(S), NEW k \in 1 .. Len(q)
  PROVE  /\ q[k] \in S /\ q[k].from \in Nat /\ q[k].data \in Seq(Nat)
         /\ Len(q[k].data) \in Nat
<1>1. q[k] \in S
  BY ElementOfSeq
<1>2. QED
  BY <1>1 DEF Pieces

LEMMA ConcatLinked ==
  ASSUME NEW S, Pieces(S), NEW q \in Seq(S), NEW o \in Seq(S),
         NEW mid \in Nat, NEW end \in Nat, mid =< end,
         Linked(q, mid), Linked(o, end), Bound(o, 1, end) = mid
  PROVE  Linked(q \o o, end) /\ Bound(q \o o, 1, end) = Bound(q, 1, mid)
<1> DEFINE n == Len(q)
           m == Len(o)
           w == q \o o
<1>1. n \in Nat /\ m \in Nat
  OBVIOUS
<1>2. /\ w \in Seq(S) /\ Len(w) = n + m
      /\ \A i \in 1 .. n + m : w[i] = IF i <= n THEN q[i] ELSE o[i - n]
  BY ConcatProperties
<1> HIDE DEF w
<1>3. ASSUME NEW k \in 1 .. n + m + 1
      PROVE  Bound(w, k, end) = IF k <= n THEN q[k].from ELSE Bound(o, k - n, end)
  <2>1. CASE k <= n
    BY <1>1, <1>2, <2>1 DEF Bound
  <2>2. CASE ~(k <= n) /\ k <= n + m
    <3>1. w[k] = o[k - n] /\ k - n =< m /\ k =< Len(w)
      BY <1>1, <1>2, <2>2
    <3>2. QED
      BY <2>2, <3>1 DEF Bound
  <2>3. CASE ~(k <= n) /\ ~(k <= n + m)
    <3>1. ~(k =< Len(w)) /\ ~(k - n =< m)
      BY <1>1, <1>2, <2>3
    <3>2. QED
      BY <2>3, <3>1 DEF Bound
  <2>4. QED
    BY <2>1, <2>2, <2>3
<1>4. ASSUME NEW k \in 1 .. Len(w)
      PROVE  /\ w[k].from + Len(w[k].data) = Bound(w, k + 1, end)
             /\ w[k].from + Len(w[k].data) =< end
  <2>1. CASE k <= n
    <3>1. k \in 1 .. n /\ w[k] = q[k] /\ k + 1 \in 1 .. n + m + 1
      BY <1>1, <1>2, <2>1
    <3>2. /\ q[k].from + Len(q[k].data) = Bound(q, k + 1, mid)
          /\ q[k].from + Len(q[k].data) =< mid
          /\ q[k].from \in Nat /\ Len(q[k].data) \in Nat
      BY <3>1, PieceType DEF Linked
    <3>3. CASE k + 1 <= n
      <4>1. PICK j \in 1 .. n + m + 1 : j = k + 1
        BY <3>1
      <4>2. j <= n /\ Bound(w, j, end) = q[j].from /\ Bound(q, j, mid) = q[j].from
        BY <1>3, <3>3, <4>1 DEF Bound
      <4>3. q[k].from + Len(q[k].data) =< end
        BY <3>1, <3>2
      <4>4. QED
        BY <3>1, <3>2, <4>1, <4>2, <4>3, SMTT(30)
    <3>4. CASE ~(k + 1 <= n)
      <4>1. k = n /\ (k + 1) - n = 1
        BY <1>1, <3>1, <3>4
      <4>2. Bound(w, k + 1, end) = mid
        BY <1>3, <3>1, <3>4, <4>1
      <4>3. Bound(q, k + 1, mid) = mid
        BY <3>4 DEF Bound
      <4>4. QED
        BY <3>1, <3>2, <4>2, <4>3
    <3>5. QED
      BY <3>3, <3>4
  <2>2. CASE ~(k <= n)
    <3>1. /\ k - n \in 1 .. m /\ w[k] = o[k - n] /\ k + 1 \in 1 .. n + m + 1
          /\ ~(k + 1 <= n) /\ (k + 1) - n = (k - n) + 1
      BY <1>1, <1>2, <2>2, SMTT(30)
    <3>2. PICK j \in 1 .. m : j = k - n
      BY <3>1
    <3>3. /\ o[j].from + Len(o[j].data) = Bound(o, j + 1, end)
          /\ o[j].from + Len(o[j].data) =< end
      BY DEF Linked
    <3>4. Bound(w, k + 1, end) = Bound(o, j + 1, end)
      BY <1>3, <3>1, <3>2
    <3>5. QED
      BY <3>1, <3>2, <3>3, <3>4
  <2>3. QED
    BY <2>1, <2>2
<1>5. Bound(w, 1, end) = Bound(q, 1, mid)
  <2>1. 1 \in 1 .. n + m + 1
    BY <1>1
  <2>2. CASE 1 <= n
    BY <1>3, <2>1, <2>2 DEF Bound
  <2>3. CASE ~(1 <= n)
    <3>1. 1 - n = 1
      BY <1>1, <2>3
    <3>2. QED
      BY <1>3, <2>1, <2>3, <3>1 DEF Bound
  <2>4. QED
    BY <2>2, <2>3
<1>6. QED
  BY <1>4, <1>5 DEF Linked, w

LEMMA TailLinked ==
  ASSUME NEW S, Pieces(S), NEW q \in Seq(S), NEW end \in Nat, q # <<>>, Linked(q, end)
  PROVE  /\ Linked(Tail(q), end)
         /\ Bound(q, 1, end) = q[1].from
         /\ Bound(Tail(q), 1, end) = q[1].from + Len(q[1].data)
         /\ q[1].from + Len(q[1].data) =< end
<1> DEFINE n == Len(q)
           t == Tail(q)
<1>1. n \in Nat /\ n > 0 /\ 1 \in 1 .. n
  BY EmptySeq
<1>2. /\ t \in Seq(S) /\ Len(t) = n - 1 /\ \A i \in 1 .. n - 1 : t[i] = q[i + 1]
  BY <1>1, HeadTailProperties
<1> HIDE DEF t
<1>3. ASSUME NEW k \in 1 .. n
      PROVE  Bound(t, k, end) = Bound(q, k + 1, end)
  <2>1. CASE k <= n - 1
    <3>1. k \in 1 .. n - 1 /\ k + 1 =< n
      BY <1>1, <2>1
    <3>2. QED
      BY <1>2, <3>1 DEF Bound
  <2>2. CASE ~(k <= n - 1)
    <3>1. ~(k =< Len(t)) /\ ~(k + 1 =< n)
      BY <1>1, <1>2, <2>2
    <3>2. QED
      BY <3>1 DEF Bound
  <2>3. QED
    BY <2>1, <2>2
<1>4. ASSUME NEW k \in 1 .. Len(t)
      PROVE  /\ t[k].from + Len(t[k].data) = Bound(t, k + 1, end)
             /\ t[k].from + Len(t[k].data) =< end
  <2>1. k \in 1 .. n - 1 /\ k + 1 \in 1 .. n /\ t[k] = q[k + 1]
    BY <1>1, <1>2
  <2>2. PICK j \in 1 .. n : j = k + 1
    BY <2>1
  <2>3. /\ q[j].from + Len(q[j].data) = Bound(q, j + 1, end)
        /\ q[j].from + Len(q[j].data) =< end
        /\ Bound(t, j, end) = Bound(q, j + 1, end)
    BY <1>3 DEF Linked
  <2>4. QED
    BY <2>1, <2>2, <2>3
<1>5. q[1].from + Len(q[1].data) = Bound(q, 1 + 1, end) /\ q[1].from + Len(q[1].data) =< end
  BY <1>1 DEF Linked
<1>6. Bound(t, 1, end) = Bound(q, 1 + 1, end)
  BY <1>1, <1>3
<1>7. Bound(q, 1, end) = q[1].from
  BY <1>1 DEF Bound
<1>8. QED
  BY <1>4, <1>5, <1>6, <1>7 DEF Linked, t

(* The first piece loses its beginning.                                     *)
LEMMA FrontLinked ==
  ASSUME NEW S, Pieces(S), NEW q \in Seq(S), NEW end \in Nat, q # <<>>, Linked(q, end),
         NEW r \in S, r.from + Len(r.data) = q[1].from + Len(q[1].data),
         NEW w, Len(w) = Len(q), w[1] = r, \A k \in 1 .. Len(q) : k # 1 => w[k] = q[k]
  PROVE  Linked(w, end) /\ Bound(w, 1, end) = r.from
<1> DEFINE n == Len(q)
<1>1. n \in Nat /\ n > 0 /\ 1 \in 1 .. n
  BY EmptySeq
<1>2. Len(w) = n /\ w[1] = r /\ \A k \in 1 .. n : k # 1 => w[k] = q[k]
  OBVIOUS
<1>3. ASSUME NEW k \in 1 .. n
      PROVE  Bound(w, k + 1, end) = Bound(q, k + 1, end)
  <2>1. k + 1 # 1 /\ (k + 1 =< n => k + 1 \in 1 .. n)
    BY <1>1
  <2>2. QED
    BY <1>2, <2>1 DEF Bound
<1>4. ASSUME NEW k \in 1 .. Len(w)
      PROVE  /\ w[k].from + Len(w[k].data) = Bound(w, k + 1, end)
             /\ w[k].from + Len(w[k].data) =< end
  <2>1. k \in 1 .. n
    BY <1>2
  <2>2. w[k].from + Len(w[k].data) = q[k].from + Len(q[k].data)
    BY <1>2, <2>1
  <2>3. QED
    BY <1>3, <2>1, <2>2 DEF Linked
<1>5. Bound(w, 1, end) = r.from
  BY <1>1, <1>2 DEF Bound
<1>6. QED
  BY <1>4, <1>5 DEF Linked

(* One piece, or pieces without data.                                       *)
LEMMA ShortLinked ==
  /\ \A end : Linked(<<>>, end) /\ Bound(<<>>, 1, end) = end
  /\ \A e, end : e.from \in Nat /\ e.data \in Seq(Nat) /\ end = e.from + Len(e.data)
       => Linked(<<e>>, end) /\ Bound(<<e>>, 1, end) = e.from
  /\ \A e, end : end \in Nat /\ e.from = end /\ e.data = <<>>
       => Linked(<<e, e>>, end) /\ Bound(<<e, e>>, 1, end) = end
<1>1. ASSUME NEW end PROVE Linked(<<>>, end) /\ Bound(<<>>, 1, end) = end
  BY DEF Linked, Bound
<1>2. ASSUME NEW e, NEW end, e.from \in Nat, e.data \in Seq(Nat), end = e.from + Len(e.data)
      PROVE  Linked(<<e>>, end) /\ Bound(<<e>>, 1, end) = e.from
  <2>1. PICK q : q = <<e>>
    OBVIOUS
  <2>2. Len(q) = 1 /\ q[1] = e
    BY <2>1
  <2>3. Bound(q, 1 + 1, end) = end /\ Bound(q, 1, end) = e.from
    BY <2>2 DEF Bound
  <2>4. Linked(q, end)
    <3>1. \A k \in 1 .. Len(q) : k = 1
      BY <2>2
    <3>2. end =< end
      BY <1>2
    <3>3. QED
      BY <1>2, <2>2, <2>3, <3>1, <3>2 DEF Linked
  <2>5. QED
    BY <2>1, <2>3, <2>4
<1>3. ASSUME NEW e, NEW end \in Nat, e.from = end, e.data = <<>>
      PROVE  Linked(<<e, e>>, end) /\ Bound(<<e, e>>, 1, end) = end
  <2>1. PICK q : q = <<e, e>>
    OBVIOUS
  <2>2. Len(q) = 2 /\ q[1] = e /\ q[2] = e
    BY <2>1
  <2>3. Bound(q, 1 + 1, end) = end /\ Bound(q, 1, end) = end /\ Bound(q, 2 + 1, end) = end
    BY <1>3, <2>2 DEF Bound
  <2>4. e.from + Len(e.data) = end
    BY <1>3
  <2>5. Linked(q, end)
    <3>1. \A k \in 1 .. Len(q) : k = 1 \/ k = 2
      BY <2>2
    <3>2. QED
      BY <1>3, <2>2, <2>3, <2>4, <3>1 DEF Linked
  <2>6. QED
    BY <2>1, <2>3, <2>5
<1>4. QED
  BY <1>1, <1>2, <1>3

LEMMA PacketPieces == Pieces(Packet) /\ Pieces(Chunk)
BY DEF Pieces, Packet, Chunk

------------------------------------------------------------------------------
(* What a step does to the connection below                                 *)

LEMMA PeerIs ==
  ASSUME NEW s \in Sides
  PROVE  /\ Peer(s) \in Sides /\ Peer(s) # s /\ Peer(Peer(s)) = s
         /\ \A t \in Sides : t = s \/ t = Peer(s)
BY DEF Sides, Peer

(* A side takes one packet or none off its queue; the other side's queue    *)
(* grows.                                                                   *)
LEMMA ExchangeIs ==
  ASSUME net \in [Sides -> Seq(Packet)], NEW s \in Sides, NEW n \in {0, 1},
         n = 1 => net[s] # <<>>, NEW out \in Seq(Packet), Exchange(s, n, out)
  PROVE  /\ net' \in [Sides -> Seq(Packet)]
         /\ net'[s] = IF n = 0 THEN net[s] ELSE Tail(net[s])
         /\ net'[Peer(s)] = IF gone[Peer(s)] THEN net[Peer(s)] ELSE net[Peer(s)] \o out
<1> DEFINE q == net[s]
           r == net[Peer(s)]
<1>1. q \in Seq(Packet) /\ r \in Seq(Packet) /\ Peer(s) \in Sides /\ Peer(s) # s
  BY PeerIs
<1>2. /\ net'[s] = SubSeq(q, n + 1, Len(q))
      /\ net'[Peer(s)] = IF gone[Peer(s)] THEN r ELSE r \o out
      /\ DOMAIN net' = Sides /\ \A t \in Sides : t # s /\ t # Peer(s) => net'[t] = net[t]
      /\ net' = [t \in Sides |-> net'[t]]
  BY <1>1 DEF Exchange
<1> HIDE DEF q, r
<1>3. SubSeq(q, n + 1, Len(q)) = IF n = 0 THEN q ELSE Tail(q)
  <2>1. CASE n = 0
    <3>1. Len(q) \in Nat
      BY <1>1
    <3>2. n + 1 = 1
      BY <2>1
    <3>3. SubSeq(q, 1, Len(q)) = q
      BY <1>1, SubSeqFull
    <3>4. QED
      BY <2>1, <3>2, <3>3
  <2>2. CASE n = 1
    <3>1. n + 1 = 2 /\ n # 0
      BY <2>2
    <3>2. Tail(q) = SubSeq(q, 2, Len(q))
      BY <1>1, <2>2, TailIsSubSeq DEF q
    <3>3. QED
      BY <3>1, <3>2
  <2>3. QED
    BY <2>1, <2>2
<1>4. SubSeq(q, n + 1, Len(q)) \in Seq(Packet)
  <2>1. q # <<>> => Tail(q) \in Seq(Packet)
    BY <1>1, HeadTailProperties
  <2>2. n # 0 => q # <<>>
    BY DEF q
  <2>3. QED
    BY <1>1, <1>3, <2>1, <2>2
<1>5. r \o out \in Seq(Packet)
  BY <1>1, ConcatProperties
<1>6. \A t \in Sides : net'[t] \in Seq(Packet)
  <2>1. TAKE t \in Sides
  <2>2. t = s \/ t = Peer(s)
    BY PeerIs
  <2>3. QED
    BY <1>1, <1>2, <1>4, <1>5, <2>2
<1>7. net' \in [Sides -> Seq(Packet)]
  BY <1>2, <1>6
<1>8. QED
  BY <1>2, <1>3, <1>7 DEF q, r

LEMMA SendIs ==
  ASSUME net \in [Sides -> Seq(Packet)], NEW s \in Sides, NEW h \in Packet,
         Exchange(s, 0, <<h>>)
  PROVE  /\ net' \in [Sides -> Seq(Packet)]
         /\ net'[s] = net[s]
         /\ net'[Peer(s)] = IF gone[Peer(s)] THEN net[Peer(s)] ELSE net[Peer(s)] \o <<h>>
<1>1. PICK q : q = <<h>>
  OBVIOUS
<1>2. q \in Seq(Packet) /\ Exchange(s, 0, q)
  BY <1>1
<1>3. PICK n \in {0, 1} : n = 0
  OBVIOUS
<1>4. Exchange(s, n, q) /\ (n = 1 => net[s] # <<>>)
  BY <1>2, <1>3
<1>5. /\ net' \in [Sides -> Seq(Packet)]
      /\ net'[s] = IF n = 0 THEN net[s] ELSE Tail(net[s])
      /\ net'[Peer(s)] = IF gone[Peer(s)] THEN net[Peer(s)] ELSE net[Peer(s)] \o q
  BY <1>2, <1>4, ExchangeIs
<1>6. QED
  BY <1>1, <1>3, <1>5

LEMMA TakeIs ==
  ASSUME net \in [Sides -> Seq(Packet)], NEW s \in Sides, net[s] # <<>>,
         NEW out \in Seq(Packet), Exchange(s, 1, out)
  PROVE  /\ net' \in [Sides -> Seq(Packet)]
         /\ net'[s] = Tail(net[s])
         /\ net'[Peer(s)] = IF gone[Peer(s)] THEN net[Peer(s)] ELSE net[Peer(s)] \o out
<1>1. PICK n \in {0, 1} : n = 1
  OBVIOUS
<1>2. Exchange(s, n, out) /\ (n = 1 => net[s] # <<>>)
  BY <1>1
<1>3. /\ net' \in [Sides -> Seq(Packet)]
      /\ net'[s] = IF n = 0 THEN net[s] ELSE Tail(net[s])
      /\ net'[Peer(s)] = IF gone[Peer(s)] THEN net[Peer(s)] ELSE net[Peer(s)] \o out
  BY <1>2, ExchangeIs
<1>4. QED
  BY <1>1, <1>3

LEMMA HeaderType ==
  ASSUME NEW f \in FlagSets, NEW a \in Numbers, NEW b \in Numbers, NEW k \in Nat
  PROVE  Header(f, a, b, k) \in Packet
<1>1. <<>> \in Seq(Nat)
  OBVIOUS
<1>2. QED
  BY <1>1 DEF Header, Packet

LEMMA CopiedIs ==
  ASSUME NEW d \in Seq(Nat)
  PROVE  /\ Copied(d) \in Seq(Nat) /\ Len(Copied(d)) = Len(d)
         /\ \A i \in 1 .. Len(d) : Copied(d)[i] \in {0, d[i]}
         /\ (\A j \in 1 .. Len(d) : d[j] # 0) => \A i \in 1 .. Len(d) : Copied(d)[i] = d[i]
<1> DEFINE F(i) == IF \E j \in 1 .. i : d[j] = 0 THEN 0 ELSE d[i]
           c == [i \in 1 .. Len(d) |-> F(i)]
<1>1. Len(d) \in Nat /\ \A i \in 1 .. Len(d) : d[i] \in Nat
  OBVIOUS
<1>2. \A i \in 1 .. Len(d) : F(i) \in Nat /\ F(i) \in {0, d[i]}
  BY <1>1
<1>3. (\A j \in 1 .. Len(d) : d[j] # 0) => \A i \in 1 .. Len(d) : F(i) = d[i]
  <2>1. HAVE \A j \in 1 .. Len(d) : d[j] # 0
  <2>2. TAKE i \in 1 .. Len(d)
  <2>3. \A j \in 1 .. i : j \in 1 .. Len(d)
    BY <1>1
  <2>4. QED
    BY <2>1, <2>3
<1>4. Copied(d) = c
  BY DEF Copied
<1> HIDE DEF F
<1>5. c \in Seq(Nat) /\ Len(c) = Len(d) /\ \A i \in 1 .. Len(d) : c[i] = F(i)
  BY <1>1, <1>2
<1>6. QED
  BY <1>2, <1>3, <1>4, <1>5

LEMMA AckOk == {"ACK"} \in FlagSets /\ {"SYN"} \in FlagSets /\ {"FIN"} \in FlagSets
               /\ {"SYN", "ACK"} \in FlagSets /\ NetEof \in FlagSets
               /\ InitFlags \subseteq FlagSets /\ {} \in FlagSets
BY ChoiceAssumption DEF FlagSets

LEMMA IsnType ==
  ASSUME NEW x \in Isns
  PROVE  x \in Numbers /\ Swap(x) \in Numbers
<1>1. x \in 0 .. BASE - 1
  BY ChoiceAssumption
<1>2. BASE =< BASE * BASE /\ BASE * BASE \in Nat
  BY WidthType
<1>3. x \in Numbers
  BY <1>1, <1>2, WidthType DEF Numbers
<1>4. QED
  BY <1>3, SwapSwap

(* What SendData sends of a chunk and what is left of it.                   *)
LEMMA SplitIs ==
  ASSUME NEW d \in Seq(Nat), NEW n \in Nat, n =< Len(d)
  PROVE  /\ SubSeq(d, 1, n) \in Seq(Nat) /\ Len(SubSeq(d, 1, n)) = n
         /\ \A i \in 1 .. n : SubSeq(d, 1, n)[i] = d[i]
         /\ SubSeq(d, n + 1, Len(d)) \in Seq(Nat)
         /\ Len(SubSeq(d, n + 1, Len(d))) = Len(d) - n
         /\ \A i \in 1 .. Len(d) - n : SubSeq(d, n + 1, Len(d))[i] = d[n + i]
         /\ Len(d) \in Nat
<1>1. Len(d) \in Nat
  OBVIOUS
<1>2. /\ SubSeq(d, 1, n) \in Seq(Nat) /\ Len(SubSeq(d, 1, n)) = n
      /\ \A i \in 1 .. n : SubSeq(d, 1, n)[i] = d[i]
  <2>1. \A i \in 1 .. n : i \in 1 .. Len(d)
    BY <1>1
  <2>2. QED
    BY <1>1, <2>1
<1>3. /\ SubSeq(d, n + 1, Len(d)) \in Seq(Nat)
      /\ Len(SubSeq(d, n + 1, Len(d))) = Len(d) - n
      /\ \A i \in 1 .. Len(d) - n : SubSeq(d, n + 1, Len(d))[i] = d[n + i]
  <2>1. \A i \in (n + 1) .. Len(d) : d[i] \in Nat
    BY <1>1
  <2>2. n + 1 \in Int /\ Len(d) \in Int
    BY <1>1
  <2>3. /\ SubSeq(d, n + 1, Len(d)) \in Seq(Nat)
        /\ Len(SubSeq(d, n + 1, Len(d)))
             = IF n + 1 <= Len(d) THEN Len(d) - (n + 1) + 1 ELSE 0
        /\ \A i \in 1 .. Len(d) - (n + 1) + 1 :
             SubSeq(d, n + 1, Len(d))[i] = d[(n + 1) + i - 1]
    BY <2>1, <2>2, SubSeqProperties
  <2>4. Len(d) - (n + 1) + 1 = Len(d) - n /\ \A i \in Nat : (n + 1) + i - 1 = n + i
    BY <1>1
  <2>5. ASSUME NEW i \in 1 .. Len(d) - n
        PROVE  SubSeq(d, n + 1, Len(d))[i] = d[n + i]
    <3>1. i \in Nat /\ i \in 1 .. Len(d) - (n + 1) + 1
      BY <1>1
    <3>2. QED
      BY <2>3, <2>4, <3>1, Zenon
  <2>6. Len(SubSeq(d, n + 1, Len(d))) = Len(d) - n
    BY <1>1, <2>3
  <2>7. QED
    BY <2>3, <2>5, <2>6
<1>4. QED
  BY <1>1, <1>2, <1>3

LEMMA CutIs ==
  ASSUME NEW d \in Seq(Nat), NEW n, n = IF Len(d) < MSS THEN Len(d) ELSE MSS
  PROVE  /\ n \in Nat /\ n =< Len(d)
         /\ SubSeq(d, 1, n) \in Seq(Nat) /\ Len(SubSeq(d, 1, n)) = n
         /\ SubSeq(d, n + 1, Len(d)) \in Seq(Nat)
         /\ Len(SubSeq(d, n + 1, Len(d))) = Len(d) - n
<1>1. MSS \in Nat /\ Len(d) \in Nat
  BY SizeAssumption
<1>2. n \in Nat /\ n =< Len(d)
  BY <1>1
<1>3. QED
  BY <1>2, SplitIs

LEMMA InitType == Init => TypeOK
<1> SUFFICES ASSUME Init PROVE TypeOK
  OBVIOUS
<1>2. 0 \in Numbers /\ 0 \in Nat
  BY WidthType DEF Numbers, Width
<1>3. Header({}, 0, 0, 0) \in Packet
  BY <1>2, AckOk, HeaderType
<1>4. <<>> \in Seq(Packet) /\ <<>> \in Seq(Chunk) /\ <<>> \in Seq(Nat)
  OBVIOUS
<1>5. flags \in [Sides -> FlagSets]
  <2>1. flags \in [Sides -> InitFlags] /\ InitFlags \subseteq FlagSets
    BY AckOk, Zenon DEF Init
  <2>2. QED
    BY <2>1
<1>6. QED
  <2>1. /\ net = [s \in Sides |-> <<>>] /\ appq = [s \in Sides |-> <<>>]
        /\ got = [s \in Sides |-> <<>>] /\ D = Header({}, 0, 0, 0)
    BY Zenon DEF Init
  <2>2. net \in [Sides -> Seq(Packet)] /\ D \in Packet
    BY <1>3, <1>4, <2>1
  <2>3. appq \in [Sides -> Seq(Chunk)] /\ got \in [Sides -> Seq(Nat)]
    BY <1>4, <2>1
  <2>4. QED
    <3>1. /\ pc = [s \in Sides |-> "start"] /\ state = [s \in Sides |-> "ESTABLISHED"]
          /\ SequenceNumber = [s \in Sides |-> 0] /\ NextExpectedByte = [s \in Sides |-> 0]
          /\ AcknowledgedByte = [s \in Sides |-> 0]
          /\ written = [s \in Sides |-> 0] /\ sent = [s \in Sides |-> 0]
          /\ eof = [s \in Sides |-> FALSE] /\ closed = [s \in Sides |-> FALSE]
          /\ closeReq = [s \in Sides |-> FALSE] /\ gone = [s \in Sides |-> FALSE]
      BY Zenon DEF Init
    <3>2. clean \in BOOLEAN
      BY Zenon DEF Init
    <3>3. QED
      BY <1>2, <1>5, <2>2, <2>3, <3>1, <3>2 DEF TypeOK

LEMMA HeaderWith ==
  ASSUME NEW f, NEW a, NEW b, NEW k, NEW d
  PROVE  [Header(f, a, b, k) EXCEPT !.data = d]
           = [flags |-> f, seq |-> a, ack |-> b, from |-> k, data |-> d]
BY DEF Header

(* What SendData does, taken apart.                                         *)
SentPiece(s, n) ==
  [flags |-> flags[s], seq |-> Swap(SequenceNumber[s]), ack |-> Swap(NextExpectedByte[s]),
   from |-> sent[s], data |-> SubSeq(appq[s][1].data, 1, n)]

LEMMA SendDataIs ==
  ASSUME TypeOK, NEW s \in Sides, SendData(s)
  PROVE  \E n \in Nat :
           /\ n = IF Len(appq[s][1].data) < MSS THEN Len(appq[s][1].data) ELSE MSS
           /\ appq[s][1] \in Chunk /\ appq[s] # <<>>
           /\ SentPiece(s, n) \in Packet
           /\ Exchange(s, 0, <<SentPiece(s, n)>>)
           /\ Rest(appq[s][1].data, n, sent[s] + n) \in Chunk
           /\ appq' = [appq EXCEPT ![s] =
                IF n = Len(appq[s][1].data) THEN Tail(@)
                ELSE [@ EXCEPT ![1] = Rest(appq[s][1].data, n, sent[s] + n)]]
<1> DEFINE c == appq[s][1].data
<1>1. appq[s] \in Seq(Chunk) /\ appq[s] # <<>> /\ Head(appq[s]) = appq[s][1]
  BY DEF TypeOK, SendData
<1>2. appq[s][1] \in Chunk
  BY <1>1
<1>3. c \in Seq(Nat)
  BY <1>2 DEF Chunk
<1>4. PICK n : n = IF Len(c) < MSS THEN Len(c) ELSE MSS
  OBVIOUS
<1>5. n \in Nat /\ SubSeq(c, 1, n) \in Seq(Nat) /\ SubSeq(c, n + 1, Len(c)) \in Seq(Nat)
  BY <1>3, <1>4, CutIs
<1>6. SentPiece(s, n) \in Packet
  <2>1. flags[s] \in FlagSets /\ sent[s] \in Nat
    BY DEF TypeOK
  <2>2. Swap(SequenceNumber[s]) \in Numbers /\ Swap(NextExpectedByte[s]) \in Numbers
    BY SwapSwap DEF TypeOK
  <2>3. QED
    BY <1>5, <2>1, <2>2 DEF SentPiece, Packet
<1>7. Rest(c, n, sent[s] + n) \in Chunk
  BY <1>5 DEF TypeOK, Rest, Chunk
<1>8. [Header(flags[s], Swap(SequenceNumber[s]), Swap(NextExpectedByte[s]), sent[s])
         EXCEPT !.data = SubSeq(appq[s][1].data, 1, n)] = SentPiece(s, n)
  <2>1. PICK d : d = SubSeq(appq[s][1].data, 1, n)
    OBVIOUS
  <2>2. PICK a, b, k, f : /\ a = Swap(SequenceNumber[s]) /\ b = Swap(NextExpectedByte[s])
                          /\ k = sent[s] /\ f = flags[s]
    OBVIOUS
  <2>3. SentPiece(s, n) = [flags |-> f, seq |-> a, ack |-> b, from |-> k, data |-> d]
    BY <2>1, <2>2 DEF SentPiece
  <2>4. [Header(f, a, b, k) EXCEPT !.data = d] = SentPiece(s, n)
    <3>1. [Header(f, a, b, k) EXCEPT !.data = d]
            = [flags |-> f, seq |-> a, ack |-> b, from |-> k, data |-> d]
      BY HeaderWith
    <3>2. QED
      BY <2>3, <3>1, Zenon
  <2>5. QED
    BY <2>1, <2>2, <2>4, Zenon
<1>9. Exchange(s, 0, <<SentPiece(s, n)>>)
  BY <1>1, <1>4, <1>8 DEF SendData
<1>10. appq' = [appq EXCEPT ![s] =
                IF n = Len(c) THEN Tail(@) ELSE [@ EXCEPT ![1] = Rest(c, n, sent[s] + n)]]
  BY <1>1, <1>4 DEF SendData
<1>11. QED
  BY <1>1, <1>2, <1>4, <1>5, <1>6, <1>7, <1>9, <1>10

(* What RecvPacket does, taken apart.                                       *)
NextByte(s) == Plus(NextExpectedByte[s], Len(net[s][1].data))
AckPiece(s) == Header({"ACK"}, Swap(SequenceNumber[s]), Swap(NextByte(s)), sent[s])
AckPieces(s) == (IF net[s][1].data # <<>> THEN <<AckPiece(s)>> ELSE <<>>)
                  \o (IF IsFin(net[s][1]) THEN <<AckPiece(s)>> ELSE <<>>)

LEMMA FirstPacket ==
  ASSUME TypeOK, NEW s \in Sides, Arrived(s)
  PROVE  /\ net[s] # <<>> /\ Head(net[s]) = net[s][1] /\ net[s][1] \in Packet
         /\ net[s] \in Seq(Packet) /\ Tail(net[s]) \in Seq(Packet)
         /\ net[s][1].flags \in FlagSets /\ net[s][1].seq \in Numbers
         /\ net[s][1].ack \in Numbers /\ net[s][1].from \in Nat
         /\ net[s][1].data \in Seq(Nat) /\ Len(net[s][1].data) \in Nat
         /\ Len(net[s]) \in Nat /\ Len(net[s]) > 0 /\ Len(Tail(net[s])) = Len(net[s]) - 1
         /\ \A i \in 1 .. Len(net[s]) - 1 : Tail(net[s])[i] = net[s][i + 1]
<1>1. net[s] \in Seq(Packet) /\ net[s] # <<>>
  BY DEF TypeOK, Arrived
<1>2. /\ Tail(net[s]) \in Seq(Packet) /\ Len(Tail(net[s])) = Len(net[s]) - 1
      /\ \A i \in 1 .. Len(Tail(net[s])) : Tail(net[s])[i] = net[s][i + 1]
  BY <1>1, HeadTailProperties
<1>3. Len(net[s]) \in Nat /\ Len(net[s]) > 0
  BY <1>1, EmptySeq
<1>4. Head(net[s]) = net[s][1] /\ net[s][1] \in Packet
  BY <1>1, <1>3
<1>5. /\ net[s][1].flags \in FlagSets /\ net[s][1].seq \in Numbers
      /\ net[s][1].ack \in Numbers /\ net[s][1].from \in Nat
      /\ net[s][1].data \in Seq(Nat)
  BY <1>4 DEF Packet
<1>6. Len(net[s][1].data) \in Nat
  BY <1>5
<1>7. QED
  BY <1>1, <1>2, <1>3, <1>4, <1>5, <1>6

LEMMA AckPiecesAre ==
  ASSUME NEW s, NEW S, AckPiece(s) \in S
  PROVE  /\ AckPieces(s) \in {<<>>, <<AckPiece(s)>>, <<AckPiece(s), AckPiece(s)>>}
         /\ AckPieces(s) \in Seq(S)
<1> DEFINE a == AckPiece(s)
<1>1. a \in S
  OBVIOUS
<1> HIDE DEF a
<1>2. /\ <<>> \o <<>> = <<>> /\ <<a>> \o <<>> = <<a>> /\ <<>> \o <<a>> = <<a>>
      /\ <<a>> \o <<a>> = <<a, a>>
  <2>1. <<>> \in Seq(S) /\ <<a>> \in Seq(S)
    BY <1>1
  <2>2. /\ <<>> \o <<>> = <<>> /\ <<a>> \o <<>> = <<a>> /\ <<>> \o <<a>> = <<a>>
    BY <2>1, ConcatEmptySeq
  <2>3. <<a>> \o <<a>> = <<a, a>>
    <3>1. PICK u : u = <<a>>
      OBVIOUS
    <3>2. PICK v : v = <<a, a>>
      OBVIOUS
    <3>3. u \in Seq(S) /\ Len(u) = 1 /\ u[1] = a
      BY <1>1, <3>1
    <3>4. v \in Seq(S) /\ Len(v) = 2 /\ v[1] = a /\ v[2] = a
      BY <1>1, <3>2
    <3>5. /\ u \o u \in Seq(S) /\ Len(u \o u) = Len(u) + Len(u)
          /\ \A i \in 1 .. Len(u) + Len(u) :
               (u \o u)[i] = IF i <= Len(u) THEN u[i] ELSE u[i - Len(u)]
      BY <3>3, ConcatProperties
    <3>6. Len(u \o u) = 2 /\ (u \o u)[1] = a /\ (u \o u)[2] = a
      BY <3>3, <3>5
    <3>7. u \o u = v
      <4>1. \A i \in 1 .. Len(v) : (u \o u)[i] = v[i]
        BY <3>4, <3>6
      <4>2. QED
        BY <3>4, <3>5, <3>6, <4>1, SeqEqual
    <3>8. QED
      BY <3>1, <3>2, <3>7
  <2>4. QED
    BY <2>2, <2>3
<1>3. <<>> \in Seq(S) /\ <<a>> \in Seq(S) /\ <<a, a>> \in Seq(S)
  BY <1>1
<1>4. AckPieces(s) = (IF net[s][1].data # <<>> THEN <<a>> ELSE <<>>)
                       \o (IF IsFin(net[s][1]) THEN <<a>> ELSE <<>>)
  BY DEF AckPieces, a
<1>5. AckPieces(s) \in {<<>>, <<a>>, <<a, a>>}
  <2>1. CASE net[s][1].data # <<>> /\ IsFin(net[s][1])
    BY <1>2, <1>4, <2>1
  <2>2. CASE net[s][1].data # <<>> /\ ~IsFin(net[s][1])
    BY <1>2, <1>4, <2>2
  <2>3. CASE ~(net[s][1].data # <<>>) /\ IsFin(net[s][1])
    BY <1>2, <1>4, <2>3
  <2>4. CASE ~(net[s][1].data # <<>>) /\ ~IsFin(net[s][1])
    BY <1>2, <1>4, <2>4
  <2>5. QED
    BY <2>1, <2>2, <2>3, <2>4
<1>6. QED
  BY <1>3, <1>5 DEF a

LEMMA RecvPacketIs ==
  ASSUME TypeOK, NEW s \in Sides, RecvPacket(s)
  PROVE  /\ NextByte(s) \in Numbers /\ AckPiece(s) \in Packet
         /\ AckPieces(s) \in Seq(Packet) /\ Exchange(s, 1, AckPieces(s))
         /\ net[s][1].flags # NetEof
         /\ flags' = [flags EXCEPT ![s] = net[s][1].flags]
         /\ AcknowledgedByte' = [AcknowledgedByte EXCEPT ![s] =
              IF net[s][1].flags = {"ACK"} THEN AckOf(net[s][1]) ELSE @]
         /\ got' = [got EXCEPT ![s] = @ \o Copied(net[s][1].data)]
         /\ NextExpectedByte' = [NextExpectedByte EXCEPT ![s] = NextByte(s)]
         /\ IF IsFin(net[s][1])
              THEN /\ IF state[s] = "FIN_WAIT_1"
                        THEN Goto(s, "done") /\ UNCHANGED state
                        ELSE state' = [state EXCEPT ![s] = "FIN_WAIT_2"] /\ UNCHANGED pc
                   /\ eof' = [eof EXCEPT ![s] = TRUE]
              ELSE UNCHANGED <<pc, state, eof>>
<1>1. Arrived(s)
  BY DEF RecvPacket
<1>2. Head(net[s]) = net[s][1] /\ Len(net[s][1].data) \in Nat
  BY <1>1, FirstPacket
<1>3. NextByte(s) \in Numbers
  <2>1. NextExpectedByte[s] \in Int /\ Len(net[s][1].data) \in Int
    BY <1>2, WidthType DEF TypeOK, Numbers, Width
  <2>2. QED
    BY <2>1, PlusType DEF NextByte
<1>4. AckPiece(s) \in Packet
  <2>1. Swap(SequenceNumber[s]) \in Numbers /\ Swap(NextByte(s)) \in Numbers /\ sent[s] \in Nat
    BY <1>3, SwapSwap DEF TypeOK
  <2>2. QED
    BY <2>1, AckOk, HeaderType DEF AckPiece
<1>5. AckPieces(s) \in Seq(Packet)
  BY <1>4, AckPiecesAre
<1>6. QED
  BY <1>2, <1>3, <1>4, <1>5, Zenon DEF RecvPacket, NextByte, AckPiece, AckPieces

------------------------------------------------------------------------------
(* Type correctness                                                         *)

(* The packets of the handshake.                                            *)
LEMMA RecvSynAckIs ==
  ASSUME TypeOK, RecvSynAck
  PROVE  \E e \in Packet :
           /\ e = Header({"ACK"}, net["client"][1].ack, Plus(net["client"][1].seq, 1), 0)
           /\ Exchange("client", 1, <<e>>)
           /\ AcknowledgedByte' =
                [AcknowledgedByte EXCEPT !["client"] = Plus(net["client"][1].ack, -1)]
           /\ SequenceNumber' = [SequenceNumber EXCEPT !["client"] = net["client"][1].ack]
           /\ NextExpectedByte' = [NextExpectedByte EXCEPT !["client"] = e.ack]
           /\ Plus(net["client"][1].ack, -1) \in Numbers /\ e.ack \in Numbers
           /\ net["client"][1].ack \in Numbers
<1>1. "client" \in Sides
  BY DEF Sides
<1>2. /\ Head(net["client"]) = net["client"][1] /\ net["client"][1].ack \in Numbers
      /\ net["client"][1].seq \in Numbers
  BY <1>1, FirstPacket DEF RecvSynAck
<1>3. Plus(net["client"][1].ack, -1) \in Numbers /\ Plus(net["client"][1].seq, 1) \in Numbers
  <2>1. net["client"][1].ack \in Int /\ net["client"][1].seq \in Int
    BY <1>2, WidthType DEF Numbers, Width
  <2>2. QED
    BY <2>1, PlusType
<1>4. PICK e : e = Header({"ACK"}, net["client"][1].ack, Plus(net["client"][1].seq, 1), 0)
  OBVIOUS
<1>5. e \in Packet
  BY <1>2, <1>3, <1>4, AckOk, HeaderType
<1>6. e.ack \in Numbers
  BY <1>5 DEF Packet
<1>7. QED
  BY <1>2, <1>3, <1>4, <1>5, <1>6 DEF RecvSynAck

LEMMA RecvSynIs ==
  ASSUME TypeOK, NEW y \in Isns, RecvSyn(y)
  PROVE  /\ D' = Header({"SYN", "ACK"}, Swap(y), Plus(net["server"][1].seq, 1), 0)
         /\ D' \in Packet /\ Exchange("server", 1, <<D'>>)
<1>1. "server" \in Sides
  BY DEF Sides
<1>2. Head(net["server"]) = net["server"][1] /\ net["server"][1].seq \in Numbers
  BY <1>1, FirstPacket DEF RecvSyn
<1>3. Plus(net["server"][1].seq, 1) \in Numbers
  <2>1. net["server"][1].seq \in Int
    BY <1>2, WidthType DEF Numbers, Width
  <2>2. QED
    BY <2>1, PlusType
<1>4. D' = Header({"SYN", "ACK"}, Swap(y), Plus(net["server"][1].seq, 1), 0)
  BY <1>2 DEF RecvSyn
<1>5. D' \in Packet
  BY <1>3, <1>4, AckOk, IsnType, HeaderType
<1>6. QED
  BY <1>4, <1>5 DEF RecvSyn

LEMMA TypeStep == TypeOK /\ [Next]_vars => TypeOK'
<1> SUFFICES ASSUME TypeOK, [Next]_vars PROVE TypeOK'
  OBVIOUS
<1>s. "client" \in Sides /\ "server" \in Sides
  BY DEF Sides
<1>n. net \in [Sides -> Seq(Packet)]
  BY DEF TypeOK
<1>0. 0 \in Numbers /\ 0 \in Nat
  BY WidthType DEF Numbers, Width
<1>1. ASSUME NEW x \in Isns, SendSyn(x) PROVE TypeOK'
  <2>1. Header({"SYN"}, Swap(x), 0, 0) \in Packet
    BY <1>0, AckOk, IsnType, HeaderType
  <2>2. Exchange("client", 0, <<Header({"SYN"}, Swap(x), 0, 0)>>)
    BY <1>1 DEF SendSyn
  <2>3. net' \in [Sides -> Seq(Packet)]
    BY <1>n, <1>s, <2>1, <2>2, SendIs
  <2>4. QED
    BY <1>1, <2>3 DEF SendSyn, Goto, TypeOK, seqVars, appVars, upVars
<1>2. ASSUME NEW y \in Isns, RecvSyn(y) PROVE TypeOK'
  <2>1. D' \in Packet /\ Exchange("server", 1, <<D'>>) /\ net["server"] # <<>>
    BY <1>2, RecvSynIs DEF RecvSyn, Arrived
  <2>2. net' \in [Sides -> Seq(Packet)]
    <3>1. <<D'>> \in Seq(Packet)
      BY <2>1
    <3>2. QED
      BY <1>n, <1>s, <2>1, <3>1, TakeIs
  <2>3. QED
    BY <1>2, <2>1, <2>2 DEF RecvSyn, Goto, TypeOK, seqVars, appVars, upVars
<1>3. ASSUME RecvSynAck PROVE TypeOK'
  <2>1. PICK e \in Packet :
           /\ Exchange("client", 1, <<e>>)
           /\ AcknowledgedByte' =
                [AcknowledgedByte EXCEPT !["client"] = Plus(net["client"][1].ack, -1)]
           /\ SequenceNumber' = [SequenceNumber EXCEPT !["client"] = net["client"][1].ack]
           /\ NextExpectedByte' = [NextExpectedByte EXCEPT !["client"] = e.ack]
           /\ Plus(net["client"][1].ack, -1) \in Numbers /\ e.ack \in Numbers
           /\ net["client"][1].ack \in Numbers
    BY <1>3, RecvSynAckIs
  <2>2. net' \in [Sides -> Seq(Packet)]
    <3>1. <<e>> \in Seq(Packet) /\ net["client"] # <<>>
      BY <1>3 DEF RecvSynAck, Arrived
    <3>2. QED
      BY <1>n, <1>s, <2>1, <3>1, TakeIs
  <2>3. QED
    <3>1. /\ AcknowledgedByte' \in [Sides -> Numbers] /\ SequenceNumber' \in [Sides -> Numbers]
          /\ NextExpectedByte' \in [Sides -> Numbers]
      BY <2>1 DEF TypeOK
    <3>2. /\ UNCHANGED <<clean, state, D, flags, appVars, upVars, closeReq, gone>>
          /\ Goto("client", "loop")
      BY <1>3 DEF RecvSynAck
    <3>3. QED
      BY <2>2, <3>1, <3>2 DEF Goto, TypeOK, appVars, upVars
<1>4. ASSUME RecvHandshakeAck PROVE TypeOK'
  <2>1. net' \in [Sides -> Seq(Packet)]
    <3>1. <<>> \in Seq(Packet)
      OBVIOUS
    <3>2. QED
      BY <1>4, <1>n, <1>s, <3>1, ExchangeIs DEF RecvHandshakeAck, Arrived
  <2>2. D.seq \in Numbers /\ D.ack \in Numbers
    BY DEF TypeOK, Packet
  <2>3. QED
    BY <1>0, <1>4, <2>1, <2>2 DEF RecvHandshakeAck, Goto, TypeOK, appVars, upVars
<1>5. ASSUME NEW s \in Sides, SendData(s) PROVE TypeOK'
  <2>1. PICK n \in Nat :
           /\ n = IF Len(appq[s][1].data) < MSS THEN Len(appq[s][1].data) ELSE MSS
           /\ appq[s][1] \in Chunk /\ appq[s] # <<>>
           /\ SentPiece(s, n) \in Packet
           /\ Exchange(s, 0, <<SentPiece(s, n)>>)
           /\ Rest(appq[s][1].data, n, sent[s] + n) \in Chunk
           /\ appq' = [appq EXCEPT ![s] =
                IF n = Len(appq[s][1].data) THEN Tail(@)
                ELSE [@ EXCEPT ![1] = Rest(appq[s][1].data, n, sent[s] + n)]]
    BY <1>5, SendDataIs
  <2>2. net' \in [Sides -> Seq(Packet)]
    BY <1>n, <2>1, SendIs
  <2>3. appq' \in [Sides -> Seq(Chunk)]
    <3>1. appq[s] \in Seq(Chunk) /\ appq \in [Sides -> Seq(Chunk)]
      BY DEF TypeOK
    <3>2. Tail(appq[s]) \in Seq(Chunk)
      BY <2>1, <3>1, HeadTailProperties
    <3>3. [appq[s] EXCEPT ![1] = Rest(appq[s][1].data, n, sent[s] + n)] \in Seq(Chunk)
      BY <2>1, <3>1, ExceptSeq
    <3>4. QED
      BY <2>1, <3>1, <3>2, <3>3
  <2>4. SequenceNumber' \in [Sides -> Numbers] /\ sent' \in [Sides -> Nat]
    <3>1. SequenceNumber' = [SequenceNumber EXCEPT ![s] = Plus(@, n)]
          /\ sent' = [sent EXCEPT ![s] = @ + n]
      <4>1. Head(appq[s]) = appq[s][1]
        BY DEF TypeOK, SendData
      <4>2. QED
        BY <1>5, <2>1, <4>1 DEF SendData
    <3>2. SequenceNumber[s] \in Int
      BY WidthType DEF TypeOK, Numbers, Width
    <3>3. Plus(SequenceNumber[s], n) \in Numbers
      BY <3>2, PlusType
    <3>4. QED
      BY <3>1, <3>3 DEF TypeOK
  <2>5. QED
    BY <1>5, <2>2, <2>3, <2>4 DEF SendData, TypeOK, upVars
<1>6. ASSUME NEW s \in Sides, RecvPacket(s) PROVE TypeOK'
  <2>1. PICK p : p = net[s][1]
    OBVIOUS
  <2>2. p.flags \in FlagSets /\ p.ack \in Numbers /\ p.data \in Seq(Nat) /\ net[s] # <<>>
    BY <1>6, <2>1, FirstPacket DEF RecvPacket
  <2>3. net' \in [Sides -> Seq(Packet)]
    <3>1. AckPieces(s) \in Seq(Packet) /\ Exchange(s, 1, AckPieces(s))
      BY <1>6, RecvPacketIs, Zenon
    <3>2. QED
      BY <1>n, <2>2, <3>1, TakeIs
  <2>4. flags' \in [Sides -> FlagSets]
    <3>1. flags' = [flags EXCEPT ![s] = p.flags]
      BY <1>6, <2>1, RecvPacketIs, Zenon
    <3>2. QED
      BY <2>2, <3>1 DEF TypeOK
  <2>5. AcknowledgedByte' \in [Sides -> Numbers]
    <3>1. AckOf(p) \in Numbers
      BY <2>2, SwapSwap DEF AckOf
    <3>2. AcknowledgedByte' = [AcknowledgedByte EXCEPT ![s] =
            IF p.flags = {"ACK"} THEN AckOf(p) ELSE @]
      BY <1>6, <2>1, RecvPacketIs, Zenon
    <3>3. QED
      BY <3>1, <3>2 DEF TypeOK
  <2>6. NextExpectedByte' \in [Sides -> Numbers]
    BY <1>6, RecvPacketIs DEF TypeOK
  <2>7. got' \in [Sides -> Seq(Nat)]
    <3>1. Copied(p.data) \in Seq(Nat) /\ got[s] \in Seq(Nat) /\ got \in [Sides -> Seq(Nat)]
      BY <2>2, CopiedIs DEF TypeOK
    <3>2. got[s] \o Copied(p.data) \in Seq(Nat)
      BY <3>1, ConcatProperties
    <3>3. got' = [got EXCEPT ![s] = got[s] \o Copied(p.data)]
      BY <1>6, <2>1, RecvPacketIs, Zenon
    <3>4. QED
      BY <3>1, <3>2, <3>3
  <2>8. /\ pc' \in [Sides -> {"start", "synSent", "synRcvd", "loop", "finSent", "done",
                              "undefined"}]
        /\ state' \in [Sides -> {"ESTABLISHED", "FIN_WAIT_1", "FIN_WAIT_2"}]
        /\ eof' \in [Sides -> BOOLEAN]
    <3>1. CASE IsFin(net[s][1])
      <4>1. /\ IF state[s] = "FIN_WAIT_1"
                 THEN Goto(s, "done") /\ UNCHANGED state
                 ELSE state' = [state EXCEPT ![s] = "FIN_WAIT_2"] /\ UNCHANGED pc
            /\ eof' = [eof EXCEPT ![s] = TRUE]
        BY <1>6, <3>1, RecvPacketIs, Zenon
      <4>2. QED
        BY <4>1 DEF TypeOK, Goto
    <3>2. CASE ~IsFin(net[s][1])
      <4>1. UNCHANGED <<pc, state, eof>>
        BY <1>6, <3>2, RecvPacketIs, Zenon
      <4>2. QED
        BY <4>1 DEF TypeOK
    <3>3. QED
      BY <3>1, <3>2
  <2>9. QED
    BY <1>6, <2>3, <2>4, <2>5, <2>6, <2>7, <2>8 DEF RecvPacket, TypeOK, appVars
<1>7. ASSUME NEW s \in Sides, RecvNothing(s) PROVE TypeOK'
  BY <1>7 DEF RecvNothing, Goto, TypeOK, seqVars, appVars, upVars
<1>8. ASSUME NEW s \in Sides, SendFin(s) PROVE TypeOK'
  <2>1. Header({"FIN"}, Swap(SequenceNumber[s]), Swap(NextExpectedByte[s]), sent[s]) \in Packet
    <3>1. Swap(SequenceNumber[s]) \in Numbers /\ Swap(NextExpectedByte[s]) \in Numbers
          /\ sent[s] \in Nat
      BY SwapSwap DEF TypeOK
    <3>2. QED
      BY <3>1, AckOk, HeaderType
  <2>2. PICK h \in Packet : Exchange(s, 0, <<h>>)
    BY <1>8, <2>1 DEF SendFin
  <2>3. net' \in [Sides -> Seq(Packet)]
    BY <1>n, <2>2, SendIs
  <2>4. QED
    BY <1>8, <2>3 DEF SendFin, Goto, TypeOK, seqVars, appVars, upVars
<1>9. ASSUME NEW s \in Sides, RecvFinAck(s) PROVE TypeOK'
  <2>1. net' \in [Sides -> Seq(Packet)]
    <3>1. <<>> \in Seq(Packet)
      OBVIOUS
    <3>2. QED
      BY <1>9, <1>n, <3>1, ExchangeIs DEF RecvFinAck, Arrived
  <2>2. QED
    BY <1>9, <2>1 DEF RecvFinAck, Goto, TypeOK, seqVars, appVars, upVars
<1>10. ASSUME NEW s \in Sides, NEW n \in Chunks, AppWrite(s, n) PROVE TypeOK'
  <2>1. n \in Nat
    BY StreamAssumption
  <2>2. [from |-> written[s], data |-> [i \in 1 .. n |-> Byte(s, written[s] + i)]] \in Chunk
    <3>1. written[s] \in Nat
      BY DEF TypeOK
    <3>2. \A i \in 1 .. n : Byte(s, written[s] + i) \in Nat
      BY <2>1, <3>1 DEF Byte
    <3>3. [i \in 1 .. n |-> Byte(s, written[s] + i)] \in Seq(Nat)
      BY <2>1, <3>2
    <3>4. QED
      BY <3>1, <3>3 DEF Chunk
  <2>3. PICK c \in Chunk : appq' = [appq EXCEPT ![s] = Append(@, c)]
    BY <1>10, <2>2 DEF AppWrite
  <2>4. appq' \in [Sides -> Seq(Chunk)]
    BY <2>3, AppendProperties DEF TypeOK
  <2>5. written' \in [Sides -> Nat]
    BY <1>10, <2>1 DEF AppWrite, TypeOK
  <2>6. QED
    BY <1>10, <2>4, <2>5 DEF AppWrite, TypeOK, seqVars, upVars
<1>11. ASSUME NEW s \in Sides, AppClose(s) PROVE TypeOK'
  BY <1>11 DEF AppClose, TypeOK, seqVars, upVars
<1>12. ASSUME NEW s \in Sides, SocketClose(s) PROVE TypeOK'
  <2>1. Header(NetEof, 0, 0, sent[s]) \in Packet
    BY <1>0, AckOk, HeaderType DEF TypeOK
  <2>2. PICK h \in Packet :
           net' = [net EXCEPT ![s] = <<>>,
                     ![Peer(s)] = IF gone[Peer(s)] THEN @ ELSE Append(@, h)]
    BY <1>12, <2>1 DEF SocketClose
  <2>3. net' \in [Sides -> Seq(Packet)]
    <3>1. Append(net[Peer(s)], h) \in Seq(Packet) /\ <<>> \in Seq(Packet) /\ Peer(s) \in Sides
          /\ Peer(s) # s
      BY <1>n, PeerIs, AppendProperties
    <3>2. QED
      BY <1>n, <2>2, <3>1
  <2>4. QED
    BY <1>12, <2>3 DEF SocketClose, TypeOK, seqVars, appVars, upVars
<1>13. CASE UNCHANGED vars
  BY <1>13 DEF vars, TypeOK, seqVars, appVars, upVars
<1>14. QED
  BY <1>1, <1>2, <1>3, <1>4, <1>5, <1>6, <1>7, <1>8, <1>9, <1>10, <1>11, <1>12, <1>13
     DEF Next, Handshake, Transport, App

(* Every variable keeps its type: a number stays within its width, and only *)
(* packets and chunks are queued.                                           *)
THEOREM TypeCorrect == Spec => []TypeOK
<1>1. Init => TypeOK
  BY InitType
<1>2. TypeOK /\ [Next]_vars => TypeOK'
  BY TypeStep
<1>3. QED
  BY <1>1, <1>2, PTL DEF Spec

------------------------------------------------------------------------------
(* Who is blocked, closed or gone                                           *)

(* A transport that is ending was closed from above; one that is gone has   *)
(* no packets; before the handshake is over nothing has moved.              *)
Ended(s) ==
  /\ pc[s] \in {"finSent", "done"} \/ state[s] = "FIN_WAIT_1" \/ closeReq[s] \/ gone[s]
       => closed[s]
  /\ gone[s] => net[s] = <<>>
  /\ ~Unblocked(s) => /\ sent[s] = 0 /\ written[s] = 0 /\ appq[s] = <<>> /\ got[s] = <<>>
                      /\ ~closed[s]
EndInv == \A s \in Sides : Ended(s)

(* A queue that is gone gets nothing, and nothing can be taken off it.      *)
LEMMA GoneSend ==
  ASSUME TypeOK, EndInv, NEW s \in Sides, NEW h \in Packet, Exchange(s, 0, <<h>>)
  PROVE  \A t \in Sides : gone[t] => net'[t] = <<>>
<1>1. /\ net'[s] = net[s]
      /\ net'[Peer(s)] = IF gone[Peer(s)] THEN net[Peer(s)] ELSE net[Peer(s)] \o <<h>>
  BY SendIs DEF TypeOK
<1>2. QED
  BY <1>1, PeerIs DEF EndInv, Ended

LEMMA GoneTake ==
  ASSUME TypeOK, EndInv, NEW s \in Sides, net[s] # <<>>, NEW out \in Seq(Packet),
         Exchange(s, 1, out)
  PROVE  \A t \in Sides : gone[t] => net'[t] = <<>>
<1>1. net'[Peer(s)] = IF gone[Peer(s)] THEN net[Peer(s)] ELSE net[Peer(s)] \o out
  BY TakeIs DEF TypeOK
<1>2. ~gone[s]
  BY DEF EndInv, Ended
<1>3. QED
  BY <1>1, <1>2, PeerIs DEF EndInv, Ended

LEMMA EndStep == TypeOK /\ EndInv /\ [Next]_vars => EndInv'
<1> SUFFICES ASSUME TypeOK, EndInv, [Next]_vars PROVE EndInv'
  OBVIOUS
<1>s. "client" \in Sides /\ "server" \in Sides /\ \A t \in Sides : t \in {"client", "server"}
  BY DEF Sides
<1>0. 0 \in Numbers /\ 0 \in Nat
  BY WidthType DEF Numbers, Width
<1>1. ASSUME NEW x \in Isns, SendSyn(x) PROVE EndInv'
  <2>1. Header({"SYN"}, Swap(x), 0, 0) \in Packet
    BY <1>0, AckOk, IsnType, HeaderType
  <2>2. Exchange("client", 0, <<Header({"SYN"}, Swap(x), 0, 0)>>)
    BY <1>1 DEF SendSyn
  <2>3. \A t \in Sides : gone[t] => net'[t] = <<>>
    BY <1>s, <2>1, <2>2, GoneSend
  <2>4. QED
    BY <1>1, <2>3 DEF SendSyn, Goto, TypeOK, EndInv, Ended, Unblocked, appVars, upVars
<1>2. ASSUME NEW y \in Isns, RecvSyn(y) PROVE EndInv'
  <2>1. D' \in Packet /\ Exchange("server", 1, <<D'>>) /\ net["server"] # <<>>
    BY <1>2, RecvSynIs DEF RecvSyn, Arrived
  <2>2. \A t \in Sides : gone[t] => net'[t] = <<>>
    <3>1. <<D'>> \in Seq(Packet)
      BY <2>1
    <3>2. QED
      BY <1>s, <2>1, <3>1, GoneTake
  <2>3. QED
    BY <1>2, <2>2 DEF RecvSyn, Goto, TypeOK, EndInv, Ended, Unblocked, appVars, upVars
<1>3. ASSUME RecvSynAck PROVE EndInv'
  <2>1. PICK e \in Packet : Exchange("client", 1, <<e>>)
    BY <1>3, RecvSynAckIs
  <2>2. \A t \in Sides : gone[t] => net'[t] = <<>>
    <3>1. <<e>> \in Seq(Packet) /\ net["client"] # <<>>
      BY <1>3 DEF RecvSynAck, Arrived
    <3>2. QED
      BY <1>s, <2>1, <3>1, GoneTake
  <2>3. QED
    BY <1>3, <2>2 DEF RecvSynAck, Goto, TypeOK, EndInv, Ended, Unblocked, appVars, upVars
<1>4. ASSUME RecvHandshakeAck PROVE EndInv'
  <2>1. \A t \in Sides : gone[t] => net'[t] = <<>>
    <3>1. /\ <<>> \in Seq(Packet) /\ net["server"] # <<>> /\ Exchange("server", 1, <<>>)
      BY <1>4 DEF RecvHandshakeAck, Arrived
    <3>2. QED
      BY <1>s, <3>1, GoneTake
  <2>2. QED
    BY <1>4, <2>1 DEF RecvHandshakeAck, Goto, TypeOK, EndInv, Ended, Unblocked, appVars, upVars
<1>5. ASSUME NEW s \in Sides, SendData(s) PROVE EndInv'
  <2>1. \A t \in Sides : gone[t] => net'[t] = <<>>
    <3>1. PICK h \in Packet : Exchange(s, 0, <<h>>)
      BY <1>5, SendDataIs
    <3>2. QED
      BY <3>1, GoneSend
  <2>2. /\ Unblocked(s)
        /\ \A t \in Sides : t # s => sent'[t] = sent[t] /\ appq'[t] = appq[t]
        /\ UNCHANGED <<pc, state, D, NextExpectedByte, AcknowledgedByte, flags, written,
                       closed, upVars, closeReq, gone>>
    BY <1>5 DEF SendData, Unblocked, TypeOK
  <2>3. QED
    BY <2>1, <2>2 DEF EndInv, Ended, Unblocked, upVars
<1>6. ASSUME NEW s \in Sides, RecvPacket(s) PROVE EndInv'
  <2>1. \A t \in Sides : gone[t] => net'[t] = <<>>
    <3>1. AckPieces(s) \in Seq(Packet) /\ Exchange(s, 1, AckPieces(s))
      BY <1>6, RecvPacketIs, Zenon
    <3>2. QED
      BY <1>6, <3>1, GoneTake DEF RecvPacket, Arrived
  <2>2. /\ pc[s] = "loop" /\ closeReq' = [closeReq EXCEPT ![s] = FALSE]
        /\ UNCHANGED <<sent, written, appq, closed, gone>>
    BY <1>6 DEF RecvPacket, appVars
  <2>3. \A t \in Sides : t # s => pc'[t] = pc[t] /\ state'[t] = state[t] /\ got'[t] = got[t]
    <3>1. got' = [got EXCEPT ![s] = @ \o Copied(net[s][1].data)]
      BY <1>6, RecvPacketIs, Zenon
    <3>2. IF IsFin(net[s][1])
              THEN /\ IF state[s] = "FIN_WAIT_1"
                        THEN Goto(s, "done") /\ UNCHANGED state
                        ELSE state' = [state EXCEPT ![s] = "FIN_WAIT_2"] /\ UNCHANGED pc
                   /\ eof' = [eof EXCEPT ![s] = TRUE]
              ELSE UNCHANGED <<pc, state, eof>>
      BY <1>6, RecvPacketIs, Zenon
    <3>3. QED
      BY <3>1, <3>2 DEF TypeOK, Goto
  <2>4. /\ state[s] = "FIN_WAIT_1" \/ (pc'[s] = "loop" /\ state'[s] # "FIN_WAIT_1")
        /\ pc'[s] \in {"loop", "done"}
    <3>1. IF IsFin(net[s][1])
              THEN /\ IF state[s] = "FIN_WAIT_1"
                        THEN Goto(s, "done") /\ UNCHANGED state
                        ELSE state' = [state EXCEPT ![s] = "FIN_WAIT_2"] /\ UNCHANGED pc
                   /\ eof' = [eof EXCEPT ![s] = TRUE]
              ELSE UNCHANGED <<pc, state, eof>>
      BY <1>6, RecvPacketIs, Zenon
    <3>2. QED
      BY <2>2, <3>1 DEF TypeOK, Goto
  <2>5. QED
    <3>1. SUFFICES ASSUME NEW t \in Sides PROVE Ended(t)'
      BY DEF EndInv
    <3>2. CASE t = s
      BY <2>1, <2>2, <2>4, <3>2 DEF EndInv, Ended, Unblocked, TypeOK
    <3>3. CASE t # s
      BY <2>1, <2>2, <2>3, <3>3 DEF EndInv, Ended, Unblocked, TypeOK
    <3>4. QED
      BY <3>2, <3>3
<1>7. ASSUME NEW s \in Sides, RecvNothing(s) PROVE EndInv'
  BY <1>7 DEF RecvNothing, Goto, TypeOK, EndInv, Ended, Unblocked, appVars, upVars
<1>8. ASSUME NEW s \in Sides, SendFin(s) PROVE EndInv'
  <2>1. \A t \in Sides : gone[t] => net'[t] = <<>>
    <3>1. Header({"FIN"}, Swap(SequenceNumber[s]), Swap(NextExpectedByte[s]), sent[s]) \in Packet
      <4>1. Swap(SequenceNumber[s]) \in Numbers /\ Swap(NextExpectedByte[s]) \in Numbers
            /\ sent[s] \in Nat
        BY SwapSwap DEF TypeOK
      <4>2. QED
        BY <4>1, AckOk, HeaderType
    <3>2. PICK h \in Packet : Exchange(s, 0, <<h>>)
      BY <1>8, <3>1 DEF SendFin
    <3>3. QED
      BY <3>2, GoneSend
  <2>2. QED
    BY <1>8, <2>1 DEF SendFin, Goto, TypeOK, EndInv, Ended, Unblocked, appVars, upVars
<1>9. ASSUME NEW s \in Sides, RecvFinAck(s) PROVE EndInv'
  <2>1. \A t \in Sides : gone[t] => net'[t] = <<>>
    <3>1. <<>> \in Seq(Packet)
      OBVIOUS
    <3>2. QED
      BY <1>9, <3>1, GoneTake DEF RecvFinAck, Arrived
  <2>2. QED
    BY <1>9, <2>1 DEF RecvFinAck, Goto, TypeOK, EndInv, Ended, Unblocked, appVars, upVars
<1>10. ASSUME NEW s \in Sides, NEW n \in Chunks, AppWrite(s, n) PROVE EndInv'
  <2>1. /\ Unblocked(s)
        /\ \A t \in Sides : t # s => written'[t] = written[t] /\ appq'[t] = appq[t]
        /\ UNCHANGED <<pc, state, D, seqVars, flags, net, sent, closed, upVars, closeReq, gone>>
    BY <1>10 DEF AppWrite, TypeOK
  <2>2. QED
    BY <2>1 DEF EndInv, Ended, Unblocked, upVars
<1>11. ASSUME NEW s \in Sides, AppClose(s) PROVE EndInv'
  BY <1>11 DEF AppClose, TypeOK, EndInv, Ended, Unblocked, upVars
<1>12. ASSUME NEW s \in Sides, SocketClose(s) PROVE EndInv'
  <2>1. /\ net'[s] = <<>> /\ gone' = [gone EXCEPT ![s] = TRUE] /\ closed[s]
        /\ gone[Peer(s)] => net'[Peer(s)] = net[Peer(s)]
        /\ UNCHANGED <<pc, state, D, seqVars, flags, appVars, upVars, closeReq>>
    BY <1>12, PeerIs DEF SocketClose, TypeOK
  <2>2. \A t \in Sides : gone'[t] => net'[t] = <<>> /\ closed[t]
    BY <2>1, PeerIs DEF TypeOK, EndInv, Ended
  <2>3. QED
    BY <2>1, <2>2 DEF EndInv, Ended, Unblocked, appVars, upVars
<1>13. CASE UNCHANGED vars
  BY <1>13 DEF vars, EndInv, Ended, Unblocked, appVars, upVars
<1>14. QED
  BY <1>1, <1>2, <1>3, <1>4, <1>5, <1>6, <1>7, <1>8, <1>9, <1>10, <1>11, <1>12, <1>13
     DEF Next, Handshake, Transport, App

LEMMA InitEnd == Init => EndInv
BY DEF Init, EndInv, Ended, Unblocked

LEMMA EndHolds == Spec => [](TypeOK /\ EndInv)
<1>1. Init => TypeOK /\ EndInv
  BY InitType, InitEnd
<1>2. TypeOK /\ EndInv /\ [Next]_vars => TypeOK' /\ EndInv'
  BY TypeStep, EndStep
<1>3. QED
  BY <1>1, <1>2, PTL DEF Spec

------------------------------------------------------------------------------
(* The handshake                                                            *)

LEMMA SendSynIs ==
  ASSUME TypeOK, NEW x \in Isns, SendSyn(x)
  PROVE  \E h \in Packet :
           /\ h = Header({"SYN"}, Swap(x), 0, 0)
           /\ net'["client"] = net["client"]
           /\ net'["server"] = IF gone["server"] THEN net["server"] ELSE net["server"] \o <<h>>
<1>1. 0 \in Numbers /\ 0 \in Nat
  BY WidthType DEF Numbers, Width
<1>2. Header({"SYN"}, Swap(x), 0, 0) \in Packet
  BY <1>1, AckOk, IsnType, HeaderType
<1>3. PICK h \in Packet : h = Header({"SYN"}, Swap(x), 0, 0)
  BY <1>2
<1>4. Exchange("client", 0, <<h>>) /\ "client" \in Sides /\ Peer("client") = "server"
  BY <1>3 DEF SendSyn, Sides, Peer
<1>5. /\ net'["client"] = net["client"]
      /\ net'[Peer("client")] = IF gone[Peer("client")] THEN net[Peer("client")]
                                ELSE net[Peer("client")] \o <<h>>
  BY <1>4, SendIs DEF TypeOK
<1>6. QED
  BY <1>3, <1>4, <1>5

LEMMA SendFinIs ==
  ASSUME TypeOK, NEW s \in Sides, SendFin(s)
  PROVE  \E h \in Packet :
           /\ h.flags = {"FIN"} /\ h.from = sent[s] /\ h.data = <<>>
           /\ Exchange(s, 0, <<h>>)
<1>1. Swap(SequenceNumber[s]) \in Numbers /\ Swap(NextExpectedByte[s]) \in Numbers
      /\ sent[s] \in Nat
  BY SwapSwap DEF TypeOK
<1>2. PICK h : h = Header({"FIN"}, Swap(SequenceNumber[s]), Swap(NextExpectedByte[s]), sent[s])
  OBVIOUS
<1>3. h \in Packet
  BY <1>1, <1>2, AckOk, HeaderType
<1>4. h.flags = {"FIN"} /\ h.from = sent[s] /\ h.data = <<>>
  BY <1>2 DEF Header
<1>5. Exchange(s, 0, <<h>>)
  BY <1>2 DEF SendFin
<1>6. QED
  BY <1>3, <1>4, <1>5

(* After the handshake a side keeps its transport, D stays, and its peer's  *)
(* queue can only grow.                                                     *)
LEMMA Later ==
  ASSUME TypeOK, NEW s \in Sides, Transport(s) \/ App(s) \/ SocketClose(s)
  PROVE  /\ Unblocked(s) /\ pc'[s] \in {"loop", "finSent", "done", "undefined"}
         /\ pc'[Peer(s)] = pc[Peer(s)] /\ D' = D
         /\ \E out \in Seq(Packet) : net'[Peer(s)] = net[Peer(s)] \o out
<1> DEFINE Grown == \E out \in Seq(Packet) : net'[Peer(s)] = net[Peer(s)] \o out
<1>n. /\ net \in [Sides -> Seq(Packet)] /\ Peer(s) \in Sides /\ Peer(s) # s
      /\ net[Peer(s)] \in Seq(Packet)
      /\ pc \in [Sides -> {"start", "synSent", "synRcvd", "loop", "finSent", "done",
                           "undefined"}]
  BY PeerIs DEF TypeOK
<1>0. net'[Peer(s)] = net[Peer(s)] => Grown
  <2>1. net[Peer(s)] \o <<>> = net[Peer(s)] /\ <<>> \in Seq(Packet)
    BY <1>n, ConcatEmptySeq
  <2>2. QED
    BY <2>1
<1>1. ASSUME NEW h \in Packet, Exchange(s, 0, <<h>>) PROVE Grown
  <2>1. net'[Peer(s)] = IF gone[Peer(s)] THEN net[Peer(s)] ELSE net[Peer(s)] \o <<h>>
    BY <1>n, <1>1, SendIs
  <2>2. <<h>> \in Seq(Packet)
    OBVIOUS
  <2>3. QED
    BY <1>0, <2>1, <2>2
<1>2. ASSUME net[s] # <<>>, NEW out \in Seq(Packet), Exchange(s, 1, out) PROVE Grown
  <2>1. net'[Peer(s)] = IF gone[Peer(s)] THEN net[Peer(s)] ELSE net[Peer(s)] \o out
    BY <1>n, <1>2, TakeIs
  <2>2. QED
    BY <1>0, <2>1
<1> HIDE DEF Grown
<1>3. CASE SendData(s)
  <2>1. Grown
    <3>1. PICK h \in Packet : Exchange(s, 0, <<h>>)
      BY <1>3, SendDataIs
    <3>2. QED
      BY <1>1, <3>1
  <2>2. pc[s] = "loop" /\ pc' = pc /\ D' = D
    BY <1>3 DEF SendData
  <2>3. QED
    BY <2>1, <2>2 DEF Unblocked, Grown
<1>4. CASE RecvPacket(s)
  <2>1. Grown
    <3>1. AckPieces(s) \in Seq(Packet) /\ Exchange(s, 1, AckPieces(s))
      BY <1>4, RecvPacketIs, Zenon
    <3>2. QED
      BY <1>2, <1>4, <3>1 DEF RecvPacket, Arrived
  <2>2. pc[s] = "loop" /\ D' = D
    BY <1>4 DEF RecvPacket
  <2>3. pc' = pc \/ pc' = [pc EXCEPT ![s] = "done"]
    <3>1. IF IsFin(net[s][1])
              THEN /\ IF state[s] = "FIN_WAIT_1"
                        THEN Goto(s, "done") /\ UNCHANGED state
                        ELSE state' = [state EXCEPT ![s] = "FIN_WAIT_2"] /\ UNCHANGED pc
                   /\ eof' = [eof EXCEPT ![s] = TRUE]
              ELSE UNCHANGED <<pc, state, eof>>
      BY <1>4, RecvPacketIs, Zenon
    <3>2. QED
      BY <3>1 DEF Goto
  <2>4. QED
    BY <1>n, <2>1, <2>2, <2>3 DEF Unblocked, Grown
<1>5. CASE RecvNothing(s)
  <2>1. Grown
    BY <1>0, <1>5 DEF RecvNothing
  <2>2. QED
    BY <1>n, <1>5, <2>1 DEF RecvNothing, Goto, Unblocked, Grown
<1>6. CASE SendFin(s)
  <2>1. Grown
    <3>1. PICK h \in Packet : Exchange(s, 0, <<h>>)
      BY <1>6, SendFinIs
    <3>2. QED
      BY <1>1, <3>1
  <2>2. QED
    BY <1>n, <1>6, <2>1 DEF SendFin, Goto, Unblocked, Grown
<1>7. CASE RecvFinAck(s)
  <2>1. Grown
    <3>1. <<>> \in Seq(Packet)
      OBVIOUS
    <3>2. QED
      BY <1>2, <1>7, <3>1 DEF RecvFinAck, Arrived
  <2>2. QED
    BY <1>n, <1>7, <2>1 DEF RecvFinAck, Goto, Unblocked, Grown
<1>8. CASE App(s)
  <2>1. net' = net /\ pc' = pc /\ D' = D /\ Unblocked(s)
    BY <1>8 DEF App, AppWrite, AppClose
  <2>2. Grown
    BY <1>0, <2>1
  <2>3. QED
    BY <1>n, <2>1, <2>2 DEF Unblocked, Grown
<1>9. CASE SocketClose(s)
  <2>1. Grown
    <3>1. 0 \in Numbers /\ sent[s] \in Nat
      BY WidthType DEF Numbers, Width, TypeOK
    <3>2. PICK h \in Packet : h = Header(NetEof, 0, 0, sent[s])
      BY <3>1, AckOk, HeaderType
    <3>3. net'[Peer(s)] = IF gone[Peer(s)] THEN net[Peer(s)] ELSE Append(net[Peer(s)], h)
      BY <1>9, <1>n, <3>2 DEF SocketClose
    <3>4. Append(net[Peer(s)], h) = net[Peer(s)] \o <<h>> /\ <<h>> \in Seq(Packet)
      BY <1>n, AppendIsConcat
    <3>5. QED
      BY <1>0, <3>3, <3>4 DEF Grown
  <2>2. QED
    BY <1>n, <1>9, <2>1 DEF SocketClose, Unblocked, Grown
<1>10. QED
  BY <1>3, <1>4, <1>5, <1>6, <1>7, <1>8, <1>9 DEF Transport

(* Where the two sides stand to each other before both are connected.       *)
HandInv ==
  /\ pc["client"] # "synRcvd" /\ pc["server"] # "synSent"
  /\ pc["client"] = "start" => pc["server"] = "start" /\ net["server"] = <<>>
  /\ pc["client"] = "synSent" =>
       \/ pc["server"] = "start" /\ Len(net["server"]) = 1
       \/ pc["server"] = "synRcvd" /\ net["server"] = <<>> /\ net["client"] = <<D>>
  /\ pc["server"] = "start" => pc["client"] \in {"start", "synSent"} /\ net["client"] = <<>>
  /\ pc["server"] = "synRcvd" /\ Unblocked("client") =>
       net["server"] # <<>> /\ net["server"][1].data = <<>>

LEMMA InitHand == Init => HandInv
BY DEF Init, HandInv, Sides, Unblocked

LEMMA OnePacket ==
  ASSUME NEW h \in Packet
  PROVE  /\ <<>> \o <<h>> = <<h>> /\ Len(<<h>>) = 1 /\ <<h>>[1] = h /\ <<h>> # <<>>
         /\ Head(<<h>>) = h /\ Tail(<<h>>) = <<>>
<1>1. <<h>> \in Seq(Packet)
  OBVIOUS
<1>2. <<>> \o <<h>> = <<h>>
  BY <1>1, ConcatEmptySeq
<1>3. QED
  BY <1>2

LEMMA FirstStays ==
  ASSUME NEW q \in Seq(Packet), NEW o \in Seq(Packet), q # <<>>
  PROVE  q \o o # <<>> /\ (q \o o)[1] = q[1]
<1> DEFINE w == q \o o
<1>1. Len(q) \in Nat /\ Len(q) > 0 /\ Len(o) \in Nat
  BY EmptySeq
<1>2. /\ w \in Seq(Packet) /\ Len(w) = Len(q) + Len(o)
      /\ \A i \in 1 .. Len(q) + Len(o) : w[i] = IF i <= Len(q) THEN q[i] ELSE o[i - Len(q)]
  BY ConcatProperties
<1> HIDE DEF w
<1>3. w[1] = q[1] /\ Len(w) > 0
  BY <1>1, <1>2
<1>4. w # <<>>
  BY <1>2, <1>3, EmptySeq
<1>5. QED
  BY <1>3, <1>4 DEF w

LEMMA HandStep == TypeOK /\ EndInv /\ HandInv /\ [Next]_vars => HandInv'
<1> SUFFICES ASSUME TypeOK, EndInv, HandInv, [Next]_vars PROVE HandInv'
  OBVIOUS
<1>s. /\ "client" \in Sides /\ "server" \in Sides /\ Peer("client") = "server"
      /\ Peer("server") = "client" /\ Sides = {"client", "server"}
  BY DEF Sides, Peer
<1>p. pc \in [Sides -> {"start", "synSent", "synRcvd", "loop", "finSent", "done",
                        "undefined"}]
  BY DEF TypeOK
<1>g. \A s \in Sides : ~Unblocked(s) => ~gone[s]
  BY DEF EndInv, Ended
<1>1. ASSUME NEW x \in Isns, SendSyn(x) PROVE HandInv'
  <2>1. PICK h \in Packet :
           /\ net'["client"] = net["client"]
           /\ net'["server"] = IF gone["server"] THEN net["server"] ELSE net["server"] \o <<h>>
    BY <1>1, SendSynIs
  <2>2. pc["client"] = "start" /\ pc' = [pc EXCEPT !["client"] = "synSent"] /\ D' = D
    BY <1>1 DEF SendSyn, Goto
  <2>3. pc["server"] = "start" /\ net["server"] = <<>> /\ net["client"] = <<>>
    BY <2>2 DEF HandInv
  <2>4. ~gone["server"]
    BY <1>g, <1>s, <2>3 DEF Unblocked
  <2>5. Len(net'["server"]) = 1 /\ net'["client"] = <<>>
    BY <2>1, <2>3, <2>4, OnePacket
  <2>6. pc'["client"] = "synSent" /\ pc'["server"] = "start"
    BY <1>p, <1>s, <2>2, <2>3
  <2>7. QED
    BY <2>5, <2>6 DEF HandInv, Unblocked
<1>2. ASSUME NEW y \in Isns, RecvSyn(y) PROVE HandInv'
  <2>1. D' \in Packet /\ Exchange("server", 1, <<D'>>) /\ <<D'>> \in Seq(Packet)
    BY <1>2, RecvSynIs
  <2>2. pc["server"] = "start" /\ pc' = [pc EXCEPT !["server"] = "synRcvd"] /\ net["server"] # <<>>
    BY <1>2 DEF RecvSyn, Goto, Arrived
  <2>3. pc["client"] = "synSent" /\ Len(net["server"]) = 1 /\ net["client"] = <<>>
    BY <2>2 DEF HandInv
  <2>4. /\ net'["server"] = Tail(net["server"])
        /\ net'["client"] = IF gone["client"] THEN net["client"] ELSE net["client"] \o <<D'>>
    BY <1>s, <2>1, <2>2, TakeIs DEF TypeOK
  <2>5. ~gone["client"]
    BY <1>g, <1>s, <2>3 DEF Unblocked
  <2>6. net'["client"] = <<D'>>
    BY <2>1, <2>3, <2>4, <2>5, OnePacket
  <2>7. net'["server"] = <<>>
    <3>1. Arrived("server")
      BY <2>2 DEF Arrived
    <3>2. Len(Tail(net["server"])) = 0 /\ Tail(net["server"]) \in Seq(Packet)
      BY <1>s, <2>3, <3>1, FirstPacket
    <3>3. QED
      BY <2>4, <3>2, EmptySeq
  <2>8. pc'["client"] = "synSent" /\ pc'["server"] = "synRcvd"
    BY <1>p, <1>s, <2>2, <2>3
  <2>9. QED
    BY <2>6, <2>7, <2>8 DEF HandInv, Unblocked
<1>3. ASSUME RecvSynAck PROVE HandInv'
  <2>1. PICK e \in Packet :
           /\ e = Header({"ACK"}, net["client"][1].ack, Plus(net["client"][1].seq, 1), 0)
           /\ Exchange("client", 1, <<e>>)
    BY <1>3, RecvSynAckIs
  <2>2. pc["client"] = "synSent" /\ pc' = [pc EXCEPT !["client"] = "loop"] /\ net["client"] # <<>>
    BY <1>3 DEF RecvSynAck, Goto, Arrived
  <2>3. pc["server"] = "synRcvd" /\ net["server"] = <<>>
    BY <2>2 DEF HandInv
  <2>4. net'["server"] = IF gone["server"] THEN net["server"] ELSE net["server"] \o <<e>>
    <3>1. <<e>> \in Seq(Packet)
      BY <2>1
    <3>2. QED
      BY <1>s, <2>1, <2>2, <3>1, TakeIs DEF TypeOK
  <2>5. ~gone["server"]
    BY <1>g, <1>s, <2>3 DEF Unblocked
  <2>6. net'["server"] = <<e>> /\ net'["server"] # <<>> /\ net'["server"][1] = e
    BY <2>1, <2>3, <2>4, <2>5, OnePacket
  <2>7. e.data = <<>>
    BY <2>1 DEF Header
  <2>8. pc'["client"] = "loop" /\ pc'["server"] = "synRcvd"
    BY <1>p, <1>s, <2>2, <2>3
  <2>9. QED
    BY <2>6, <2>7, <2>8 DEF HandInv
<1>4. ASSUME RecvHandshakeAck PROVE HandInv'
  <2>1. /\ pc["server"] = "synRcvd" /\ pc' = [pc EXCEPT !["server"] = "loop"]
        /\ net["server"] # <<>>
    BY <1>4 DEF RecvHandshakeAck, Goto, Arrived
  <2>2. pc["client"] \notin {"start", "synSent", "synRcvd"}
    BY <2>1 DEF HandInv
  <2>3. pc'["server"] = "loop" /\ pc'["client"] = pc["client"]
    BY <1>p, <1>s, <2>1
  <2>4. QED
    BY <2>2, <2>3 DEF HandInv
<1>5. ASSUME NEW s \in Sides, Transport(s) \/ App(s) \/ SocketClose(s) PROVE HandInv'
  <2>1. /\ Unblocked(s) /\ pc'[s] \in {"loop", "finSent", "done", "undefined"}
        /\ pc'[Peer(s)] = pc[Peer(s)] /\ D' = D
        /\ \E out \in Seq(Packet) : net'[Peer(s)] = net[Peer(s)] \o out
    BY <1>5, Later
  <2>2. net[Peer(s)] # <<>> => net'[Peer(s)] # <<>> /\ net'[Peer(s)][1] = net[Peer(s)][1]
    BY <2>1, FirstStays, PeerIs DEF TypeOK
  <2>3. CASE s = "client"
    BY <1>s, <2>1, <2>2, <2>3 DEF HandInv, Unblocked
  <2>4. CASE s = "server"
    BY <1>s, <2>1, <2>4 DEF HandInv, Unblocked
  <2>5. QED
    BY <1>s, <2>3, <2>4
<1>6. CASE UNCHANGED vars
  BY <1>6 DEF vars, HandInv, Unblocked
<1>7. QED
  BY <1>1, <1>2, <1>3, <1>4, <1>5, <1>6 DEF Next, Handshake

LEMMA HandHolds == Spec => [](TypeOK /\ EndInv /\ HandInv)
<1>1. Init => TypeOK /\ EndInv /\ HandInv
  BY InitType, InitEnd, InitHand
<1>2. TypeOK /\ EndInv /\ HandInv /\ [Next]_vars => TypeOK' /\ EndInv' /\ HandInv'
  BY TypeStep, EndStep, HandStep
<1>3. QED
  BY <1>1, <1>2, PTL DEF Spec

------------------------------------------------------------------------------
(* Positions in the streams                                                 *)

(* A queue of packets up to position end of a stream of which n bytes were  *)
(* received, unless nobody reads any more.                                  *)
Flow(q, end, n, over) ==
  /\ Linked(q, end)
  /\ Bound(q, 1, end) =< end
  /\ ~over => Bound(q, 1, end) = n

(* What is queued for a side links what it has received to what its peer    *)
(* has sent.                                                                *)
In(s) == Flow(net[s], sent[Peer(s)], Len(got[s]), closed[s])

(* What the application wrote and is not sent links sent to written.        *)
Out(s) ==
  /\ Linked(appq[s], written[s]) /\ Bound(appq[s], 1, written[s]) = sent[s]
  /\ sent[s] =< written[s] /\ written[s] =< Total[s]
  /\ \A k \in 1 .. Len(appq[s]) : appq[s][k].data # <<>>

PosInv == \A s \in Sides : In(s) /\ Out(s)

LEMMA FlowAppend ==
  ASSUME NEW q \in Seq(Packet), NEW o \in Seq(Packet), NEW mid \in Nat, NEW end \in Nat,
         NEW n, NEW over, Flow(q, mid, n, over),
         mid =< end, Linked(o, end), Bound(o, 1, end) = mid
  PROVE  Flow(q \o o, end, n, over)
<1>1. Linked(q \o o, end) /\ Bound(q \o o, 1, end) = Bound(q, 1, mid)
  BY ConcatLinked, PacketPieces DEF Flow
<1>2. Bound(q, 1, mid) =< end
  <2>1. Bound(q, 1, mid) \in Nat
    <3>1. 1 =< Len(q) => 1 \in 1 .. Len(q)
      OBVIOUS
    <3>2. 1 =< Len(q) => q[1].from \in Nat
      BY <3>1, PieceType, PacketPieces
    <3>3. QED
      BY <3>2 DEF Bound
  <2>2. QED
    BY <2>1 DEF Flow
<1>3. QED
  BY <1>1, <1>2 DEF Flow

LEMMA FlowEmpty ==
  ASSUME NEW end \in Nat, NEW n, NEW over, over
  PROVE  Flow(<<>>, end, n, over)
BY ShortLinked DEF Flow

LEMMA FlowTail ==
  ASSUME NEW q \in Seq(Packet), NEW end \in Nat, NEW n \in Nat, NEW over,
         Flow(q, end, n, over), q # <<>>
  PROVE  /\ q[1].from \in Nat /\ Len(q[1].data) \in Nat /\ q[1].from + Len(q[1].data) =< end
         /\ ~over => q[1].from = n
         /\ Flow(Tail(q), end, n + Len(q[1].data), over)
         /\ q[1].data = <<>> => Flow(Tail(q), end, n, over)
         /\ over => \A m : Flow(Tail(q), end, m, over)
<1>1. 1 \in 1 .. Len(q)
  BY EmptySeq
<1>2. q[1].from \in Nat /\ Len(q[1].data) \in Nat
  BY <1>1, PieceType, PacketPieces
<1>3. /\ Linked(Tail(q), end)
      /\ Bound(q, 1, end) = q[1].from
      /\ Bound(Tail(q), 1, end) = q[1].from + Len(q[1].data)
      /\ q[1].from + Len(q[1].data) =< end
  BY TailLinked, PacketPieces DEF Flow
<1>4. ~over => q[1].from = n
  BY <1>3 DEF Flow
<1>5. Flow(Tail(q), end, n + Len(q[1].data), over)
  BY <1>3, <1>4 DEF Flow
<1>6. ASSUME q[1].data = <<>> PROVE Flow(Tail(q), end, n, over)
  <2>1. n + Len(q[1].data) = n
    BY <1>6
  <2>2. QED
    BY <1>5, <2>1
<1>7. ASSUME over, NEW m PROVE Flow(Tail(q), end, m, over)
  BY <1>3, <1>7 DEF Flow
<1>8. QED
  BY <1>2, <1>3, <1>4, <1>5, <1>6, <1>7

LEMMA PosTypes ==
  ASSUME TypeOK, NEW s \in Sides
  PROVE  /\ net[s] \in Seq(Packet) /\ sent[s] \in Nat /\ written[s] \in Nat
         /\ got[s] \in Seq(Nat) /\ Len(got[s]) \in Nat /\ appq[s] \in Seq(Chunk)
         /\ Peer(s) \in Sides /\ Peer(s) # s /\ Peer(Peer(s)) = s /\ Total[s] \in Nat
         /\ closed[s] \in BOOLEAN
<1>1. got[s] \in Seq(Nat)
  BY DEF TypeOK
<1>2. QED
  BY <1>1, PeerIs, StreamAssumption DEF TypeOK

(* A side sends packets that begin where it has come to.                    *)
LEMMA InGrows ==
  ASSUME TypeOK, EndInv, PosInv, NEW s \in Sides, NEW out \in Seq(Packet),
         net'[Peer(s)] = IF gone[Peer(s)] THEN net[Peer(s)] ELSE net[Peer(s)] \o out,
         sent'[s] \in Nat, sent[s] =< sent'[s],
         Linked(out, sent'[s]), Bound(out, 1, sent'[s]) = sent[s],
         closed'[Peer(s)] = closed[Peer(s)], got'[Peer(s)] = got[Peer(s)]
  PROVE  In(Peer(s))'
<1> DEFINE p == Peer(s)
<1>1. p \in Sides /\ Peer(p) = s /\ net[p] \in Seq(Packet) /\ sent[s] \in Nat
  BY PosTypes
<1>2. Flow(net[p], sent[s], Len(got[p]), closed[p])
  BY <1>1 DEF PosInv, In
<1>3. CASE gone[p]
  <2>1. net[p] = <<>> /\ closed[p]
    BY <1>1, <1>3 DEF EndInv, Ended
  <2>2. Flow(<<>>, sent'[s], Len(got[p]), closed[p])
    BY <2>1, FlowEmpty
  <2>3. QED
    BY <1>1, <1>3, <2>1, <2>2 DEF In
<1>4. CASE ~gone[p]
  <2>1. Flow(net[p] \o out, sent'[s], Len(got[p]), closed[p])
    BY <1>1, <1>2, FlowAppend
  <2>2. QED
    BY <1>1, <1>4, <2>1 DEF In
<1>5. QED
  BY <1>3, <1>4

(* One packet without data, or none.                                        *)
LEMMA InGrowsIdle ==
  ASSUME TypeOK, EndInv, PosInv, NEW s \in Sides, NEW h \in Packet,
         h.from = sent[s], h.data = <<>>, NEW out \in {<<>>, <<h>>, <<h, h>>},
         net'[Peer(s)] = IF gone[Peer(s)] THEN net[Peer(s)] ELSE net[Peer(s)] \o out,
         sent'[s] = sent[s], closed'[Peer(s)] = closed[Peer(s)], got'[Peer(s)] = got[Peer(s)]
  PROVE  In(Peer(s))'
<1>1. sent[s] \in Nat /\ sent'[s] = sent[s] /\ sent[s] =< sent'[s] /\ sent'[s] \in Nat
  BY PosTypes
<1>2. h.from \in Nat /\ h.data \in Seq(Nat) /\ Len(h.data) = 0
  BY DEF Packet
<1>3. out \in Seq(Packet)
  <2>1. <<>> \in Seq(Packet) /\ <<h>> \in Seq(Packet) /\ <<h, h>> \in Seq(Packet)
    OBVIOUS
  <2>2. QED
    BY <2>1, Zenon
<1>4. Linked(out, sent[s]) /\ Bound(out, 1, sent[s]) = sent[s]
  <2>1. CASE out = <<>>
    BY <2>1, ShortLinked
  <2>2. CASE out = <<h>>
    <3>1. sent[s] = h.from + Len(h.data)
      BY <1>1, <1>2
    <3>2. Linked(<<h>>, sent[s]) /\ Bound(<<h>>, 1, sent[s]) = h.from
      BY <1>2, <3>1, ShortLinked
    <3>3. QED
      BY <2>2, <3>2
  <2>3. CASE out = <<h, h>>
    BY <1>1, <2>3, ShortLinked
  <2>4. QED
    BY <2>1, <2>2, <2>3
<1>5. QED
  BY <1>1, <1>3, <1>4, InGrows

(* A side takes a packet and passes its data up, unless there is none or    *)
(* nobody reads it.                                                         *)
LEMMA InTaken ==
  ASSUME TypeOK, PosInv, NEW s \in Sides, net[s] # <<>>, net'[s] = Tail(net[s]),
         sent'[Peer(s)] = sent[Peer(s)], closed'[s] = closed[s],
         \/ net[s][1].data = <<>> /\ got'[s] = got[s]
         \/ Len(got'[s]) = Len(got[s]) + Len(net[s][1].data)
         \/ closed[s]
  PROVE  In(s)'
<1> DEFINE d == net[s][1].data
<1>1. /\ net[s] \in Seq(Packet) /\ sent[Peer(s)] \in Nat /\ Len(got[s]) \in Nat
  BY PosTypes
<1>2. Flow(net[s], sent[Peer(s)], Len(got[s]), closed[s])
  BY DEF PosInv, In
<1>3. /\ Flow(Tail(net[s]), sent[Peer(s)], Len(got[s]) + Len(d), closed[s])
      /\ d = <<>> => Flow(Tail(net[s]), sent[Peer(s)], Len(got[s]), closed[s])
      /\ closed[s] => \A m : Flow(Tail(net[s]), sent[Peer(s)], m, closed[s])
  BY <1>1, <1>2, FlowTail
<1>4. Flow(Tail(net[s]), sent[Peer(s)], Len(got'[s]), closed[s])
  BY <1>3, Zenon
<1>5. QED
  BY <1>4 DEF In

LEMMA InStays ==
  ASSUME PosInv, NEW s \in Sides, net'[s] = net[s], got'[s] = got[s],
         sent'[Peer(s)] = sent[Peer(s)], closed'[s] \in {closed[s], TRUE}
  PROVE  In(s)'
BY DEF PosInv, In, Flow

LEMMA OutStays ==
  ASSUME PosInv, NEW s \in Sides, appq'[s] = appq[s], written'[s] = written[s],
         sent'[s] = sent[s]
  PROVE  Out(s)'
BY DEF PosInv, Out

(* The first chunk is sent, or its first n bytes.                           *)
LEMMA OutSent ==
  ASSUME TypeOK, PosInv, NEW s \in Sides, NEW n \in Nat, appq[s] # <<>>,
         n =< Len(appq[s][1].data),
         Rest(appq[s][1].data, n, sent[s] + n) \in Chunk,
         appq'[s] = IF n = Len(appq[s][1].data) THEN Tail(appq[s])
                    ELSE [appq[s] EXCEPT ![1] = Rest(appq[s][1].data, n, sent[s] + n)],
         Len(Rest(appq[s][1].data, n, sent[s] + n).data) = Len(appq[s][1].data) - n,
         written'[s] = written[s], sent'[s] = sent[s] + n
  PROVE  Out(s)' /\ appq[s][1].from = sent[s] /\ sent[s] + n =< written[s]
<1> DEFINE q == appq[s]
           d == q[1].data
           r == Rest(d, n, sent[s] + n)
<1>1. /\ q \in Seq(Chunk) /\ sent[s] \in Nat /\ written[s] \in Nat /\ 1 \in 1 .. Len(q)
      /\ Len(q) \in Nat
  BY PosTypes, EmptySeq
<1>2. /\ Linked(q, written[s]) /\ Bound(q, 1, written[s]) = sent[s]
      /\ sent[s] =< written[s] /\ written[s] =< Total[s]
      /\ \A k \in 1 .. Len(q) : q[k].data # <<>>
  BY DEF PosInv, Out
<1>3. q[1].from \in Nat /\ d \in Seq(Nat) /\ Len(d) \in Nat
  BY <1>1, PieceType, PacketPieces
<1>4. /\ Linked(Tail(q), written[s]) /\ Bound(q, 1, written[s]) = q[1].from
      /\ Bound(Tail(q), 1, written[s]) = q[1].from + Len(d)
      /\ q[1].from + Len(d) =< written[s]
  BY <1>1, <1>2, TailLinked, PacketPieces
<1>5. q[1].from = sent[s] /\ sent[s] + Len(d) =< written[s] /\ sent[s] + n =< written[s]
  BY <1>1, <1>2, <1>3, <1>4
<1>6. CASE n = Len(d)
  <2>1. appq'[s] = Tail(q)
    BY <1>6
  <2>2. \A k \in 1 .. Len(Tail(q)) : Tail(q)[k].data # <<>>
    <3>1. Len(Tail(q)) = Len(q) - 1 /\ \A k \in 1 .. Len(Tail(q)) : Tail(q)[k] = q[k + 1]
      BY <1>1, HeadTailProperties
    <3>2. \A k \in 1 .. Len(q) - 1 : k + 1 \in 1 .. Len(q)
      BY <1>1
    <3>3. QED
      BY <1>2, <3>1, <3>2
  <2>3. Bound(Tail(q), 1, written[s]) = sent[s] + n
    BY <1>4, <1>5, <1>6
  <2>4. Out(s)'
    BY <1>2, <1>4, <1>5, <2>1, <2>2, <2>3 DEF Out
  <2>5. QED
    BY <1>5, <2>4
<1>7. CASE n # Len(d)
  <2>1. appq'[s] = [q EXCEPT ![1] = r]
    BY <1>7
  <2>2. r \in Chunk /\ r.from = sent[s] + n /\ Len(r.data) = Len(d) - n
    BY DEF Rest
  <2>3. r.from + Len(r.data) = q[1].from + Len(d)
    BY <1>1, <1>3, <1>5, <2>2
  <2>4. r.data # <<>>
    <3>1. Len(r.data) # 0
      BY <1>3, <1>7, <2>2
    <3>2. QED
      BY <3>1
  <2> HIDE DEF r
  <2>5. Linked([q EXCEPT ![1] = r], written[s]) /\ Bound([q EXCEPT ![1] = r], 1, written[s]) = r.from
    <3>1. PICK b \in Seq(Chunk), v \in Nat, x \in Chunk : b = q /\ v = written[s] /\ x = r
      BY <1>1, <2>2
    <3>2. b # <<>> /\ Linked(b, v) /\ x.from + Len(x.data) = b[1].from + Len(b[1].data)
      BY <1>2, <2>3, <3>1
    <3>3. PICK w : w = [b EXCEPT ![1] = x]
      OBVIOUS
    <3>4. Linked(w, v) /\ Bound(w, 1, v) = x.from
      <4>1. Pieces(Chunk)
        BY PacketPieces
      <4>2. Len(w) = Len(b) /\ w[1] = x /\ \A k \in 1 .. Len(b) : k # 1 => w[k] = b[k]
        <5>1. 1 \in 1 .. Len(b)
          BY <1>1, <3>1
        <5>2. QED
          BY <3>3, <5>1, ExceptSeq
      <4>3. QED
        BY <3>2, <4>1, <4>2, FrontLinked
    <3>5. QED
      BY <3>1, <3>3, <3>4
  <2>6. \A k \in 1 .. Len([q EXCEPT ![1] = r]) : [q EXCEPT ![1] = r][k].data # <<>>
    BY <1>1, <1>2, <2>2, <2>4, ExceptSeq
  <2>7. Out(s)'
    BY <1>2, <1>5, <2>1, <2>2, <2>5, <2>6 DEF Out
  <2>8. QED
    BY <1>5, <2>7
<1>8. QED
  BY <1>6, <1>7

LEMMA OutWritten ==
  ASSUME TypeOK, PosInv, NEW s \in Sides, NEW c \in Chunk, c.from = written[s],
         c.data # <<>>, appq'[s] = Append(appq[s], c),
         written'[s] = written[s] + Len(c.data), written'[s] =< Total[s], sent'[s] = sent[s]
  PROVE  Out(s)'
<1> DEFINE q == appq[s]
           w == written[s]
           e == w + Len(c.data)
<1>1. q \in Seq(Chunk) /\ sent[s] \in Nat /\ w \in Nat /\ Len(q) \in Nat
  BY PosTypes
<1>2. /\ Linked(q, w) /\ Bound(q, 1, w) = sent[s] /\ sent[s] =< w
      /\ \A k \in 1 .. Len(q) : q[k].data # <<>>
  BY DEF PosInv, Out
<1>3. c.from \in Nat /\ c.data \in Seq(Nat) /\ Len(c.data) \in Nat
  <2>1. c.data \in Seq(Nat) /\ c.from \in Nat
    BY DEF Chunk
  <2>2. QED
    BY <2>1
<1>4. e \in Nat /\ w =< e /\ e = c.from + Len(c.data) /\ sent[s] =< e
  BY <1>1, <1>2, <1>3, SMTT(30)
<1>5. Linked(<<c>>, e) /\ Bound(<<c>>, 1, e) = w
  BY <1>3, <1>4, ShortLinked
<1>6. Append(q, c) = q \o <<c>> /\ <<c>> \in Seq(Chunk)
  BY <1>1, AppendIsConcat
<1>7. Linked(Append(q, c), e) /\ Bound(Append(q, c), 1, e) = Bound(q, 1, w)
  <2>1. PICK o \in Seq(Chunk) : o = <<c>>
    BY <1>6
  <2>2. Linked(o, e) /\ Bound(o, 1, e) = w /\ Append(q, c) = q \o o
    BY <1>5, <1>6, <2>1
  <2> HIDE DEF q, w, e
  <2>3. Linked(q \o o, e) /\ Bound(q \o o, 1, e) = Bound(q, 1, w)
    BY <1>1, <1>2, <1>4, <2>2, ConcatLinked, PacketPieces
  <2>4. QED
    BY <2>2, <2>3
<1>8. \A k \in 1 .. Len(Append(q, c)) : Append(q, c)[k].data # <<>>
  BY <1>1, <1>2, AppendProperties
<1>9. QED
  BY <1>2, <1>4, <1>7, <1>8 DEF Out

LEMMA PosStep == TypeOK /\ EndInv /\ HandInv /\ PosInv /\ [Next]_vars => PosInv'
<1> SUFFICES ASSUME TypeOK, EndInv, HandInv, PosInv, [Next]_vars PROVE PosInv'
  OBVIOUS
<1>s. /\ "client" \in Sides /\ "server" \in Sides /\ Peer("client") = "server"
      /\ Peer("server") = "client" /\ Sides = {"client", "server"}
  BY DEF Sides, Peer
<1>n. net \in [Sides -> Seq(Packet)]
  BY DEF TypeOK
<1>i. \A s \in Sides : In(s)' /\ Out(s)' /\ In(Peer(s))' /\ Out(Peer(s))' => PosInv'
  BY PeerIs DEF PosInv
<1>1. ASSUME NEW x \in Isns, SendSyn(x) PROVE PosInv'
  <2>1. PICK h \in Packet :
           /\ h = Header({"SYN"}, Swap(x), 0, 0)
           /\ net'["client"] = net["client"]
           /\ net'["server"] = IF gone["server"] THEN net["server"] ELSE net["server"] \o <<h>>
    BY <1>1, SendSynIs
  <2>2. UNCHANGED <<appq, written, sent, closed, got>> /\ pc["client"] = "start"
    BY <1>1 DEF SendSyn, appVars, upVars
  <2>3. sent["client"] = 0
    BY <1>s, <2>2 DEF EndInv, Ended, Unblocked
  <2>4. h.from = sent["client"] /\ h.data = <<>>
    BY <2>1, <2>3 DEF Header
  <2>5. In("server")'
    BY <1>s, <2>1, <2>2, <2>4, InGrowsIdle
  <2>6. In("client")'
    BY <1>s, <2>1, <2>2, InStays
  <2>7. \A t \in Sides : Out(t)'
    BY <2>2, OutStays
  <2>8. QED
    BY <1>s, <2>5, <2>6, <2>7 DEF PosInv
<1>2. ASSUME NEW y \in Isns, RecvSyn(y) PROVE PosInv'
  <2>1. /\ D' = Header({"SYN", "ACK"}, Swap(y), Plus(net["server"][1].seq, 1), 0)
        /\ D' \in Packet /\ Exchange("server", 1, <<D'>>)
    BY <1>2, RecvSynIs
  <2>2. /\ UNCHANGED <<appq, written, sent, closed, got>> /\ pc["server"] = "start"
        /\ net["server"] # <<>>
    BY <1>2 DEF RecvSyn, appVars, upVars, Arrived
  <2>3. pc["client"] \in {"start", "synSent"}
    BY <2>2 DEF HandInv
  <2>4. sent["client"] = 0 /\ sent["server"] = 0
    BY <1>s, <2>2, <2>3 DEF EndInv, Ended, Unblocked
  <2>5. PICK h \in Packet : h = D'
    BY <2>1
  <2>6. h.from = sent["server"] /\ h.data = <<>>
    BY <2>1, <2>4, <2>5 DEF Header
  <2>7. /\ net'["server"] = Tail(net["server"])
        /\ net'["client"] = IF gone["client"] THEN net["client"] ELSE net["client"] \o <<h>>
    <3>1. <<h>> \in Seq(Packet) /\ Exchange("server", 1, <<h>>)
      BY <2>1, <2>5
    <3>2. QED
      BY <1>n, <1>s, <2>2, <3>1, TakeIs
  <2>8. net["server"][1].data = <<>>
    <3>1. /\ Flow(net["server"], sent["client"], Len(got["server"]), closed["server"])
          /\ net["server"] \in Seq(Packet) /\ sent["client"] \in Nat /\ Len(got["server"]) \in Nat
      BY <1>s, PosTypes DEF PosInv, In
    <3>2. /\ net["server"][1].from \in Nat /\ Len(net["server"][1].data) \in Nat
          /\ net["server"][1].from + Len(net["server"][1].data) =< sent["client"]
      BY <2>2, <3>1, FlowTail
    <3>3. Len(net["server"][1].data) = 0
      BY <2>4, <3>2
    <3>4. net["server"][1].data \in Seq(Nat)
      BY <1>s, <2>2, FirstPacket DEF Arrived
    <3>5. QED
      BY <3>3, <3>4, EmptySeq
  <2>9. In("server")'
    BY <1>s, <2>2, <2>7, <2>8, InTaken
  <2>10. In("client")'
    BY <1>s, <2>2, <2>6, <2>7, InGrowsIdle
  <2>11. \A t \in Sides : Out(t)'
    BY <2>2, OutStays
  <2>12. QED
    BY <1>s, <2>9, <2>10, <2>11 DEF PosInv
<1>3. ASSUME RecvSynAck PROVE PosInv'
  <2>1. PICK e \in Packet :
           /\ e = Header({"ACK"}, net["client"][1].ack, Plus(net["client"][1].seq, 1), 0)
           /\ Exchange("client", 1, <<e>>)
    BY <1>3, RecvSynAckIs
  <2>2. /\ UNCHANGED <<appq, written, sent, closed, got>> /\ pc["client"] = "synSent"
        /\ net["client"] # <<>>
    BY <1>3 DEF RecvSynAck, appVars, upVars, Arrived
  <2>3. pc["server"] = "synRcvd"
    BY <2>2 DEF HandInv
  <2>4. sent["client"] = 0 /\ sent["server"] = 0
    BY <1>s, <2>2, <2>3 DEF EndInv, Ended, Unblocked
  <2>5. e.from = sent["client"] /\ e.data = <<>>
    BY <2>1, <2>4 DEF Header
  <2>6. /\ net'["client"] = Tail(net["client"])
        /\ net'["server"] = IF gone["server"] THEN net["server"] ELSE net["server"] \o <<e>>
    <3>1. <<e>> \in Seq(Packet)
      BY <2>1
    <3>2. QED
      BY <1>n, <1>s, <2>1, <2>2, <3>1, TakeIs
  <2>7. net["client"][1].data = <<>>
    <3>1. /\ Flow(net["client"], sent["server"], Len(got["client"]), closed["client"])
          /\ net["client"] \in Seq(Packet) /\ sent["server"] \in Nat /\ Len(got["client"]) \in Nat
      BY <1>s, PosTypes DEF PosInv, In
    <3>2. /\ net["client"][1].from \in Nat /\ Len(net["client"][1].data) \in Nat
          /\ net["client"][1].from + Len(net["client"][1].data) =< sent["server"]
      BY <2>2, <3>1, FlowTail
    <3>3. Len(net["client"][1].data) = 0
      BY <2>4, <3>2
    <3>4. net["client"][1].data \in Seq(Nat)
      BY <1>s, <2>2, FirstPacket DEF Arrived
    <3>5. QED
      BY <3>3, <3>4, EmptySeq
  <2>8. In("client")'
    BY <1>s, <2>2, <2>6, <2>7, InTaken
  <2>9. In("server")'
    BY <1>s, <2>2, <2>5, <2>6, InGrowsIdle
  <2>10. \A t \in Sides : Out(t)'
    BY <2>2, OutStays
  <2>11. QED
    BY <1>s, <2>8, <2>9, <2>10 DEF PosInv
<1>4. ASSUME RecvHandshakeAck PROVE PosInv'
  <2>1. /\ UNCHANGED <<appq, written, sent, closed, got>> /\ pc["server"] = "synRcvd"
        /\ net["server"] # <<>> /\ Exchange("server", 1, <<>>)
    BY <1>4 DEF RecvHandshakeAck, appVars, upVars, Arrived
  <2>2. net["server"][1].data = <<>>
    <3>1. Unblocked("client")
      BY <2>1 DEF HandInv, Unblocked
    <3>2. QED
      BY <2>1, <3>1 DEF HandInv
  <2>3. net'["server"] = Tail(net["server"]) /\ net'["client"] = net["client"]
    <3>1. <<>> \in Seq(Packet) /\ net["client"] \o <<>> = net["client"]
      BY <1>n, <1>s, ConcatEmptySeq
    <3>2. QED
      BY <1>n, <1>s, <2>1, <3>1, TakeIs
  <2>4. In("server")' /\ In("client")'
    BY <1>s, <2>1, <2>2, <2>3, InTaken, InStays
  <2>5. \A t \in Sides : Out(t)'
    BY <2>1, OutStays
  <2>6. QED
    BY <1>s, <2>4, <2>5 DEF PosInv
<1>5. ASSUME NEW s \in Sides, SendData(s) PROVE PosInv'
  <2>1. PICK n \in Nat :
           /\ n = IF Len(appq[s][1].data) < MSS THEN Len(appq[s][1].data) ELSE MSS
           /\ appq[s][1] \in Chunk /\ appq[s] # <<>>
           /\ SentPiece(s, n) \in Packet
           /\ Exchange(s, 0, <<SentPiece(s, n)>>)
           /\ Rest(appq[s][1].data, n, sent[s] + n) \in Chunk
           /\ appq' = [appq EXCEPT ![s] =
                IF n = Len(appq[s][1].data) THEN Tail(@)
                ELSE [@ EXCEPT ![1] = Rest(appq[s][1].data, n, sent[s] + n)]]
    BY <1>5, SendDataIs
  <2> DEFINE p == Peer(s)
             d == appq[s][1].data
  <2>2. p \in Sides /\ p # s /\ Peer(p) = s /\ sent[s] \in Nat
    BY PosTypes
  <2>3. d \in Seq(Nat)
    BY <2>1 DEF Chunk
  <2>4. /\ n =< Len(d) /\ Len(SubSeq(d, 1, n)) = n
        /\ Len(SubSeq(d, n + 1, Len(d))) = Len(d) - n
    BY <2>1, <2>3, CutIs
  <2>5. /\ sent' = [sent EXCEPT ![s] = @ + n]
        /\ UNCHANGED <<written, closed, got, pc>>
    <3>1. Head(appq[s]) = appq[s][1]
      BY DEF TypeOK
    <3>2. QED
      BY <1>5, <2>1, <3>1 DEF SendData, upVars
  <2>6. sent'[s] = sent[s] + n /\ sent'[p] = sent[p] /\ sent'[s] \in Nat /\ sent[s] =< sent'[s]
    BY <2>2, <2>5 DEF TypeOK
  <2>7. PICK h \in Packet : h = SentPiece(s, n)
    BY <2>1
  <2>8. h.from = sent[s] /\ Len(h.data) = n
    BY <2>4, <2>7 DEF SentPiece
  <2>9. /\ net'[s] = net[s]
        /\ net'[p] = IF gone[p] THEN net[p] ELSE net[p] \o <<h>>
    BY <1>n, <2>1, <2>7, SendIs
  <2>10. In(p)'
    <3>1. h.data \in Seq(Nat) /\ h.from \in Nat /\ sent'[s] = h.from + Len(h.data)
      BY <2>6, <2>8 DEF Packet
    <3>2. Linked(<<h>>, sent'[s]) /\ Bound(<<h>>, 1, sent'[s]) = sent[s]
      BY <2>8, <3>1, ShortLinked
    <3>3. PICK o \in Seq(Packet) : o = <<h>>
      <4>1. <<h>> \in Seq(Packet)
        OBVIOUS
      <4>2. QED
        BY <4>1
    <3>4. QED
      BY <2>2, <2>5, <2>6, <2>9, <3>2, <3>3, InGrows
  <2>11. In(s)'
    BY <2>2, <2>5, <2>6, <2>9, InStays
  <2>12. Out(s)'
    <3>1. appq'[s] = IF n = Len(d) THEN Tail(appq[s])
                     ELSE [appq[s] EXCEPT ![1] = Rest(d, n, sent[s] + n)]
      BY <2>1 DEF TypeOK
    <3>2. Len(Rest(d, n, sent[s] + n).data) = Len(d) - n
      BY <2>4 DEF Rest
    <3>3. QED
      BY <2>1, <2>4, <2>5, <2>6, <3>1, <3>2, OutSent
  <2>13. Out(p)'
    <3>1. appq'[p] = appq[p]
      BY <2>1, <2>2 DEF TypeOK
    <3>2. QED
      BY <2>2, <2>5, <2>6, <3>1, OutStays
  <2>14. QED
    BY <1>i, <2>10, <2>11, <2>12, <2>13
<1>6. ASSUME NEW s \in Sides, RecvPacket(s) PROVE PosInv'
  <2> DEFINE p == Peer(s)
  <2>1. p \in Sides /\ p # s /\ Peer(p) = s
    BY PosTypes
  <2>2. /\ AckPiece(s) \in Packet /\ AckPieces(s) \in Seq(Packet) /\ Exchange(s, 1, AckPieces(s))
        /\ got' = [got EXCEPT ![s] = @ \o Copied(net[s][1].data)]
    BY <1>6, RecvPacketIs, Zenon
  <2>3. UNCHANGED <<appq, written, sent, closed>> /\ net[s] # <<>>
    BY <1>6 DEF RecvPacket, appVars, Arrived
  <2>4. /\ net'[s] = Tail(net[s])
        /\ net'[p] = IF gone[p] THEN net[p] ELSE net[p] \o AckPieces(s)
    BY <1>n, <2>2, <2>3, TakeIs
  <2>5. got'[p] = got[p]
    BY <2>1, <2>2 DEF TypeOK
  <2>6. Len(got'[s]) = Len(got[s]) + Len(net[s][1].data)
    <3>1. net[s][1].data \in Seq(Nat)
      BY <2>3, FirstPacket DEF Arrived
    <3>2. Copied(net[s][1].data) \in Seq(Nat) /\ Len(Copied(net[s][1].data)) = Len(net[s][1].data)
      BY <3>1, CopiedIs
    <3>3. got[s] \in Seq(Nat) /\ got'[s] = got[s] \o Copied(net[s][1].data)
      BY <2>2 DEF TypeOK
    <3>4. PICK u \in Seq(Nat), v \in Seq(Nat) : u = got[s] /\ v = Copied(net[s][1].data)
      BY <3>2, <3>3
    <3>5. Len(u \o v) = Len(u) + Len(v)
      BY ConcatProperties
    <3>6. QED
      BY <3>2, <3>3, <3>4, <3>5
  <2>7. In(s)'
    BY <2>1, <2>3, <2>4, <2>6, InTaken
  <2>8. In(p)'
    <3>1. AckPieces(s) \in {<<>>, <<AckPiece(s)>>, <<AckPiece(s), AckPiece(s)>>}
      BY <2>2, AckPiecesAre
    <3>2. AckPiece(s).from = sent[s] /\ AckPiece(s).data = <<>>
      BY DEF AckPiece, Header
    <3>3. PICK h \in Packet : h = AckPiece(s)
      BY <2>2
    <3>4. PICK o \in {<<>>, <<h>>, <<h, h>>} : o = AckPieces(s)
      BY <3>1, <3>3
    <3>5. QED
      BY <2>1, <2>3, <2>4, <2>5, <3>2, <3>3, <3>4, InGrowsIdle
  <2>9. Out(s)' /\ Out(p)'
    BY <2>1, <2>3, OutStays
  <2>10. QED
    BY <1>i, <2>7, <2>8, <2>9
<1>7. ASSUME NEW s \in Sides, SendFin(s) PROVE PosInv'
  <2> DEFINE p == Peer(s)
  <2>1. p \in Sides /\ p # s /\ Peer(p) = s
    BY PosTypes
  <2>2. PICK h \in Packet : h.from = sent[s] /\ h.data = <<>> /\ Exchange(s, 0, <<h>>)
    BY <1>7, SendFinIs
  <2>3. UNCHANGED <<appq, written, sent, closed, got>>
    BY <1>7 DEF SendFin, appVars, upVars
  <2>4. net'[s] = net[s] /\ net'[p] = IF gone[p] THEN net[p] ELSE net[p] \o <<h>>
    BY <1>n, <2>2, SendIs
  <2>5. In(p)' /\ In(s)'
    BY <2>1, <2>2, <2>3, <2>4, InGrowsIdle, InStays
  <2>6. Out(s)' /\ Out(p)'
    BY <2>1, <2>3, OutStays
  <2>7. QED
    BY <1>i, <2>5, <2>6
<1>8. ASSUME NEW s \in Sides, RecvFinAck(s) PROVE PosInv'
  <2> DEFINE p == Peer(s)
  <2>1. p \in Sides /\ p # s /\ Peer(p) = s
    BY PosTypes
  <2>2. /\ UNCHANGED <<appq, written, sent, closed, got>> /\ net[s] # <<>>
        /\ Exchange(s, 1, <<>>) /\ pc[s] = "finSent"
    BY <1>8 DEF RecvFinAck, appVars, upVars, Arrived
  <2>3. closed[s]
    BY <2>2 DEF EndInv, Ended
  <2>4. net'[s] = Tail(net[s]) /\ net'[p] = net[p]
    <3>1. <<>> \in Seq(Packet) /\ net[p] \o <<>> = net[p]
      BY <1>n, <2>1, ConcatEmptySeq
    <3>2. QED
      BY <1>n, <2>1, <2>2, <3>1, TakeIs
  <2>5. In(p)' /\ In(s)'
    BY <2>1, <2>2, <2>3, <2>4, InTaken, InStays
  <2>6. Out(s)' /\ Out(p)'
    BY <2>1, <2>2, OutStays
  <2>7. QED
    BY <1>i, <2>5, <2>6
<1>9. ASSUME NEW s \in Sides, NEW n \in Chunks, AppWrite(s, n) PROVE PosInv'
  <2> DEFINE p == Peer(s)
             b == [i \in 1 .. n |-> Byte(s, written[s] + i)]
  <2>1. p \in Sides /\ p # s /\ Peer(p) = s /\ written[s] \in Nat
    BY PosTypes
  <2>2. n \in Nat /\ n > 0
    BY StreamAssumption
  <2>3. b \in Seq(Nat) /\ Len(b) = n
    <3>1. \A i \in 1 .. n : Byte(s, written[s] + i) \in Nat
      BY <2>1, <2>2 DEF Byte
    <3>2. QED
      BY <2>2, <3>1
  <2>4. PICK c \in Chunk : c = [from |-> written[s], data |-> b]
    <3> HIDE DEF b
    <3>1. [from |-> written[s], data |-> b] \in Chunk
      BY <2>1, <2>3 DEF Chunk
    <3>2. QED
      BY <3>1
  <2>5. /\ appq' = [appq EXCEPT ![s] = Append(@, [from |-> written[s], data |-> b])]
        /\ written' = [written EXCEPT ![s] = @ + n] /\ written[s] + n =< Total[s]
        /\ UNCHANGED <<net, sent, closed, got>>
    BY <1>9 DEF AppWrite, upVars
  <2>6. c.from = written[s] /\ c.data = b
    BY <2>4
  <2>7. Out(s)'
    <3>1. c.data # <<>> /\ Len(c.data) = n
      BY <2>2, <2>3, <2>6
    <3>2. appq'[s] = Append(appq[s], c)
      BY <2>4, <2>5 DEF TypeOK
    <3>3. written'[s] = written[s] + Len(c.data) /\ written'[s] =< Total[s] /\ sent'[s] = sent[s]
      BY <2>5, <3>1 DEF TypeOK
    <3>4. QED
      BY <2>6, <3>1, <3>2, <3>3, OutWritten
  <2>8. Out(p)'
    <3>1. appq'[p] = appq[p] /\ written'[p] = written[p] /\ sent'[p] = sent[p]
      BY <2>1, <2>5 DEF TypeOK
    <3>2. QED
      BY <2>1, <3>1, OutStays
  <2>9. In(s)' /\ In(p)'
    BY <2>1, <2>5, InStays
  <2>10. QED
    BY <1>i, <2>7, <2>8, <2>9
<1>10. ASSUME NEW s \in Sides, AppClose(s) PROVE PosInv'
  <2> DEFINE p == Peer(s)
  <2>1. p \in Sides /\ p # s /\ Peer(p) = s
    BY PosTypes
  <2>2. UNCHANGED <<net, appq, written, sent, got>> /\ closed' = [closed EXCEPT ![s] = TRUE]
    BY <1>10 DEF AppClose, upVars
  <2>3. closed'[s] = TRUE /\ closed'[p] = closed[p]
    BY <2>1, <2>2 DEF TypeOK
  <2>4. In(s)' /\ In(p)' /\ Out(s)' /\ Out(p)'
    BY <2>1, <2>2, <2>3, InStays, OutStays
  <2>5. QED
    BY <1>i, <2>4
<1>11. ASSUME NEW s \in Sides, SocketClose(s) PROVE PosInv'
  <2> DEFINE p == Peer(s)
  <2>1. p \in Sides /\ p # s /\ Peer(p) = s /\ sent[s] \in Nat /\ sent[p] \in Nat
        /\ net[p] \in Seq(Packet)
    BY PosTypes
  <2>2. 0 \in Numbers
    BY WidthType DEF Numbers, Width
  <2>3. PICK h \in Packet : h = Header(NetEof, 0, 0, sent[s])
    BY <2>1, <2>2, AckOk, HeaderType
  <2>4. h.from = sent[s] /\ h.data = <<>>
    BY <2>3 DEF Header
  <2>5. /\ UNCHANGED <<appq, written, sent, closed, got>> /\ closed[s] /\ net'[s] = <<>>
        /\ net'[p] = IF gone[p] THEN net[p] ELSE Append(net[p], h)
    BY <1>11, <1>n, <2>1, <2>3 DEF SocketClose, appVars, upVars
  <2>6. net'[p] = IF gone[p] THEN net[p] ELSE net[p] \o <<h>>
    BY <2>1, <2>5, AppendIsConcat
  <2>7. In(p)'
    BY <2>1, <2>4, <2>5, <2>6, InGrowsIdle
  <2>8. In(s)'
    <3>1. Flow(<<>>, sent[p], Len(got[s]), closed[s])
      BY <2>1, <2>5, FlowEmpty
    <3>2. QED
      BY <2>5, <3>1 DEF In
  <2>9. Out(s)' /\ Out(p)'
    BY <2>1, <2>5, OutStays
  <2>10. QED
    BY <1>i, <2>7, <2>8, <2>9
<1>12. ASSUME UNCHANGED <<net, appq, written, sent, closed, got>> PROVE PosInv'
  BY <1>12, InStays, OutStays DEF PosInv
<1>13. ASSUME NEW s \in Sides, RecvNothing(s) PROVE PosInv'
  BY <1>12, <1>13 DEF RecvNothing, appVars, upVars
<1>14. CASE UNCHANGED vars
  BY <1>12, <1>14 DEF vars, appVars, upVars
<1>15. QED
  BY <1>1, <1>2, <1>3, <1>4, <1>5, <1>6, <1>7, <1>8, <1>9, <1>10, <1>11, <1>13, <1>14
     DEF Next, Handshake, Transport, App

LEMMA InitPos == Init => PosInv
<1> SUFFICES ASSUME Init PROVE PosInv
  OBVIOUS
<1>1. \A s \in Sides : /\ net[s] = <<>> /\ appq[s] = <<>> /\ got[s] = <<>> /\ sent[s] = 0
                       /\ written[s] = 0 /\ Total[s] \in Nat /\ Peer(s) \in Sides
  BY PeerIs, StreamAssumption DEF Init
<1>2. \A end \in {0} : Linked(<<>>, end) /\ Bound(<<>>, 1, end) = end
  BY ShortLinked
<1>3. ASSUME NEW s \in Sides PROVE In(s) /\ Out(s)
  <2>1. Linked(<<>>, 0) /\ Bound(<<>>, 1, 0) = 0 /\ Len(<<>>) = 0
    BY <1>2
  <2>2. In(s)
    BY <1>1, <2>1 DEF In, Flow
  <2>3. Out(s)
    BY <1>1, <2>1 DEF Out
  <2>4. QED
    BY <2>2, <2>3
<1>4. QED
  BY <1>3 DEF PosInv

(* What the positions say of a connection at rest.                          *)
LEMMA PosFacts ==
  ASSUME TypeOK, PosInv, NEW s \in Sides
  PROVE  /\ ~closed[s] => Len(got[s]) =< sent[Peer(s)]
         /\ sent[s] =< written[s] /\ written[s] =< Total[s]
         /\ appq[s] = <<>> => sent[s] = written[s]
<1>1. Flow(net[s], sent[Peer(s)], Len(got[s]), closed[s])
  BY DEF PosInv, In
<1>2. Out(s)
  BY DEF PosInv
<1>3. ~closed[s] => Len(got[s]) =< sent[Peer(s)]
  BY <1>1 DEF Flow
<1>4. appq[s] = <<>> => sent[s] = written[s]
  BY <1>2, ShortLinked DEF Out
<1>5. QED
  BY <1>2, <1>3, <1>4 DEF Out

Base == TypeOK /\ EndInv /\ HandInv /\ PosInv

LEMMA InitBase == Init => Base
BY InitType, InitEnd, InitHand, InitPos DEF Base

LEMMA BaseStep == Base /\ [Next]_vars => Base'
BY TypeStep, EndStep, HandStep, PosStep DEF Base

LEMMA BaseHolds == Spec => []Base
BY InitBase, BaseStep, PTL DEF Spec

------------------------------------------------------------------------------
(* Sequence numbers and acknowledgements of the client's stream             *)

(* Packets whose acknowledgement, if they are one, is of a byte received.   *)
AckSet(a, n) ==
  {e \in Packet : e.flags = {"ACK"} => \E i \in 0 .. n : Swap(e.ack) = Plus(a, i)}

NumInv ==
  /\ Unblocked("server") => NextExpectedByte["server"] = Plus(D.ack, Len(got["server"]))
  /\ Unblocked("client") =>
       /\ SequenceNumber["client"] = Plus(D.ack, sent["client"])
       /\ \E i \in -1 .. Len(got["server"]) : AcknowledgedByte["client"] = Plus(D.ack, i)
  /\ net["client"] \in Seq(AckSet(D.ack, Len(got["server"])))

LEMMA AckSetGrows ==
  ASSUME NEW a, NEW m \in Nat, NEW n \in Nat, m =< n
  PROVE  AckSet(a, m) \subseteq AckSet(a, n) /\ Seq(AckSet(a, m)) \subseteq Seq(AckSet(a, n))
<1>1. AckSet(a, m) \subseteq AckSet(a, n)
  BY DEF AckSet
<1>2. QED
  BY <1>1, SeqMonotonic

LEMMA ConcatIn ==
  ASSUME NEW S, NEW q \in Seq(S), NEW o \in Seq(S)
  PROVE  q \o o \in Seq(S)
BY ConcatProperties

LEMMA TailIn ==
  ASSUME NEW S, NEW q \in Seq(S), q # <<>>
  PROVE  Tail(q) \in Seq(S) /\ q[1] \in S
<1>1. 1 \in 1 .. Len(q)
  BY EmptySeq
<1>2. QED
  BY <1>1, HeadTailProperties, ElementOfSeq

LEMMA InitNum == Init => NumInv
<1> SUFFICES ASSUME Init PROVE NumInv
  OBVIOUS
<1>1. "client" \in Sides /\ "server" \in Sides
  BY DEF Sides
<1>2. ~Unblocked("client") /\ ~Unblocked("server") /\ net["client"] = <<>>
  BY <1>1 DEF Init, Unblocked
<1>3. QED
  BY <1>2 DEF NumInv

(* The queue of the client's packets changes, nothing else that counts.     *)
LEMMA NumQueue ==
  ASSUME Base, NumInv, NEW s \in Sides, Unblocked(s), Unblocked(s)',
         pc'[Peer(s)] = pc[Peer(s)], D' = D,
         UNCHANGED <<SequenceNumber, NextExpectedByte, AcknowledgedByte, sent, got>>,
         net'["client"] \in Seq(AckSet(D.ack, Len(got["server"])))
  PROVE  NumInv'
<1>1. Unblocked("client")' = Unblocked("client") /\ Unblocked("server")' = Unblocked("server")
  BY DEF Unblocked, Peer, Sides
<1>2. QED
  BY <1>1 DEF NumInv

LEMMA NumStep == Base /\ NumInv /\ [Next]_vars => NumInv'
<1> SUFFICES ASSUME Base, NumInv, [Next]_vars PROVE NumInv'
  OBVIOUS
<1>b. TypeOK /\ EndInv /\ HandInv /\ PosInv
  BY DEF Base
<1>s. /\ "client" \in Sides /\ "server" \in Sides /\ Peer("client") = "server"
      /\ Peer("server") = "client" /\ Sides = {"client", "server"}
  BY DEF Sides, Peer
<1>p. pc \in [Sides -> {"start", "synSent", "synRcvd", "loop", "finSent", "done",
                        "undefined"}] /\ net \in [Sides -> Seq(Packet)]
  BY <1>b DEF TypeOK
<1>a. D.ack \in Numbers /\ D.ack \in Int /\ Len(got["server"]) \in Nat /\ sent["client"] \in Nat
  <2>1. D.ack \in Numbers
    BY <1>b DEF TypeOK, Packet
  <2>2. D.ack \in Int
    BY <2>1, WidthType DEF Numbers, Width
  <2>3. QED
    BY <1>b, <1>s, <2>1, <2>2, PosTypes
<1> DEFINE A == AckSet(D.ack, Len(got["server"]))
<1>q. net["client"] \in Seq(A)
  BY DEF NumInv
<1>1. ASSUME NEW x \in Isns, SendSyn(x) PROVE NumInv'
  <2>1. net'["client"] = net["client"]
    BY <1>1, <1>b, SendSynIs
  <2>2. /\ pc["client"] = "start" /\ pc' = [pc EXCEPT !["client"] = "synSent"] /\ D' = D
        /\ UNCHANGED <<SequenceNumber, NextExpectedByte, AcknowledgedByte, sent, got>>
    BY <1>1 DEF SendSyn, Goto, seqVars, appVars, upVars
  <2>3. ~Unblocked("client")' /\ pc'["server"] = pc["server"]
    BY <1>p, <1>s, <2>2 DEF Unblocked
  <2>4. QED
    BY <2>1, <2>2, <2>3 DEF NumInv, Unblocked
<1>2. ASSUME NEW y \in Isns, RecvSyn(y) PROVE NumInv'
  <2>1. /\ pc["server"] = "start" /\ pc' = [pc EXCEPT !["server"] = "synRcvd"]
        /\ net["server"] # <<>> /\ UNCHANGED got
    BY <1>2 DEF RecvSyn, Goto, Arrived, upVars
  <2>2. pc["client"] = "synSent" /\ net["client"] = <<>>
    BY <1>b, <2>1 DEF HandInv
  <2>3. ~Unblocked("client")' /\ ~Unblocked("server")'
    BY <1>p, <1>s, <2>1, <2>2 DEF Unblocked
  <2>4. PICK h \in Packet : h = D' /\ h.flags = {"SYN", "ACK"} /\ Exchange("server", 1, <<h>>)
    <3>1. /\ D' = Header({"SYN", "ACK"}, Swap(y), Plus(net["server"][1].seq, 1), 0)
          /\ D' \in Packet /\ Exchange("server", 1, <<D'>>)
      BY <1>2, <1>b, RecvSynIs
    <3>2. D'.flags = {"SYN", "ACK"}
      BY <3>1 DEF Header
    <3>3. QED
      BY <3>1, <3>2
  <2>5. net'["client"] \in {<<>>, <<h>>}
    <3>1. <<h>> \in Seq(Packet)
      OBVIOUS
    <3>2. net'["client"] = IF gone["client"] THEN net["client"] ELSE net["client"] \o <<h>>
      BY <1>p, <1>s, <2>1, <2>4, <3>1, TakeIs
    <3>3. QED
      BY <2>2, <3>2, OnePacket
  <2>6. h \in AckSet(h.ack, Len(got["server"]))
    <3>1. h.flags # {"ACK"}
      BY <2>4
    <3>2. QED
      BY <3>1 DEF AckSet
  <2>7. net'["client"] \in Seq(AckSet(h.ack, Len(got["server"])))
    <3>1. PICK S : S = AckSet(h.ack, Len(got["server"]))
      OBVIOUS
    <3>2. <<>> \in Seq(S) /\ <<h>> \in Seq(S)
      BY <2>6, <3>1
    <3>3. QED
      BY <2>5, <3>1, <3>2
  <2>8. QED
    BY <2>1, <2>3, <2>4, <2>7 DEF NumInv
<1>3. ASSUME RecvSynAck PROVE NumInv'
  <2>1. PICK e \in Packet :
           /\ Exchange("client", 1, <<e>>)
           /\ AcknowledgedByte' =
                [AcknowledgedByte EXCEPT !["client"] = Plus(net["client"][1].ack, -1)]
           /\ SequenceNumber' = [SequenceNumber EXCEPT !["client"] = net["client"][1].ack]
    BY <1>3, <1>b, RecvSynAckIs
  <2>2. /\ pc["client"] = "synSent" /\ pc' = [pc EXCEPT !["client"] = "loop"]
        /\ net["client"] # <<>> /\ UNCHANGED <<D, got, sent>>
    BY <1>3 DEF RecvSynAck, Goto, Arrived, upVars, appVars
  <2>3. pc["server"] = "synRcvd" /\ net["client"] = <<D>>
    BY <1>b, <2>2 DEF HandInv
  <2>4. sent["client"] = 0
    BY <1>b, <1>s, <2>2 DEF EndInv, Ended, Unblocked
  <2>5. D \in Packet
    BY <1>b DEF TypeOK
  <2>6. net["client"][1] = D
    BY <2>3, <2>5, OnePacket
  <2>7. net'["client"] = <<>>
    <3>1. <<e>> \in Seq(Packet)
      OBVIOUS
    <3>2. net'["client"] = Tail(net["client"])
      BY <1>p, <1>s, <2>1, <2>2, <3>1, TakeIs
    <3>3. QED
      BY <2>3, <2>5, <3>2, OnePacket
  <2>8. SequenceNumber'["client"] = Plus(D.ack, sent["client"])
    <3>1. SequenceNumber'["client"] = D.ack
      BY <1>b, <1>s, <2>1, <2>6 DEF TypeOK
    <3>2. QED
      BY <1>a, <2>4, <3>1, PlusZero
  <2>9. AcknowledgedByte'["client"] = Plus(D.ack, -1) /\ -1 \in -1 .. Len(got["server"])
    BY <1>a, <1>b, <1>s, <2>1, <2>6 DEF TypeOK
  <2>10. ~Unblocked("server")'
    BY <1>p, <1>s, <2>2, <2>3 DEF Unblocked
  <2>11. QED
    BY <2>2, <2>7, <2>8, <2>9, <2>10 DEF NumInv
<1>4. ASSUME RecvHandshakeAck PROVE NumInv'
  <2>1. /\ UNCHANGED <<D, got, sent>> /\ pc["server"] = "synRcvd" /\ net["server"] # <<>>
        /\ pc' = [pc EXCEPT !["server"] = "loop"] /\ Exchange("server", 1, <<>>)
        /\ AcknowledgedByte' = [AcknowledgedByte EXCEPT !["server"] = D.seq]
        /\ SequenceNumber' = [SequenceNumber EXCEPT !["server"] = 0]
        /\ NextExpectedByte' = [NextExpectedByte EXCEPT !["server"] = D.ack]
    BY <1>4 DEF RecvHandshakeAck, Goto, appVars, upVars, Arrived
  <2>2. net'["client"] = net["client"]
    <3>1. <<>> \in Seq(Packet) /\ net["client"] \o <<>> = net["client"]
      BY <1>p, <1>s, ConcatEmptySeq
    <3>2. QED
      BY <1>p, <1>s, <2>1, <3>1, TakeIs
  <2>3. got["server"] = <<>>
    BY <1>b, <1>s, <2>1 DEF EndInv, Ended, Unblocked
  <2>4. NextExpectedByte'["server"] = Plus(D.ack, Len(got["server"]))
    <3>1. NextExpectedByte'["server"] = D.ack
      BY <1>b, <1>s, <2>1 DEF TypeOK
    <3>2. QED
      BY <1>a, <2>3, <3>1, PlusZero
  <2>5. /\ pc'["client"] = pc["client"]
        /\ AcknowledgedByte'["client"] = AcknowledgedByte["client"]
        /\ SequenceNumber'["client"] = SequenceNumber["client"]
    BY <1>b, <1>s, <2>1 DEF TypeOK
  <2>6. QED
    BY <2>1, <2>2, <2>4, <2>5 DEF NumInv, Unblocked
<1>5. ASSUME NEW s \in Sides, SendData(s) PROVE NumInv'
  <2>1. PICK n \in Nat :
           /\ n = IF Len(appq[s][1].data) < MSS THEN Len(appq[s][1].data) ELSE MSS
           /\ SentPiece(s, n) \in Packet
           /\ Exchange(s, 0, <<SentPiece(s, n)>>)
    BY <1>5, <1>b, SendDataIs
  <2>2. /\ SequenceNumber' = [SequenceNumber EXCEPT ![s] = Plus(@, n)]
        /\ sent' = [sent EXCEPT ![s] = @ + n]
        /\ UNCHANGED <<pc, D, NextExpectedByte, AcknowledgedByte, got>> /\ Unblocked(s)
    <3>1. Head(appq[s]) = appq[s][1]
      BY <1>5, <1>b DEF TypeOK, SendData
    <3>2. QED
      BY <1>5, <2>1, <3>1 DEF SendData, upVars, Unblocked
  <2>3. PICK h \in Packet : h = SentPiece(s, n)
    BY <2>1
  <2>4. net'[s] = net[s] /\ net'[Peer(s)] = IF gone[Peer(s)] THEN net[Peer(s)] ELSE net[Peer(s)] \o <<h>>
    BY <1>p, <2>1, <2>3, SendIs
  <2>5. CASE s = "client"
    <3>1. SequenceNumber'["client"] = Plus(D.ack, sent'["client"])
      <4>1. SequenceNumber'["client"] = Plus(Plus(D.ack, sent["client"]), n)
        BY <1>b, <1>s, <2>2, <2>5 DEF TypeOK, NumInv
      <4>2. sent'["client"] = sent["client"] + n
        BY <1>b, <1>s, <2>2, <2>5 DEF TypeOK
      <4>3. QED
        <5>1. PICK a \in Int, j \in Int, m \in Int : a = D.ack /\ j = sent["client"] /\ m = n
          BY <1>a
        <5>2. Plus(Plus(a, j), m) = Plus(a, j + m)
          BY PlusPlus
        <5>3. QED
          BY <4>1, <4>2, <5>1, <5>2
    <3>2. net'["client"] = net["client"]
      BY <2>4, <2>5
    <3>3. QED
      BY <2>2, <3>1, <3>2 DEF NumInv, Unblocked
  <2>6. CASE s = "server"
    <3>1. h \in A
      <4>1. h.ack = Swap(NextExpectedByte["server"])
        BY <2>3, <2>6 DEF SentPiece
      <4>2. NextExpectedByte["server"] \in Numbers
        BY <1>b, <1>s DEF TypeOK
      <4>3. Swap(h.ack) = Plus(D.ack, Len(got["server"]))
        BY <2>2, <2>6, <4>1, <4>2, SwapSwap DEF NumInv
      <4>4. QED
        BY <1>a, <4>3 DEF AckSet
    <3> HIDE DEF A
    <3>2. net'["client"] \in Seq(A)
      <4>1. <<h>> \in Seq(A)
        BY <3>1
      <4>2. QED
        BY <1>q, <1>s, <2>4, <2>6, <4>1, ConcatIn
    <3>3. SequenceNumber'["client"] = SequenceNumber["client"] /\ sent'["client"] = sent["client"]
      BY <1>b, <1>s, <2>2, <2>6 DEF TypeOK
    <3>4. QED
      BY <2>2, <3>2, <3>3 DEF NumInv, Unblocked, A
  <2>7. QED
    BY <1>s, <2>5, <2>6
<1>6. ASSUME RecvPacket("client") PROVE NumInv'
  <2>1. /\ AckPieces("client") \in Seq(Packet) /\ Exchange("client", 1, AckPieces("client"))
        /\ AcknowledgedByte' = [AcknowledgedByte EXCEPT !["client"] =
              IF net["client"][1].flags = {"ACK"} THEN AckOf(net["client"][1]) ELSE @]
        /\ got' = [got EXCEPT !["client"] = @ \o Copied(net["client"][1].data)]
        /\ NextExpectedByte' = [NextExpectedByte EXCEPT !["client"] = NextByte("client")]
    BY <1>6, <1>b, <1>s, RecvPacketIs, Zenon
  <2>2. UNCHANGED <<D, SequenceNumber, sent>> /\ net["client"] # <<>> /\ Unblocked("client")
    BY <1>6 DEF RecvPacket, appVars, Arrived, Unblocked
  <2>3. pc'["server"] = pc["server"]
    BY <1>6, <1>b, <1>s, Later DEF Transport
  <2>4. /\ got'["server"] = got["server"]
        /\ NextExpectedByte'["server"] = NextExpectedByte["server"]
    BY <1>b, <1>s, <2>1 DEF TypeOK
  <2>5. net'["client"] = Tail(net["client"])
    BY <1>p, <1>s, <2>1, <2>2, TakeIs
  <2>6. net'["client"] \in Seq(A) /\ net["client"][1] \in A
    <3> HIDE DEF A
    <3>1. QED
      BY <1>q, <2>2, <2>5, TailIn
  <2>7. \E i \in -1 .. Len(got["server"]) : AcknowledgedByte'["client"] = Plus(D.ack, i)
    <3>1. CASE net["client"][1].flags = {"ACK"}
      <4>1. AcknowledgedByte'["client"] = Swap(net["client"][1].ack)
        BY <1>b, <1>s, <2>1, <3>1 DEF TypeOK, AckOf
      <4>2. PICK i \in 0 .. Len(got["server"]) : Swap(net["client"][1].ack) = Plus(D.ack, i)
        BY <2>6, <3>1 DEF AckSet
      <4>3. i \in -1 .. Len(got["server"])
        BY <1>a
      <4>4. QED
        BY <4>1, <4>2, <4>3
    <3>2. CASE net["client"][1].flags # {"ACK"}
      <4>1. AcknowledgedByte'["client"] = AcknowledgedByte["client"]
        BY <1>b, <1>s, <2>1, <3>2 DEF TypeOK
      <4>2. QED
        BY <2>2, <4>1 DEF NumInv
    <3>3. QED
      BY <3>1, <3>2
  <2>8. QED
    BY <2>2, <2>3, <2>4, <2>6, <2>7 DEF NumInv, Unblocked
<1>7. ASSUME RecvPacket("server") PROVE NumInv'
  <2> DEFINE d == net["server"][1].data
  <2>m. PICK m \in Nat : m = Len(got["server"])
    BY <1>a
  <2>d. d \in Seq(Nat)
    BY <1>7, <1>b, <1>s, FirstPacket DEF RecvPacket
  <2>k. PICK k \in Nat : k = Len(d)
    BY <2>d
  <2>1. /\ AckPieces("server") \in Seq(Packet) /\ Exchange("server", 1, AckPieces("server"))
        /\ AcknowledgedByte' = [AcknowledgedByte EXCEPT !["server"] =
              IF net["server"][1].flags = {"ACK"} THEN AckOf(net["server"][1]) ELSE @]
        /\ got' = [got EXCEPT !["server"] = @ \o Copied(d)]
        /\ NextExpectedByte' = [NextExpectedByte EXCEPT !["server"] = NextByte("server")]
        /\ NextByte("server") \in Numbers /\ AckPiece("server") \in Packet
    BY <1>7, <1>b, <1>s, RecvPacketIs, Zenon
  <2>2. UNCHANGED <<D, SequenceNumber, sent>> /\ net["server"] # <<>> /\ Unblocked("server")
    BY <1>7 DEF RecvPacket, appVars, Arrived, Unblocked
  <2>3. pc'["client"] = pc["client"] /\ Unblocked("server")'
    BY <1>7, <1>b, <1>s, Later DEF Transport, Unblocked
  <2>4. AcknowledgedByte'["client"] = AcknowledgedByte["client"]
    BY <1>b, <1>s, <2>1 DEF TypeOK
  <2>5. Len(got'["server"]) = m + k
    <3>2. PICK u \in Seq(Nat), v \in Seq(Nat) : u = got["server"] /\ v = Copied(d) /\ Len(v) = Len(d)
      BY <1>b, <1>s, <2>d, CopiedIs DEF TypeOK
    <3>3. got'["server"] = u \o v
      BY <1>b, <1>s, <2>1, <3>2 DEF TypeOK
    <3>4. Len(u \o v) = Len(u) + Len(v)
      BY ConcatProperties
    <3>5. QED
      BY <2>m, <2>k, <3>2, <3>3, <3>4
  <2>6. NextByte("server") = Plus(D.ack, m + k)
    <3>1. NextByte("server") = Plus(Plus(D.ack, m), k)
      BY <2>2, <2>m, <2>k DEF NumInv, NextByte
    <3>2. PICK a \in Int : a = D.ack
      BY <1>a
    <3>3. Plus(Plus(a, m), k) = Plus(a, m + k)
      BY PlusPlus
    <3>4. QED
      BY <3>1, <3>2, <3>3
  <2>7. NextExpectedByte'["server"] = Plus(D.ack, m + k)
    BY <1>b, <1>s, <2>1, <2>6 DEF TypeOK
  <2>8. PICK B : B = AckSet(D.ack, m + k)
    OBVIOUS
  <2>9. Seq(A) \subseteq Seq(B)
    <3>1. m =< m + k /\ m + k \in Nat
      OBVIOUS
    <3>2. PICK n \in Nat : n = m + k
      BY <3>1
    <3>3. Seq(AckSet(D.ack, m)) \subseteq Seq(AckSet(D.ack, n))
      BY <3>1, <3>2, AckSetGrows
    <3>4. QED
      BY <2>m, <2>8, <3>2, <3>3
  <2>10. AckPiece("server") \in B
    <3>1. AckPiece("server").ack = Swap(NextByte("server"))
      BY DEF AckPiece, Header
    <3>2. Swap(AckPiece("server").ack) = Plus(D.ack, m + k)
      BY <2>1, <2>6, <3>1, SwapSwap
    <3>3. QED
      BY <2>1, <2>8, <3>2 DEF AckSet
  <2>11. net'["client"] \in Seq(B)
    <3>1. AckPieces("server") \in Seq(B)
      BY <2>10, AckPiecesAre
    <3>2. net["client"] \in Seq(B)
      BY <1>q, <2>9
    <3>3. net'["client"] = IF gone["client"] THEN net["client"] ELSE net["client"] \o AckPieces("server")
      BY <1>p, <1>s, <2>1, <2>2, TakeIs
    <3>4. QED
      BY <3>1, <3>2, <3>3, ConcatIn
  <2>12. ASSUME Unblocked("client")
         PROVE  \E i \in -1 .. m + k : AcknowledgedByte["client"] = Plus(D.ack, i)
    <3>1. PICK i \in -1 .. m : AcknowledgedByte["client"] = Plus(D.ack, i)
      BY <2>12, <2>m DEF NumInv
    <3>2. i \in -1 .. m + k
      OBVIOUS
    <3>3. QED
      BY <3>1, <3>2
  <2>13. QED
    BY <2>2, <2>3, <2>4, <2>5, <2>7, <2>8, <2>11, <2>12 DEF NumInv, Unblocked
<1>8. ASSUME NEW s \in Sides, RecvNothing(s) \/ App(s) PROVE NumInv'
  <2>1. /\ net' = net
        /\ UNCHANGED <<SequenceNumber, NextExpectedByte, AcknowledgedByte, sent, got>>
    BY <1>8 DEF RecvNothing, App, AppWrite, AppClose, seqVars, appVars, upVars
  <2>2. Unblocked(s) /\ Unblocked(s)' /\ pc'[Peer(s)] = pc[Peer(s)] /\ D' = D
    BY <1>8, <1>b, Later DEF Transport, Unblocked
  <2>3. QED
    BY <1>q, <2>1, <2>2, NumQueue
<1>9. ASSUME NEW s \in Sides, SendFin(s) PROVE NumInv'
  <2>1. PICK h \in Packet : h.flags = {"FIN"} /\ Exchange(s, 0, <<h>>)
    BY <1>9, <1>b, SendFinIs
  <2>2. /\ Unblocked(s) /\ Unblocked(s)' /\ pc'[Peer(s)] = pc[Peer(s)] /\ D' = D
        /\ UNCHANGED <<SequenceNumber, NextExpectedByte, AcknowledgedByte, sent, got>>
    BY <1>9, <1>b, Later DEF SendFin, Transport, Unblocked, seqVars, appVars, upVars
  <2>3. h \in A
    BY <2>1 DEF AckSet
  <2>4. net'["client"] \in Seq(A)
    <3> HIDE DEF A
    <3>1. <<h>> \in Seq(A)
      BY <2>3
    <3>2. /\ net'[s] = net[s]
          /\ net'[Peer(s)] = IF gone[Peer(s)] THEN net[Peer(s)] ELSE net[Peer(s)] \o <<h>>
      BY <1>p, <2>1, SendIs
    <3>3. QED
      BY <1>q, <1>s, <3>1, <3>2, ConcatIn
  <2>5. QED
    BY <2>2, <2>4, NumQueue
<1>10. ASSUME NEW s \in Sides, RecvFinAck(s) PROVE NumInv'
  <2>1. /\ Exchange(s, 1, <<>>) /\ net[s] # <<>>
        /\ UNCHANGED <<SequenceNumber, NextExpectedByte, AcknowledgedByte, sent, got>>
    BY <1>10 DEF RecvFinAck, Arrived, seqVars, appVars, upVars
  <2>2. Unblocked(s) /\ Unblocked(s)' /\ pc'[Peer(s)] = pc[Peer(s)] /\ D' = D
    BY <1>10, <1>b, Later DEF Transport, Unblocked
  <2>3. net'["client"] \in Seq(A)
    <3> HIDE DEF A
    <3>1. <<>> \in Seq(Packet) /\ <<>> \in Seq(A)
      OBVIOUS
    <3>2. /\ net'[s] = Tail(net[s])
          /\ net'[Peer(s)] = IF gone[Peer(s)] THEN net[Peer(s)] ELSE net[Peer(s)] \o <<>>
      BY <1>p, <2>1, <3>1, TakeIs
    <3>3. QED
      BY <1>q, <1>s, <2>1, <3>1, <3>2, ConcatIn, TailIn
  <2>4. QED
    BY <2>1, <2>2, <2>3, NumQueue
<1>11. ASSUME NEW s \in Sides, SocketClose(s) PROVE NumInv'
  <2>1. Unblocked(s) /\ Unblocked(s)' /\ pc'[Peer(s)] = pc[Peer(s)] /\ D' = D
    BY <1>11, <1>b, Later DEF Unblocked
  <2>2. UNCHANGED <<SequenceNumber, NextExpectedByte, AcknowledgedByte, sent, got>>
    BY <1>11 DEF SocketClose, seqVars, appVars, upVars
  <2>3. PICK h \in Packet : h = Header(NetEof, 0, 0, sent[s])
    <3>1. 0 \in Numbers /\ sent[s] \in Nat
      BY <1>b, WidthType, PosTypes DEF Numbers, Width
    <3>2. QED
      BY <3>1, AckOk, HeaderType
  <2>4. h \in A
    <3>1. h.flags # {"ACK"}
      BY <2>3 DEF Header, NetEof
    <3>2. QED
      BY <3>1 DEF AckSet
  <2>5. /\ net'[s] = <<>>
        /\ net'[Peer(s)] = IF gone[Peer(s)] THEN net[Peer(s)] ELSE Append(net[Peer(s)], h)
    BY <1>11, <1>p, <1>s, <2>3 DEF SocketClose
  <2>6. net'["client"] \in Seq(A)
    <3> HIDE DEF A
    <3>1. <<>> \in Seq(A) /\ Append(net["client"], h) \in Seq(A)
      BY <1>q, <2>4, AppendProperties
    <3>2. QED
      BY <1>q, <1>s, <2>5, <3>1
  <2>7. QED
    BY <2>1, <2>2, <2>6, NumQueue
<1>12. CASE UNCHANGED vars
  BY <1>12 DEF vars, NumInv, Unblocked, seqVars, appVars, upVars
<1>13. QED
  BY <1>1, <1>2, <1>3, <1>4, <1>5, <1>6, <1>7, <1>8, <1>9, <1>10, <1>11, <1>12, <1>s
     DEF Next, Handshake, Transport

LEMMA NumHolds == Spec => [](Base /\ NumInv)
<1>1. Init => Base /\ NumInv
  BY InitBase, InitNum
<1>2. Base /\ NumInv /\ [Next]_vars => Base' /\ NumInv'
  BY BaseStep, NumStep
<1>3. QED
  BY <1>1, <1>2, PTL DEF Spec

(* The client's sequence number and the byte the server expects next agree  *)
(* on the client's stream, however often the numbers wrap.                  *)
THEOREM NumbersAgree == Spec => []ClientSeqAgrees
<1>1. Base /\ NumInv => ClientSeqAgrees
  <2>1. SUFFICES ASSUME Base, NumInv, Unblocked("client"), Unblocked("server")
                 PROVE  Plus(NextExpectedByte["server"], sent["client"] - Len(got["server"]))
                          = SequenceNumber["client"]
    BY DEF ClientSeqAgrees, Unblocked
  <2>2. "client" \in Sides /\ "server" \in Sides /\ TypeOK
    BY <2>1 DEF Sides, Base
  <2>3. D.ack \in Int
    BY <2>2, WidthType DEF TypeOK, Packet, Numbers, Width
  <2>4. PICK a \in Int, g \in Int, k \in Int :
          a = D.ack /\ g = Len(got["server"]) /\ k = sent["client"]
    BY <2>2, <2>3, PosTypes
  <2>5. Plus(Plus(a, g), k - g) = Plus(a, g + (k - g)) /\ g + (k - g) = k
    BY PlusPlus
  <2>6. NextExpectedByte["server"] = Plus(a, g) /\ SequenceNumber["client"] = Plus(a, k)
    BY <2>1, <2>4 DEF NumInv
  <2>7. QED
    BY <2>4, <2>5, <2>6
<1>2. QED
  BY <1>1, NumHolds, PTL

(* What the client has not seen acknowledged covers what the server has not *)
(* received and nothing that was not sent, if the client's stream is        *)
(* shorter than the range of the 32-bit numbers.                            *)
THEOREM AcksNeverAhead ==
  ASSUME Total["client"] + 1 < BASE * BASE
  PROVE  Spec => []AcksReceived
<1>1. Base /\ NumInv => AcksReceived
  <2>1. SUFFICES ASSUME Base, NumInv, Unblocked("client"), ~closed["server"]
                 PROVE  LET unacked == Plus(SequenceNumber["client"], -AcknowledgedByte["client"])
                        IN  /\ sent["client"] - Len(got["server"]) <= unacked
                            /\ unacked <= sent["client"] + 1
    BY DEF AcksReceived, Unblocked
  <2>2. "client" \in Sides /\ "server" \in Sides /\ TypeOK /\ PosInv /\ Peer("server") = "client"
    BY <2>1 DEF Sides, Base, Peer
  <2>3. D.ack \in Int
    BY <2>2, WidthType DEF TypeOK, Packet, Numbers, Width
  <2>4. PICK a \in Int, g \in Nat, k \in Nat :
          a = D.ack /\ g = Len(got["server"]) /\ k = sent["client"]
    BY <2>2, <2>3, PosTypes
  <2>5. g =< k /\ k =< Total["client"]
    <3>1. written["client"] \in Nat /\ Total["client"] \in Nat
      BY <2>2, PosTypes
    <3>2. QED
      BY <2>1, <2>2, <2>4, <3>1, PosFacts
  <2>6. PICK i \in -1 .. g : AcknowledgedByte["client"] = Plus(a, i)
    BY <2>1, <2>4 DEF NumInv
  <2>7. SequenceNumber["client"] = Plus(a, k)
    BY <2>1, <2>4 DEF NumInv
  <2>8. k - i \in 0 .. Width - 1
    <3>1. Total["client"] \in Nat
      BY <2>2, PosTypes
    <3>2. QED
      BY <2>5, <3>1, WidthType DEF Width
  <2>9. Plus(Plus(a, k), -Plus(a, i)) = k - i
    BY <2>8, Difference
  <2>10. QED
    BY <2>4, <2>6, <2>7, <2>9
<1>2. QED
  BY <1>1, NumHolds, PTL

------------------------------------------------------------------------------
(* What a step may put on a queue                                           *)

LEMMA QueueStep ==
  ASSUME Base, [Next]_vars, NEW t \in Sides, NEW T, net[t] \in Seq(T),
         \A e \in Packet : e.flags \in {{"ACK"}, {"SYN"}, {"SYN", "ACK"}} /\ e.data = <<>>
                             => e \in T,
         \A e \in Packet : (/\ SendFin(Peer(t)) /\ e.flags = {"FIN"} /\ e.data = <<>>
                            /\ e.from = sent[Peer(t)]) => e \in T,
         \A e \in Packet : SocketClose(Peer(t)) /\ e.flags = NetEof /\ e.data = <<>>
                             => e \in T,
         \A n \in Nat : (/\ SendData(Peer(t)) /\ SentPiece(Peer(t), n) \in Packet
                         /\ n =< Len(appq[Peer(t)][1].data)) => SentPiece(Peer(t), n) \in T
  PROVE  net'[t] \in Seq(T)
<1>b. TypeOK /\ net \in [Sides -> Seq(Packet)]
  BY DEF Base, TypeOK
<1>s. /\ "client" \in Sides /\ "server" \in Sides /\ Peer("client") = "server"
      /\ Peer("server") = "client" /\ Sides = {"client", "server"}
      /\ \A s \in Sides : t = s \/ (t = Peer(s) /\ Peer(t) = s /\ t # s)
  BY DEF Sides, Peer
<1>e. <<>> \in Seq(T)
  OBVIOUS
<1>a. ASSUME NEW s \in Sides, NEW h \in Packet, Exchange(s, 0, <<h>>), t = s \/ h \in T
      PROVE  net'[t] \in Seq(T)
  <2>1. /\ net'[s] = net[s]
        /\ net'[Peer(s)] = IF gone[Peer(s)] THEN net[Peer(s)] ELSE net[Peer(s)] \o <<h>>
    BY <1>a, <1>b, SendIs
  <2>2. CASE t = s
    BY <2>1, <2>2
  <2>3. CASE t # s
    <3>1. t = Peer(s) /\ h \in T
      BY <1>a, <1>s, <2>3
    <3>2. <<h>> \in Seq(T)
      BY <3>1
    <3>3. QED
      BY <2>1, <3>1, <3>2, ConcatIn
  <2>4. QED
    BY <2>2, <2>3
<1>t. ASSUME NEW s \in Sides, net[s] # <<>>, NEW out \in Seq(Packet), Exchange(s, 1, out),
             t = s \/ out \in Seq(T)
      PROVE  net'[t] \in Seq(T)
  <2>1. /\ net'[s] = Tail(net[s])
        /\ net'[Peer(s)] = IF gone[Peer(s)] THEN net[Peer(s)] ELSE net[Peer(s)] \o out
    BY <1>b, <1>t, TakeIs
  <2>2. CASE t = s
    BY <1>t, <2>1, <2>2, TailIn
  <2>3. CASE t # s
    <3>1. t = Peer(s) /\ out \in Seq(T)
      BY <1>s, <1>t, <2>3
    <3>2. QED
      BY <2>1, <3>1, ConcatIn
  <2>4. QED
    BY <2>2, <2>3
<1>1. ASSUME NEW x \in Isns, SendSyn(x) PROVE net'[t] \in Seq(T)
  <2>1. PICK h \in Packet :
           /\ h = Header({"SYN"}, Swap(x), 0, 0)
           /\ net'["client"] = net["client"]
           /\ net'["server"] = IF gone["server"] THEN net["server"] ELSE net["server"] \o <<h>>
    BY <1>1, <1>b, SendSynIs
  <2>2. h \in T
    <3>1. h.flags = {"SYN"} /\ h.data = <<>>
      BY <2>1 DEF Header
    <3>2. QED
      BY <3>1
  <2>3. <<h>> \in Seq(T)
    BY <2>2
  <2>4. QED
    <3>1. CASE t = "client"
      BY <2>1, <3>1
    <3>2. CASE t = "server"
      <4>1. net[t] \o <<h>> \in Seq(T)
        BY <2>3, ConcatIn
      <4>2. QED
        BY <2>1, <3>2, <4>1
    <3>3. QED
      BY <1>s, <3>1, <3>2
<1>2. ASSUME NEW y \in Isns, RecvSyn(y) PROVE net'[t] \in Seq(T)
  <2>1. PICK h \in Packet : h = Header({"SYN", "ACK"}, Swap(y), Plus(net["server"][1].seq, 1), 0)
                            /\ Exchange("server", 1, <<h>>)
    BY <1>2, <1>b, RecvSynIs
  <2>2. h \in T
    <3>1. h.flags = {"SYN", "ACK"} /\ h.data = <<>>
      BY <2>1 DEF Header
    <3>2. QED
      BY <3>1
  <2>3. <<h>> \in Seq(T) /\ <<h>> \in Seq(Packet) /\ net["server"] # <<>>
    BY <1>2, <2>2 DEF RecvSyn, Arrived
  <2>4. QED
    BY <1>s, <1>t, <2>1, <2>3
<1>3. ASSUME RecvSynAck PROVE net'[t] \in Seq(T)
  <2>1. PICK e \in Packet :
           /\ e = Header({"ACK"}, net["client"][1].ack, Plus(net["client"][1].seq, 1), 0)
           /\ Exchange("client", 1, <<e>>)
    BY <1>3, <1>b, RecvSynAckIs
  <2>2. e \in T
    <3>1. e.flags = {"ACK"} /\ e.data = <<>>
      BY <2>1 DEF Header
    <3>2. QED
      BY <3>1
  <2>3. <<e>> \in Seq(T) /\ <<e>> \in Seq(Packet) /\ net["client"] # <<>>
    BY <1>3, <2>2 DEF RecvSynAck, Arrived
  <2>4. QED
    BY <1>s, <1>t, <2>1, <2>3
<1>4. ASSUME RecvHandshakeAck PROVE net'[t] \in Seq(T)
  <2>1. Exchange("server", 1, <<>>) /\ net["server"] # <<>> /\ <<>> \in Seq(Packet)
    BY <1>4 DEF RecvHandshakeAck, Arrived
  <2>2. QED
    BY <1>e, <1>s, <1>t, <2>1
<1>5. ASSUME NEW s \in Sides, SendData(s) PROVE net'[t] \in Seq(T)
  <2>1. PICK n \in Nat :
           /\ n = IF Len(appq[s][1].data) < MSS THEN Len(appq[s][1].data) ELSE MSS
           /\ appq[s][1] \in Chunk
           /\ SentPiece(s, n) \in Packet
           /\ Exchange(s, 0, <<SentPiece(s, n)>>)
    BY <1>5, <1>b, SendDataIs
  <2>2. n =< Len(appq[s][1].data)
    BY <2>1, CutIs DEF Chunk
  <2>3. t = s \/ SentPiece(s, n) \in T
    BY <1>5, <1>s, <2>1, <2>2
  <2>4. QED
    BY <1>a, <2>1, <2>3
<1>6. ASSUME NEW s \in Sides, RecvPacket(s) PROVE net'[t] \in Seq(T)
  <2>1. AckPiece(s) \in Packet /\ AckPieces(s) \in Seq(Packet) /\ Exchange(s, 1, AckPieces(s))
    BY <1>6, <1>b, RecvPacketIs, Zenon
  <2>2. AckPiece(s) \in T
    <3>1. AckPiece(s).flags = {"ACK"} /\ AckPiece(s).data = <<>>
      BY DEF AckPiece, Header
    <3>2. QED
      BY <2>1, <3>1
  <2>3. AckPieces(s) \in Seq(T) /\ net[s] # <<>>
    BY <1>6, <2>2, AckPiecesAre DEF RecvPacket, Arrived
  <2>4. QED
    BY <1>t, <2>1, <2>3
<1>7. ASSUME NEW s \in Sides, RecvNothing(s) \/ App(s) PROVE net'[t] \in Seq(T)
  BY <1>7 DEF RecvNothing, App, AppWrite, AppClose
<1>8. ASSUME NEW s \in Sides, SendFin(s) PROVE net'[t] \in Seq(T)
  <2>1. PICK h \in Packet :
           /\ h.flags = {"FIN"} /\ h.from = sent[s] /\ h.data = <<>> /\ Exchange(s, 0, <<h>>)
    BY <1>8, <1>b, SendFinIs
  <2>2. t = s \/ h \in T
    BY <1>8, <1>s, <2>1
  <2>3. QED
    BY <1>a, <2>1, <2>2
<1>9. ASSUME NEW s \in Sides, RecvFinAck(s) PROVE net'[t] \in Seq(T)
  <2>1. Exchange(s, 1, <<>>) /\ net[s] # <<>> /\ <<>> \in Seq(Packet)
    BY <1>9 DEF RecvFinAck, Arrived
  <2>2. QED
    BY <1>e, <1>t, <2>1
<1>10. ASSUME NEW s \in Sides, SocketClose(s) PROVE net'[t] \in Seq(T)
  <2>1. PICK h \in Packet : h = Header(NetEof, 0, 0, sent[s])
    <3>1. 0 \in Numbers /\ sent[s] \in Nat
      BY <1>b, WidthType, PosTypes DEF Numbers, Width
    <3>2. QED
      BY <3>1, AckOk, HeaderType
  <2>2. h.flags = NetEof /\ h.data = <<>>
    BY <2>1 DEF Header
  <2>3. /\ net'[s] = <<>>
        /\ net'[Peer(s)] = IF gone[Peer(s)] THEN net[Peer(s)] ELSE Append(net[Peer(s)], h)
    BY <1>10, <1>b, <2>1, PeerIs DEF SocketClose
  <2>4. CASE t = s
    BY <1>e, <2>3, <2>4
  <2>5. CASE t # s
    <3>1. t = Peer(s) /\ h \in T
      BY <1>10, <1>s, <2>2, <2>5
    <3>2. Append(net[t], h) \in Seq(T)
      BY <3>1, AppendProperties
    <3>3. QED
      BY <2>3, <3>1, <3>2
  <2>6. QED
    BY <2>4, <2>5
<1>11. CASE UNCHANGED vars
  BY <1>11 DEF vars
<1>12. QED
  BY <1>1, <1>2, <1>3, <1>4, <1>5, <1>6, <1>7, <1>8, <1>9, <1>10, <1>11
     DEF Next, Handshake, Transport

(* Which action moves what.                                                 *)
LEMMA WhoMoves ==
  ASSUME TypeOK, [Next]_vars, NEW t \in Sides
  PROVE  /\ (got'[t] = got[t] /\ eof'[t] = eof[t] /\ flags'[t] = flags[t]) \/ RecvPacket(t)
         /\ \/ (appq'[t] = appq[t] /\ sent'[t] = sent[t]) \/ SendData(t)
            \/ (sent'[t] = sent[t] /\ \E n \in Chunks : AppWrite(t, n))
         /\ written'[t] = written[t] \/ \E n \in Chunks : AppWrite(t, n)
         /\ closed'[t] = closed[t] \/ AppClose(t)
         /\ closed[t] => closed'[t]
<1> DEFINE Moves ==
         /\ (got'[t] = got[t] /\ eof'[t] = eof[t] /\ flags'[t] = flags[t]) \/ RecvPacket(t)
         /\ \/ (appq'[t] = appq[t] /\ sent'[t] = sent[t]) \/ SendData(t)
            \/ (sent'[t] = sent[t] /\ \E n \in Chunks : AppWrite(t, n))
         /\ written'[t] = written[t] \/ \E n \in Chunks : AppWrite(t, n)
         /\ closed'[t] = closed[t] \/ AppClose(t)
         /\ closed[t] => closed'[t]
<1>1. ASSUME UNCHANGED <<got, eof, flags, appq, sent, written, closed>> PROVE Moves
  BY <1>1
<1>2. ASSUME Handshake PROVE Moves
  BY <1>1, <1>2 DEF Handshake, SendSyn, RecvSyn, RecvSynAck, RecvHandshakeAck, appVars, upVars
<1>3. ASSUME NEW s \in Sides, RecvNothing(s) \/ SendFin(s) \/ RecvFinAck(s) \/ SocketClose(s)
      PROVE  Moves
  BY <1>1, <1>3 DEF RecvNothing, SendFin, RecvFinAck, SocketClose, appVars, upVars
<1>4. ASSUME NEW s \in Sides, SendData(s) PROVE Moves
  <2>1. /\ UNCHANGED <<got, eof, flags, written, closed>>
        /\ t # s => appq'[t] = appq[t] /\ sent'[t] = sent[t]
    BY <1>4 DEF SendData, upVars, TypeOK
  <2>2. QED
    BY <1>4, <2>1
<1>5. ASSUME NEW s \in Sides, RecvPacket(s) PROVE Moves
  <2>1. /\ UNCHANGED <<appq, sent, written, closed>>
    BY <1>5 DEF RecvPacket, appVars
  <2>2. t # s => got'[t] = got[t] /\ flags'[t] = flags[t]
    <3>1. /\ flags' = [flags EXCEPT ![s] = net[s][1].flags]
          /\ got' = [got EXCEPT ![s] = @ \o Copied(net[s][1].data)]
      BY <1>5, RecvPacketIs, Zenon
    <3>2. QED
      BY <3>1 DEF TypeOK
  <2>3. t # s => eof'[t] = eof[t]
    <3>1. eof' = eof \/ eof' = [eof EXCEPT ![s] = TRUE]
      BY <1>5, RecvPacketIs, Zenon
    <3>2. QED
      BY <3>1 DEF TypeOK
  <2>4. QED
    BY <1>5, <2>1, <2>2, <2>3
<1>6. ASSUME NEW s \in Sides, NEW n \in Chunks, AppWrite(s, n) PROVE Moves
  <2>1. /\ UNCHANGED <<got, eof, flags, sent, closed>>
        /\ t # s => appq'[t] = appq[t] /\ written'[t] = written[t]
    BY <1>6 DEF AppWrite, upVars, TypeOK
  <2>2. QED
    BY <1>6, <2>1
<1>7. ASSUME NEW s \in Sides, AppClose(s) PROVE Moves
  <2>1. /\ UNCHANGED <<got, eof, flags, appq, sent, written>>
        /\ t # s => closed'[t] = closed[t]
        /\ closed[t] => closed'[t]
    BY <1>7 DEF AppClose, upVars, TypeOK
  <2>2. QED
    BY <1>7, <2>1
<1>8. CASE UNCHANGED vars
  BY <1>1, <1>8 DEF vars, appVars, upVars
<1>9. Moves
  BY <1>2, <1>3, <1>4, <1>5, <1>6, <1>7, <1>8 DEF Next, Transport, App
<1>10. QED
  BY <1>9

------------------------------------------------------------------------------
(* What the bytes are                                                       *)

(* Pieces that hold the bytes of side s's stream at their positions.        *)
TextOf(S, s) == {e \in S : \A i \in 1 .. Len(e.data) : e.data[i] = Byte(s, e.from + i)}

TextInv ==
  \A s \in Sides :
    /\ net[s] \in Seq(TextOf(Packet, Peer(s)))
    /\ appq[s] \in Seq(TextOf(Chunk, s))
    /\ ~closed[s] => \A i \in 1 .. Len(got[s]) :
         got[s][i] \in (IF Nuls = {} THEN {Byte(Peer(s), i)} ELSE {0, Byte(Peer(s), i)})

LEMMA InitText == Init => TextInv
<1> SUFFICES ASSUME Init, NEW s \in Sides
             PROVE  /\ net[s] \in Seq(TextOf(Packet, Peer(s)))
                    /\ appq[s] \in Seq(TextOf(Chunk, s))
                    /\ \A i \in 1 .. Len(got[s]) : FALSE
  BY DEF TextInv
<1>1. net[s] = <<>> /\ appq[s] = <<>> /\ got[s] = <<>>
  BY DEF Init
<1>2. \A S : <<>> \in Seq(S)
  OBVIOUS
<1>3. QED
  BY <1>1, <1>2

(* A piece of a chunk keeps its place.                                      *)
LEMMA CutText ==
  ASSUME TypeOK, PosInv, NEW s \in Sides, appq[s] # <<>>, NEW n \in Nat,
         n =< Len(appq[s][1].data), appq[s][1] \in TextOf(Chunk, s)
  PROVE  /\ appq[s][1].from = sent[s]
         /\ SentPiece(s, n) \in Packet => SentPiece(s, n) \in TextOf(Packet, s)
         /\ Rest(appq[s][1].data, n, sent[s] + n) \in Chunk
              => Rest(appq[s][1].data, n, sent[s] + n) \in TextOf(Chunk, s)
<1>1. /\ appq[s] \in Seq(Chunk) /\ sent[s] \in Nat /\ written[s] \in Nat
  BY PosTypes
<1>2. /\ Linked(appq[s], written[s]) /\ Bound(appq[s], 1, written[s]) = sent[s]
  BY DEF PosInv, Out
<1>3. appq[s][1].from = sent[s]
  BY <1>1, <1>2, TailLinked, PacketPieces
<1>4. PICK d \in Seq(Nat) : d = appq[s][1].data
  BY DEF TextOf, Chunk
<1>5. \A i \in 1 .. Len(d) : d[i] = Byte(s, sent[s] + i)
  BY <1>3, <1>4 DEF TextOf
<1>6. /\ Len(SubSeq(d, 1, n)) = n /\ \A i \in 1 .. n : SubSeq(d, 1, n)[i] = d[i]
      /\ Len(SubSeq(d, n + 1, Len(d))) = Len(d) - n
      /\ \A i \in 1 .. Len(d) - n : SubSeq(d, n + 1, Len(d))[i] = d[n + i]
      /\ Len(d) \in Nat
  BY <1>4, SplitIs
<1>7. ASSUME SentPiece(s, n) \in Packet PROVE SentPiece(s, n) \in TextOf(Packet, s)
  <2>1. PICK e \in Packet : e = SentPiece(s, n)
    BY <1>7
  <2>2. PICK x : x = SubSeq(d, 1, n)
    OBVIOUS
  <2>3. e.from = sent[s] /\ e.data = x
    BY <1>4, <2>1, <2>2 DEF SentPiece
  <2>4. ASSUME NEW i \in 1 .. Len(e.data) PROVE e.data[i] = Byte(s, e.from + i)
    <3>1. i \in 1 .. n /\ i \in 1 .. Len(d)
      BY <1>4, <1>6, <2>2, <2>3
    <3>2. x[i] = d[i]
      BY <1>6, <2>2, <3>1
    <3>3. QED
      BY <1>5, <2>3, <3>1, <3>2
  <2>5. QED
    BY <2>1, <2>4 DEF TextOf
<1>8. ASSUME Rest(d, n, sent[s] + n) \in Chunk PROVE Rest(d, n, sent[s] + n) \in TextOf(Chunk, s)
  <2>1. PICK e \in Chunk : e = Rest(d, n, sent[s] + n)
    BY <1>8
  <2>2. PICK x : x = SubSeq(d, n + 1, Len(d))
    OBVIOUS
  <2>3. e.from = sent[s] + n /\ e.data = x
    BY <2>1, <2>2 DEF Rest
  <2>4. ASSUME NEW i \in 1 .. Len(e.data) PROVE e.data[i] = Byte(s, e.from + i)
    <3>0. Len(e.data) = Len(d) - n /\ Len(d) \in Nat /\ n =< Len(d)
      BY <1>4, <1>6, <2>2, <2>3
    <3>1. i \in 1 .. Len(d) - n /\ n + i \in 1 .. Len(d)
      BY <3>0
    <3>2. x[i] = d[n + i]
      BY <1>6, <2>2, <3>1
    <3>3. PICK j \in 1 .. Len(d) : j = n + i
      BY <3>1
    <3>4. d[j] = Byte(s, sent[s] + j) /\ sent[s] + j = (sent[s] + n) + i
      BY <1>1, <1>5, <3>3
    <3>5. QED
      BY <2>3, <3>2, <3>3, <3>4
  <2>5. QED
    BY <2>1, <2>4 DEF TextOf
<1>9. QED
  BY <1>3, <1>4, <1>7, <1>8

LEMMA TextStep == Base /\ TextInv /\ [Next]_vars => TextInv'
<1> SUFFICES ASSUME Base, TextInv, [Next]_vars, NEW s \in Sides
             PROVE  /\ net'[s] \in Seq(TextOf(Packet, Peer(s)))
                    /\ appq'[s] \in Seq(TextOf(Chunk, s))
                    /\ ~closed'[s] => \A i \in 1 .. Len(got'[s]) :
                         got'[s][i] \in (IF Nuls = {} THEN {Byte(Peer(s), i)}
                                         ELSE {0, Byte(Peer(s), i)})
  BY DEF TextInv, TextOf, Byte
<1>b. TypeOK /\ PosInv /\ EndInv
  BY DEF Base
<1> DEFINE p == Peer(s)
           T == TextOf(Packet, p)
           C == TextOf(Chunk, s)
           Read(i) == IF Nuls = {} THEN {Byte(p, i)} ELSE {0, Byte(p, i)}
<1>p. p \in Sides /\ Peer(p) = s
  BY PeerIs
<1>t. net[s] \in Seq(T) /\ appq[s] \in Seq(C) /\ appq[p] \in Seq(TextOf(Chunk, p))
  BY <1>p DEF TextInv
<1>g. ~closed[s] => \A i \in 1 .. Len(got[s]) : got[s][i] \in Read(i)
  BY DEF TextInv
<1>1. net'[s] \in Seq(T)
  <2>1. \A e \in Packet : e.data = <<>> => e \in T
    BY DEF TextOf
  <2>2. ASSUME NEW n \in Nat, SendData(p), SentPiece(p, n) \in Packet,
               n =< Len(appq[p][1].data)
        PROVE  SentPiece(p, n) \in T
    <3>1. appq[p] # <<>>
      BY <2>2 DEF SendData
    <3>2. appq[p][1] \in TextOf(Chunk, p)
      BY <1>t, <3>1, TailIn
    <3>3. QED
      BY <1>b, <1>p, <2>2, <3>1, <3>2, CutText
  <2>3. \A n \in Nat : (/\ SendData(p) /\ SentPiece(p, n) \in Packet
                        /\ n =< Len(appq[p][1].data)) => SentPiece(p, n) \in T
    <3> HIDE DEF T, p
    <3>1. QED
      BY <2>2
  <2>4. /\ \A e \in Packet : e.flags \in {{"ACK"}, {"SYN"}, {"SYN", "ACK"}} /\ e.data = <<>>
                              => e \in T
        /\ \A e \in Packet : (/\ SendFin(p) /\ e.flags = {"FIN"} /\ e.data = <<>>
                              /\ e.from = sent[p]) => e \in T
        /\ \A e \in Packet : SocketClose(p) /\ e.flags = NetEof /\ e.data = <<>>
                              => e \in T
    <3> HIDE DEF T, p
    <3>1. QED
      BY <2>1
  <2> HIDE DEF T
  <2>5. QED
    BY <1>t, <2>3, <2>4, QueueStep
<1>2. appq'[s] \in Seq(C)
  <2>1. CASE appq'[s] = appq[s]
    BY <1>t, <2>1
  <2>2. CASE SendData(s)
    <3>1. PICK n \in Nat :
           /\ n = IF Len(appq[s][1].data) < MSS THEN Len(appq[s][1].data) ELSE MSS
           /\ appq[s][1] \in Chunk /\ appq[s] # <<>>
           /\ Rest(appq[s][1].data, n, sent[s] + n) \in Chunk
           /\ appq' = [appq EXCEPT ![s] =
                IF n = Len(appq[s][1].data) THEN Tail(@)
                ELSE [@ EXCEPT ![1] = Rest(appq[s][1].data, n, sent[s] + n)]]
      BY <1>b, <2>2, SendDataIs
    <3>2. n =< Len(appq[s][1].data)
      BY <3>1, CutIs DEF Chunk
    <3>3. appq[s][1] \in C /\ Tail(appq[s]) \in Seq(C)
      <4> HIDE DEF C
      <4>1. QED
        BY <1>t, <3>1, TailIn
    <3>4. PICK r \in C : r = Rest(appq[s][1].data, n, sent[s] + n)
      BY <1>b, <3>1, <3>2, <3>3, CutText
    <3>5. appq'[s] = IF n = Len(appq[s][1].data) THEN Tail(appq[s]) ELSE [appq[s] EXCEPT ![1] = r]
      BY <1>b, <3>1, <3>4 DEF TypeOK
    <3>6. [appq[s] EXCEPT ![1] = r] \in Seq(C)
      <4> HIDE DEF C
      <4>1. 1 \in 1 .. Len(appq[s])
        BY <1>t, <3>1, EmptySeq
      <4>2. QED
        BY <1>t, <4>1, ExceptSeq
    <3>7. QED
      BY <3>3, <3>5, <3>6
  <2>3. ASSUME NEW n \in Chunks, AppWrite(s, n) PROVE appq'[s] \in Seq(C)
    <3>1. n \in Nat /\ written[s] \in Nat
      BY <1>b, StreamAssumption, PosTypes
    <3>2. PICK d : d = [i \in 1 .. n |-> Byte(s, written[s] + i)]
      OBVIOUS
    <3>3. /\ d \in Seq(Nat) /\ Len(d) = n
          /\ \A i \in 1 .. n : d[i] = Byte(s, written[s] + i)
      <4>1. \A i \in 1 .. n : Byte(s, written[s] + i) \in Nat
        BY <3>1 DEF Byte
      <4>2. QED
        BY <3>1, <3>2, <4>1
    <3>4. PICK c \in Chunk : c = [from |-> written[s], data |-> d]
      <4>1. [from |-> written[s], data |-> d] \in Chunk
        BY <3>1, <3>3 DEF Chunk
      <4>2. QED
        BY <4>1
    <3>5. c \in C
      BY <3>3, <3>4 DEF TextOf
    <3>6. appq'[s] = Append(appq[s], c)
      BY <1>b, <2>3, <3>2, <3>4 DEF AppWrite, TypeOK
    <3> HIDE DEF C
    <3>7. QED
      BY <1>t, <3>5, <3>6, AppendProperties
  <2>4. QED
    BY <1>b, <2>1, <2>2, <2>3, WhoMoves
<1>3. ASSUME ~closed'[s] PROVE \A i \in 1 .. Len(got'[s]) : got'[s][i] \in Read(i)
  <2>1. ~closed[s]
    BY <1>3, <1>b, WhoMoves
  <2>2. CASE got'[s] = got[s]
    BY <1>g, <2>1, <2>2
  <2>3. CASE RecvPacket(s)
    <3>1. got' = [got EXCEPT ![s] = @ \o Copied(net[s][1].data)]
      BY <1>b, <2>3, RecvPacketIs, Zenon
    <3>2. /\ net[s] # <<>> /\ net[s] \in Seq(Packet)
          /\ net[s][1].data \in Seq(Nat) /\ net[s][1].from \in Nat
      BY <1>b, <2>3, FirstPacket DEF RecvPacket
    <3>3. PICK u \in Seq(Nat), d \in Seq(Nat), v \in Seq(Nat), k \in Nat :
            u = got[s] /\ d = net[s][1].data /\ v = Copied(d) /\ k = Len(u)
      BY <1>b, <3>2, CopiedIs, PosTypes
    <3>4. got'[s] = u \o v
      BY <1>b, <3>1, <3>3 DEF TypeOK
    <3>5. /\ Len(v) = Len(d) /\ Len(d) \in Nat
          /\ \A i \in 1 .. Len(d) : v[i] \in {0, d[i]}
          /\ (\A j \in 1 .. Len(d) : d[j] # 0) => \A i \in 1 .. Len(d) : v[i] = d[i]
      <4>1. /\ Len(Copied(d)) = Len(d)
            /\ \A i \in 1 .. Len(d) : Copied(d)[i] \in {0, d[i]}
            /\ (\A j \in 1 .. Len(d) : d[j] # 0) => \A i \in 1 .. Len(d) : Copied(d)[i] = d[i]
        BY CopiedIs
      <4>2. v = Copied(d)
        BY <3>3
      <4>3. Len(d) \in Nat
        OBVIOUS
      <4>4. QED
        BY <4>1, <4>2, <4>3, Zenon
    <3>6. net[s][1].from = k
      <4>1. Flow(net[s], sent[p], Len(got[s]), closed[s]) /\ sent[p] \in Nat
        BY <1>b, <1>p, PosTypes DEF PosInv, In
      <4>2. QED
        BY <2>1, <3>2, <3>3, <4>1, FlowTail
    <3>7. \A i \in 1 .. Len(d) : d[i] = Byte(p, k + i)
      <4>1. net[s][1] \in T
        <5> HIDE DEF T
        <5>1. QED
          BY <1>t, <3>2, TailIn
      <4>2. QED
        BY <3>3, <3>6, <4>1 DEF TextOf
    <3>8. \A i \in 1 .. Len(d) : v[i] \in Read(k + i)
      <4>1. CASE Nuls = {}
        <5>1. \A j \in 1 .. Len(d) : d[j] # 0
          BY <3>5, <3>7, <4>1 DEF Byte
        <5>2. QED
          BY <3>5, <3>7, <4>1, <5>1
      <4>2. CASE Nuls # {}
        BY <3>5, <3>7, <4>2
      <4>3. QED
        BY <4>1, <4>2
    <3>9. /\ Len(u \o v) = k + Len(d)
          /\ \A i \in 1 .. k + Len(d) : (u \o v)[i] = IF i <= k THEN u[i] ELSE v[i - k]
      <4>1. /\ Len(u \o v) = Len(u) + Len(v)
            /\ \A i \in 1 .. Len(u) + Len(v) :
                 (u \o v)[i] = IF i <= Len(u) THEN u[i] ELSE v[i - Len(u)]
        BY ConcatProperties
      <4>2. Len(u) = k /\ Len(v) = Len(d)
        BY <3>3, <3>5
      <4>3. QED
        BY <4>1, <4>2
    <3>10. ASSUME NEW i \in 1 .. k + Len(d) PROVE (u \o v)[i] \in Read(i)
      <4> HIDE DEF Read
      <4>1. CASE i <= k
        <5>1. i \in 1 .. k
          BY <4>1
        <5>2. u[i] \in Read(i)
          BY <1>g, <2>1, <3>3, <5>1
        <5>3. QED
          BY <3>9, <4>1, <5>2
      <4>2. CASE ~(i <= k)
        <5>1. PICK j \in 1 .. Len(d) : j = i - k
          BY <3>5, <4>2
        <5>2. v[j] \in Read(k + j) /\ k + j = i
          <6>1. v[j] \in Read(k + j)
            BY <3>8, Zenon
          <6>2. k + j = i
            BY <5>1
          <6>3. QED
            BY <6>1, <6>2
        <5>3. (u \o v)[i] = v[j]
          BY <3>9, <4>2, <5>1
        <5>4. QED
          BY <5>2, <5>3
      <4>3. QED
        BY <4>1, <4>2
    <3> HIDE DEF Read
    <3>11. QED
      BY <3>4, <3>9, <3>10
  <2>4. QED
    BY <1>b, <2>2, <2>3, WhoMoves
<1>4. QED
  BY <1>1, <1>2, <1>3

LEMMA TextHolds == Spec => [](Base /\ TextInv)
<1>1. Init => Base /\ TextInv
  BY InitBase, InitText
<1>2. Base /\ TextInv /\ [Next]_vars => Base' /\ TextInv'
  BY BaseStep, TextStep
<1>3. QED
  BY <1>1, <1>2, PTL DEF Spec

(* An application reads a prefix of what its peer wrote, for streams        *)
(* without NUL bytes, however they are cut into writes and segments.        *)
THEOREM ReadsPrefix == ASSUME Nuls = {} PROVE Spec => []PrefixRead
<1>1. Base /\ TextInv => PrefixRead
  <2>1. SUFFICES ASSUME Base, TextInv, NEW s \in Sides, ~closed[s]
                 PROVE  /\ Len(got[s]) <= written[Peer(s)]
                        /\ \A i \in 1 .. Len(got[s]) : got[s][i] = Byte(Peer(s), i)
    BY DEF PrefixRead
  <2>2. TypeOK /\ PosInv /\ Peer(s) \in Sides
    BY <2>1, PeerIs DEF Base
  <2>3. /\ Len(got[s]) \in Nat /\ sent[Peer(s)] \in Nat /\ written[Peer(s)] \in Nat
        /\ Len(got[s]) =< sent[Peer(s)] /\ sent[Peer(s)] =< written[Peer(s)]
    BY <2>1, <2>2, PosFacts, PosTypes
  <2>4. \A i \in 1 .. Len(got[s]) : got[s][i] = Byte(Peer(s), i)
    BY <2>1 DEF TextInv
  <2>5. QED
    BY <2>3, <2>4
<1>2. QED
  BY <1>1, TextHolds, PTL

------------------------------------------------------------------------------
(* What a FIN says                                                          *)

(* The packets that are no FIN, and those whose FIN stands at position n     *)
(* with no data.                                                            *)
NoFin == {e \in Packet : e.flags \notin Fins}
FinAt(n) == {e \in Packet : e.flags \in Fins => e.data = <<>> /\ e.from = n}

(* No FIN is on its way, and none has been left behind in a Header.         *)
Quiet == \A s \in Sides : flags[s] \notin Fins /\ net[s] \in Seq(NoFin)

(* Side s has closed and all that it wrote is sent.                         *)
Through(s) == closed[s] /\ appq[s] = <<>>

(* A FIN that a side may still read stands behind all that its peer wrote.  *)
FinInv ==
  \A s \in Sides : ~closed[s] =>
    /\ Quiet \/ Through(Peer(s))
    /\ net[s] \in Seq(FinAt(written[Peer(s)]))
    /\ eof[s] => Through(Peer(s)) /\ Len(got[s]) = written[Peer(s)]

LEMMA InitFin == ASSUME Init, clean PROVE FinInv
<1>1. \A s \in Sides : flags[s] \notin Fins /\ net[s] = <<>> /\ ~eof[s]
  BY DEF Init
<1>2. \A S : <<>> \in Seq(S)
  OBVIOUS
<1>3. QED
  BY <1>1, <1>2 DEF FinInv, Quiet

LEMMA ThroughStays ==
  ASSUME Base, [Next]_vars, NEW p \in Sides, Through(p)
  PROVE  Through(p)' /\ written'[p] = written[p]
<1>1. TypeOK /\ closed[p] /\ appq[p] = <<>>
  BY DEF Base, Through
<1>2. ~SendData(p) /\ \A n \in Chunks : ~AppWrite(p, n)
  BY <1>1 DEF SendData, AppWrite
<1>3. QED
  BY <1>1, <1>2, WhoMoves DEF Through

(* A FIN is first sent by a side that has closed and has nothing to send.   *)
LEMMA QuietStays ==
  ASSUME Base, Quiet, [Next]_vars, \A s \in Sides : ~SendFin(s)
  PROVE  Quiet'
<1>1. SUFFICES ASSUME NEW t \in Sides PROVE flags'[t] \notin Fins /\ net'[t] \in Seq(NoFin)
  BY DEF Quiet, NoFin, Fins
<1>2. TypeOK /\ Peer(t) \in Sides
  BY PeerIs DEF Base
<1>3. flags[t] \notin Fins /\ net[t] \in Seq(NoFin) /\ flags[Peer(t)] \notin Fins
  BY <1>2 DEF Quiet
<1>4. flags'[t] \notin Fins
  <2>1. CASE flags'[t] = flags[t]
    BY <1>3, <2>1
  <2>2. CASE RecvPacket(t)
    <3>1. flags' = [flags EXCEPT ![t] = net[t][1].flags] /\ net[t] # <<>>
      <4>1. net[t] # <<>>
        BY <2>2 DEF RecvPacket, Arrived
      <4>2. QED
        BY <1>2, <2>2, <4>1, RecvPacketIs, Zenon
    <3>2. net[t][1] \in NoFin
      BY <1>3, <3>1, TailIn
    <3>3. flags'[t] = net[t][1].flags
      BY <1>2, <3>1 DEF TypeOK
    <3>4. QED
      BY <3>2, <3>3 DEF NoFin
  <2>3. QED
    BY <1>2, <2>1, <2>2, WhoMoves
<1>5. net'[t] \in Seq(NoFin)
  <2>1. \A e \in Packet : e.flags \notin Fins => e \in NoFin
    BY DEF NoFin
  <2>2. /\ {"ACK"} \notin Fins /\ {"SYN"} \notin Fins /\ {"SYN", "ACK"} \notin Fins
        /\ NetEof \notin Fins
    BY DEF Fins, NetEof
  <2>3. \A n : SentPiece(Peer(t), n) \in Packet => SentPiece(Peer(t), n) \in NoFin
    <3>1. \A n : SentPiece(Peer(t), n).flags = flags[Peer(t)]
      BY DEF SentPiece
    <3>2. QED
      BY <1>3, <2>1, <3>1
  <2>4. /\ \A e \in Packet : e.flags \in {{"ACK"}, {"SYN"}, {"SYN", "ACK"}} /\ e.data = <<>>
                              => e \in NoFin
        /\ \A e \in Packet : SocketClose(Peer(t)) /\ e.flags = NetEof /\ e.data = <<>>
                              => e \in NoFin
    BY <2>1, <2>2
  <2>5. ~SendFin(Peer(t))
    BY <1>2
  <2>6. QED
    BY <1>3, <2>3, <2>4, <2>5, QueueStep
<1>6. QED
  BY <1>4, <1>5

(* Nobody has received more than was written.                               *)
LEMMA PosBound ==
  TypeOK /\ PosInv => \A s \in Sides :
    /\ Len(got[s]) \in Nat /\ written[Peer(s)] \in Nat
    /\ ~closed[s] => Len(got[s]) =< written[Peer(s)]
<1> SUFFICES ASSUME TypeOK, PosInv, NEW s \in Sides
             PROVE  /\ Len(got[s]) \in Nat /\ written[Peer(s)] \in Nat
                    /\ ~closed[s] => Len(got[s]) =< written[Peer(s)]
  OBVIOUS
<1>1. Peer(s) \in Sides
  BY PeerIs
<1>2. /\ Len(got[s]) \in Nat /\ written[Peer(s)] \in Nat /\ sent[Peer(s)] \in Nat
  BY <1>1, PosTypes
<1>3. /\ ~closed[s] => Len(got[s]) =< sent[Peer(s)]
      /\ sent[Peer(s)] =< written[Peer(s)]
  BY <1>1, PosFacts
<1>4. QED
  BY <1>2, <1>3

LEMMA PosNext ==
  TypeOK' /\ PosInv' => \A s \in Sides :
    /\ Len(got'[s]) \in Nat /\ written'[Peer(s)] \in Nat
    /\ ~closed'[s] => Len(got'[s]) =< written'[Peer(s)]
<1>1. (TypeOK /\ PosInv => \A s \in Sides :
         /\ Len(got[s]) \in Nat /\ written[Peer(s)] \in Nat
         /\ ~closed[s] => Len(got[s]) =< written[Peer(s)])'
  BY PosBound, PTL
<1>2. QED
  BY <1>1 DEF Peer

LEMMA FinStep == Base /\ FinInv /\ [Next]_vars => FinInv'
<1> SUFFICES ASSUME Base, FinInv, [Next]_vars, NEW s \in Sides, ~closed'[s]
             PROVE  /\ Quiet' \/ Through(Peer(s))'
                    /\ net'[s] \in Seq(FinAt(written'[Peer(s)]))
                    /\ eof'[s] => Through(Peer(s))' /\ Len(got'[s]) = written'[Peer(s)]
  BY DEF FinInv, FinAt, Fins, Through, Quiet, NoFin
<1> DEFINE p == Peer(s)
<1>b. TypeOK /\ PosInv /\ EndInv
  BY DEF Base
<1>b2. TypeOK' /\ PosInv'
  BY BaseStep DEF Base
<1>p. p \in Sides /\ Peer(p) = s /\ \A t \in Sides : t = s \/ t = p
  BY PeerIs DEF Sides, Peer
<1>c. ~closed[s]
  BY <1>b, WhoMoves
<1>i. /\ Quiet \/ Through(p)
      /\ net[s] \in Seq(FinAt(written[p]))
      /\ eof[s] => Through(p) /\ Len(got[s]) = written[p]
  BY <1>c DEF FinInv
<1>f. SendFin(p) => Through(p) /\ sent[p] = written[p]
  <2>1. SendFin(p) => closeReq[p] /\ appq[p] = <<>>
    BY DEF SendFin
  <2>2. closeReq[p] => closed[p]
    BY <1>b, <1>p DEF EndInv, Ended
  <2>3. appq[p] = <<>> => sent[p] = written[p]
    BY <1>b, <1>p, PosFacts
  <2>4. QED
    BY <2>1, <2>2, <2>3 DEF Through
<1>s. ~SendFin(s)
  BY <1>b, <1>c DEF SendFin, EndInv, Ended
<1>1. Quiet' \/ Through(p)'
  <2>1. CASE Through(p)
    BY <1>p, <2>1, ThroughStays
  <2>2. CASE ~Through(p)
    <3>1. Quiet /\ \A t \in Sides : ~SendFin(t)
      BY <1>f, <1>i, <1>p, <1>s, <2>2
    <3>2. QED
      BY <3>1, QuietStays
  <2>3. QED
    BY <2>1, <2>2
<1>2. net'[s] \in Seq(FinAt(written'[p]))
  <2>1. CASE written'[p] = written[p]
    <3> DEFINE T == FinAt(written[p])
    <3>1. \A e \in Packet : e.flags \notin Fins => e \in T
      BY DEF FinAt
    <3>2. \A e \in Packet : e.data = <<>> /\ e.from = written[p] => e \in T
      BY DEF FinAt
    <3>3. /\ {"ACK"} \notin Fins /\ {"SYN"} \notin Fins /\ {"SYN", "ACK"} \notin Fins
          /\ NetEof \notin Fins
      BY DEF Fins, NetEof
    <3>4. SendData(p) => flags[p] \notin Fins
      BY <1>i, <1>p DEF SendData, Through, Quiet
    <3>5. \A n : SentPiece(p, n).flags = flags[p]
      BY DEF SentPiece
    <3> HIDE DEF T
    <3>6. \A n \in Nat : (/\ SendData(p) /\ SentPiece(p, n) \in Packet
                          /\ n =< Len(appq[p][1].data)) => SentPiece(p, n) \in T
      BY <3>1, <3>4, <3>5
    <3>7. \A e \in Packet : e.flags \in {{"ACK"}, {"SYN"}, {"SYN", "ACK"}} /\ e.data = <<>>
                              => e \in T
      BY <3>1, <3>3
    <3>8. \A e \in Packet : (/\ SendFin(p) /\ e.flags = {"FIN"} /\ e.data = <<>>
                             /\ e.from = sent[p]) => e \in T
      BY <1>f, <3>2
    <3>9. \A e \in Packet : SocketClose(p) /\ e.flags = NetEof /\ e.data = <<>> => e \in T
      BY <3>1, <3>3
    <3>10. net[s] \in Seq(T)
      BY <1>i DEF T
    <3>11. net'[s] \in Seq(T)
      BY <3>6, <3>7, <3>8, <3>9, <3>10, QueueStep
    <3>12. QED
      BY <2>1, <3>11 DEF T
  <2>2. ASSUME NEW n \in Chunks, AppWrite(p, n) PROVE net'[s] \in Seq(FinAt(written'[p]))
    <3>1. Quiet /\ net' = net
      BY <1>i, <2>2 DEF AppWrite, Through
    <3>2. NoFin \subseteq FinAt(written'[p])
      BY DEF NoFin, FinAt
    <3>3. net[s] \in Seq(NoFin)
      BY <3>1 DEF Quiet
    <3>4. QED
      BY <3>1, <3>2, <3>3, SeqMonotonic
  <2>3. QED
    BY <1>b, <1>p, <2>1, <2>2, WhoMoves
<1>3. ASSUME eof'[s] PROVE Through(p)' /\ Len(got'[s]) = written'[p]
  <2>1. /\ Len(got[s]) \in Nat /\ Len(got'[s]) \in Nat /\ written'[p] \in Nat
        /\ Len(got'[s]) =< written'[p]
    <3>1. /\ Len(got'[s]) =< written'[p] /\ Len(got'[s]) \in Nat /\ written'[p] \in Nat
      BY <1>b2, <1>p, PosNext
    <3>2. Len(got[s]) \in Nat
      BY <1>b, PosTypes
    <3>3. QED
      BY <3>1, <3>2
  <2>2. Through(p) /\ written[p] = Len(got[s]) /\ written[p] \in Nat
    <3>1. written[p] \in Nat
      BY <1>b, <1>p, PosTypes
    <3>2. CASE eof[s]
      BY <1>i, <3>1, <3>2
    <3>3. CASE ~eof[s]
      <4>1. RecvPacket(s)
        BY <1>3, <1>b, <3>3, WhoMoves
      <4>2. net[s] # <<>> /\ net[s] \in Seq(Packet) /\ net[s][1] \in Packet
        BY <1>b, <4>1, FirstPacket DEF RecvPacket
      <4>3. IsFin(net[s][1])
        <5>1. IF IsFin(net[s][1]) THEN TRUE ELSE eof' = eof
          BY <1>b, <4>1, RecvPacketIs, Zenon
        <5>2. QED
          BY <1>3, <3>3, <5>1
      <4>4. net[s][1].flags \in Fins
        BY <4>3 DEF IsFin, Fins
      <4>5. net[s][1].data = <<>> /\ net[s][1].from = written[p]
        <5>1. net[s][1] \in FinAt(written[p])
          BY <1>i, <4>2, TailIn
        <5>2. QED
          BY <4>4, <5>1 DEF FinAt
      <4>6. ~Quiet
        <5>1. ASSUME Quiet PROVE FALSE
          <6>1. net[s] \in Seq(NoFin)
            BY <5>1 DEF Quiet
          <6>2. net[s][1] \in NoFin
            BY <4>2, <6>1, TailIn
          <6>3. QED
            BY <4>4, <6>2 DEF NoFin
        <5>2. QED
          BY <5>1
      <4>7. net[s][1].from = Len(got[s])
        <5>1. Flow(net[s], sent[p], Len(got[s]), closed[s]) /\ sent[p] \in Nat
          BY <1>b, <1>p, PosTypes DEF PosInv, In
        <5>2. Len(got[s]) \in Nat
          BY <1>b, PosTypes
        <5>3. QED
          BY <1>c, <4>2, <5>1, <5>2, FlowTail
      <4>8. QED
        BY <1>i, <3>1, <4>5, <4>6, <4>7
    <3>4. QED
      BY <3>2, <3>3
  <2>3. Len(got[s]) =< Len(got'[s])
    <3>1. CASE got'[s] = got[s]
      BY <2>1, <3>1
    <3>2. CASE RecvPacket(s)
      <4>1. got' = [got EXCEPT ![s] = @ \o Copied(net[s][1].data)]
        BY <1>b, <3>2, RecvPacketIs, Zenon
      <4>2. /\ net[s] # <<>> /\ net[s][1].data \in Seq(Nat)
        BY <1>b, <3>2, FirstPacket DEF RecvPacket
      <4>3. PICK u \in Seq(Nat), v \in Seq(Nat) : u = got[s] /\ v = Copied(net[s][1].data)
        BY <1>b, <4>2, CopiedIs, PosTypes
      <4>4. got'[s] = u \o v
        BY <1>b, <4>1, <4>3 DEF TypeOK
      <4>5. Len(u \o v) = Len(u) + Len(v) /\ Len(u) \in Nat /\ Len(v) \in Nat
        OBVIOUS
      <4>6. QED
        <5>1. Len(u) =< Len(u \o v)
          BY <4>5
        <5>2. QED
          BY <4>3, <4>4, <5>1, Zenon
    <3>3. QED
      BY <1>b, <3>1, <3>2, WhoMoves
  <2>4. QED
    <3>1. Through(p)' /\ written'[p] = written[p]
      BY <1>p, <2>2, ThroughStays
    <3>2. QED
      BY <2>1, <2>2, <2>3, <3>1
<1>4. QED
  BY <1>1, <1>2, <1>3

(* No step changes what the stack held.                                     *)
LEMMA CleanStays == [Next]_vars => clean' = clean
<1>1. ASSUME NEW s \in Sides, Transport(s) PROVE clean' = clean
  BY <1>1 DEF Transport, SendData, RecvPacket, RecvNothing, SendFin, RecvFinAck
<1>2. ASSUME NEW s \in Sides, App(s) \/ SocketClose(s) PROVE clean' = clean
  BY <1>2 DEF App, AppWrite, AppClose, SocketClose
<1>3. Handshake => clean' = clean
  BY DEF Handshake, SendSyn, RecvSyn, RecvSynAck, RecvHandshakeAck
<1>4. QED
  BY <1>1, <1>2, <1>3 DEF Next, vars

LEMMA FinHolds == Spec => [](Base /\ (clean => FinInv))
<1>1. Init => Base /\ (clean => FinInv)
  BY InitBase, InitFin
<1>2. Base /\ (clean => FinInv) /\ [Next]_vars => Base' /\ (clean' => FinInv')
  BY BaseStep, FinStep, CleanStays
<1>3. QED
  BY <1>1, <1>2, PTL DEF Spec

(* End of file is reported only to a side whose peer has closed and whose   *)
(* bytes it all has, in every run in which no side's Header.th_flags held a *)
(* FIN before anything was stored there (transport.c:138): when one did,    *)
(* the first data segment is taken for the end.                             *)
THEOREM EofAtTheEnd == Spec => []EofComplete
<1>1. (clean => FinInv) => EofComplete
  BY DEF FinInv, Through, EofComplete
<1>2. QED
  BY <1>1, FinHolds, PTL

------------------------------------------------------------------------------
(* The end of a connection of client.c and server.c                         *)

(* The client has sent its FIN; the server has.                             *)
FinGone == pc["client"] \in {"finSent", "done"} \/ state["client"] = "FIN_WAIT_1"
Ending == pc["server"] \in {"finSent", "done"}

(* Who has closed what when: the client first, the server at end of file.   *)
Control ==
  /\ closed["server"] => eof["server"]
  /\ eof["server"] => closed["client"] /\ state["server"] = "FIN_WAIT_2" /\ FinGone
  /\ closed["client"] => appq["server"] = <<>> /\ written["server"] = Total["server"]
  /\ state["client"] # "FIN_WAIT_2"
  /\ FinGone => ~closeReq["client"]
  /\ pc["client"] = "done" => Ending
  /\ \A s \in Sides : gone[s] => pc[s] = "done"
  /\ \A s \in Sides : pc[s] # "undefined" /\ flags[s] # NetEof

(* The packets that neither end the stream nor the connection.              *)
NoEnd == {e \in Packet : e.flags # NetEof}
Ordinary == {e \in Packet : e.flags \notin Fins /\ e.flags # NetEof}

(* Behind m packets at least, a FIN comes before anything else that is not  *)
(* ordinary.                                                                *)
FinAfter(q, m) ==
  \E k \in 1 .. Len(q) :
    /\ k > m /\ q[k].flags \in Fins
    /\ \A j \in 1 .. k - 1 : q[j].flags \notin Fins /\ q[j].flags # NetEof

(* What is queued for each side.  While the client waits for the ACK of its *)
(* FIN, that ACK stands before the server's FIN (transport.c:207).          *)
Queues ==
  /\ pc["client"] # "done" => net["server"] \in Seq(NoEnd)
  /\ FinGone \/ net["server"] \in Seq(NoFin)
  /\ pc["client"] # "done" /\ Ending =>
       FinAfter(net["client"], IF pc["client"] = "finSent" THEN 1 ELSE 0)
  /\ pc["client"] # "done" /\ ~Ending =>
       /\ net["client"] \in Seq(Ordinary)
       /\ pc["client"] = "finSent" /\ eof["server"] => net["client"] # <<>>

LEMMA FinNotEof == /\ NetEof \notin Fins /\ {"ACK"} \notin Fins /\ {"SYN"} \notin Fins
                   /\ {"SYN", "ACK"} \notin Fins /\ {"FIN"} \in Fins
                   /\ {"ACK"} # NetEof /\ {"SYN"} # NetEof /\ {"SYN", "ACK"} # NetEof
                   /\ {"FIN"} # NetEof
BY DEF Fins, NetEof

LEMMA FinAfterHead ==
  ASSUME NEW q \in Seq(Packet), NEW m \in {0, 1}, FinAfter(q, m)
  PROVE  /\ q # <<>> /\ q[1].flags # NetEof
         /\ m = 1 => q[1].flags \notin Fins
         /\ q[1].flags \notin Fins => FinAfter(Tail(q), 0)
<1>1. PICK k \in 1 .. Len(q) :
        /\ k > m /\ q[k].flags \in Fins
        /\ \A j \in 1 .. k - 1 : q[j].flags \notin Fins /\ q[j].flags # NetEof
  BY DEF FinAfter
<1>2. q # <<>> /\ Len(q) \in Nat
  BY <1>1
<1>3. q[1].flags # NetEof /\ (m = 1 => q[1].flags \notin Fins)
  <2>1. CASE k = 1
    BY <1>1, <2>1, FinNotEof
  <2>2. CASE k # 1
    <3>1. 1 \in 1 .. k - 1
      BY <2>2
    <3>2. QED
      BY <1>1, <3>1
  <2>3. QED
    BY <2>1, <2>2
<1>4. ASSUME q[1].flags \notin Fins PROVE FinAfter(Tail(q), 0)
  <2>1. k # 1
    BY <1>1, <1>4
  <2>2. PICK i \in 1 .. Len(q) - 1 : i = k - 1 /\ i + 1 = k
    BY <1>2, <2>1
  <2>3. PICK r : r = Tail(q)
    OBVIOUS
  <2>4. /\ Len(r) = Len(q) - 1
        /\ \A j \in 1 .. Len(q) - 1 : r[j] = q[j + 1]
    BY <1>2, <2>3, HeadTailProperties
  <2>5. r[i].flags \in Fins
    BY <1>1, <2>2, <2>4
  <2>6. ASSUME NEW j \in 1 .. i - 1 PROVE r[j].flags \notin Fins /\ r[j].flags # NetEof
    <3>1. PICK l \in 1 .. k - 1 : l = j + 1
      BY <2>2
    <3>2. r[j] = q[l]
      BY <2>2, <2>4, <3>1, SMTT(30)
    <3>3. QED
      BY <1>1, <3>2, SMTT(30)
  <2>7. FinAfter(r, 0)
    <3>1. i \in 1 .. Len(r) /\ i > 0
      BY <1>2, <2>2, <2>4
    <3>2. QED
      BY <2>5, <2>6, <3>1 DEF FinAfter
  <2>8. QED
    BY <2>3, <2>7
<1>5. QED
  BY <1>2, <1>3, <1>4

LEMMA FinAfterConcat ==
  ASSUME NEW q \in Seq(Packet), NEW o \in Seq(Packet), NEW m \in {0, 1}, FinAfter(q, m)
  PROVE  FinAfter(q \o o, m) /\ FinAfter(q \o o, 0)
<1>1. PICK k \in 1 .. Len(q) :
        /\ k > m /\ q[k].flags \in Fins
        /\ \A j \in 1 .. k - 1 : q[j].flags \notin Fins /\ q[j].flags # NetEof
  BY DEF FinAfter
<1>2. PICK r : r = q \o o
  OBVIOUS
<1>3. /\ Len(q) \in Nat /\ Len(r) \in Nat /\ Len(r) >= Len(q)
      /\ \A j \in 1 .. Len(q) : r[j] = q[j]
  BY <1>2, ConcatProperties
<1>4. k \in 1 .. Len(r) /\ r[k].flags \in Fins /\ k > 0
  BY <1>1, <1>3
<1>5. \A j \in 1 .. k - 1 : r[j].flags \notin Fins /\ r[j].flags # NetEof
  BY <1>1, <1>3
<1>6. FinAfter(r, m) /\ FinAfter(r, 0)
  BY <1>1, <1>4, <1>5 DEF FinAfter
<1>7. QED
  BY <1>2, <1>6

LEMMA FinAfterNew ==
  ASSUME NEW q \in Seq(Ordinary), NEW f \in Packet, f.flags \in Fins, NEW m \in {0, 1},
         m = 1 => q # <<>>
  PROVE  FinAfter(q \o <<f>>, m)
<1>0. <<f>> \in Seq(Packet)
  OBVIOUS
<1>1. PICK o \in Seq(Packet) : o = <<f>>
  BY <1>0
<1>2. q \in Seq(Packet)
  BY SeqMonotonic DEF Ordinary
<1>3. Len(q) \in Nat /\ Len(o) = 1 /\ o[1] = f
  BY <1>1
<1>4. PICK r : r = q \o o
  OBVIOUS
<1>5. PICK k \in Nat : k = Len(q) + 1
  BY <1>3
<1>6. /\ Len(r) = k /\ \A j \in 1 .. k - 1 : r[j] = q[j]
      /\ r[k] = f
  <2>1. /\ Len(r) = Len(q) + Len(o)
        /\ \A j \in 1 .. Len(q) + Len(o) : r[j] = IF j <= Len(q) THEN q[j] ELSE o[j - Len(q)]
    BY <1>2, <1>4, ConcatProperties
  <2>2. Len(q) + Len(o) = k
    BY <1>3, <1>5
  <2>3. \A j \in 1 .. k : r[j] = IF j <= Len(q) THEN q[j] ELSE o[j - Len(q)]
    BY <2>1, <2>2
  <2>4. \A j \in 1 .. k - 1 : r[j] = q[j]
    BY <1>3, <1>5, <2>3
  <2>5. r[k] = o[k - Len(q)] /\ k - Len(q) = 1
    BY <1>3, <1>5, <2>3
  <2>6. QED
    BY <1>3, <2>1, <2>2, <2>4, <2>5
<1>7. k > m
  <2>1. q # <<>> => Len(q) > 0
    BY <1>2, EmptySeq
  <2>2. QED
    BY <1>3, <1>5, <2>1
<1>8. \A j \in 1 .. k - 1 : r[j].flags \notin Fins /\ r[j].flags # NetEof
  <2>1. TAKE j \in 1 .. k - 1
  <2>2. q[j] \in Ordinary
    BY <1>5, ElementOfSeq
  <2>3. QED
    BY <1>6, <2>2 DEF Ordinary
<1>9. FinAfter(r, m)
  BY <1>5, <1>6, <1>7, <1>8 DEF FinAfter
<1>10. QED
  BY <1>1, <1>4, <1>9

LEMMA InitScript == ASSUME Init, clean PROVE Control /\ Queues
<1>1. "client" \in Sides /\ "server" \in Sides /\ \A S : <<>> \in Seq(S)
  BY DEF Sides
<1>2. /\ \A s \in Sides : /\ pc[s] = "start" /\ state[s] = "ESTABLISHED" /\ net[s] = <<>>
                          /\ ~eof[s] /\ ~closed[s] /\ ~closeReq[s] /\ ~gone[s]
                          /\ flags[s] \in InitFlags
  BY DEF Init
<1>3. NetEof \notin InitFlags
  BY ChoiceAssumption DEF NetEof
<1>4. QED
  BY <1>1, <1>2, <1>3 DEF Control, Queues, FinGone, Ending

(* What a step may do to where a side stands.                               *)
LEMMA OwnStep ==
  ASSUME TypeOK, [Next]_vars, NEW t \in Sides
  PROVE  /\ \/ pc'[t] = pc[t] /\ state'[t] = state[t]
            \/ RecvPacket(t) \/ RecvNothing(t) \/ SendFin(t) \/ RecvFinAck(t)
            \/ /\ pc[t] \in {"start", "synSent", "synRcvd"} /\ state'[t] = state[t]
               /\ pc'[t] \in {"synSent", "synRcvd", "loop"}
         /\ closeReq'[t] => closeReq[t] \/ AppClose(t)
         /\ gone'[t] => gone[t] \/ SocketClose(t)
<1> DEFINE Own ==
         /\ \/ pc'[t] = pc[t] /\ state'[t] = state[t]
            \/ RecvPacket(t) \/ RecvNothing(t) \/ SendFin(t) \/ RecvFinAck(t)
            \/ /\ pc[t] \in {"start", "synSent", "synRcvd"} /\ state'[t] = state[t]
               /\ pc'[t] \in {"synSent", "synRcvd", "loop"}
         /\ closeReq'[t] => closeReq[t] \/ AppClose(t)
         /\ gone'[t] => gone[t] \/ SocketClose(t)
<1>s. "client" \in Sides /\ "server" \in Sides /\ \A s \in Sides : s \in {"client", "server"}
  BY DEF Sides
<1>1. ASSUME Handshake PROVE Own
  <2>1. UNCHANGED <<state, closeReq, gone>>
    BY <1>1 DEF Handshake, SendSyn, RecvSyn, RecvSynAck, RecvHandshakeAck
  <2>2. \E s \in Sides :
          /\ pc[s] \in {"start", "synSent", "synRcvd"}
          /\ Goto(s, "synSent") \/ Goto(s, "synRcvd") \/ Goto(s, "loop")
    BY <1>1, <1>s DEF Handshake, SendSyn, RecvSyn, RecvSynAck, RecvHandshakeAck
  <2>3. \/ pc'[t] = pc[t]
        \/ /\ pc[t] \in {"start", "synSent", "synRcvd"}
           /\ pc'[t] \in {"synSent", "synRcvd", "loop"}
    BY <2>2 DEF Goto, TypeOK
  <2>4. QED
    BY <2>1, <2>3
<1>2. ASSUME NEW s \in Sides, SendData(s) PROVE Own
  BY <1>2 DEF SendData
<1>3. ASSUME NEW s \in Sides, RecvPacket(s) PROVE Own
  <2>1. CASE s = t
    <3>1. gone' = gone /\ closeReq' = [closeReq EXCEPT ![t] = FALSE]
      BY <1>3, <2>1 DEF RecvPacket
    <3>2. ~closeReq'[t]
      BY <3>1 DEF TypeOK
    <3>3. QED
      BY <1>3, <2>1, <3>1, <3>2
  <2>2. CASE s # t
    <3>1. gone' = gone /\ closeReq' = [closeReq EXCEPT ![s] = FALSE]
      BY <1>3 DEF RecvPacket
    <3>2. /\ pc' = pc \/ Goto(s, "done")
          /\ state' = state \/ state' = [state EXCEPT ![s] = "FIN_WAIT_2"]
      BY <1>3, RecvPacketIs, Zenon
    <3>3. pc'[t] = pc[t] /\ state'[t] = state[t] /\ closeReq'[t] = closeReq[t]
      BY <2>2, <3>1, <3>2 DEF Goto, TypeOK
    <3>4. QED
      BY <3>1, <3>3
  <2>3. QED
    BY <2>1, <2>2
<1>4. ASSUME NEW s \in Sides, RecvNothing(s) PROVE Own
  BY <1>4 DEF RecvNothing, Goto, TypeOK
<1>5. ASSUME NEW s \in Sides, SendFin(s) PROVE Own
  BY <1>5 DEF SendFin, Goto, TypeOK
<1>6. ASSUME NEW s \in Sides, RecvFinAck(s) PROVE Own
  BY <1>6 DEF RecvFinAck, Goto, TypeOK
<1>7. ASSUME NEW s \in Sides, NEW n \in Chunks, AppWrite(s, n) PROVE Own
  BY <1>7 DEF AppWrite
<1>8. ASSUME NEW s \in Sides, AppClose(s) PROVE Own
  BY <1>8 DEF AppClose, TypeOK
<1>9. ASSUME NEW s \in Sides, SocketClose(s) PROVE Own
  BY <1>9 DEF SocketClose, TypeOK
<1>10. CASE UNCHANGED vars
  BY <1>10 DEF vars
<1>11. Own
  BY <1>1, <1>2, <1>3, <1>4, <1>5, <1>6, <1>7, <1>8, <1>9, <1>10 DEF Next, Transport, App
<1>12. QED
  BY <1>11

Script == Base /\ FinInv /\ Control /\ Queues

(* The packet a side is about to take.                                      *)
LEMMA HeadsSay ==
  ASSUME Script
  PROVE  /\ pc["client"] = "loop" /\ net["client"] # <<>> =>
              /\ net["client"][1].flags # NetEof
              /\ net["client"][1].flags \in Fins => state["client"] = "FIN_WAIT_1" /\ Ending
         /\ pc["server"] = "loop" /\ net["server"] # <<>> =>
              /\ net["server"][1].flags # NetEof
              /\ net["server"][1].flags \in Fins => FinGone
<1>s. "client" \in Sides /\ "server" \in Sides
  BY DEF Sides
<1>b. EndInv /\ TypeOK /\ Control /\ Queues
  BY DEF Script, Base
<1>1. ASSUME pc["client"] = "loop", net["client"] # <<>>
      PROVE  /\ net["client"][1].flags # NetEof
             /\ net["client"][1].flags \in Fins => state["client"] = "FIN_WAIT_1" /\ Ending
  <2>1. CASE Ending
    <3>1. state["client"] = "FIN_WAIT_1"
      <4>1. closed["server"]
        BY <1>b, <1>s, <2>1 DEF EndInv, Ended, Ending
      <4>2. QED
        BY <1>1, <1>b, <4>1 DEF Control, FinGone
    <3>2. PICK q \in Seq(Packet) : q = net["client"]
      BY <1>b, <1>s DEF TypeOK
    <3>3. FinAfter(q, 0)
      BY <1>1, <1>b, <2>1, <3>2 DEF Queues
    <3>4. QED
      BY <2>1, <3>1, <3>2, <3>3, FinAfterHead
  <2>2. CASE ~Ending
    <3>1. net["client"] \in Seq(Ordinary)
      BY <1>1, <1>b, <2>2 DEF Queues
    <3>2. net["client"][1] \in Ordinary
      BY <1>1, <3>1, TailIn
    <3>3. QED
      BY <3>2 DEF Ordinary
  <2>3. QED
    BY <2>1, <2>2
<1>2. ASSUME pc["server"] = "loop", net["server"] # <<>>
      PROVE  /\ net["server"][1].flags # NetEof
             /\ net["server"][1].flags \in Fins => FinGone
  <2>1. net["server"] \in Seq(NoEnd)
    BY <1>2, <1>b DEF Control, Queues, Ending
  <2>2. net["server"][1] \in NoEnd
    BY <1>2, <2>1, TailIn
  <2>3. FinGone \/ net["server"][1] \in NoFin
    <3>1. FinGone \/ net["server"] \in Seq(NoFin)
      BY <1>b DEF Queues
    <3>2. QED
      BY <1>2, <3>1, TailIn
  <2>4. QED
    BY <2>2, <2>3 DEF NoEnd, NoFin
<1>3. QED
  BY <1>1, <1>2

(* A client that closes has its whole answer: the server is idle.           *)
LEMMA Answered ==
  ASSUME TypeOK, PosInv, ~closed["client"], Len(got["client"]) = Total["server"]
  PROVE  appq["server"] = <<>> /\ written["server"] = Total["server"]
<1>s. "client" \in Sides /\ "server" \in Sides /\ Peer("client") = "server"
  BY DEF Sides, Peer
<1>1. /\ sent["server"] \in Nat /\ written["server"] \in Nat /\ Total["server"] \in Nat
      /\ appq["server"] \in Seq(Chunk)
  BY <1>s, PosTypes
<1>2. /\ Len(got["client"]) =< sent["server"] /\ sent["server"] =< written["server"]
      /\ written["server"] =< Total["server"]
  BY <1>s, PosFacts
<1>3. sent["server"] = Total["server"] /\ written["server"] = Total["server"]
  BY <1>1, <1>2
<1>4. ASSUME appq["server"] # <<>> PROVE FALSE
  <2>1. PICK q \in Seq(Chunk) : q = appq["server"]
    BY <1>1
  <2>2. /\ Linked(q, written["server"]) /\ Bound(q, 1, written["server"]) = sent["server"]
        /\ \A k \in 1 .. Len(q) : q[k].data # <<>>
    BY <1>s, <2>1 DEF PosInv, Out
  <2>3. 1 \in 1 .. Len(q)
    BY <1>4, <2>1, EmptySeq
  <2>4. q[1].from = sent["server"] /\ q[1].from + Len(q[1].data) =< written["server"]
    BY <2>2, <2>3 DEF Linked, Bound
  <2>5. q[1] \in Chunk
    BY <2>3, ElementOfSeq
  <2>6. PICK d \in Seq(Nat) : d = q[1].data
    BY <2>5 DEF Chunk
  <2>7. Len(d) \in Nat /\ Len(d) # 0
    <3>1. d # <<>>
      BY <2>2, <2>3, <2>6
    <3>2. QED
      BY <3>1, EmptySeq
  <2>8. QED
    BY <1>1, <1>3, <2>4, <2>6, <2>7
<1>5. QED
  BY <1>3, <1>4

(* Where a side stands after it took a packet, sent its FIN, or took what   *)
(* it believes to be the ACK of it.                                         *)
LEMMA TakenIs ==
  ASSUME TypeOK, NEW s \in Sides, RecvPacket(s)
  PROVE  /\ IF net[s][1].flags \in Fins
              THEN /\ eof'[s]
                   /\ IF state[s] = "FIN_WAIT_1"
                        THEN pc'[s] = "done" /\ state'[s] = state[s]
                        ELSE state'[s] = "FIN_WAIT_2" /\ pc'[s] = pc[s]
              ELSE pc'[s] = pc[s] /\ state'[s] = state[s] /\ eof'[s] = eof[s]
         /\ flags'[s] = net[s][1].flags /\ flags'[s] # NetEof /\ ~closeReq'[s]
<1>1. IsFin(net[s][1]) <=> net[s][1].flags \in Fins
  BY DEF IsFin, Fins
<1>2. /\ flags' = [flags EXCEPT ![s] = net[s][1].flags] /\ net[s][1].flags # NetEof
      /\ IF IsFin(net[s][1])
           THEN /\ IF state[s] = "FIN_WAIT_1"
                     THEN Goto(s, "done") /\ UNCHANGED state
                     ELSE state' = [state EXCEPT ![s] = "FIN_WAIT_2"] /\ UNCHANGED pc
                /\ eof' = [eof EXCEPT ![s] = TRUE]
           ELSE UNCHANGED <<pc, state, eof>>
  BY RecvPacketIs, Zenon
<1>3. closeReq' = [closeReq EXCEPT ![s] = FALSE]
  BY DEF RecvPacket
<1>4. QED
  BY <1>1, <1>2, <1>3 DEF Goto, TypeOK

LEMMA FinSentIs ==
  ASSUME TypeOK, EndInv, NEW s \in Sides, SendFin(s)
  PROVE  /\ pc[s] = "loop" /\ closeReq[s] /\ closed[s] /\ pc'[s] = "finSent"
         /\ state'[s] = state[s] /\ ~closeReq'[s]
BY DEF SendFin, Goto, TypeOK, EndInv, Ended

LEMMA FinAckIs ==
  ASSUME TypeOK, NEW s \in Sides, RecvFinAck(s)
  PROVE  /\ pc[s] = "finSent"
         /\ IF state[s] = "FIN_WAIT_2" THEN pc'[s] = "done" /\ state'[s] = state[s]
            ELSE state'[s] = "FIN_WAIT_1" /\ pc'[s] = "loop"
BY DEF RecvFinAck, Goto, TypeOK

LEMMA NothingBroken == ASSUME Script PROVE \A s \in Sides : ~RecvNothing(s)
<1>b. TypeOK /\ \A s \in Sides : s \in {"client", "server"}
  BY DEF Script, Base, Sides
<1>1. \A s \in Sides : RecvNothing(s) => /\ pc[s] = "loop" /\ Arrived(s)
                                         /\ Head(net[s]).flags = NetEof
  BY DEF RecvNothing
<1>2. \A s \in Sides : RecvNothing(s) => /\ pc[s] = "loop" /\ net[s] # <<>>
                                         /\ net[s][1].flags = NetEof
  BY <1>b, <1>1, FirstPacket
<1>3. QED
  BY <1>b, <1>2, HeadsSay

LEMMA ControlStep ==
  ASSUME Scripted, Script, [Next]_vars
  PROVE  Control'
<1>s. "client" \in Sides /\ "server" \in Sides /\ \A s \in Sides : s \in {"client", "server"}
  BY DEF Sides
<1>b. TypeOK /\ EndInv /\ PosInv /\ FinInv /\ Control
  BY DEF Script, Base
<1>t. TypeOK'
  BY BaseStep DEF Script, Base
<1>e. Ended("client") /\ Ended("server")
  BY <1>b, <1>s DEF EndInv
<1>h. \A s \in Sides : RecvPacket(s) => pc[s] = "loop" /\ net[s] # <<>>
  BY DEF RecvPacket, Arrived
<1>n. \A s \in Sides : ~RecvNothing(s)
  BY NothingBroken
<1>r. ASSUME NEW s \in Sides, RecvPacket(s)
      PROVE  /\ IF net[s][1].flags \in Fins
                  THEN /\ eof'[s]
                       /\ IF state[s] = "FIN_WAIT_1"
                            THEN pc'[s] = "done" /\ state'[s] = state[s]
                            ELSE state'[s] = "FIN_WAIT_2" /\ pc'[s] = pc[s]
                  ELSE pc'[s] = pc[s] /\ state'[s] = state[s] /\ eof'[s] = eof[s]
             /\ flags'[s] = net[s][1].flags /\ flags'[s] # NetEof /\ ~closeReq'[s]
  BY <1>b, <1>r, TakenIs
<1>f. ASSUME NEW s \in Sides, SendFin(s)
      PROVE  /\ pc[s] = "loop" /\ closeReq[s] /\ closed[s] /\ pc'[s] = "finSent"
             /\ state'[s] = state[s] /\ ~closeReq'[s]
  BY <1>b, <1>f, FinSentIs
<1>a. ASSUME NEW s \in Sides, RecvFinAck(s)
      PROVE  /\ pc[s] = "finSent"
             /\ IF state[s] = "FIN_WAIT_2" THEN pc'[s] = "done" /\ state'[s] = state[s]
                ELSE state'[s] = "FIN_WAIT_1" /\ pc'[s] = "loop"
  BY <1>a, <1>b, FinAckIs
(* What stays.                                                              *)
<1>1. \A s \in Sides : closed[s] => closed'[s]
  BY <1>b, WhoMoves
<1>2. /\ eof["server"] => eof'["server"]
      /\ eof'["server"] => eof["server"]
           \/ (RecvPacket("server") /\ net["server"][1].flags \in Fins)
  BY <1>b, <1>r, <1>s, WhoMoves
<1>3. FinGone => FinGone'
  BY <1>a, <1>b, <1>f, <1>n, <1>r, <1>s, OwnStep DEF FinGone, Control
<1>4. eof["server"] => state'["server"] = "FIN_WAIT_2"
  BY <1>a, <1>b, <1>f, <1>n, <1>r, <1>s, OwnStep DEF Control
<1>5. RecvPacket("server") /\ net["server"][1].flags \in Fins =>
        FinGone /\ closed["client"] /\ state'["server"] = "FIN_WAIT_2"
  <2>1. HAVE RecvPacket("server") /\ net["server"][1].flags \in Fins
  <2>2. FinGone
    BY <1>h, <1>s, <2>1, HeadsSay
  <2>3. closed["client"]
    BY <1>e, <2>2 DEF FinGone, Ended
  <2>4. state["server"] # "FIN_WAIT_1"
    BY <1>b, <1>e DEF Ended, Control
  <2>5. QED
    BY <1>r, <1>s, <2>1, <2>2, <2>3, <2>4
(* The conjuncts.                                                           *)
<1>6. closed'["server"] => eof'["server"]
  <2>1. AppClose("server") => eof["server"]
    BY DEF AppClose, MayClose
  <2>2. QED
    BY <1>2, <1>b, <1>s, <2>1, WhoMoves DEF Control
<1>7. eof'["server"] => closed'["client"] /\ state'["server"] = "FIN_WAIT_2" /\ FinGone'
  BY <1>1, <1>2, <1>3, <1>4, <1>5, <1>b, <1>s DEF Control
<1>8. closed'["client"] => appq'["server"] = <<>> /\ written'["server"] = Total["server"]
  <2>1. HAVE closed'["client"]
  <2>2. appq["server"] = <<>> /\ written["server"] = Total["server"]
    <3>1. CASE closed["client"]
      BY <1>b, <3>1 DEF Control
    <3>2. CASE ~closed["client"]
      <4>1. AppClose("client")
        BY <1>b, <1>s, <2>1, <3>2, WhoMoves
      <4>2. Len(got["client"]) = Total["server"]
        BY <4>1 DEF AppClose, MayClose
      <4>3. QED
        BY <1>b, <3>2, <4>2, Answered
    <3>3. QED
      BY <3>1, <3>2
  <2>3. ~SendData("server")
    BY <2>2 DEF SendData
  <2>4. \A n \in Chunks : ~AppWrite("server", n)
    <3>1. \A n \in Chunks : n \in Nat /\ n > 0
      BY StreamAssumption
    <3>2. Total["server"] \in Nat
      BY <1>s, <1>b, PosTypes
    <3>3. \A n \in Chunks : AppWrite("server", n) => written["server"] + n <= Total["server"]
      BY DEF AppWrite
    <3>4. QED
      BY <2>2, <3>1, <3>2, <3>3
  <2>5. QED
    BY <1>b, <1>s, <2>2, <2>3, <2>4, WhoMoves
<1>9. state'["client"] # "FIN_WAIT_2"
  BY <1>a, <1>b, <1>f, <1>h, <1>n, <1>r, <1>s, OwnStep, HeadsSay DEF Control
<1>10. FinGone' => ~closeReq'["client"]
  <2>1. SUFFICES ASSUME FinGone', closeReq'["client"] PROVE FALSE
    OBVIOUS
  <2>2. closeReq["client"] \/ AppClose("client")
    BY <1>s, <1>b, <2>1, OwnStep
  <2>3. FinGone => closed["client"] /\ ~closeReq["client"]
    BY <1>b, <1>e DEF FinGone, Ended, Control
  <2>4. AppClose("client") => ~closed["client"]
    BY DEF AppClose
  <2>5. ~FinGone
    BY <2>2, <2>3, <2>4
  <2>6. QED
    BY <1>a, <1>b, <1>f, <1>n, <1>r, <1>s, <2>1, <2>5, OwnStep DEF FinGone
<1>11. Ending => Ending'
  <2>1. Ending => closed["server"] /\ state["server"] = "FIN_WAIT_2"
    BY <1>b, <1>e DEF Ending, Ended, Control
  <2>2. QED
    BY <1>a, <1>b, <1>f, <1>h, <1>n, <1>r, <1>s, <2>1, OwnStep DEF Ending
<1>12. pc'["client"] = "done" => Ending'
  BY <1>11, <1>a, <1>b, <1>f, <1>h, <1>n, <1>r, <1>s, OwnStep, HeadsSay DEF Control
<1>13. \A s \in Sides : gone'[s] => pc'[s] = "done"
  <2>1. SUFFICES ASSUME NEW s \in Sides, gone'[s] PROVE pc'[s] = "done"
    OBVIOUS
  <2>2. pc[s] = "done"
    BY <1>b, <2>1, OwnStep DEF SocketClose, Control
  <2>3. QED
    BY <1>a, <1>b, <1>f, <1>h, <1>n, <2>2, OwnStep
<1>14. \A s \in Sides : pc'[s] # "undefined"
  <2>1. SUFFICES ASSUME NEW s \in Sides PROVE pc'[s] # "undefined"
    OBVIOUS
  <2>2. pc[s] # "undefined"
    BY <1>b DEF Control
  <2>3. QED
    BY <1>a, <1>b, <1>f, <1>n, <1>r, <2>2, OwnStep
<1>15. \A s \in Sides : flags'[s] # NetEof
  BY <1>b, <1>r, WhoMoves DEF Control
<1>16. QED
  BY <1>6, <1>7, <1>8, <1>9, <1>10, <1>12, <1>13, <1>14, <1>15 DEF Control, FinGone, Ending

(* A queue grows, or its side takes the first packet or closes its socket.  *)
LEMMA Grows ==
  ASSUME Base, [Next]_vars, NEW t \in Sides, ~gone[t]
  PROVE  \/ \E o \in Seq(Packet) : net'[t] = net[t] \o o
         \/ /\ net[t] # <<>> /\ net'[t] = Tail(net[t])
            /\ \/ RecvPacket(t) \/ RecvFinAck(t)
               \/ pc[t] \in {"start", "synSent", "synRcvd"}
         \/ SocketClose(t)
<1> DEFINE Grow == \E o \in Seq(Packet) : net'[t] = net[t] \o o
           Take == /\ net[t] # <<>> /\ net'[t] = Tail(net[t])
                   /\ \/ RecvPacket(t) \/ RecvFinAck(t)
                      \/ pc[t] \in {"start", "synSent", "synRcvd"}
<1>b. TypeOK /\ net \in [Sides -> Seq(Packet)]
  BY DEF Base, TypeOK
<1>s. /\ "client" \in Sides /\ "server" \in Sides
      /\ \A s \in Sides : t = s \/ (t = Peer(s) /\ t # s)
  BY DEF Sides, Peer
<1>g. ASSUME net'[t] = net[t] PROVE Grow
  <2>1. <<>> \in Seq(Packet) /\ net[t] \in Seq(Packet)
    BY <1>b
  <2>2. net[t] \o <<>> = net[t]
    BY <2>1, ConcatEmptySeq
  <2>3. QED
    BY <1>g, <2>1, <2>2
<1>a. ASSUME NEW s \in Sides, NEW h \in Packet, Exchange(s, 0, <<h>>) PROVE Grow
  <2>1. /\ net'[s] = net[s]
        /\ net'[Peer(s)] = IF gone[Peer(s)] THEN net[Peer(s)] ELSE net[Peer(s)] \o <<h>>
    BY <1>a, <1>b, SendIs
  <2>2. <<h>> \in Seq(Packet)
    OBVIOUS
  <2>3. QED
    BY <1>g, <1>s, <2>1, <2>2
<1>t. ASSUME NEW s \in Sides, net[s] # <<>>, NEW out \in Seq(Packet), Exchange(s, 1, out)
      PROVE  IF t = s THEN net'[t] = Tail(net[t]) ELSE Grow
  <2>1. /\ net'[s] = Tail(net[s])
        /\ net'[Peer(s)] = IF gone[Peer(s)] THEN net[Peer(s)] ELSE net[Peer(s)] \o out
    BY <1>b, <1>t, TakeIs
  <2>2. QED
    BY <1>s, <2>1
<1>1. ASSUME NEW x \in Isns, SendSyn(x) PROVE Grow
  <2>1. PICK h \in Packet :
           /\ net'["client"] = net["client"]
           /\ net'["server"] = IF gone["server"] THEN net["server"] ELSE net["server"] \o <<h>>
    BY <1>1, <1>b, SendSynIs
  <2>2. <<h>> \in Seq(Packet) /\ (t = "client" \/ t = "server")
    BY DEF Sides
  <2>3. QED
    BY <1>g, <2>1, <2>2
<1>2. ASSUME NEW y \in Isns, RecvSyn(y) PROVE Grow \/ Take
  <2>1. PICK h \in Packet : Exchange("server", 1, <<h>>)
    BY <1>2, <1>b, RecvSynIs
  <2>2. <<h>> \in Seq(Packet) /\ net["server"] # <<>> /\ pc["server"] = "start"
    BY <1>2 DEF RecvSyn, Arrived
  <2>3. QED
    BY <1>s, <1>t, <2>1, <2>2
<1>3. ASSUME RecvSynAck PROVE Grow \/ Take
  <2>1. PICK e \in Packet : Exchange("client", 1, <<e>>)
    BY <1>3, <1>b, RecvSynAckIs
  <2>2. <<e>> \in Seq(Packet) /\ net["client"] # <<>> /\ pc["client"] = "synSent"
    BY <1>3 DEF RecvSynAck, Arrived
  <2>3. QED
    BY <1>s, <1>t, <2>1, <2>2
<1>4. ASSUME RecvHandshakeAck PROVE Grow \/ Take
  <2>1. /\ Exchange("server", 1, <<>>) /\ net["server"] # <<>> /\ <<>> \in Seq(Packet)
        /\ pc["server"] = "synRcvd"
    BY <1>4 DEF RecvHandshakeAck, Arrived
  <2>2. QED
    BY <1>s, <1>t, <2>1
<1>5. ASSUME NEW s \in Sides, SendData(s) PROVE Grow
  <2>1. PICK n \in Nat : SentPiece(s, n) \in Packet /\ Exchange(s, 0, <<SentPiece(s, n)>>)
    BY <1>5, <1>b, SendDataIs
  <2>2. QED
    BY <1>a, <2>1
<1>6. ASSUME NEW s \in Sides, RecvPacket(s) PROVE Grow \/ Take
  <2>1. AckPieces(s) \in Seq(Packet) /\ Exchange(s, 1, AckPieces(s))
    BY <1>6, <1>b, RecvPacketIs, Zenon
  <2>2. net[s] # <<>>
    BY <1>6 DEF RecvPacket, Arrived
  <2>3. QED
    BY <1>6, <1>t, <2>1, <2>2
<1>7. ASSUME NEW s \in Sides, RecvNothing(s) \/ App(s) PROVE Grow
  <2>1. net' = net
    BY <1>7 DEF RecvNothing, App, AppWrite, AppClose
  <2>2. QED
    BY <1>g, <2>1
<1>8. ASSUME NEW s \in Sides, SendFin(s) PROVE Grow
  <2>1. PICK h \in Packet : Exchange(s, 0, <<h>>)
    BY <1>8, <1>b, SendFinIs
  <2>2. QED
    BY <1>a, <2>1
<1>9. ASSUME NEW s \in Sides, RecvFinAck(s) PROVE Grow \/ Take
  <2>1. Exchange(s, 1, <<>>) /\ net[s] # <<>> /\ <<>> \in Seq(Packet)
    BY <1>9 DEF RecvFinAck, Arrived
  <2>2. QED
    BY <1>9, <1>t, <2>1
<1>10. ASSUME NEW s \in Sides, SocketClose(s) PROVE Grow \/ SocketClose(t)
  <2>1. CASE t # s
    <3>1. PICK h \in Packet : h = Header(NetEof, 0, 0, sent[s])
      <4>1. 0 \in Numbers /\ sent[s] \in Nat
        BY <1>b, WidthType, PosTypes DEF Numbers, Width
      <4>2. QED
        BY <4>1, AckOk, HeaderType
    <3>2. t = Peer(s) /\ net'[t] = Append(net[t], h)
      BY <1>10, <1>b, <1>s, <2>1, <3>1 DEF SocketClose
    <3>3. net[t] \in Seq(Packet) /\ <<h>> \in Seq(Packet)
      BY <1>b
    <3>4. Append(net[t], h) = net[t] \o <<h>>
      BY <3>3, AppendIsConcat
    <3>5. QED
      BY <3>2, <3>3, <3>4
  <2>2. QED
    BY <1>10, <2>1
<1>11. CASE UNCHANGED vars
  BY <1>11, <1>g DEF vars
<1>12. Grow \/ Take \/ SocketClose(t)
  BY <1>1, <1>2, <1>3, <1>4, <1>5, <1>6, <1>7, <1>8, <1>9, <1>10, <1>11
     DEF Next, Handshake, Transport
<1>13. QED
  BY <1>12

(* What follows from where the sides stand for what a step does.            *)
LEMMA Turns ==
  ASSUME Script, Control', [Next]_vars
  PROVE  /\ pc'["client"] # "done" => pc["client"] # "done" /\ ~gone["client"]
         /\ pc'["client"] = "finSent" => pc["client"] = "finSent" \/ SendFin("client")
         /\ Ending' => Ending \/ SendFin("server")
         /\ Ending => Ending' /\ eof["server"]
         /\ FinGone => FinGone'
         /\ SendFin("client") => FinGone' /\ ~eof["server"]
         /\ SendFin("server") => eof["server"] /\ Ending'
         /\ RecvFinAck("client") => pc["client"] = "finSent" /\ pc'["client"] = "loop"
         /\ RecvPacket("client") =>
              /\ pc["client"] = "loop" /\ net["client"] # <<>>
              /\ pc'["client"] # "done" =>
                   pc'["client"] = "loop" /\ net["client"][1].flags \notin Fins
         /\ eof'["server"] => eof["server"]
              \/ (RecvPacket("server") /\ net["server"][1].flags \in Fins)
<1>s. "client" \in Sides /\ "server" \in Sides
  BY DEF Sides
<1>b. TypeOK /\ EndInv /\ Control
  BY DEF Script, Base
<1>e. Ended("client") /\ Ended("server")
  BY <1>b, <1>s DEF EndInv
<1>n. ~RecvNothing("client") /\ ~RecvNothing("server")
  BY <1>s, NothingBroken
<1>h. \A s \in Sides : RecvPacket(s) => pc[s] = "loop" /\ net[s] # <<>>
  BY DEF RecvPacket, Arrived
<1>r. ASSUME NEW s \in Sides, RecvPacket(s)
      PROVE  IF net[s][1].flags \in Fins
               THEN IF state[s] = "FIN_WAIT_1"
                      THEN pc'[s] = "done" /\ state'[s] = state[s]
                      ELSE state'[s] = "FIN_WAIT_2" /\ pc'[s] = pc[s]
               ELSE pc'[s] = pc[s] /\ state'[s] = state[s] /\ eof'[s] = eof[s]
  BY <1>b, <1>r, TakenIs
<1>f. ASSUME NEW s \in Sides, SendFin(s)
      PROVE  /\ pc[s] = "loop" /\ closeReq[s] /\ closed[s] /\ pc'[s] = "finSent"
             /\ state'[s] = state[s]
  BY <1>b, <1>f, FinSentIs
<1>a. ASSUME NEW s \in Sides, RecvFinAck(s)
      PROVE  /\ pc[s] = "finSent"
             /\ IF state[s] = "FIN_WAIT_2" THEN pc'[s] = "done" /\ state'[s] = state[s]
                ELSE state'[s] = "FIN_WAIT_1" /\ pc'[s] = "loop"
  BY <1>a, <1>b, FinAckIs
<1>1. pc'["client"] # "done" => pc["client"] # "done" /\ ~gone["client"]
  BY <1>a, <1>b, <1>f, <1>h, <1>n, <1>s, OwnStep DEF Control
<1>2. pc'["client"] = "finSent" => pc["client"] = "finSent" \/ SendFin("client")
  BY <1>a, <1>b, <1>f, <1>n, <1>r, <1>s, OwnStep
<1>3. SendFin("client") => FinGone' /\ ~eof["server"]
  BY <1>b, <1>f, <1>s DEF FinGone, Control
<1>4. SendFin("server") => eof["server"] /\ Ending'
  BY <1>b, <1>f, <1>s DEF Ending, Control
<1>5. Ending => eof["server"] /\ closed["server"] /\ state["server"] = "FIN_WAIT_2"
  BY <1>b, <1>e DEF Ending, Ended, Control
<1>6. Ending => Ending'
  BY <1>5, <1>a, <1>b, <1>f, <1>h, <1>n, <1>r, <1>s, OwnStep DEF Ending
<1>7. FinGone => FinGone'
  BY <1>a, <1>b, <1>f, <1>n, <1>r, <1>s, OwnStep DEF FinGone, Control
<1>8. RecvFinAck("client") => pc["client"] = "finSent" /\ pc'["client"] = "loop"
  BY <1>a, <1>b, <1>s DEF Control
<1>9. RecvPacket("client") =>
        /\ pc["client"] = "loop" /\ net["client"] # <<>>
        /\ pc'["client"] # "done" =>
             pc'["client"] = "loop" /\ net["client"][1].flags \notin Fins
  BY <1>h, <1>r, <1>s, HeadsSay
<1>10. eof'["server"] => eof["server"]
         \/ (RecvPacket("server") /\ net["server"][1].flags \in Fins)
  BY <1>b, <1>r, <1>s, WhoMoves
<1>11. Ending' => Ending \/ SendFin("server")
  <2>1. RecvPacket("server") => state["server"] # "FIN_WAIT_1"
    BY <1>b, <1>e DEF Ended, Control
  <2>2. RecvFinAck("server") => Ending
    BY <1>a, <1>s DEF Ending
  <2>3. QED
    BY <1>b, <1>n, <1>r, <1>s, <2>1, <2>2, OwnStep DEF Ending
<1>12. QED
  BY <1>1, <1>2, <1>3, <1>4, <1>5, <1>6, <1>7, <1>8, <1>9, <1>10, <1>11

LEMMA SegmentFlags ==
  ASSUME Script, NEW s \in Sides, SendData(s)
  PROVE  /\ flags[s] # NetEof
         /\ s = "server" \/ ~FinGone => flags[s] \notin Fins
<1>s. /\ "client" \in Sides /\ "server" \in Sides /\ Peer("client") = "server"
      /\ Peer("server") = "client" /\ s \in {"client", "server"}
  BY DEF Sides, Peer
<1>b. Control /\ FinInv
  BY DEF Script
<1>1. appq[s] # <<>>
  BY DEF SendData
<1>2. flags[s] # NetEof
  BY <1>b DEF Control
<1>3. ASSUME s = "server" \/ ~FinGone PROVE flags[s] \notin Fins
  <2>1. ~closed[Peer(s)]
    BY <1>1, <1>3, <1>b, <1>s DEF Control
  <2>2. Quiet \/ Through(s)
    BY <1>b, <1>s, <2>1 DEF FinInv
  <2>3. QED
    BY <1>1, <2>2 DEF Quiet, Through
<1>4. QED
  BY <1>2, <1>3

LEMMA ServerQueueStep ==
  ASSUME Script, Control', [Next]_vars
  PROVE  /\ pc'["client"] # "done" => net'["server"] \in Seq(NoEnd)
         /\ FinGone' \/ net'["server"] \in Seq(NoFin)
<1>s. "client" \in Sides /\ "server" \in Sides /\ Peer("server") = "client"
  BY DEF Sides, Peer
<1>b. Base /\ Queues
  BY DEF Script
<1>1. ASSUME pc'["client"] # "done" PROVE net'["server"] \in Seq(NoEnd)
  <2>1. pc["client"] # "done" /\ net["server"] \in Seq(NoEnd)
    BY <1>1, <1>b, Turns DEF Queues
  <2>2. \A e \in Packet : e.flags # NetEof => e \in NoEnd
    BY DEF NoEnd
  <2>3. \A n \in Nat : (/\ SendData("client") /\ SentPiece("client", n) \in Packet
                        /\ n =< Len(appq["client"][1].data)) => SentPiece("client", n) \in NoEnd
    <3>1. \A n : SentPiece("client", n).flags = flags["client"]
      BY DEF SentPiece
    <3>2. SendData("client") => flags["client"] # NetEof
      BY <1>s, SegmentFlags
    <3>3. QED
      BY <2>2, <3>1, <3>2
  <2>4. /\ \A e \in Packet : e.flags \in {{"ACK"}, {"SYN"}, {"SYN", "ACK"}} /\ e.data = <<>>
                              => e \in NoEnd
        /\ \A e \in Packet : (/\ SendFin("client") /\ e.flags = {"FIN"} /\ e.data = <<>>
                              /\ e.from = sent["client"]) => e \in NoEnd
    BY <2>2, FinNotEof
  <2>5. ~SocketClose("client")
    BY <2>1 DEF SocketClose
  <2>6. QED
    BY <1>b, <1>s, <2>1, <2>3, <2>4, <2>5, QueueStep
<1>2. ASSUME ~FinGone' PROVE net'["server"] \in Seq(NoFin)
  <2>1. ~FinGone /\ ~SendFin("client") /\ net["server"] \in Seq(NoFin)
    BY <1>2, <1>b, Turns DEF Queues
  <2>2. \A e \in Packet : e.flags \notin Fins => e \in NoFin
    BY DEF NoFin
  <2>3. \A n \in Nat : (/\ SendData("client") /\ SentPiece("client", n) \in Packet
                        /\ n =< Len(appq["client"][1].data)) => SentPiece("client", n) \in NoFin
    <3>1. \A n : SentPiece("client", n).flags = flags["client"]
      BY DEF SentPiece
    <3>2. SendData("client") => flags["client"] \notin Fins
      BY <1>s, <2>1, SegmentFlags
    <3>3. QED
      BY <2>2, <3>1, <3>2
  <2>4. /\ \A e \in Packet : e.flags \in {{"ACK"}, {"SYN"}, {"SYN", "ACK"}} /\ e.data = <<>>
                              => e \in NoFin
        /\ \A e \in Packet : SocketClose("client") /\ e.flags = NetEof /\ e.data = <<>>
                              => e \in NoFin
    BY <2>2, FinNotEof
  <2>5. QED
    BY <1>b, <1>s, <2>1, <2>3, <2>4, QueueStep
<1>3. QED
  BY <1>1, <1>2

(* Before the server has sent its FIN.                                      *)
LEMMA OpenQueueStep ==
  ASSUME Script, Control', [Next]_vars, pc'["client"] # "done", ~Ending'
  PROVE  /\ net'["client"] \in Seq(Ordinary)
         /\ pc'["client"] = "finSent" /\ eof'["server"] => net'["client"] # <<>>
<1>s. /\ "client" \in Sides /\ "server" \in Sides /\ Peer("client") = "server"
      /\ Peer("server") = "client"
  BY DEF Sides, Peer
<1>b. Base /\ Queues /\ TypeOK
  BY DEF Script, Base
<1>1. pc["client"] # "done" /\ ~gone["client"] /\ ~Ending /\ ~SendFin("server")
  BY Turns
<1>2. /\ net["client"] \in Seq(Ordinary)
      /\ pc["client"] = "finSent" /\ eof["server"] => net["client"] # <<>>
  BY <1>1, <1>b DEF Queues
<1>3. net'["client"] \in Seq(Ordinary)
  <2>1. \A e \in Packet : e.flags \notin Fins /\ e.flags # NetEof => e \in Ordinary
    BY DEF Ordinary
  <2>2. \A n \in Nat : (/\ SendData("server") /\ SentPiece("server", n) \in Packet
                        /\ n =< Len(appq["server"][1].data))
                          => SentPiece("server", n) \in Ordinary
    <3>1. \A n : SentPiece("server", n).flags = flags["server"]
      BY DEF SentPiece
    <3>2. SendData("server") => flags["server"] \notin Fins /\ flags["server"] # NetEof
      BY <1>s, SegmentFlags
    <3>3. QED
      BY <2>1, <3>1, <3>2
  <2>3. \A e \in Packet : e.flags \in {{"ACK"}, {"SYN"}, {"SYN", "ACK"}} /\ e.data = <<>>
                            => e \in Ordinary
    BY <2>1, FinNotEof
  <2>4. ~SocketClose("server")
    BY <1>1 DEF SocketClose, Ending
  <2>5. QED
    BY <1>1, <1>2, <1>b, <1>s, <2>2, <2>3, <2>4, QueueStep
<1>4. ASSUME pc'["client"] = "finSent", eof'["server"] PROVE net'["client"] # <<>>
  <2>1. /\ pc["client"] = "finSent" \/ SendFin("client")
        /\ SendFin("client") => ~eof["server"]
    BY <1>4, Turns
  <2>2. pc["client"] \in {"finSent", "loop"}
    BY <2>1 DEF SendFin
  <2>3. CASE eof["server"]
    <3>1. net["client"] # <<>> /\ net["client"] \in Seq(Packet)
      BY <1>2, <1>b, <1>s, <2>1, <2>3 DEF TypeOK
    <3>2. ~RecvPacket("client") /\ ~RecvFinAck("client") /\ ~SocketClose("client")
      BY <1>1, <1>4, Turns DEF SocketClose
    <3>3. PICK o \in Seq(Packet) : net'["client"] = net["client"] \o o
      BY <1>1, <1>b, <1>s, <2>2, <3>2, Grows
    <3>4. net["client"] \o o # <<>>
      BY <3>1, ConcatProperties, EmptySeq
    <3>5. QED
      BY <3>3, <3>4
  <2>4. CASE ~eof["server"]
    <3>1. RecvPacket("server") /\ net["server"][1].flags \in Fins
      BY <1>4, <2>4, Turns
    <3>2. AckPiece("server") \in Packet /\ AckPieces("server") \in Seq(Packet)
          /\ Exchange("server", 1, AckPieces("server"))
      BY <1>b, <1>s, <3>1, RecvPacketIs, Zenon
    <3>3. net["server"] # <<>> /\ net \in [Sides -> Seq(Packet)]
      BY <1>b, <3>1 DEF RecvPacket, Arrived, TypeOK
    <3>4. net'["client"] = net["client"] \o AckPieces("server")
      BY <1>1, <1>s, <3>2, <3>3, TakeIs
    <3>5. PICK o \in Seq(Packet) : o = AckPieces("server")
      BY <3>2
    <3>6. Len(o) > 0
      <4>1. IsFin(net["server"][1])
        BY <3>1 DEF IsFin, Fins
      <4>2. o = (IF net["server"][1].data # <<>> THEN <<AckPiece("server")>> ELSE <<>>)
                  \o <<AckPiece("server")>>
        BY <3>5, <4>1 DEF AckPieces
      <4>0. <<AckPiece("server")>> \in Seq(Packet) /\ <<>> \in Seq(Packet)
        BY <3>2
      <4>3. PICK u \in Seq(Packet) :
              u = IF net["server"][1].data # <<>> THEN <<AckPiece("server")>> ELSE <<>>
        BY <4>0, Zenon
      <4>4. PICK v \in Seq(Packet) : v = <<AckPiece("server")>>
        BY <4>0
      <4>5. Len(v) = 1 /\ Len(u) \in Nat /\ Len(u \o v) = Len(u) + Len(v)
        BY <4>4, ConcatProperties
      <4>6. o = u \o v
        BY <4>2, <4>3, <4>4, Zenon
      <4>7. QED
        BY <4>5, <4>6
    <3>7. PICK q \in Seq(Packet) : q = net["client"]
      BY <1>b, <1>s DEF TypeOK
    <3>8. Len(q \o o) > 0
      BY <3>6, ConcatProperties
    <3>9. q \o o # <<>>
      BY <3>8
    <3>10. QED
      BY <3>4, <3>5, <3>7, <3>9
  <2>5. QED
    BY <2>3, <2>4
<1>5. QED
  BY <1>3, <1>4

(* And when it has.                                                         *)
LEMMA EndingQueueStep ==
  ASSUME Script, Control', [Next]_vars, pc'["client"] # "done", Ending'
  PROVE  FinAfter(net'["client"], IF pc'["client"] = "finSent" THEN 1 ELSE 0)
<1>s. /\ "client" \in Sides /\ "server" \in Sides /\ Peer("server") = "client"
  BY DEF Sides, Peer
<1>b. Base /\ Queues /\ TypeOK /\ net["client"] \in Seq(Packet) /\ HandInv
  BY <1>s DEF Script, Base, TypeOK
<1>1. pc["client"] # "done" /\ ~gone["client"]
  BY Turns
<1>2. PICK m \in {0, 1} : m = IF pc["client"] = "finSent" THEN 1 ELSE 0
  OBVIOUS
<1>3. PICK l \in {0, 1} : l = IF pc'["client"] = "finSent" THEN 1 ELSE 0
  OBVIOUS
<1>4. CASE Ending
  <2>1. FinAfter(net["client"], m) /\ eof["server"]
    BY <1>1, <1>2, <1>4, <1>b, Turns DEF Queues
  <2>2. l = m \/ l = 0
    <3>1. ~SendFin("client")
      BY <2>1, Turns
    <3>2. pc'["client"] = "finSent" => pc["client"] = "finSent"
      BY <3>1, Turns
    <3>3. QED
      BY <1>2, <1>3, <3>2
  <2>3. CASE \E o \in Seq(Packet) : net'["client"] = net["client"] \o o
    <3>1. PICK o \in Seq(Packet) : net'["client"] = net["client"] \o o
      BY <2>3
    <3>2. FinAfter(net["client"] \o o, l)
      BY <1>b, <2>1, <2>2, FinAfterConcat
    <3>3. QED
      BY <1>3, <3>1, <3>2
  <2>4. CASE net'["client"] = Tail(net["client"]) /\ (RecvPacket("client") \/ RecvFinAck("client"))
    <3>1. net["client"][1].flags \notin Fins /\ pc'["client"] = "loop"
      <4>1. CASE RecvPacket("client")
        BY <4>1, Turns
      <4>2. CASE RecvFinAck("client")
        <5>1. pc["client"] = "finSent" /\ pc'["client"] = "loop"
          BY <4>2, Turns
        <5>2. QED
          BY <1>2, <1>b, <2>1, <5>1, FinAfterHead
      <4>3. QED
        BY <2>4, <4>1, <4>2
    <3>2. FinAfter(Tail(net["client"]), 0)
      BY <1>b, <2>1, <3>1, FinAfterHead
    <3>3. QED
      BY <2>4, <3>1, <3>2
  <2>5. pc["client"] \notin {"start", "synSent", "synRcvd"}
    BY <1>4, <1>b DEF HandInv, Ending
  <2>6. ~SocketClose("client")
    BY <1>1 DEF SocketClose
  <2>7. QED
    BY <1>1, <1>b, <1>s, <2>3, <2>4, <2>5, <2>6, Grows
<1>5. CASE ~Ending
  <2>1. SendFin("server") /\ eof["server"]
    BY <1>5, Turns
  <2>2. PICK h \in Packet : h.flags = {"FIN"} /\ Exchange("server", 0, <<h>>)
    BY <1>b, <1>s, <2>1, SendFinIs
  <2>3. net'["client"] = net["client"] \o <<h>>
    <3>1. net \in [Sides -> Seq(Packet)]
      BY <1>b DEF TypeOK
    <3>2. QED
      BY <1>1, <1>s, <2>2, <3>1, SendIs
  <2>4. pc'["client"] = pc["client"]
    BY <1>b, <1>s, <2>1 DEF SendFin, Goto, TypeOK
  <2>5. net["client"] \in Seq(Ordinary) /\ (l = 1 => net["client"] # <<>>)
    BY <1>1, <1>3, <1>5, <1>b, <2>1, <2>4 DEF Queues
  <2>6. h.flags \in Fins
    BY <2>2, FinNotEof
  <2>7. FinAfter(net["client"] \o <<h>>, l)
    BY <2>5, <2>6, FinAfterNew
  <2>8. QED
    BY <1>3, <2>3, <2>7
<1>6. QED
  BY <1>4, <1>5

LEMMA ScriptStep ==
  ASSUME Scripted
  PROVE  Script /\ [Next]_vars => Script'
<1> SUFFICES ASSUME Script, [Next]_vars PROVE Script'
  OBVIOUS
<1>1. Base' /\ FinInv' /\ Control'
  BY BaseStep, FinStep, ControlStep DEF Script
<1>2. Queues'
  BY <1>1, ServerQueueStep, OpenQueueStep, EndingQueueStep
     DEF Queues, NoEnd, NoFin, Ordinary, FinAfter, Fins
<1>3. QED
  BY <1>1, <1>2 DEF Script

LEMMA ScriptHolds ==
  ASSUME Scripted
  PROVE  Spec => [](clean => Script)
<1>1. Init => (clean => Script)
  BY InitBase, InitFin, InitScript DEF Script
<1>2. (clean => Script) /\ [Next]_vars => (clean' => Script')
  <2>1. SUFFICES ASSUME clean => Script, [Next]_vars, clean' PROVE Script'
    OBVIOUS
  <2>2. clean
    BY <2>1, CleanStays, Zenon
  <2>3. Script
    BY <2>1, <2>2
  <2>4. QED
    BY <2>1, <2>3, ScriptStep, Zenon
<1>3. QED
  BY <1>1, <1>2, PTL DEF Spec

(* With the applications of client.c and server.c a side's transport ends   *)
(* only when both have closed, in every run whose uninitialised flags hold  *)
(* no FIN.                                                                  *)
THEOREM EndsWhenClosed ==
  ASSUME Scripted
  PROVE  Spec => []DoneWhenClosed
<1>1. (clean => Script) => DoneWhenClosed
  <2>1. SUFFICES ASSUME Script, NEW s \in Sides, pc[s] = "done"
                 PROVE  closed[s] /\ closed[Peer(s)]
    BY DEF DoneWhenClosed
  <2>2. /\ "client" \in Sides /\ "server" \in Sides /\ s \in {"client", "server"}
        /\ Peer("client") = "server" /\ Peer("server") = "client"
    BY DEF Sides, Peer
  <2>3. Control /\ Ended("client") /\ Ended("server")
    BY <2>1, <2>2 DEF Script, Base, EndInv
  <2>4. Ending
    BY <2>1, <2>2, <2>3 DEF Control, Ending
  <2>5. closed["server"]
    BY <2>3, <2>4 DEF Ended, Ending
  <2>6. closed["client"]
    BY <2>3, <2>5 DEF Control
  <2>7. QED
    BY <2>2, <2>5, <2>6
<1>2. QED
  BY <1>1, ScriptHolds, PTL

(* And in such a run no side is left reading from a closed socket, where    *)
(* the length of the data would come out as -20.                            *)
THEOREM NobodyBroken ==
  ASSUME Scripted
  PROVE  Spec => []NeverBroken
<1>1. (clean => Script) => NeverBroken
  BY DEF Script, Control, NeverBroken
<1>2. QED
  BY <1>1, ScriptHolds, PTL
==============================================================================
