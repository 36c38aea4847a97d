--------------------------- MODULE ForkServerProofs --------------------------
(* What the steps of a ForkServer preserve, for any connections.            *)
EXTENDS ForkServer, Integers, TLAPS

(* A connection is open in the child of that name and, as long as it has    *)
(* not closed it, in the parent; so a child that is forked gets no other.   *)
OwnOnly == \A c \in Conns : \A p \in open[c] : p = c \/ (p = Parent /\ parent = c)

ForkInv ==
  /\ backlog \in Seq(Conns)
  /\ parent \in Conns \cup {Parent}
  /\ born \subseteq Conns
  /\ open \in [Conns -> SUBSET (Conns \cup {Parent})]
  /\ OwnOnly

(* At the beginning nothing is open.                                        *)
LEMMA ForkInit == Init => ForkInv
BY DEF Init, ForkInv, OwnOnly

(* connect leaves all descriptors alone.                                    *)
LEMMA ConnectKeeps == ASSUME NEW c \in Conns, ForkInv, Connect(c) PROVE ForkInv'
BY DEF ForkInv, OwnOnly, Connect

(* accept: the parent had nothing open that would be forgotten.             *)
LEMMA AcceptKeeps ==
  ASSUME Parent \notin Conns, ForkInv, Accept
  PROVE  ForkInv'
<1> DEFINE c == Head(backlog)
<1>1. c \in Conns /\ backlog' \in Seq(Conns) /\ born' = born
  BY DEF Accept, ForkInv
<1>2. open' = [open EXCEPT ![c] = {Parent}] /\ parent' = c /\ parent = Parent
  BY DEF Accept
<1>3. open' \in [Conns -> SUBSET (Conns \cup {Parent})]
  BY <1>1, <1>2 DEF ForkInv
<1>4. ASSUME NEW d \in Conns, NEW p \in open'[d]
      PROVE  p = d \/ (p = Parent /\ parent' = d)
  <2>1. CASE d = c
    BY <2>1, <1>1, <1>2 DEF ForkInv
  <2>2. CASE d # c
    <3>1. p \in open[d]
      BY <2>2, <1>1, <1>2 DEF ForkInv
    <3>2. QED
      BY <3>1, <1>2 DEF ForkInv, OwnOnly
  <2>3. QED
    BY <2>1, <2>2
<1>5. QED
  BY <1>1, <1>2, <1>3, <1>4 DEF ForkInv, OwnOnly

(* The parent closes the one connection it has open.                        *)
LEMMA ClosedKeeps ==
  ASSUME Parent \notin Conns, parent # Parent, ForkInv, Closed
  PROVE  ForkInv'
<1>1. open' = [open EXCEPT ![parent] = @ \ {Parent}] /\ parent' = Parent
      /\ backlog' = backlog /\ born' = born
  BY DEF Closed
<1>2. open' \in [Conns -> SUBSET (Conns \cup {Parent})]
  BY <1>1 DEF ForkInv
<1>3. ASSUME NEW d \in Conns, NEW p \in open'[d]
      PROVE  p = d
  <2>1. p \in open[d] /\ (d = parent => p # Parent)
    BY <1>1 DEF ForkInv
  <2>2. QED
    BY <2>1 DEF ForkInv, OwnOnly
<1>4. QED
  BY <1>1, <1>2, <1>3 DEF ForkInv, OwnOnly

(* A child is born with the connection its parent is at, and no other.      *)
LEMMA ForkKeeps ==
  ASSUME Parent \notin Conns, ForkInv, Fork
  PROVE  ForkInv'
<1>1. /\ open' = [d \in Conns |->
                    open[d] \cup (IF Parent \in open[d] THEN {parent} ELSE {})]
      /\ parent' = parent /\ parent \in Conns /\ backlog' = backlog
      /\ born' = born \cup {parent}
  BY DEF Fork, ForkInv
<1>2. open' \in [Conns -> SUBSET (Conns \cup {Parent})]
  BY <1>1 DEF ForkInv
<1>3. ASSUME NEW d \in Conns, NEW p \in open'[d]
      PROVE  p = d \/ (p = Parent /\ parent' = d)
  <2>1. p \in open[d] \/ (p = parent /\ Parent \in open[d])
    BY <1>1
  <2>2. CASE p \in open[d]
    BY <2>2, <1>1 DEF ForkInv, OwnOnly
  <2>3. CASE p = parent /\ Parent \in open[d]
    BY <2>3, <1>1 DEF ForkInv, OwnOnly
  <2>4. QED
    BY <2>1, <2>2, <2>3
<1>4. QED
  BY <1>1, <1>2, <1>3 DEF ForkInv, OwnOnly

(* The parent's steps keep the invariant.                                   *)
LEMMA ParentKeepsInv ==
  ASSUME Parent \notin Conns, ForkInv, Main \/ ForkFails
  PROVE  ForkInv'
<1>1. CASE Accept
  BY <1>1, AcceptKeeps
<1>2. CASE Fork
  BY <1>2, ForkKeeps
<1>3. CASE ParentCloses
  <2>1. parent # Parent /\ Closed
    BY <1>3 DEF ParentCloses, ForkInv
  <2>2. QED
    BY <2>1, ClosedKeeps
<1>4. CASE ForkFails
  BY <1>4, ClosedKeeps DEF ForkFails
<1>5. QED
  BY <1>1, <1>2, <1>3, <1>4 DEF Main

(* A process that ends only closes.                                         *)
LEMMA ExitKeeps == ASSUME NEW c, ForkInv, Exit(c) PROVE ForkInv'
<1>1. /\ open' = [d \in Conns |-> open[d] \ {c}]
      /\ parent' = parent /\ backlog' = backlog /\ born' = born
  BY DEF Exit
<1>2. open' \in [Conns -> SUBSET (Conns \cup {Parent})]
  BY <1>1 DEF ForkInv
<1>3. ASSUME NEW d \in Conns, NEW p \in open'[d]
      PROVE  p = d \/ (p = Parent /\ parent' = d)
  BY <1>1 DEF ForkInv, OwnOnly
<1>4. QED
  BY <1>1, <1>2, <1>3 DEF ForkInv, OwnOnly

------------------------------------------------------------------------------
(* The life of a connection: fresh, waiting, accepted, served, ended.       *)

Waiting(c) == \E i \in DOMAIN backlog : backlog[i] = c
Fresh(c) == ~Waiting(c) /\ c # parent /\ c \notin born /\ open[c] = {}
Ended(c) == c \in born /\ ~Running(c)

(* A connection waits once, and nobody has it then.                         *)
QueueInv ==
  /\ \A i, j \in DOMAIN backlog : backlog[i] = backlog[j] => i = j
  /\ \A c \in Conns : Waiting(c) => c \notin born /\ open[c] = {} /\ c # parent

ServerStep ==
  \/ Main \/ ForkFails
  \/ \E c \in Conns : (Fresh(c) /\ Connect(c)) \/ Exit(c)
  \/ UNCHANGED vars

(* A step that is not that of connection c or of its child.                 *)
OtherStep(c) ==
  \/ Main \/ ForkFails
  \/ \E d \in Conns : d # c /\ ((Fresh(d) /\ Connect(d)) \/ Exit(d))
  \/ UNCHANGED vars

LEMMA QueueInit == Init => QueueInv
BY DEF Init, QueueInv, Waiting

(* accept takes the oldest connection off the queue.                        *)
LEMMA AcceptTakes ==
  ASSUME Parent \notin Conns, ForkInv, QueueInv, Accept
  PROVE  /\ Head(backlog) \in Conns /\ Waiting(Head(backlog))
         /\ parent' = Head(backlog) /\ parent = Parent /\ born' = born
         /\ open' = [open EXCEPT ![Head(backlog)] = {Parent}]
         /\ \A i, j \in DOMAIN backlog' : backlog'[i] = backlog'[j] => i = j
         /\ \A c : Waiting(c)' <=> Waiting(c) /\ c # Head(backlog)
<1>1. /\ backlog \in Seq(Conns) /\ backlog # <<>> /\ Len(backlog) \in Nat /\ Len(backlog) >= 1
      /\ Head(backlog) = backlog[1] /\ backlog' = Tail(backlog)
      /\ DOMAIN backlog = 1 .. Len(backlog)
  BY DEF Accept, ForkInv
<1>2. /\ DOMAIN Tail(backlog) = 1 .. Len(backlog) - 1
      /\ \A i \in 1 .. Len(backlog) - 1 : Tail(backlog)[i] = backlog[i + 1]
  BY <1>1
<1>3. Head(backlog) \in Conns /\ Waiting(Head(backlog))
  BY <1>1 DEF Waiting
<1>4. \A i, j \in DOMAIN backlog' : backlog'[i] = backlog'[j] => i = j
  BY <1>1, <1>2 DEF QueueInv
<1>5. ASSUME NEW c
      PROVE  Waiting(c)' <=> Waiting(c) /\ c # Head(backlog)
  <2>1. ASSUME Waiting(c)' PROVE Waiting(c) /\ c # Head(backlog)
    <3>1. PICK i \in 1 .. Len(backlog) - 1 : backlog[i + 1] = c
      BY <1>1, <1>2, <2>1 DEF Waiting
    <3>2. i + 1 \in DOMAIN backlog /\ 1 \in DOMAIN backlog /\ i + 1 # 1
      BY <1>1
    <3>3. QED
      BY <1>1, <3>1, <3>2 DEF Waiting, QueueInv
  <2>2. ASSUME Waiting(c), c # Head(backlog) PROVE Waiting(c)'
    <3>1. PICK i \in 1 .. Len(backlog) : backlog[i] = c
      BY <1>1, <2>2 DEF Waiting
    <3>2. i # 1
      BY <1>1, <2>2, <3>1
    <3>3. i - 1 \in 1 .. Len(backlog) - 1 /\ (i - 1) + 1 = i
      BY <1>1, <3>2
    <3>4. Tail(backlog)[i - 1] = c /\ i - 1 \in DOMAIN Tail(backlog)
      BY <1>2, <3>1, <3>3
    <3>5. QED
      BY <1>1, <3>4 DEF Waiting
  <2>3. QED
    BY <2>1, <2>2
<1>6. QED
  BY <1>3, <1>4, <1>5 DEF Accept

(* connect puts one at its end.                                             *)
LEMMA ConnectPuts ==
  ASSUME NEW c \in Conns, ForkInv, Connect(c)
  PROVE  /\ parent' = parent /\ born' = born /\ open' = open
         /\ \A d : Waiting(d)' <=> Waiting(d) \/ d = c
         /\ QueueInv /\ ~Waiting(c) =>
              \A i, j \in DOMAIN backlog' : backlog'[i] = backlog'[j] => i = j
<1>1. /\ backlog \in Seq(Conns) /\ Len(backlog) \in Nat /\ backlog' = Append(backlog, c)
      /\ DOMAIN backlog = 1 .. Len(backlog)
  BY DEF Connect, ForkInv
<1>2. /\ DOMAIN Append(backlog, c) = 1 .. Len(backlog) + 1
      /\ Append(backlog, c)[Len(backlog) + 1] = c
      /\ \A i \in 1 .. Len(backlog) : Append(backlog, c)[i] = backlog[i]
  BY <1>1
<1>3. ASSUME NEW d
      PROVE  Waiting(d)' <=> Waiting(d) \/ d = c
  <2>1. Waiting(d) => Waiting(d)'
    BY <1>1, <1>2 DEF Waiting
  <2>2. Waiting(c)'
    BY <1>1, <1>2 DEF Waiting
  <2>3. Waiting(d)' => Waiting(d) \/ d = c
    BY <1>1, <1>2 DEF Waiting
  <2>4. QED
    BY <2>1, <2>2, <2>3
<1>4. ASSUME QueueInv, ~Waiting(c), NEW i \in DOMAIN backlog', NEW j \in DOMAIN backlog',
             backlog'[i] = backlog'[j]
      PROVE  i = j
  BY <1>1, <1>2, <1>4 DEF Waiting, QueueInv
<1>5. QED
  BY <1>3, <1>4 DEF Connect

(* What the rest does to connection c.                                      *)
LEMMA ClosedDoes ==
  ASSUME Parent \notin Conns, NEW c \in Conns, ForkInv, Closed
  PROVE  /\ backlog' = backlog /\ born' = born /\ parent' = Parent
         /\ open'[c] = open[c] \/ (parent = c /\ open'[c] = open[c] \ {Parent})
BY DEF Closed, ForkInv

LEMMA ForkDoes ==
  ASSUME NEW c \in Conns, ForkInv, Fork
  PROVE  /\ backlog' = backlog /\ born' = born \cup {parent} /\ parent' = parent
         /\ parent \notin born /\ parent \in Conns
         /\ open'[c] = open[c] \/ (Parent \in open[c] /\ open'[c] = open[c] \cup {parent})
BY DEF Fork, ForkInv

LEMMA ExitDoes ==
  ASSUME NEW c \in Conns, NEW d, ForkInv, Exit(d)
  PROVE  /\ backlog' = backlog /\ born' = born /\ parent' = parent
         /\ open'[c] = open[c] \ {d}
BY DEF Exit, ForkInv

LEMMA WaitingStays == ASSUME NEW c, backlog' = backlog PROVE Waiting(c)' <=> Waiting(c)
BY DEF Waiting

(* The cases of a step.                                                     *)
LEMMA StepCases ==
  ASSUME ForkInv, ServerStep
  PROVE  \/ Accept \/ Fork \/ Closed
         \/ (\E d \in Conns : Fresh(d) /\ Connect(d))
         \/ (\E d \in Conns : Exit(d)) \/ UNCHANGED vars
BY DEF ServerStep, Main, ForkFails, ParentCloses

LEMMA OtherCases ==
  ASSUME ForkInv, NEW c, OtherStep(c)
  PROVE  \/ Accept \/ Fork \/ Closed
         \/ (\E d \in Conns : d # c /\ Connect(d))
         \/ (\E d \in Conns : d # c /\ Exit(d)) \/ UNCHANGED vars
BY DEF OtherStep, Main, ForkFails, ParentCloses

LEMMA ForkKept ==
  ASSUME Parent \notin Conns, ForkInv, ServerStep
  PROVE  ForkInv'
<1>1. CASE Main \/ ForkFails
  BY <1>1, ParentKeepsInv
<1>2. ASSUME NEW d \in Conns, Connect(d) PROVE ForkInv'
  BY <1>2, ConnectKeeps
<1>3. ASSUME NEW d \in Conns, Exit(d) PROVE ForkInv'
  BY <1>3, ExitKeeps
<1>4. CASE UNCHANGED vars
  BY <1>4 DEF vars, ForkInv, OwnOnly
<1>5. QED
  BY <1>1, <1>2, <1>3, <1>4 DEF ServerStep

LEMMA QueueKept ==
  ASSUME Parent \notin Conns, ForkInv, QueueInv, ServerStep
  PROVE  QueueInv'
<1>1. CASE Accept
  <2>1. ASSUME NEW c \in Conns, Waiting(c)'
        PROVE  c \notin born' /\ open'[c] = {} /\ c # parent'
    BY <1>1, <2>1, AcceptTakes DEF QueueInv, ForkInv
  <2>2. \A i, j \in DOMAIN backlog' : backlog'[i] = backlog'[j] => i = j
    BY <1>1, AcceptTakes
  <2>3. QED
    BY <2>1, <2>2 DEF QueueInv
<1>2. CASE Fork
  <2>1. ASSUME NEW c \in Conns, Waiting(c)'
        PROVE  c \notin born' /\ open'[c] = {} /\ c # parent'
    BY <1>2, <2>1, ForkDoes, WaitingStays DEF QueueInv
  <2>2. backlog' = backlog
    BY <1>2 DEF Fork
  <2>3. QED
    BY <2>1, <2>2 DEF QueueInv
<1>3. CASE Closed
  <2>1. ASSUME NEW c \in Conns, Waiting(c)'
        PROVE  c \notin born' /\ open'[c] = {} /\ c # parent'
    BY <1>3, <2>1, ClosedDoes, WaitingStays DEF QueueInv
  <2>2. backlog' = backlog
    BY <1>3 DEF Closed
  <2>3. QED
    BY <2>1, <2>2 DEF QueueInv
<1>4. ASSUME NEW d \in Conns, Fresh(d), Connect(d)
      PROVE  QueueInv'
  <2>1. ASSUME NEW c \in Conns, Waiting(c)'
        PROVE  c \notin born' /\ open'[c] = {} /\ c # parent'
    BY <1>4, <2>1, ConnectPuts DEF QueueInv, Fresh
  <2>2. \A i, j \in DOMAIN backlog' : backlog'[i] = backlog'[j] => i = j
    BY <1>4, ConnectPuts DEF Fresh
  <2>3. QED
    BY <2>1, <2>2 DEF QueueInv
<1>5. ASSUME NEW d \in Conns, Exit(d)
      PROVE  QueueInv'
  <2>1. ASSUME NEW c \in Conns, Waiting(c)'
        PROVE  c \notin born' /\ open'[c] = {} /\ c # parent'
    BY <1>5, <2>1, ExitDoes, WaitingStays DEF QueueInv
  <2>2. backlog' = backlog
    BY <1>5 DEF Exit
  <2>3. QED
    BY <2>1, <2>2 DEF QueueInv
<1>6. CASE UNCHANGED vars
  BY <1>6 DEF vars, QueueInv, Waiting
<1>7. QED
  BY <1>1, <1>2, <1>3, <1>4, <1>5, <1>6, StepCases

(* A fresh connection stays so until somebody connects.                     *)
LEMMA FreshKept ==
  ASSUME Parent \notin Conns, ForkInv, QueueInv, NEW c \in Conns, Fresh(c), OtherStep(c)
  PROVE  Fresh(c)'
<1>1. CASE Accept
  BY <1>1, AcceptTakes DEF Fresh, ForkInv
<1>2. CASE Fork
  BY <1>2, ForkDoes, WaitingStays DEF Fresh
<1>3. CASE Closed
  BY <1>3, ClosedDoes, WaitingStays DEF Fresh
<1>4. ASSUME NEW d \in Conns, d # c, Connect(d) PROVE Fresh(c)'
  BY <1>4, ConnectPuts DEF Fresh
<1>5. ASSUME NEW d \in Conns, d # c, Exit(d) PROVE Fresh(c)'
  BY <1>5, ExitDoes, WaitingStays DEF Fresh
<1>6. CASE UNCHANGED vars
  BY <1>6 DEF vars, Fresh, Waiting
<1>7. QED
  BY <1>1, <1>2, <1>3, <1>4, <1>5, <1>6, OtherCases

(* A child runs until it ends itself.                                       *)
LEMMA RunningKept ==
  ASSUME Parent \notin Conns, ForkInv, QueueInv, NEW c \in Conns, Running(c), OtherStep(c)
  PROVE  Running(c)'
<1>1. CASE Accept
  <2>1. c # Head(backlog)
    BY <1>1, AcceptTakes DEF QueueInv, Running
  <2>2. QED
    BY <1>1, <2>1, AcceptTakes DEF Running, ForkInv
<1>2. CASE Fork
  BY <1>2, ForkDoes DEF Running
<1>3. CASE Closed
  BY <1>3, ClosedDoes DEF Running
<1>4. ASSUME NEW d \in Conns, d # c, Connect(d) PROVE Running(c)'
  BY <1>4, ConnectPuts DEF Running
<1>5. ASSUME NEW d \in Conns, d # c, Exit(d) PROVE Running(c)'
  BY <1>5, ExitDoes DEF Running
<1>6. CASE UNCHANGED vars
  BY <1>6 DEF vars, Running
<1>7. QED
  BY <1>1, <1>2, <1>3, <1>4, <1>5, <1>6, OtherCases

(* And never again.                                                         *)
LEMMA EndedKept ==
  ASSUME Parent \notin Conns, ForkInv, QueueInv, NEW c \in Conns, Ended(c), ServerStep
  PROVE  Ended(c)'
<1>1. CASE Accept
  <2>1. c # Head(backlog)
    BY <1>1, AcceptTakes DEF QueueInv, Ended, Running
  <2>2. QED
    BY <1>1, <2>1, AcceptTakes DEF Ended, Running, ForkInv
<1>2. CASE Fork
  BY <1>2, ForkDoes DEF Ended, Running
<1>3. CASE Closed
  BY <1>3, ClosedDoes DEF Ended, Running
<1>4. ASSUME NEW d \in Conns, Fresh(d), Connect(d) PROVE Ended(c)'
  BY <1>4, ConnectPuts DEF Ended, Running
<1>5. ASSUME NEW d \in Conns, Exit(d) PROVE Ended(c)'
  BY <1>5, ExitDoes DEF Ended, Running
<1>6. CASE UNCHANGED vars
  BY <1>6 DEF vars, Ended, Running
<1>7. QED
  BY <1>1, <1>2, <1>3, <1>4, <1>5, <1>6, StepCases

(* A child that is born stays born; Exit of its own is its end.             *)
LEMMA BornKept ==
  ASSUME ForkInv, NEW c \in Conns, c \in born, ServerStep
  PROVE  c \in born'
BY StepCases DEF Accept, Fork, Closed, Connect, Exit, vars

LEMMA ExitEnds ==
  ASSUME ForkInv, NEW c \in Conns, c \in born, Exit(c)
  PROVE  Ended(c)'
BY ExitDoes DEF Ended, Running
==============================================================================
