------------------------------ MODULE ForkServer -----------------------------
(* The main loop that proxy.cpp (123-163) and server1.cpp (178-237) share:  *)
(* accept a connection, fork, close it in the parent, and let the child     *)
(* serve it.  A connection ends for its client when no process has it open  *)
(* any more, and a child is born with every descriptor its parent has open. *)
(* No child is ever waited for.                                             *)
EXTENDS Sequences

CONSTANTS Conns, Parent   \* connections, named like the child that serves one

VARIABLES
  backlog,  \* connections that wait to be accepted, oldest first
  parent,   \* the connection the parent has accepted and not closed, or Parent
  born,     \* children forked
  open      \* for each connection, the processes that have it open

vars == <<backlog, parent, born, open>>

TypeOK ==
  /\ backlog \in Seq(Conns)
  /\ parent \in Conns \cup {Parent}
  /\ born \subseteq Conns
  /\ open \in [Conns -> SUBSET (Conns \cup {Parent})]

Init ==
  /\ backlog = <<>> /\ parent = Parent
  /\ born = {} /\ open = [c \in Conns |-> {}]

(* connect of the other side: the kernel completes it.                      *)
Connect(c) == backlog' = Append(backlog, c) /\ UNCHANGED <<parent, born, open>>

Accept ==
  /\ parent = Parent /\ backlog # <<>>
  /\ parent' = Head(backlog)
  /\ backlog' = Tail(backlog)
  /\ open' = [open EXCEPT ![Head(backlog)] = {Parent}]
  /\ UNCHANGED born

(* The parent has closed the connection it accepted.                        *)
Closed ==
  /\ open' = [open EXCEPT ![parent] = @ \ {Parent}]
  /\ parent' = Parent
  /\ UNCHANGED <<backlog, born>>

(* fork fails: the connection is closed unserved.                           *)
ForkFails == parent # Parent /\ parent \notin born /\ Closed

(* The child of the accepted connection starts.                             *)
Fork ==
  /\ parent # Parent /\ parent \notin born
  /\ born' = born \cup {parent}
  /\ open' = [d \in Conns |->
                open[d] \cup (IF Parent \in open[d] THEN {parent} ELSE {})]
  /\ UNCHANGED <<backlog, parent>>

(* Mutant: the parent does not close the connection it handed over.         *)
ParentKeeps ==
  parent \in born /\ parent' = Parent /\ UNCHANGED <<backlog, born, open>>

(* Mutant: the parent waits for the child before it goes on.                *)
ParentWaits == parent \in born /\ parent \notin open[parent] /\ Closed

(* close(newsockfd); continue                                               *)
ParentCloses == parent \in born /\ Closed

Main == Accept \/ Fork \/ ParentCloses

(* A process that ends, however it ends, has nothing open any more.         *)
Exit(c) ==
  /\ open' = [d \in Conns |-> open[d] \ {c}]
  /\ UNCHANGED <<backlog, parent, born>>

Running(c) == c \in born /\ c \in open[c]

(* The connection is over: nobody has it open, nobody is going to accept it.*)
Over(c) == open[c] = {} /\ \A i \in DOMAIN backlog : backlog[i] # c
==============================================================================
