---------------------------- MODULE RequestParser ----------------------------
(* proxy_parse.c: a request object, its table of headers, and the lines     *)
(* they are parsed from.  A header line is [key, form, value]; a key or a   *)
(* value in the table is a sequence, because it may run over several lines. *)
EXTENDS Naturals, SequencesExt

CONSTANTS
  Texts,          \* what keys and values are made of
  Removed,        \* a slot whose key is NULL; it is not used again
  DEFAULT_NHDRS   \* 8 in the code

(* A line of a request, and a slot in use.  form tells a line "plain", with  *)
(* key, colon, blank and value, from one without blank ("empty") and one    *)
(* without colon.                                                           *)
HeaderLine == [key : Texts, form : {"plain", "empty", "nocolon"}, value : Texts]
Slot == [key : Seq(Texts), value : Seq(Texts)]

ASSUME TableAssumption == /\ DEFAULT_NHDRS \in Nat \ {0} /\ Removed \notin Slot
                          /\ {"Connection", "close", "newline"} \subseteq Texts

(* What ParsedRequest_parse leaves in method: NULL, a pointer into the      *)
(* buffer it has freed, or GET.                                             *)
Methods == {"NULL", "dangling", "GET"}

(* ParsedRequest_create.                                                    *)
NewRequest ==
  [slots |-> <<>>, cap |-> DEFAULT_NHDRS, buf |-> FALSE, method |-> "NULL"]

(* ParsedHeader_get, as an index: the first live slot of that very key.     *)
HeaderIndex(pr, key) ==
  SelectInSeq(pr.slots, LAMBDA s : s # Removed /\ s.key = key)

(* Mutant: the slot is left as it is.                                       *)
RemoveNothing(pr, key) == pr

(* ParsedHeader_remove.                                                     *)
RemoveHeader(pr, key) ==
  LET i == HeaderIndex(pr, key)
  IN IF i = 0 THEN pr ELSE [pr EXCEPT !.slots[i] = Removed]

(* Mutant: the table grows when it is already exceeded.                     *)
GrownLate(pr) ==
  IF pr.cap < Len(pr.slots) THEN [pr EXCEPT !.cap = 2 * @] ELSE pr

(* The table doubles before its last slot is taken.                         *)
Grown(pr) ==
  IF pr.cap =< Len(pr.slots) + 1 THEN [pr EXCEPT !.cap = 2 * @] ELSE pr

(* ParsedHeader_set.                                                        *)
SetHeader(pr, key, value) ==
  [Grown(RemoveHeader(pr, key)) EXCEPT
     !.slots = Append(@, [key |-> key, value |-> value])]

(* The lines from i on that the next colon ends; <<>> if there is no colon. *)
Key(lines, i) ==
  LET n == SelectInSubSeq(lines, i, Len(lines), LAMBDA l : l.form # "nocolon")
  IN IF n = 0 THEN <<>> ELSE [k \in 1 .. n - i + 1 |-> lines[i + k - 1].key]

(* The value is taken to begin two characters behind the colon: without a   *)
(* blank there ("empty") it is a newline and all of the next line.          *)
Value(lines, i) ==
  IF lines[i].form # "empty" THEN <<lines[i].value>>
  ELSE IF i = Len(lines) THEN <<"newline">>
  ELSE <<"newline", lines[i + 1].key, lines[i + 1].value>>

(* ParsedHeader_parse of each line, up to one that no colon follows.        *)
ParseHeaders(pr, lines) ==
  LET after[i \in 0 .. Len(lines)] ==
        IF i = 0 THEN pr
        ELSE LET key == Key(lines, i)
             IN IF key = <<>> THEN after[i - 1]
                ELSE SetHeader(after[i - 1], key, Value(lines, i + Len(key) - 1))
  IN after[Len(lines)]

(* ParsedRequest_parse.  Without the end of the headers, or without a word  *)
(* in the request line, method is not set; a request line that is refused   *)
(* leaves it dangling; a header that is refused changes nothing else.       *)
Parsed(line, lines) ==
  CASE line \in {"unfinished", "blank"} -> NewRequest
    [] line = "refused" -> [NewRequest EXCEPT !.method = "dangling"]
    [] line = "get" ->
         ParseHeaders([NewRequest EXCEPT !.method = "GET", !.buf = TRUE], lines)

(* ParsedRequest_unparse, the headers: what goes out, if the line does.     *)
Unparsed(pr) ==
  LET live[i \in 0 .. Len(pr.slots)] ==
        IF i = 0 THEN <<>>
        ELSE live[i - 1] \o (IF pr.slots[i] = Removed THEN <<>> ELSE <<pr.slots[i]>>)
  IN IF pr.buf THEN live[Len(pr.slots)] ELSE <<>>
==============================================================================
