---------------------------- MODULE MCHttpSystem -----------------------------
(* Instance of HttpSystem for TLC: two clients, files of every kind.        *)
EXTENDS HttpSystem, TLC

CONSTANTS c1, c2

Line(key, form, value) == [key |-> key, form |-> form, value |-> value]

(* Enough headers for the table to grow, one of them twice; a header        *)
(* without a blank behind its colon, and a line without a colon, which      *)
(* draws a Connection header in; and Connection spelled otherwise.          *)
Plain == <<Line("Connection", "plain", "keep-alive"), Line("Host", "plain", "h")>>
Twice == Plain \o <<Line("Connection", "plain", "close"), Line("Empty", "empty", "")>>
Odd == <<Line("Empty", "empty", ""), Line("NoColon", "nocolon", "")>> \o Plain
       \o <<Line("NoColon", "nocolon", "")>>
Lower == <<Line("connection", "plain", "keep-alive")>> \o Plain

Direct(uri) ==
  [proxied |-> FALSE, host |-> Web, line |-> "get", lines |-> <<>>, uri |-> uri,
   wordy |-> FALSE]
ByProxy(host, line, lines) ==
  [Direct("page") EXCEPT !.proxied = TRUE, !.host = host, !.line = line, !.lines = lines]
Wordy(r) == [r EXCEPT !.wordy = TRUE]

MCTexts == {"Connection", "connection", "keep-alive", "close", "Host", "h", "Empty",
            "NoColon", "newline", ""}

(* A file that ends with a full buffer, one that does not, and an empty one.*)
MCSize == "page" :> 2 @@ "long" :> 3 @@ "empty" :> 0 @@ "folder" :> 1

MCRequests ==
  c1 :> {Direct("page"), Direct("long"), Direct("empty"), Direct("folder"),
         Direct("none"), ByProxy(Web, "get", Plain), ByProxy("other", "get", Twice),
         ByProxy("other", "get", Odd), ByProxy("other", "get", Lower),
         ByProxy("other", "refused", Plain), ByProxy(Web, "blank", <<>>),
         Wordy(Direct("page")), Wordy(ByProxy(Web, "get", Plain))}
  @@ c2 :> {Direct("long"), ByProxy("other", "get", Plain)}
==============================================================================
