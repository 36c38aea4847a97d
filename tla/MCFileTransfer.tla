--------------------------- MODULE MCFileTransfer ----------------------------
(* Instance of FileTransfer for TLC: two clients; an empty file, one that   *)
(* ends with a full packet, one that does not, and none.                    *)
EXTENDS FileTransfer, TLC

CONSTANTS c1, c2

Text(n) == [i \in 1 .. n |-> Cell("text", i)]
MCFile == "empty" :> <<>> @@ "full" :> Text(2) @@ "long" :> Text(3) @@ "none" :> Missing
MCAsks == c1 :> 2 @@ c2 :> 1
==============================================================================
