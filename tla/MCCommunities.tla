--------------------------- MODULE MCCommunities ---------------------------
(***************************************************************************)
(* Two documents' worth of extraction: two names, one of them written in    *)
(* two ways, a blank one and two types, in two chunks; and graphs of up to  *)
(* five names with relationships of weights one to three.                   *)
(***************************************************************************)
EXTENDS Communities

MCNormalName == [n \in {"Ann Lee", "ann  lee", "Bob", " "} |->
                   CASE n = " " -> 0 [] n = "Bob" -> 2 [] OTHER -> 1]
MCLength == [n \in {"Ann Lee", "ann  lee", "Bob", " "} |->
               CASE n = " " -> 0 [] n = "Bob" -> 3 [] n = "Ann Lee" -> 7 [] OTHER -> 8]
MCNormalType == [t \in {"person", ""} |-> IF t = "" THEN 1 ELSE 2]
MCRawWeight == {-10, 2}

MCEdge(i, j, w) == [source |-> <<i, 1>>, target |-> <<j, 1>>, weight |-> w, chunk |-> 0]
MCPairs == {p \in (1 .. 5) \X (1 .. 5) : p[1] < p[2] /\ p \notin {<<1, 3>>, <<2, 5>>}}
MCWeighted(pairs) == {MCEdge(p[1], p[2], 1 + ((p[1] * p[2]) % 3)) : p \in pairs}
MCGiven == {[e \in MCWeighted(pairs) |-> 1] : pairs \in SUBSET MCPairs}
=============================================================================
