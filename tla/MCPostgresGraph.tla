-------------------------- MODULE MCPostgresGraph --------------------------
(* Two connections, each with any operation on any document but the anchors; *)
(* two documents share an entity and one has none.                         *)
EXTENDS PostgresGraph, TLC

MCDocument == {"p", "q", "r", "s"}
MCEntity == {"ann", "bob", "cy"}
MCGraph == [p |-> {"ann"}, q |-> {"ann", "bob"}, r |-> {"cy"}, s |-> {}]
============================================================================
