---------------------------- MODULE MCRetrieval ----------------------------
(* A document rewritten once and one of two chunks, over three entities in *)
(* a line, so that a walk can turn back.                                   *)
EXTENDS Retrieval, TLC

CONSTANTS a1, a2, b1, b2, x, y, z, k

MCChunk == {a1, a2, b1, b2}
MCEntity == {x, y, z}
MCOwner == a1 :> "a" @@ a2 :> "a" @@ b1 :> "b" @@ b2 :> "b"
MCGenerations == [a |-> <<{a1}, {a2}>>, b |-> <<{b1, b2}, {}>>]
MCMentions == a1 :> {x} @@ a2 :> {x, y} @@ b1 :> {x, y} @@ b2 :> {y, z}
MCRelated == a1 :> {} @@ a2 :> {<<x, y>>} @@ b1 :> {<<y, x>>} @@ b2 :> {<<y, z>>}
MCMembers == k :> {x, y, z}
MCMatching == [fts |-> {a1, b2}, titles |-> {a2}, paths |-> {b2}]
MCFilters == {{"a", "b"}, {"b"}}
MCTopKs == {-1, 1}
MCUnit == 61 * 62 * 63 * 64
============================================================================
