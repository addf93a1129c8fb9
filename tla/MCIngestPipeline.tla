------------------------- MODULE MCIngestPipeline -------------------------
(* Small instances of IngestPipeline: a one-chunk and a two-chunk content   *)
(* whose graphs share an entity, and an empty one.                         *)
EXTENDS IngestPipeline, TLC

CONSTANTS w1, w2

MCWorker == {w1, w2}
MCOneWorker == {w1}
Symmetry == Permutations(MCWorker)

MCNamed == [ann |-> "a", bob |-> "b", cy |-> "c"]
MCNamesakes == [ann |-> "a", bob |-> "b", cy |-> "a"]

MCContent == {"short", "long"}
MCContentWithBlank == {"short", "long", "blank"}
MCChunkCount == [short |-> 1, long |-> 2, blank |-> 0]
\* A provider that answers for every chunk, and one that may answer short.
MCEmbeddedAll == [c \in MCContentWithBlank |-> {MCChunkCount[c]}]
MCEmbeddedShort == [c \in MCContentWithBlank |-> 0 .. MCChunkCount[c]]
MCGraph ==
  [short |-> [entities |-> {"ann", "bob"},
              mentions |-> {<<0, "ann">>, <<0, "bob">>},
              relationships |-> {[index |-> 0, source |-> "ann", target |-> "bob"]}],
   long  |-> [entities |-> {"bob", "cy"},
              mentions |-> {<<0, "bob">>, <<1, "bob">>, <<1, "cy">>},
              relationships |-> {[index |-> 1, source |-> "bob", target |-> "cy"]}],
   blank |-> [entities |-> {}, mentions |-> {}, relationships |-> {}]]
==========================================================================
