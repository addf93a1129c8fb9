---------------------------- MODULE EntityGraph ----------------------------
(***************************************************************************)
(* The entity graph of one document (graph_build.rs, normalize.rs): what an *)
(* extractor (extractor.rs) finds chunk by chunk is aggregated by normalized*)
(* name and type, and the entities are embedded.  Names and types are       *)
(* numbers in the order of their normalized text, descriptions are their    *)
(* lengths.  The order of the relationships in the graph is left out, their *)
(* number is kept.                                                          *)
(***************************************************************************)
EXTENDS Integers, FiniteSets

CONSTANTS
  RawName,          \* names as the language model writes them
  NormalName,       \* NormalName[n]: the normalized name, 0 when blank
  Length,           \* Length[n]: the length of the trimmed name
  RawType,          \* types as the language model writes them, or leaves out
  NormalType,       \* NormalType[t]: the normalized type
  Description,      \* lengths of descriptions, 0 for none or blank ones
  RawWeight,        \* weights as the language model writes them, in tenths
  Chunks,           \* chunks of the document; without one the graph is empty
  MaxItems          \* bound on the items extracted from a document

ASSUME NamesAssumption ==
  /\ NormalName \in [RawName -> Nat] /\ Length \in [RawName -> Nat]
  /\ NormalType \in [RawType -> Nat]
ASSUME DescriptionAssumption == Description \subseteq Nat
ASSUME WeightAssumption == RawWeight \subseteq Int
ASSUME SizeAssumption == Chunks \in Nat \ {0} /\ MaxItems \in Nat

VARIABLES
  stage,          \* what ingest_content does with the graph
  chunk,          \* the chunk whose extraction is being aggregated
  items,          \* items aggregated so far
  entities,       \* entities_by_key: for each key its display name and description
  mentions,       \* pairs of a chunk and a key
  relationships,  \* relationships[e]: how many edges e the graph has
  seen            \* every occurrence of a key, for the properties

buildVars == <<stage, chunk, items, entities, mentions, relationships, seen>>

EntityKey == Nat \X Nat
KeyOf(n, t) == <<NormalName[n], NormalType[t]>>
Keys == DOMAIN entities
Edges == DOMAIN relationships

\* Mutation of Weight: the weight of the language model is taken as it is.
WeightAsWritten(w) == w

\* relationship.weight.max(0.1)
Weight(w) == IF w < 1 THEN 1 ELSE w
Edge == [source : EntityKey, target : EntityKey, weight : Nat, chunk : Nat]
-----------------------------------------------------------------------------

\* should_replace_description, and the same of display names: the longer stays.
Better(new, old) == IF new > old THEN new ELSE old

\* upsert_aggregated_entity on the aggregated entities.
Upserted(known, k, display, description) ==
  [l \in DOMAIN known \cup {k} |->
     IF l # k THEN known[l]
     ELSE IF k \notin DOMAIN known
          THEN [display |-> display, description |-> description]
          ELSE [display     |-> Better(display, known[k].display),
                description |-> Better(description, known[k].description)]]

\* One more relationship in the vector of relationships.
Pushed(edges, e) ==
  [f \in DOMAIN edges \cup {e} |->
     IF f \notin DOMAIN edges THEN 1 ELSE IF f = e THEN edges[f] + 1 ELSE edges[f]]

\* Names that map_payload_to_chunk_extraction and upsert_aggregated_entity keep.
Named(n) == NormalName[n] # 0

Item == items < MaxItems /\ items' = items + 1

AddEntity(n, t, d) ==
  /\ stage = "entities" /\ Item
  /\ Named(n)
  /\ entities' = Upserted(entities, KeyOf(n, t), Length[n], d)
  /\ mentions' = mentions \cup {<<chunk, KeyOf(n, t)>>}
  /\ seen' = seen \cup {<<KeyOf(n, t), Length[n], d>>}
  /\ UNCHANGED <<stage, chunk, relationships>>

\* Mutation of Mentioned: a relationship mentions its source only.
SourceMentioned(k, l) == {<<chunk, k>>}

\* A relationship mentions both endpoints in its chunk.
Mentioned(k, l) == {<<chunk, k>>, <<chunk, l>>}

\* A relationship makes entities of its endpoints; one between an entity and
\* itself does no more than that.
AddRelationship(n, t, m, u, w) ==
  LET source == KeyOf(n, t)
      target == KeyOf(m, u)
      edge == [source |-> source, target |-> target, weight |-> Weight(w), chunk |-> chunk]
  IN
  /\ stage \in {"entities", "relationships"} /\ Item
  /\ Named(n) /\ Named(m)
  /\ stage' = "relationships"
  /\ entities' = Upserted(Upserted(entities, source, Length[n], 0), target, Length[m], 0)
  /\ seen' = seen \cup {<<source, Length[n], 0>>, <<target, Length[m], 0>>}
  /\ IF source = target
     THEN UNCHANGED <<mentions, relationships>>
     ELSE /\ mentions' = mentions \cup Mentioned(source, target)
          /\ relationships' = Pushed(relationships, edge)
  /\ UNCHANGED chunk

\* The extraction of the next chunk is there, or that was the last one.
NextChunk ==
  /\ stage \in {"entities", "relationships"}
  /\ IF chunk + 1 < Chunks THEN stage' = "entities" /\ chunk' = chunk + 1
                           ELSE stage' = "embed" /\ chunk' = chunk
  /\ UNCHANGED <<items, entities, mentions, relationships, seen>>

\* The graph of no entities is returned without asking the embedding provider.
Embed ==
  /\ stage = "embed"
  /\ stage' = "built"
  /\ UNCHANGED <<chunk, items, entities, mentions, relationships, seen>>

\* The extractor fails on a chunk; the embedding provider fails or returns too
\* few embeddings: ingest_content ends with the error.
BuildFails ==
  /\ \/ stage = "entities"
     \/ stage = "embed" /\ Keys # {}
  /\ stage' = "failed"
  /\ UNCHANGED <<chunk, items, entities, mentions, relationships, seen>>

BuildNext ==
  \/ \E n \in RawName, t \in RawType, d \in Description : AddEntity(n, t, d)
  \/ \E n, m \in RawName, t, u \in RawType, w \in RawWeight : AddRelationship(n, t, m, u, w)
  \/ NextChunk \/ Embed \/ BuildFails

BuildInit ==
  /\ stage = "entities" /\ chunk = 0 /\ items = 0
  /\ entities = << >> /\ mentions = {} /\ relationships = << >> /\ seen = {}
-----------------------------------------------------------------------------
\* The values of the variables of a graph.
BuildTypeOK ==
  /\ chunk \in Nat /\ items \in Nat
  /\ Keys \subseteq EntityKey
  /\ \A k \in Keys : entities[k] \in [display : Nat, description : Nat]
  /\ mentions \subseteq Nat \X EntityKey
  /\ Edges \subseteq Edge
  /\ \A e \in Edges : relationships[e] \in Nat \ {0} /\ e.weight # 0
  /\ seen \subseteq EntityKey \X Nat \X Nat

\* What the storage backend expects of a graph (the chunk lookup and the joins
\* of replace_document_entity_graph): a relationship joins two different
\* entities of the graph, both mentioned in the chunk that is its evidence, and
\* only entities of the graph are mentioned.
GraphIsStorable ==
  /\ \A e \in Edges :
       /\ e.source # e.target
       /\ {<<e.chunk, e.source>>, <<e.chunk, e.target>>} \subseteq mentions
  /\ \A m \in mentions : m[2] \in Keys /\ m[1] \in 0 .. Chunks - 1

\* The aggregate of an entity does not depend on the order in which the chunks
\* and the items name it: it has the longest name and the longest description
\* that were seen of its key (upsert_aggregated_entity).
AggregatesAreLongest ==
  \A k \in Keys :
    LET occurrences == {o \in seen : o[1] = k}
    IN  /\ \E o \in occurrences : o[2] = entities[k].display
        /\ \E o \in occurrences : o[3] = entities[k].description
        /\ \A o \in occurrences : /\ o[2] <= entities[k].display
                                  /\ o[3] <= entities[k].description
=============================================================================
