--------------------------- MODULE DocumentStore ---------------------------
(***************************************************************************)
(* The tables behind the StorageBackend trait (src/store): documents,      *)
(* chunks, the entity graph and the communities of one project scope, and  *)
(* the write operations of the trait, one action per transaction.          *)
(*                                                                         *)
(* A table is a set of rows.  Columns that no behaviour depends on         *)
(* (embeddings, descriptions, weights, tags) are left out, and rows that   *)
(* agree in every remaining column are one row.  A chunk row is identified *)
(* by <<document_id, chunk_index>>, which the schema declares UNIQUE; an   *)
(* entity row by its (normalized_name, entity_type), an element of Entity. *)
(* The stored mention_count is left out: it is recomputed from the mention *)
(* rows inside prune_orphan_entities, its only reader.                     *)
(*                                                                         *)
(* Transactions are atomic here, which is what SQLite's single writer      *)
(* gives; DeleteByPath selects the one operation whose SQL differs in      *)
(* substance between the SQLite and the PostgreSQL backend.                *)
(***************************************************************************)
EXTENDS Integers, FiniteSets

CONSTANTS
  Path,          \* values of documents.file_path
  Content,       \* distinct texts; content_hash identifies its text
  Entity,        \* keys (normalized_name, entity_type) of the entity table
  Named,         \* the first component of a key
  ChunkCount,    \* number of chunks chunk_document cuts a content into
  Embedded,      \* numbers of embeddings the provider may return for them
  Graph,         \* what build_document_entity_graph returns for a content
  DeleteByPath,  \* delete_document deletes by path (Postgres), not id (SQLite)
  MaxDocuments   \* bound on the documents ever inserted by StoreNext

ASSUME ChunkCountAssumption == \A c \in Content : ChunkCount[c] \in Nat

\* openai_compat.rs fills one place per text; ollama.rs hands on what the
\* answer holds, however little.  (What is over is dropped by the zip.)
ASSUME EmbeddedAssumption == \A c \in Content : Embedded[c] \subseteq 0 .. ChunkCount[c]

\* build_document_entity_graph records a mention of both endpoints of each
\* relationship in the chunk that evidences it.
ASSUME GraphAssumption ==
  \A c \in Content :
    /\ Graph[c].entities \subseteq Entity
    /\ Graph[c].mentions \subseteq (0 .. ChunkCount[c] - 1) \X Graph[c].entities
    /\ \A r \in Graph[c].relationships :
         /\ r.index \in 0 .. ChunkCount[c] - 1
         /\ {<<r.index, r.source>>, <<r.index, r.target>>} \subseteq Graph[c].mentions

ASSUME DeleteByPathAssumption == DeleteByPath \in BOOLEAN

VARIABLES
  documents,      \* rows [id, file_path, content_hash, revised]
  chunks,         \* rows [document_id, chunk_index, content]
  entities,       \* keys of the entity rows
  mentions,       \* rows [document_id, chunk_index, entity]
  relationships,  \* rows [source, target, evidence], evidence {} is NULL
  communities,    \* rows [detected_in, members], one for all the communities
                  \* of one detection
  next_id         \* identifiers below it have been given to documents

store == <<documents, chunks, entities, mentions, relationships, communities, next_id>>

----------------------------------------------------------------------------
(* Rows and types.                                                         *)

\* `revised` stands for created_at # updated_at: both are `now` when the row
\* is inserted and only updated_at moves on conflict.
DocumentRow == [id : Nat, file_path : Path, content_hash : Content, revised : BOOLEAN]
ChunkRow == [document_id : Nat, chunk_index : Nat, content : Content]
MentionRow == [document_id : Nat, chunk_index : Nat, entity : Entity]
RelationshipRow == [source : Entity, target : Entity, evidence : SUBSET (Nat \X Nat)]
CommunityRow == [detected_in : Content, members : SUBSET Entity]

ChunksOf(d) == {k \in chunks : k.document_id = d}
MentionsOf(d) == {m \in mentions : m.document_id = d}
EvidencedBy(r, d) == \E key \in r.evidence : key[1] = d
RelationshipsOf(d) == {r \in relationships : EvidencedBy(r, d)}

\* The chunk rows of document d that hold the first n chunks of content c.
ChunkRows(d, c, n) ==
  {[document_id |-> d, chunk_index |-> i, content |-> c] : i \in 0 .. n - 1}

\* The mention rows of c's graph when chunks with these indexes are stored.
MentionRows(d, c, indexes) ==
  {[document_id |-> d, chunk_index |-> m[1], entity |-> m[2]] :
     m \in {n \in Graph[c].mentions : n[1] \in indexes}}

\* Bug variant: evidence not looked up among the stored chunks.
RelationshipRowsUnchecked(d, c, indexes) ==
  {[source |-> r.source, target |-> r.target, evidence |-> {<<d, r.index>>}] :
     r \in Graph[c].relationships}

\* The relationship rows of c's graph: an index with no stored chunk leaves
\* evidence_chunk_id NULL.
RelationshipRows(d, c, indexes) ==
  {[source |-> r.source, target |-> r.target,
    evidence |-> IF r.index \in indexes THEN {<<d, r.index>>} ELSE {}] :
     r \in Graph[c].relationships}

StoreInit ==
  /\ documents = {}
  /\ chunks = {}
  /\ entities = {}
  /\ mentions = {}
  /\ relationships = {}
  /\ communities = {}
  /\ next_id = 1

----------------------------------------------------------------------------
(* Transactions.                                                           *)

AtPath(p) == {d \in documents : d.file_path = p}

\* The id upsert_document returns: the row's own, or the next fresh one.
IsUpsertedId(p, d) ==
  IF AtPath(p) = {} THEN d = next_id ELSE \E doc \in AtPath(p) : doc.id = d

\* Bug variant: ON CONFLICT does not move updated_at.
UpsertKeepsTimestamp(p, c) ==
  /\ documents' = (documents \ AtPath(p)) \cup
       {[id |-> d, file_path |-> p, content_hash |-> c, revised |-> FALSE] :
          d \in {i \in 1 .. next_id : IsUpsertedId(p, i)}}
  /\ next_id' = IF AtPath(p) = {} THEN next_id + 1 ELSE next_id
  /\ UNCHANGED <<chunks, entities, mentions, relationships, communities>>

\* INSERT ... ON CONFLICT(file_path) DO UPDATE keeps id and created_at.
UpsertDocument(p, c) ==
  /\ documents' =
       IF AtPath(p) = {}
       THEN documents \cup {[id |-> next_id, file_path |-> p, content_hash |-> c, revised |-> FALSE]}
       ELSE (documents \ AtPath(p)) \cup
              {[id |-> d.id, file_path |-> p, content_hash |-> c, revised |-> TRUE] : d \in AtPath(p)}
  /\ next_id' = IF AtPath(p) = {} THEN next_id + 1 ELSE next_id
  /\ UNCHANGED <<chunks, entities, mentions, relationships, communities>>

\* chunks.document_id REFERENCES documents(id): inserting a row needs it.
ChunksInsertable(d, n) == n > 0 => \E doc \in documents : doc.id = d

\* Bug variant: only chunks whose index is written again are replaced.
ReplaceOnlySameIndexes(d, c, n) ==
  LET kept == {k \in ChunksOf(d) : k.chunk_index >= n}
  IN  /\ ChunksInsertable(d, n)
      /\ relationships' = relationships \ RelationshipsOf(d)
      /\ mentions' = mentions \ MentionsOf(d)
      /\ chunks' = (chunks \ (ChunksOf(d) \ kept)) \cup ChunkRows(d, c, n)
      /\ UNCHANGED <<documents, entities, communities, next_id>>

\* Bug variant: relationships of the old chunks stay.
ReplaceKeepsRelationships(d, c, n) ==
  /\ ChunksInsertable(d, n)
  /\ mentions' = mentions \ MentionsOf(d)
  /\ chunks' = (chunks \ ChunksOf(d)) \cup ChunkRows(d, c, n)
  /\ UNCHANGED <<documents, entities, relationships, communities, next_id>>

\* Relationships evidenced by the old chunks, the chunks, and by cascade their
\* mentions go; the chunks the caller passes come, the first n of c's.
\* Entities are not pruned here.
ReplaceDocumentChunks(d, c, n) ==
  /\ ChunksInsertable(d, n)
  /\ relationships' = relationships \ RelationshipsOf(d)
  /\ mentions' = mentions \ MentionsOf(d)
  /\ chunks' = (chunks \ ChunksOf(d)) \cup ChunkRows(d, c, n)
  /\ UNCHANGED <<documents, entities, communities, next_id>>

\* Deletes every entity no mention refers to; relationships and community
\* memberships of a deleted entity go by cascade.
PruneOrphanEntities(rows, edges) ==
  /\ entities' = {e \in rows : \E m \in mentions' : m.entity = e}
  /\ relationships' = {r \in edges : r.source \in entities' /\ r.target \in entities'}
  /\ communities' = {[row EXCEPT !.members = @ \cap entities'] : row \in communities}

\* The chunk ids are those stored now, looked up by index; a mention of an
\* index that has no chunk is dropped.  (For an empty graph only the prune
\* runs: every set added is then empty.)
ReplaceDocumentEntityGraph(d, c) ==
  LET indexes == {k.chunk_index : k \in ChunksOf(d)}
  IN  /\ mentions' = mentions \cup MentionRows(d, c, indexes)
      /\ PruneOrphanEntities(entities \cup Graph[c].entities,
                             relationships \cup RelationshipRows(d, c, indexes))
      /\ UNCHANGED <<documents, chunks, next_id>>

\* The documents delete_document's transaction removes, given what its first
\* query returned.
Doomed(p, d) ==
  {doc \in documents : IF DeleteByPath THEN doc.file_path = p ELSE doc.id = d}

\* Bug variant: orphan entities are not pruned.
DeleteWithoutPrune(p, d) ==
  LET ids == {doc.id : doc \in Doomed(p, d)}
  IN  /\ documents' = documents \ Doomed(p, d)
      /\ chunks' = {k \in chunks : k.document_id \notin ids}
      /\ mentions' = {m \in mentions : m.document_id \notin ids}
      /\ relationships' = {r \in relationships : \A i \in ids : ~EvidencedBy(r, i)}
      /\ UNCHANGED <<entities, communities, next_id>>

\* Bug variant: relationships are deleted by endpoint, not by evidence.
DeleteEdgesOfEntities(p, d) ==
  LET ids == {doc.id : doc \in Doomed(p, d)}
      mentioned == {m.entity : m \in {row \in mentions : row.document_id \in ids}}
  IN  /\ documents' = documents \ Doomed(p, d)
      /\ chunks' = {k \in chunks : k.document_id \notin ids}
      /\ mentions' = {m \in mentions : m.document_id \notin ids}
      /\ PruneOrphanEntities(entities,
                             {r \in relationships : {r.source, r.target} \cap mentioned = {}})
      /\ UNCHANGED next_id

DeleteDocument(p, d) ==
  LET ids == {doc.id : doc \in Doomed(p, d)}
  IN  /\ documents' = documents \ Doomed(p, d)
      /\ chunks' = {k \in chunks : k.document_id \notin ids}
      /\ mentions' = {m \in mentions : m.document_id \notin ids}
      /\ PruneOrphanEntities(entities, {r \in relationships : \A i \in ids : ~EvidencedBy(r, i)})
      /\ UNCHANGED next_id

DeleteProjectCommunities ==
  /\ communities' = {}
  /\ UNCHANGED <<documents, chunks, entities, mentions, relationships, next_id>>

\* resolve_entity_ids looks names up, whatever the entity type: a member that
\* was pruned meanwhile is left out, a namesake of another type comes along.
ResolveEntityIds(c) ==
  {e \in entities : \E member \in Graph[c].entities : Named[member] = Named[e]}

\* Only INSERTs.  No entities, no communities, and then nothing is written.
SaveCommunities(c) ==
  /\ communities' =
       IF Graph[c].entities = {} THEN communities
       ELSE communities \cup {[detected_in |-> c, members |-> ResolveEntityIds(c)]}
  /\ UNCHANGED <<documents, chunks, entities, mentions, relationships, next_id>>

----------------------------------------------------------------------------
(* The store under any caller: every transaction, any argument, any order. *)

StoreNext ==
  \/ \E p \in Path, c \in Content :
       next_id <= MaxDocuments /\ UpsertDocument(p, c)
  \/ \E d \in 1 .. MaxDocuments, c \in Content :
       \E n \in Embedded[c] : ReplaceDocumentChunks(d, c, n)
  \/ \E d \in 1 .. MaxDocuments, c \in Content : ReplaceDocumentEntityGraph(d, c)
  \/ \E p \in Path, d \in 1 .. MaxDocuments : DeleteDocument(p, d)
  \/ DeleteProjectCommunities
  \/ \E c \in Content : SaveCommunities(c)

StoreSpec == StoreInit /\ [][StoreNext]_store

----------------------------------------------------------------------------
(* Properties.                                                             *)

\* Every table holds rows of its schema.
StoreTypeOK ==
  /\ documents \subseteq DocumentRow
  /\ chunks \subseteq ChunkRow
  /\ entities \subseteq Entity
  /\ mentions \subseteq MentionRow
  /\ relationships \subseteq RelationshipRow
  /\ \A r \in relationships : \A key1, key2 \in r.evidence : key1 = key2
  /\ communities \subseteq CommunityRow
  /\ next_id \in Nat

\* No row refers to a row that is gone, whatever the order in which callers
\* replace chunks, store graphs late and delete documents.
ReferentialIntegrity ==
  /\ \A k \in chunks : \E doc \in documents : doc.id = k.document_id
  /\ \A m \in mentions :
       /\ m.entity \in entities
       /\ \E k \in chunks : k.document_id = m.document_id /\ k.chunk_index = m.chunk_index
  /\ \A r \in relationships :
       /\ {r.source, r.target} \subseteq entities
       /\ \A key \in r.evidence :
            \E k \in chunks : k.document_id = key[1] /\ k.chunk_index = key[2]
  /\ \A row \in communities : row.members \subseteq entities

\* A path names at most one document and an id is never given out twice.
UniqueDocuments ==
  /\ \A d1, d2 \in documents :
       d1.file_path = d2.file_path \/ d1.id = d2.id => d1 = d2
  /\ \A d \in documents : d.id < next_id

\* The chunks of a document are the leading chunks of one content, as many as
\* the provider may have embedded: no caller ever leaves chunks of an old
\* version beside some of a new one, nor a gap between them.  (They are the
\* whole content only if the provider answers for every chunk.)
UnmixedDocuments ==
  \A doc \in documents :
    \/ ChunksOf(doc.id) = {}
    \/ \E c \in Content : \E n \in Embedded[c] : ChunksOf(doc.id) = ChunkRows(doc.id, c, n)

\* A relationship with evidence has both endpoints mentioned in the chunk that
\* evidences it, so pruning can never cascade into a stored chunk's edges.
EndpointsMentioned ==
  \A r \in relationships : \A key \in r.evidence : \A e \in {r.source, r.target} :
    [document_id |-> key[1], chunk_index |-> key[2], entity |-> e] \in mentions

\* The tables are sound under every caller: nothing dangles, nothing is there
\* twice, and what a prune may sweep away is never part of a stored graph.
StoreIsSound == ReferentialIntegrity /\ UniqueDocuments /\ UnmixedDocuments /\ EndpointsMentioned

\* What a document contributes to the index.
Contribution(d) == <<ChunksOf(d), MentionsOf(d), RelationshipsOf(d)>>

\* One transaction changes the contribution of at most one document, although
\* every graph write and every delete prunes the whole entity table.
OneDocumentPerTransaction ==
  [][\A d \in 1 .. MaxDocuments : Contribution(d)' # Contribution(d) =>
       \A other \in (1 .. MaxDocuments) \ {d} : Contribution(other)' = Contribution(other)]_store

=============================================================================
