------------------------ MODULE IngestPipeline_proofs ------------------------
(***************************************************************************)
(* Proofs about the tables and about the pipeline over them.               *)
(*                                                                         *)
(* The tables (DocumentStore) stay well-formed under any caller: for each  *)
(* transaction one lemma per part of the invariant it can disturb.  These  *)
(* lemmas are stated for the transactions, not for StoreNext, so that the  *)
(* proofs about the pipeline cite them too.                                *)
(*                                                                         *)
(* The pipeline, for any number of workers, paths, contents and calls,     *)
(* with and without extractor and faults, for either backend: its          *)
(* invariants, from the inductive invariant PipelineInv, and that it       *)
(* implements SearchableContent.                                           *)
(***************************************************************************)
EXTENDS IngestPipeline, FiniteSetTheorems, TLAPS

----------------------------------------------------------------------------
(* The tables.                                                             *)

\* StoreTypeOK and the safety invariants of the tables, inductive together.
StoreInv ==
  /\ StoreTypeOK
  /\ UniqueDocuments
  /\ ReferentialIntegrity
  /\ UnmixedDocuments
  /\ EndpointsMentioned

----------------------------------------------------------------------------
(* The rows the transactions insert.                                       *)

\* The number of embeddings is a number, at most that of the chunks.
LEMMA EmbeddedType ==
  ASSUME NEW c \in Content, NEW n \in Embedded[c]
  PROVE  n \in Nat /\ n <= ChunkCount[c]
BY ChunkCountAssumption, EmbeddedAssumption

LEMMA ChunkRowsType ==
  ASSUME NEW d \in Nat, NEW c \in Content, NEW n \in Nat
  PROVE  ChunkRows(d, c, n) \subseteq ChunkRow
BY DEF ChunkRows, ChunkRow

LEMMA MentionRowsType ==
  ASSUME NEW d \in Nat, NEW c \in Content, NEW indexes
  PROVE  MentionRows(d, c, indexes) \subseteq MentionRow
BY ChunkCountAssumption, GraphAssumption DEF MentionRows, MentionRow

LEMMA RelationshipEndpoints ==
  ASSUME NEW c \in Content, NEW r \in Graph[c].relationships
  PROVE  /\ r.source \in Entity
         /\ r.target \in Entity
         /\ r.index \in Nat
<1> DEFINE I == 0 .. ChunkCount[c] - 1
<1>1. /\ Graph[c].entities \subseteq Entity
      /\ Graph[c].mentions \subseteq I \X Graph[c].entities
      /\ r.index \in I
      /\ <<r.index, r.source>> \in Graph[c].mentions
      /\ <<r.index, r.target>> \in Graph[c].mentions
  BY GraphAssumption
<1>2. r.index \in Nat
  BY <1>1, ChunkCountAssumption
<1> HIDE DEF I
<1>3. r.source \in Graph[c].entities /\ r.target \in Graph[c].entities
  <2>1. <<r.index, r.source>> \in I \X Graph[c].entities
    BY <1>1
  <2>2. <<r.index, r.target>> \in I \X Graph[c].entities
    BY <1>1
  <2> QED BY <2>1, <2>2
<1> QED BY <1>1, <1>2, <1>3

LEMMA RelationshipRowsType ==
  ASSUME NEW d \in Nat, NEW c \in Content, NEW indexes
  PROVE  RelationshipRows(d, c, indexes) \subseteq RelationshipRow
<1> SUFFICES ASSUME NEW r \in Graph[c].relationships
             PROVE  [source |-> r.source, target |-> r.target,
                     evidence |-> IF r.index \in indexes THEN {<<d, r.index>>} ELSE {}]
                      \in RelationshipRow
  BY DEF RelationshipRows
<1>1. (IF r.index \in indexes THEN {<<d, r.index>>} ELSE {}) \in SUBSET (Nat \X Nat)
  BY RelationshipEndpoints
<1> QED BY <1>1, RelationshipEndpoints DEF RelationshipRow
----------------------------------------------------------------------------
(* UpsertDocument.                                                         *)

\* The row upsert_document writes.
UpsertedRow(d, p, c, r) == [id |-> d, file_path |-> p, content_hash |-> c, revised |-> r]

LEMMA UpsertEffect ==
  ASSUME StoreInv, NEW p \in Path, NEW c \in Content, UpsertDocument(p, c)
  PROVE  \/ /\ AtPath(p) = {}
            /\ documents' = documents \cup {UpsertedRow(next_id, p, c, FALSE)}
            /\ next_id' = next_id + 1
         \/ \E old \in documents :
              /\ AtPath(p) = {old}
              /\ documents' = (documents \ {old}) \cup {UpsertedRow(old.id, p, c, TRUE)}
              /\ next_id' = next_id
<1>1. CASE AtPath(p) = {}
  BY <1>1 DEF UpsertDocument, UpsertedRow
<1>2. CASE AtPath(p) # {}
  <2>1. PICK old \in documents : old.file_path = p
    BY <1>2 DEF AtPath
  <2>2. AtPath(p) = {old}
    BY <2>1 DEF AtPath, StoreInv, UniqueDocuments
  <2>3. {[id |-> d.id, file_path |-> p, content_hash |-> c, revised |-> TRUE] : d \in AtPath(p)}
          = {UpsertedRow(old.id, p, c, TRUE)}
    BY <2>2 DEF UpsertedRow
  <2>4. documents' = (documents \ AtPath(p)) \cup
          {[id |-> d.id, file_path |-> p, content_hash |-> c, revised |-> TRUE] : d \in AtPath(p)}
    BY <1>2 DEF UpsertDocument
  <2>5. next_id' = next_id
    BY <1>2 DEF UpsertDocument
  <2> QED BY <2>2, <2>3, <2>4, <2>5
<1> QED BY <1>1, <1>2

LEMMA UpsertPreservesInv ==
  ASSUME StoreInv, NEW p \in Path, NEW c \in Content, UpsertDocument(p, c)
  PROVE  StoreInv'
<1> DEFINE fresh == UpsertedRow(next_id, p, c, FALSE)
<1>0. /\ documents \subseteq DocumentRow
      /\ next_id \in Nat
      /\ \A d1, d2 \in documents :
           d1.file_path = d2.file_path \/ d1.id = d2.id => d1 = d2
      /\ \A d \in documents : d.id < next_id
  BY DEF StoreInv, StoreTypeOK, UniqueDocuments
<1>1. /\ documents' \subseteq DocumentRow
      /\ next_id' \in Nat
      /\ UniqueDocuments'
      /\ \A doc \in documents : \E new \in documents' : new.id = doc.id
  <2>1. CASE /\ AtPath(p) = {}
             /\ documents' = documents \cup {fresh}
             /\ next_id' = next_id + 1
    <3>1. /\ fresh \in DocumentRow
          /\ fresh.id = next_id
          /\ fresh.file_path = p
      BY <1>0 DEF UpsertedRow, DocumentRow
    <3>2. \A d \in documents : d.file_path # p /\ d.id \in Nat
      BY <1>0, <2>1 DEF AtPath, DocumentRow
    <3> HIDE DEF fresh
    <3>3. documents' \subseteq DocumentRow /\ next_id' \in Nat
      BY <1>0, <2>1, <3>1
    <3>4. \A d \in documents' : d.id < next_id'
      BY <1>0, <2>1, <3>1, <3>2
    <3>5. \A d1, d2 \in documents' :
            d1.file_path = d2.file_path \/ d1.id = d2.id => d1 = d2
      BY <1>0, <2>1, <3>1, <3>2
    <3> QED BY <2>1, <3>3, <3>4, <3>5 DEF UniqueDocuments
  <2>2. ASSUME NEW old \in documents,
               AtPath(p) = {old},
               documents' = (documents \ {old}) \cup {UpsertedRow(old.id, p, c, TRUE)},
               next_id' = next_id
        PROVE  /\ documents' \subseteq DocumentRow
               /\ next_id' \in Nat
               /\ UniqueDocuments'
               /\ \A doc \in documents : \E new \in documents' : new.id = doc.id
    <3> DEFINE new == UpsertedRow(old.id, p, c, TRUE)
    <3>1. /\ new \in DocumentRow
          /\ new.id = old.id
          /\ new.file_path = p
      BY <1>0 DEF UpsertedRow, DocumentRow
    <3>2. old.file_path = p
      BY <2>2 DEF AtPath
    <3>3. documents' = (documents \ {old}) \cup {new}
      BY <2>2
    <3> HIDE DEF new
    <3>4. documents' \subseteq DocumentRow /\ next_id' \in Nat
      BY <1>0, <2>2, <3>1, <3>3
    <3>5. \A d \in documents' : d.id < next_id'
      BY <1>0, <2>2, <3>1, <3>3
    <3>6. \A d1, d2 \in documents' :
            d1.file_path = d2.file_path \/ d1.id = d2.id => d1 = d2
      BY <1>0, <3>1, <3>2, <3>3
    <3> QED BY <3>1, <3>3, <3>4, <3>5, <3>6 DEF UniqueDocuments
  <2> QED BY <2>1, <2>2, UpsertEffect
<1>2. UNCHANGED <<chunks, entities, mentions, relationships, communities>>
  BY DEF UpsertDocument
<1>3. StoreTypeOK'
  BY <1>1, <1>2 DEF StoreInv, StoreTypeOK
<1>4. ReferentialIntegrity'
  BY <1>1, <1>2 DEF StoreInv, ReferentialIntegrity
<1>5. UnmixedDocuments'
  <2> SUFFICES ASSUME NEW doc \in documents'
               PROVE  \/ ChunksOf(doc.id) = {}
                      \/ \E x \in Content : \E m \in Embedded[x] : ChunksOf(doc.id) = ChunkRows(doc.id, x, m)
    BY <1>2 DEF UnmixedDocuments, ChunksOf, ChunkRows
  <2>1. CASE \E old \in documents : old.id = doc.id
    BY <2>1 DEF StoreInv, UnmixedDocuments
  <2>2. CASE ~ \E old \in documents : old.id = doc.id
    BY <2>2 DEF StoreInv, ReferentialIntegrity, ChunksOf
  <2> QED BY <2>1, <2>2
<1>6. EndpointsMentioned'
  BY <1>2 DEF StoreInv, EndpointsMentioned
<1> QED BY <1>1, <1>3, <1>4, <1>5, <1>6 DEF StoreInv
----------------------------------------------------------------------------
(* ReplaceDocumentChunks.                                                  *)

LEMMA ReplaceChunksEffect ==
  ASSUME StoreInv, NEW d \in Nat, NEW c \in Content, NEW n \in Embedded[c],
         ReplaceDocumentChunks(d, c, n)
  PROVE  /\ ChunksOf(d)' = ChunkRows(d, c, n)
         /\ MentionsOf(d)' = {}
         /\ RelationshipsOf(d)' = {}
         /\ \A k : k # d => Contribution(k)' = Contribution(k)
<1>1. /\ relationships' = relationships \ RelationshipsOf(d)
      /\ mentions' = mentions \ MentionsOf(d)
      /\ chunks' = (chunks \ ChunksOf(d)) \cup ChunkRows(d, c, n)
  BY DEF ReplaceDocumentChunks
<1>2. \A row \in ChunkRows(d, c, n) : row.document_id = d
  BY DEF ChunkRows
<1>3. ChunksOf(d)' = ChunkRows(d, c, n)
  BY <1>1, <1>2 DEF ChunksOf
<1>4. MentionsOf(d)' = {}
  BY <1>1 DEF MentionsOf
<1>5. RelationshipsOf(d)' = {}
  BY <1>1 DEF RelationshipsOf, EvidencedBy
<1>6. ASSUME NEW k, k # d
      PROVE  Contribution(k)' = Contribution(k)
  <2>1. ChunksOf(k)' = ChunksOf(k)
    BY <1>1, <1>2, <1>6 DEF ChunksOf
  <2>2. MentionsOf(k)' = MentionsOf(k)
    BY <1>1, <1>6 DEF MentionsOf
  <2>3. RelationshipsOf(k)' = RelationshipsOf(k)
    BY <1>1, <1>6 DEF RelationshipsOf, EvidencedBy, StoreInv, StoreTypeOK
  <2> QED BY <2>1, <2>2, <2>3 DEF Contribution
<1> QED BY <1>3, <1>4, <1>5, <1>6

LEMMA ReplaceChunksPreservesInv ==
  ASSUME StoreInv, NEW d \in Nat, NEW c \in Content, NEW n \in Embedded[c],
         ReplaceDocumentChunks(d, c, n)
  PROVE  StoreInv'
<1>1. /\ relationships' = relationships \ RelationshipsOf(d)
      /\ mentions' = mentions \ MentionsOf(d)
      /\ chunks' = (chunks \ ChunksOf(d)) \cup ChunkRows(d, c, n)
      /\ UNCHANGED <<documents, entities, communities, next_id>>
      /\ ChunksInsertable(d, n)
  BY DEF ReplaceDocumentChunks
<1>2. /\ \A row \in ChunkRows(d, c, n) : row.document_id = d
      /\ ChunkRows(d, c, n) # {} => n > 0
      /\ ChunkRows(d, c, n) \subseteq ChunkRow
  BY EmbeddedType, ChunkRowsType DEF ChunkRows
<1>3. StoreTypeOK'
  BY <1>1, <1>2 DEF StoreInv, StoreTypeOK
<1>4. UniqueDocuments'
  BY <1>1 DEF StoreInv, UniqueDocuments
<1>5. ReferentialIntegrity'
  <2>1. \A k \in chunks' : \E doc \in documents' : doc.id = k.document_id
    BY <1>1, <1>2 DEF StoreInv, ReferentialIntegrity, ChunksInsertable
  <2>2. \A m \in mentions' :
          /\ m.entity \in entities'
          /\ \E k \in chunks' : k.document_id = m.document_id /\ k.chunk_index = m.chunk_index
    BY <1>1 DEF StoreInv, ReferentialIntegrity, MentionsOf, ChunksOf
  <2>3. \A r \in relationships' :
          /\ {r.source, r.target} \subseteq entities'
          /\ \A key \in r.evidence :
               \E k \in chunks' : k.document_id = key[1] /\ k.chunk_index = key[2]
    BY <1>1 DEF StoreInv, ReferentialIntegrity, RelationshipsOf, EvidencedBy, ChunksOf
  <2>4. \A row \in communities' : row.members \subseteq entities'
    BY <1>1 DEF StoreInv, ReferentialIntegrity
  <2> QED BY <2>1, <2>2, <2>3, <2>4 DEF ReferentialIntegrity
<1>6. UnmixedDocuments'
  <2> SUFFICES ASSUME NEW doc \in documents
               PROVE  \/ ChunksOf(doc.id)' = {}
                      \/ \E x \in Content : \E m \in Embedded[x] : ChunksOf(doc.id)' = ChunkRows(doc.id, x, m)
    BY <1>1 DEF UnmixedDocuments, ChunkRows
  <2>1. CASE doc.id = d
    BY <2>1, ReplaceChunksEffect
  <2>2. CASE doc.id # d
    <3>1. ChunksOf(doc.id)' = ChunksOf(doc.id)
      BY <2>2, ReplaceChunksEffect DEF Contribution
    <3> QED BY <3>1 DEF StoreInv, UnmixedDocuments
  <2> QED BY <2>1, <2>2
<1>7. EndpointsMentioned'
  <2> SUFFICES ASSUME NEW r \in relationships', NEW key \in r.evidence,
                      NEW e \in {r.source, r.target}
               PROVE  [document_id |-> key[1], chunk_index |-> key[2], entity |-> e] \in mentions'
    BY DEF EndpointsMentioned
  <2>1. [document_id |-> key[1], chunk_index |-> key[2], entity |-> e] \in mentions
    BY <1>1 DEF StoreInv, EndpointsMentioned
  <2>2. key[1] # d
    BY <1>1 DEF RelationshipsOf, EvidencedBy
  <2> QED BY <1>1, <2>1, <2>2 DEF MentionsOf
<1> QED BY <1>3, <1>4, <1>5, <1>6, <1>7 DEF StoreInv
----------------------------------------------------------------------------
(* PruneOrphanEntities, common to graph writes and deletes.                *)

\* The pruned tables are well-formed whatever remains of the mentions, and an
\* edge both of whose endpoints are mentioned is not lost.
LEMMA PruneEffect ==
  ASSUME StoreTypeOK,
         NEW rows \in SUBSET Entity, NEW edges \in SUBSET RelationshipRow,
         PruneOrphanEntities(rows, edges)
  PROVE  /\ entities' \subseteq rows
         /\ relationships' \subseteq edges
         /\ communities' \subseteq CommunityRow
         /\ \A m \in mentions' : m.entity \in rows => m.entity \in entities'
         /\ \A e \in entities' : \E m \in mentions' : m.entity = e
         /\ \A r \in relationships' : {r.source, r.target} \subseteq entities'
         /\ \A r \in edges :
              r.source \in entities' /\ r.target \in entities' => r \in relationships'
         /\ \A row \in communities' : row.members \subseteq entities'
<1>1. /\ entities' = {e \in rows : \E m \in mentions' : m.entity = e}
      /\ relationships' = {r \in edges : r.source \in entities' /\ r.target \in entities'}
      /\ communities' = {[row EXCEPT !.members = @ \cap entities'] : row \in communities}
  BY DEF PruneOrphanEntities
<1>2. ASSUME NEW row \in communities
      PROVE  /\ [row EXCEPT !.members = @ \cap entities'] \in CommunityRow
             /\ [row EXCEPT !.members = @ \cap entities'].members \subseteq entities'
  <2>1. row \in CommunityRow
    BY DEF StoreTypeOK
  <2> QED BY <2>1 DEF CommunityRow
<1>3. /\ communities' \subseteq CommunityRow
      /\ \A row \in communities' : row.members \subseteq entities'
  BY <1>1, <1>2
<1> QED BY <1>1, <1>3

----------------------------------------------------------------------------
(* ReplaceDocumentEntityGraph.                                             *)

Indexes(d) == {k.chunk_index : k \in ChunksOf(d)}

LEMMA StoreGraphTables ==
  ASSUME StoreInv, NEW d \in Nat, NEW c \in Content, ReplaceDocumentEntityGraph(d, c)
  PROVE  /\ mentions' = mentions \cup MentionRows(d, c, Indexes(d))
         /\ PruneOrphanEntities(entities \cup Graph[c].entities,
                                relationships \cup RelationshipRows(d, c, Indexes(d)))
         /\ UNCHANGED <<documents, chunks, next_id>>
BY DEF ReplaceDocumentEntityGraph, Indexes

LEMMA MentionRowsFacts ==
  ASSUME NEW d \in Nat, NEW c \in Content, NEW indexes,
         NEW m \in MentionRows(d, c, indexes)
  PROVE  /\ m.document_id = d
         /\ m.chunk_index \in indexes
         /\ m.entity \in Graph[c].entities
BY GraphAssumption DEF MentionRows

LEMMA RelationshipRowsFacts ==
  ASSUME NEW d \in Nat, NEW c \in Content, NEW indexes,
         NEW r \in RelationshipRows(d, c, indexes), NEW key \in r.evidence
  PROVE  /\ key[1] = d
         /\ key[2] \in indexes
         /\ r.evidence = {key}
         /\ \A e \in {r.source, r.target} :
              [document_id |-> key[1], chunk_index |-> key[2], entity |-> e]
                \in MentionRows(d, c, indexes)
<1>1. PICK g \in Graph[c].relationships :
        r = [source |-> g.source, target |-> g.target,
             evidence |-> IF g.index \in indexes THEN {<<d, g.index>>} ELSE {}]
  BY DEF RelationshipRows
<1>2. /\ g.index \in indexes
      /\ key = <<d, g.index>>
      /\ r.evidence = {key}
      /\ r.source = g.source
      /\ r.target = g.target
  BY <1>1
<1>3. /\ <<g.index, g.source>> \in Graph[c].mentions
      /\ <<g.index, g.target>> \in Graph[c].mentions
  BY GraphAssumption
<1>4. ASSUME NEW e \in {g.source, g.target}
      PROVE  [document_id |-> d, chunk_index |-> g.index, entity |-> e] \in MentionRows(d, c, indexes)
  <2>1. <<g.index, e>> \in {n \in Graph[c].mentions : n[1] \in indexes}
    BY <1>2, <1>3
  <2> QED BY <2>1 DEF MentionRows
<1> QED BY <1>2, <1>4

LEMMA StoreGraphPreservesInv ==
  ASSUME StoreInv, NEW d \in Nat, NEW c \in Content, ReplaceDocumentEntityGraph(d, c)
  PROVE  StoreInv'
<1> DEFINE I == Indexes(d)
           rows == entities \cup Graph[c].entities
           edges == relationships \cup RelationshipRows(d, c, I)
<1>1. /\ mentions' = mentions \cup MentionRows(d, c, I)
      /\ PruneOrphanEntities(rows, edges)
      /\ UNCHANGED <<documents, chunks, next_id>>
  BY StoreGraphTables
<1>2. rows \in SUBSET Entity /\ edges \in SUBSET RelationshipRow
  BY GraphAssumption, RelationshipRowsType DEF StoreInv, StoreTypeOK
<1>3. StoreTypeOK
  BY DEF StoreInv
<1> HIDE DEF I, rows, edges
<1>4. /\ entities' \subseteq rows
      /\ relationships' \subseteq edges
      /\ communities' \subseteq CommunityRow
      /\ \A m \in mentions' : m.entity \in rows => m.entity \in entities'
      /\ \A r \in relationships' : {r.source, r.target} \subseteq entities'
      /\ \A row \in communities' : row.members \subseteq entities'
  BY <1>1, <1>2, <1>3, PruneEffect
<1>10. ASSUME NEW r \in RelationshipRows(d, c, I), NEW key \in r.evidence
       PROVE  /\ key[1] = d
              /\ key[2] \in I
              /\ r.evidence = {key}
  BY DEF RelationshipRows
<1>5. StoreTypeOK'
  <2>1. mentions' \subseteq MentionRow
    BY <1>1, <1>3, MentionRowsType DEF StoreTypeOK
  <2>2. \A r \in relationships' : \A key1, key2 \in r.evidence : key1 = key2
    <3> SUFFICES ASSUME NEW r \in relationships', NEW key1 \in r.evidence, NEW key2 \in r.evidence
                 PROVE  key1 = key2
      OBVIOUS
    <3>1. CASE r \in relationships
      BY <1>3, <3>1 DEF StoreTypeOK
    <3>2. CASE r \in RelationshipRows(d, c, I)
      <4>1. r.evidence = {key1}
        BY <3>2, <1>10
      <4> QED BY <4>1
    <3> QED BY <1>4, <3>1, <3>2 DEF edges
  <2> QED BY <1>1, <1>2, <1>3, <1>4, <2>1, <2>2 DEF StoreTypeOK
<1>6. UniqueDocuments'
  BY <1>1 DEF StoreInv, UniqueDocuments
<1>7. ReferentialIntegrity'
  <2>1. \A k \in chunks' : \E doc \in documents' : doc.id = k.document_id
    BY <1>1 DEF StoreInv, ReferentialIntegrity
  <2>2. ASSUME NEW m \in mentions'
        PROVE  /\ m.entity \in entities'
               /\ \E k \in chunks' : k.document_id = m.document_id /\ k.chunk_index = m.chunk_index
    <3>1. CASE m \in mentions
      BY <1>1, <1>4, <3>1 DEF StoreInv, ReferentialIntegrity, rows
    <3>2. CASE m \in MentionRows(d, c, I)
      BY <1>1, <1>4, <3>2, MentionRowsFacts DEF rows, I, Indexes, ChunksOf
    <3> QED BY <1>1, <3>1, <3>2
  <2>3. ASSUME NEW r \in relationships', NEW key \in r.evidence
        PROVE  \E k \in chunks' : k.document_id = key[1] /\ k.chunk_index = key[2]
    <3>1. CASE r \in relationships
      BY <1>1, <3>1 DEF StoreInv, ReferentialIntegrity
    <3>2. CASE r \in RelationshipRows(d, c, I)
      <4>1. key[1] = d /\ key[2] \in Indexes(d)
        BY <3>2, <1>10 DEF I
      <4>2. PICK k \in ChunksOf(d) : k.chunk_index = key[2]
        BY <4>1 DEF Indexes
      <4> QED BY <1>1, <4>1, <4>2 DEF ChunksOf
    <3> QED BY <1>4, <3>1, <3>2 DEF edges
  <2> QED BY <1>4, <2>1, <2>2, <2>3 DEF ReferentialIntegrity
<1>8. UnmixedDocuments'
  BY <1>1 DEF StoreInv, UnmixedDocuments, ChunksOf, ChunkRows
<1>9. EndpointsMentioned'
  <2> SUFFICES ASSUME NEW r \in relationships', NEW key \in r.evidence,
                      NEW e \in {r.source, r.target}
               PROVE  [document_id |-> key[1], chunk_index |-> key[2], entity |-> e] \in mentions'
    BY DEF EndpointsMentioned
  <2>1. CASE r \in relationships
    BY <1>1, <2>1 DEF StoreInv, EndpointsMentioned
  <2>2. CASE r \in RelationshipRows(d, c, I)
    BY <1>1, <2>2, RelationshipRowsFacts
  <2> QED BY <1>4, <2>1, <2>2 DEF edges
<1> QED BY <1>5, <1>6, <1>7, <1>8, <1>9 DEF StoreInv
----------------------------------------------------------------------------
(* DeleteDocument.                                                         *)

DoomedIds(p, d) == {doc.id : doc \in Doomed(p, d)}

LEMMA DeletePreservesInv ==
  ASSUME StoreInv, NEW p \in Path, NEW d \in Nat, DeleteDocument(p, d)
  PROVE  StoreInv'
<1> DEFINE ids == DoomedIds(p, d)
           edges == {r \in relationships : \A i \in ids : ~EvidencedBy(r, i)}
<1>1. /\ documents' = documents \ Doomed(p, d)
      /\ chunks' = {k \in chunks : k.document_id \notin ids}
      /\ mentions' = {m \in mentions : m.document_id \notin ids}
      /\ PruneOrphanEntities(entities, edges)
      /\ UNCHANGED next_id
  BY DEF DeleteDocument, DoomedIds
<1>2. entities \in SUBSET Entity /\ edges \in SUBSET RelationshipRow /\ StoreTypeOK
  BY DEF StoreInv, StoreTypeOK
<1>3. \A doc \in documents : doc.id \in ids => doc \in Doomed(p, d)
  <2> SUFFICES ASSUME NEW doc \in documents, NEW gone \in Doomed(p, d), doc.id = gone.id
               PROVE  doc = gone
    BY DEF DoomedIds
  <2> QED BY DEF Doomed, StoreInv, UniqueDocuments
<1>4. \A r \in relationships : r \in edges <=> \A key \in r.evidence : key[1] \notin ids
  BY DEF EvidencedBy
<1>5. edges \subseteq relationships
  OBVIOUS
<1> HIDE DEF ids, edges
<1>6. /\ entities' \subseteq entities
      /\ relationships' \subseteq edges
      /\ communities' \subseteq CommunityRow
      /\ \A m \in mentions' : m.entity \in entities => m.entity \in entities'
      /\ \A r \in relationships' : {r.source, r.target} \subseteq entities'
      /\ \A row \in communities' : row.members \subseteq entities'
  BY <1>1, <1>2, PruneEffect
<1>7. StoreTypeOK'
  BY <1>1, <1>2, <1>5, <1>6 DEF StoreTypeOK
<1>8. UniqueDocuments'
  BY <1>1 DEF StoreInv, UniqueDocuments
<1>9. ReferentialIntegrity'
  <2>1. \A k \in chunks' : \E doc \in documents' : doc.id = k.document_id
    <3> SUFFICES ASSUME NEW k \in chunks'
                 PROVE  \E doc \in documents' : doc.id = k.document_id
      OBVIOUS
    <3>1. PICK doc \in documents : doc.id = k.document_id
      BY <1>1 DEF StoreInv, ReferentialIntegrity
    <3>2. doc \notin Doomed(p, d)
      BY <1>1, <3>1 DEF ids, DoomedIds
    <3> QED BY <1>1, <3>1, <3>2
  <2>2. \A m \in mentions' :
          /\ m.entity \in entities'
          /\ \E k \in chunks' : k.document_id = m.document_id /\ k.chunk_index = m.chunk_index
    BY <1>1, <1>6 DEF StoreInv, ReferentialIntegrity
  <2>3. ASSUME NEW r \in relationships', NEW key \in r.evidence
        PROVE  \E k \in chunks' : k.document_id = key[1] /\ k.chunk_index = key[2]
    <3>1. r \in relationships /\ key[1] \notin ids
      BY <1>4, <1>5, <1>6
    <3> QED BY <1>1, <3>1 DEF StoreInv, ReferentialIntegrity
  <2> QED BY <1>6, <2>1, <2>2, <2>3 DEF ReferentialIntegrity
<1>10. UnmixedDocuments'
  <2> SUFFICES ASSUME NEW doc \in documents, doc \notin Doomed(p, d)
               PROVE  \/ ChunksOf(doc.id)' = {}
                      \/ \E x \in Content : \E m \in Embedded[x] : ChunksOf(doc.id)' = ChunkRows(doc.id, x, m)
    BY <1>1 DEF UnmixedDocuments, ChunkRows
  <2>1. doc.id \notin ids
    BY <1>3
  <2>2. ChunksOf(doc.id)' = ChunksOf(doc.id)
    BY <1>1, <2>1 DEF ChunksOf
  <2> QED BY <2>2 DEF StoreInv, UnmixedDocuments
<1>11. EndpointsMentioned'
  <2> SUFFICES ASSUME NEW r \in relationships', NEW key \in r.evidence,
                      NEW e \in {r.source, r.target}
               PROVE  [document_id |-> key[1], chunk_index |-> key[2], entity |-> e] \in mentions'
    BY DEF EndpointsMentioned
  <2>1. r \in relationships /\ key[1] \notin ids
    BY <1>4, <1>5, <1>6
  <2>2. [document_id |-> key[1], chunk_index |-> key[2], entity |-> e] \in mentions
    BY <2>1 DEF StoreInv, EndpointsMentioned
  <2> QED BY <1>1, <2>1, <2>2
<1> QED BY <1>7, <1>8, <1>9, <1>10, <1>11 DEF StoreInv

----------------------------------------------------------------------------
(* What each transaction leaves alone.                                     *)

\* An evidenced relationship whose mentions survive survives the prune.
LEMMA EvidencedSurvive ==
  ASSUME StoreTypeOK,
         NEW rows \in SUBSET Entity, NEW edges \in SUBSET RelationshipRow,
         PruneOrphanEntities(rows, edges),
         NEW r \in edges, NEW key \in r.evidence,
         {r.source, r.target} \subseteq rows,
         \A e \in {r.source, r.target} :
           [document_id |-> key[1], chunk_index |-> key[2], entity |-> e] \in mentions'
  PROVE  r \in relationships'
<1>1. ASSUME NEW e \in {r.source, r.target}
      PROVE  e \in entities'
  <2> DEFINE m == [document_id |-> key[1], chunk_index |-> key[2], entity |-> e]
  <2>1. m \in mentions' /\ m.entity = e /\ e \in rows
    OBVIOUS
  <2> HIDE DEF m
  <2> QED BY <2>1, PruneEffect
<1> QED BY <1>1, PruneEffect

\* Storing a graph changes the contribution of its document only.
LEMMA StoreGraphEffect ==
  ASSUME StoreInv, NEW d \in Nat, NEW c \in Content, ReplaceDocumentEntityGraph(d, c)
  PROVE  /\ \A k : ChunksOf(k)' = ChunksOf(k)
         /\ MentionsOf(d)' = MentionsOf(d) \cup MentionRows(d, c, Indexes(d))
         /\ RelationshipsOf(d)' = RelationshipsOf(d) \cup
              {r \in RelationshipRows(d, c, Indexes(d)) : EvidencedBy(r, d)}
         /\ \A k : k # d => Contribution(k)' = Contribution(k)
<1> DEFINE new == RelationshipRows(d, c, Indexes(d))
           rows == entities \cup Graph[c].entities
           edges == relationships \cup new
           added == MentionRows(d, c, Indexes(d))
<1>1. /\ mentions' = mentions \cup added
      /\ PruneOrphanEntities(rows, edges)
      /\ UNCHANGED <<documents, chunks, next_id>>
  BY StoreGraphTables
<1>2. /\ rows \in SUBSET Entity
      /\ edges \in SUBSET RelationshipRow
      /\ StoreTypeOK
  BY GraphAssumption, RelationshipRowsType DEF StoreInv, StoreTypeOK
<1>3. \A m \in added : m.document_id = d /\ m.entity \in rows
  BY MentionRowsFacts
<1>4. \A r \in new : \A key \in r.evidence : key[1] = d
  BY DEF RelationshipRows
<1>5. ASSUME NEW r \in new, NEW key \in r.evidence, NEW e \in {r.source, r.target}
      PROVE  [document_id |-> key[1], chunk_index |-> key[2], entity |-> e] \in added
  BY RelationshipRowsFacts
<1>6. relationships' \subseteq edges
  BY <1>1, <1>2, PruneEffect
<1> HIDE DEF new, rows, added
<1>7. ASSUME NEW r \in edges, NEW key \in r.evidence
      PROVE  r \in relationships'
  <2>1. ASSUME NEW e \in {r.source, r.target}
        PROVE  /\ e \in rows
               /\ [document_id |-> key[1], chunk_index |-> key[2], entity |-> e] \in mentions'
    <3> DEFINE m == [document_id |-> key[1], chunk_index |-> key[2], entity |-> e]
    <3>1. CASE r \in relationships
      <4>1. m \in mentions
        BY <3>1 DEF StoreInv, EndpointsMentioned
      <4>2. e \in entities
        BY <3>1 DEF StoreInv, ReferentialIntegrity
      <4> QED BY <1>1, <4>1, <4>2 DEF rows
    <3>2. CASE r \in new
      <4>1. m \in added /\ m.entity = e
        BY <3>2, <1>5
      <4> HIDE DEF m
      <4>2. e \in rows
        BY <1>3, <4>1
      <4> QED BY <1>1, <4>1, <4>2 DEF m
    <3> QED BY <3>1, <3>2
  <2> QED BY <1>1, <1>2, <2>1, EvidencedSurvive
<1>8. \A k : ChunksOf(k)' = ChunksOf(k)
  BY <1>1 DEF ChunksOf
<1>9. \A k : RelationshipsOf(k)' = {r \in edges : EvidencedBy(r, k)}
  BY <1>6, <1>7 DEF RelationshipsOf, EvidencedBy
<1>10. RelationshipsOf(d)' = RelationshipsOf(d) \cup {r \in new : EvidencedBy(r, d)}
  BY <1>9 DEF RelationshipsOf
<1>11. MentionsOf(d)' = MentionsOf(d) \cup added
  BY <1>1, <1>3 DEF MentionsOf
<1>12. ASSUME NEW k, k # d
       PROVE  Contribution(k)' = Contribution(k)
  <2>1. MentionsOf(k)' = MentionsOf(k)
    BY <1>1, <1>3, <1>12 DEF MentionsOf
  <2>2. RelationshipsOf(k)' = RelationshipsOf(k)
    BY <1>4, <1>9, <1>12 DEF RelationshipsOf, EvidencedBy
  <2> QED BY <1>8, <2>1, <2>2 DEF Contribution
<1> QED BY <1>8, <1>10, <1>11, <1>12 DEF new, added

\* Deleting a document changes the contribution of that document only.
LEMMA DeleteEffect ==
  ASSUME StoreInv, NEW p \in Path, NEW d \in Nat, DeleteDocument(p, d)
  PROVE  /\ \A k \in DoomedIds(p, d) : ChunksOf(k)' = {}
         /\ \A k : k \notin DoomedIds(p, d) => Contribution(k)' = Contribution(k)
<1> DEFINE ids == DoomedIds(p, d)
           edges == {r \in relationships : \A i \in ids : ~EvidencedBy(r, i)}
<1>1. /\ chunks' = {k \in chunks : k.document_id \notin ids}
      /\ mentions' = {m \in mentions : m.document_id \notin ids}
      /\ PruneOrphanEntities(entities, edges)
  BY DEF DeleteDocument, DoomedIds
<1>2. /\ entities \in SUBSET Entity
      /\ edges \in SUBSET RelationshipRow
      /\ StoreTypeOK
  BY DEF StoreInv, StoreTypeOK
<1>3. relationships' \subseteq edges
  BY <1>1, <1>2, PruneEffect
<1>4. \A r \in relationships : r \in edges <=> \A key \in r.evidence : key[1] \notin ids
  BY DEF EvidencedBy
<1>5. edges \subseteq relationships
  OBVIOUS
<1> HIDE DEF ids, edges
<1>6. ASSUME NEW r \in edges, NEW key \in r.evidence
      PROVE  r \in relationships'
  <2>1. r \in relationships /\ key[1] \notin ids
    BY <1>4, <1>5
  <2>2. {r.source, r.target} \subseteq entities
    BY <2>1 DEF StoreInv, ReferentialIntegrity
  <2>3. ASSUME NEW e \in {r.source, r.target}
        PROVE  [document_id |-> key[1], chunk_index |-> key[2], entity |-> e] \in mentions'
    <3>1. [document_id |-> key[1], chunk_index |-> key[2], entity |-> e] \in mentions
      BY <2>1 DEF StoreInv, EndpointsMentioned
    <3> QED BY <1>1, <2>1, <3>1
  <2> QED BY <1>1, <1>2, <2>2, <2>3, EvidencedSurvive
<1>7. ASSUME NEW k, k \notin ids
      PROVE  Contribution(k)' = Contribution(k)
  <2>1. ChunksOf(k)' = ChunksOf(k) /\ MentionsOf(k)' = MentionsOf(k)
    BY <1>1, <1>7 DEF ChunksOf, MentionsOf
  <2>2. RelationshipsOf(k)' \subseteq RelationshipsOf(k)
    BY <1>3, <1>5 DEF RelationshipsOf, EvidencedBy
  <2>3. ASSUME NEW r \in RelationshipsOf(k)
        PROVE  r \in RelationshipsOf(k)'
    <3>1. PICK key \in r.evidence : key[1] = k
      BY DEF RelationshipsOf, EvidencedBy
    <3>2. \A other \in r.evidence : other = key
      BY <1>2 DEF RelationshipsOf, StoreTypeOK
    <3>3. r \in edges
      BY <1>4, <1>7, <3>1, <3>2 DEF RelationshipsOf
    <3> QED BY <1>6, <3>1, <3>3 DEF RelationshipsOf, EvidencedBy
  <2> QED BY <2>1, <2>2, <2>3 DEF Contribution
<1>8. \A k \in ids : ChunksOf(k)' = {}
  BY <1>1 DEF ChunksOf
<1> QED BY <1>7, <1>8 DEF ids

----------------------------------------------------------------------------
(* The community calls, and the theorem about the store.                   *)

LEMMA CommunitiesPreserveInv ==
  ASSUME StoreInv,
         communities' \subseteq CommunityRow,
         \A row \in communities' : row.members \subseteq entities,
         UNCHANGED <<documents, chunks, entities, mentions, relationships, next_id>>
  PROVE  StoreInv'
<1>1. StoreTypeOK'
  BY DEF StoreInv, StoreTypeOK
<1>2. UniqueDocuments' /\ EndpointsMentioned'
  BY DEF StoreInv, UniqueDocuments, EndpointsMentioned
<1>3. ReferentialIntegrity'
  BY DEF StoreInv, ReferentialIntegrity
<1>4. UnmixedDocuments'
  BY DEF StoreInv, UnmixedDocuments, ChunksOf, ChunkRows
<1> QED BY <1>1, <1>2, <1>3, <1>4 DEF StoreInv

LEMMA DeleteCommunitiesPreservesInv ==
  ASSUME StoreInv, DeleteProjectCommunities
  PROVE  StoreInv'
BY CommunitiesPreserveInv DEF DeleteProjectCommunities

LEMMA SaveCommunitiesPreservesInv ==
  ASSUME StoreInv, NEW c \in Content, SaveCommunities(c)
  PROVE  StoreInv'
<1> DEFINE row == [detected_in |-> c, members |-> ResolveEntityIds(c)]
<1>1. communities' \subseteq communities \cup {row}
  BY DEF SaveCommunities
<1>2. row \in CommunityRow /\ row.members \subseteq entities
  BY DEF CommunityRow, ResolveEntityIds, StoreInv, StoreTypeOK
<1>3. /\ communities \subseteq CommunityRow
      /\ \A r \in communities : r.members \subseteq entities
  BY DEF StoreInv, StoreTypeOK, ReferentialIntegrity
<1> HIDE DEF row
<1>4. /\ communities' \subseteq CommunityRow
      /\ \A r \in communities' : r.members \subseteq entities
  BY <1>1, <1>2, <1>3
<1>5. UNCHANGED <<documents, chunks, entities, mentions, relationships, next_id>>
  BY DEF SaveCommunities
<1> QED BY <1>4, <1>5, CommunitiesPreserveInv

LEMMA StutterPreservesInv ==
  ASSUME StoreInv, UNCHANGED store
  PROVE  StoreInv'
BY CommunitiesPreserveInv DEF store, StoreInv, StoreTypeOK, ReferentialIntegrity

LEMMA StoreInitInv == StoreInit => StoreInv
BY DEF StoreInit, StoreInv, StoreTypeOK, UniqueDocuments, ReferentialIntegrity,
       UnmixedDocuments, EndpointsMentioned

LEMMA StoreNextInv == StoreInv /\ [StoreNext]_store => StoreInv'
<1> SUFFICES ASSUME StoreInv, [StoreNext]_store
             PROVE  StoreInv'
  OBVIOUS
<1>1. ASSUME NEW p \in Path, NEW c \in Content, UpsertDocument(p, c)
      PROVE  StoreInv'
  BY <1>1, UpsertPreservesInv
<1>2. ASSUME NEW d \in 1 .. MaxDocuments, NEW c \in Content, NEW n \in Embedded[c],
         ReplaceDocumentChunks(d, c, n)
      PROVE  StoreInv'
  BY <1>2, ReplaceChunksPreservesInv
<1>3. ASSUME NEW d \in 1 .. MaxDocuments, NEW c \in Content, ReplaceDocumentEntityGraph(d, c)
      PROVE  StoreInv'
  BY <1>3, StoreGraphPreservesInv
<1>4. ASSUME NEW p \in Path, NEW d \in 1 .. MaxDocuments, DeleteDocument(p, d)
      PROVE  StoreInv'
  BY <1>4, DeletePreservesInv
<1>5. CASE DeleteProjectCommunities
  BY <1>5, DeleteCommunitiesPreservesInv
<1>6. ASSUME NEW c \in Content, SaveCommunities(c)
      PROVE  StoreInv'
  BY <1>6, SaveCommunitiesPreservesInv
<1>7. CASE UNCHANGED store
  BY <1>7, StutterPreservesInv
<1> QED BY <1>1, <1>2, <1>3, <1>4, <1>5, <1>6, <1>7 DEF StoreNext

\* Whatever the callers do, the tables keep their types, no row dangles, paths
\* and ids stay unique, each document's chunks are the leading chunks of one
\* content (as many as its caller had embeddings for), and every evidenced
\* relationship has its endpoints mentioned.
THEOREM StoreCorrect ==
  StoreSpec => [](StoreTypeOK /\ StoreIsSound)
<1>1. StoreInv => StoreTypeOK /\ StoreIsSound
  BY DEF StoreInv, StoreIsSound
<1> QED BY <1>1, StoreInitInv, StoreNextInv, PTL DEF StoreSpec
OneDocumentChanges ==
  \A d \in 1 .. MaxDocuments : Contribution(d)' # Contribution(d) =>
    \A other \in (1 .. MaxDocuments) \ {d} : Contribution(other)' = Contribution(other)

\* The communities are no document's contribution.
LEMMA CommunitiesEffect ==
  ASSUME UNCHANGED <<chunks, mentions, relationships>>
  PROVE  \A k : Contribution(k)' = Contribution(k)
BY DEF Contribution, ChunksOf, MentionsOf, RelationshipsOf, EvidencedBy

LEMMA DoomedIsOne ==
  ASSUME StoreInv, NEW p, NEW d, NEW i \in DoomedIds(p, d), NEW j \in DoomedIds(p, d)
  PROVE  i = j
BY DEF DoomedIds, Doomed, StoreInv, UniqueDocuments

LEMMA NextChangesOneDocument == StoreInv /\ [StoreNext]_store => OneDocumentChanges
<1> SUFFICES ASSUME StoreInv, [StoreNext]_store,
                    NEW d1 \in 1 .. MaxDocuments, NEW d2 \in 1 .. MaxDocuments,
                    Contribution(d1)' # Contribution(d1),
                    Contribution(d2)' # Contribution(d2)
             PROVE  d1 = d2
  BY DEF OneDocumentChanges
<1>1. ASSUME NEW p \in Path, NEW c \in Content, UpsertDocument(p, c)
      PROVE  d1 = d2
  BY <1>1, CommunitiesEffect DEF UpsertDocument
<1>2. ASSUME NEW d \in 1 .. MaxDocuments, NEW c \in Content, NEW n \in Embedded[c],
         ReplaceDocumentChunks(d, c, n)
      PROVE  d1 = d2
  BY <1>2, ReplaceChunksEffect
<1>3. ASSUME NEW d \in 1 .. MaxDocuments, NEW c \in Content, ReplaceDocumentEntityGraph(d, c)
      PROVE  d1 = d2
  BY <1>3, StoreGraphEffect
<1>4. ASSUME NEW p \in Path, NEW d \in 1 .. MaxDocuments, DeleteDocument(p, d)
      PROVE  d1 = d2
  <2>1. d1 \in DoomedIds(p, d) /\ d2 \in DoomedIds(p, d)
    BY <1>4, DeleteEffect
  <2> QED BY <2>1, DoomedIsOne
<1>5. CASE DeleteProjectCommunities
  BY <1>5, CommunitiesEffect DEF DeleteProjectCommunities
<1>6. ASSUME NEW c \in Content, SaveCommunities(c)
      PROVE  d1 = d2
  BY <1>6, CommunitiesEffect DEF SaveCommunities
<1>7. CASE UNCHANGED store
  BY <1>7, CommunitiesEffect DEF store
<1> QED BY <1>1, <1>2, <1>3, <1>4, <1>5, <1>6, <1>7 DEF StoreNext

\* Every transaction changes the chunks, mentions and evidenced relationships of
\* at most one document, although graph writes and deletes prune all entities.
THEOREM StoreIsolation == StoreSpec => OneDocumentPerTransaction
<1>1. StoreInv /\ [StoreNext]_store => [OneDocumentChanges]_store
  BY NextChangesOneDocument
<1>2. [OneDocumentChanges]_store <=>
        [\A d \in 1 .. MaxDocuments : Contribution(d)' # Contribution(d) =>
           \A other \in (1 .. MaxDocuments) \ {d} :
             Contribution(other)' = Contribution(other)]_store
  BY DEF OneDocumentChanges
<1> QED BY <1>1, <1>2, StoreInitInv, StoreNextInv, PTL DEF StoreSpec, OneDocumentPerTransaction

----------------------------------------------------------------------------
(* The pipeline.                                                           *)

\* The worker half of TypeOK.  The chunk table is finite, so that it can be
\* counted.
WorkersTypeOK ==
  /\ pc \in [Worker -> Step]
  /\ job \in [Worker -> Job]
  /\ started \in Nat
  /\ spoiled \subseteq Path
  /\ IsFiniteSet(chunks)

\* What a worker remembers of the provider's answer is one it may give.
AnswersRemembered ==
  \A w \in Worker : pc[w] \in IngestStep => job[w].embedded \in Embedded[job[w].content]

PipelineInv ==
  /\ StoreInv
  /\ WorkersTypeOK
  /\ AnswersRemembered
  /\ IdsStayAtPath
  /\ AloneIsSoleWriter
  /\ AloneOwnsRow
  /\ AloneFindsItsChunks
  /\ SettledDocumentsConsistent
  /\ CreatedIsNotOverclaimed

----------------------------------------------------------------------------
(* What a step of one worker leaves alone.                                 *)

\* The other workers keep their place and their job, save that they may stop
\* being alone.
OthersKeep(w) ==
  \A v \in Worker : v # w =>
    /\ pc'[v] = pc[v]
    /\ job'[v].path = job[v].path
    /\ job'[v].content = job[v].content
    /\ job'[v].embedded = job[v].embedded
    /\ job'[v].id = job[v].id
    /\ job'[v].fresh = job[v].fresh
    /\ job'[v].alone => job[v].alone

LEMMA NoJobType == NoJob \in Job
BY PipelineAssumption DEF NoJob, Job

LEMMA OverlapType ==
  ASSUME WorkersTypeOK, NEW p
  PROVE  /\ Overlap(p) \in [Worker -> Job]
         /\ \A v \in Worker :
              /\ Overlap(p)[v].path = job[v].path
              /\ Overlap(p)[v].content = job[v].content
              /\ Overlap(p)[v].embedded = job[v].embedded
              /\ Overlap(p)[v].id = job[v].id
              /\ Overlap(p)[v].fresh = job[v].fresh
              /\ Overlap(p)[v].alone => job[v].alone
              /\ v \in Busy(p) => ~Overlap(p)[v].alone
<1>1. ASSUME NEW v \in Worker
      PROVE  /\ job[v] \in Job
             /\ [job[v] EXCEPT !.alone = FALSE] \in Job
  BY DEF WorkersTypeOK, Job
<1>2. Overlap(p) = [v \in Worker |-> IF v \in Busy(p) THEN [job[v] EXCEPT !.alone = FALSE]
                                     ELSE job[v]]
  BY DEF Overlap
<1>3. ASSUME NEW v \in Worker
      PROVE  /\ Overlap(p)[v].path = job[v].path
             /\ Overlap(p)[v].content = job[v].content
             /\ Overlap(p)[v].embedded = job[v].embedded
             /\ Overlap(p)[v].id = job[v].id
             /\ Overlap(p)[v].fresh = job[v].fresh
             /\ Overlap(p)[v].alone => job[v].alone
             /\ v \in Busy(p) => ~Overlap(p)[v].alone
  BY <1>1, <1>2 DEF Job
<1> QED BY <1>1, <1>2, <1>3

LEMMA GotoOthers ==
  ASSUME WorkersTypeOK, NEW w \in Worker, NEW step \in Step, Goto(w, step)
  PROVE  /\ pc' \in [Worker -> Step]
         /\ pc'[w] = step
         /\ \A v \in Worker : v # w => pc'[v] = pc[v]
BY DEF WorkersTypeOK, Goto

LEMMA ReturnOthers ==
  ASSUME WorkersTypeOK, NEW w \in Worker, Return(w)
  PROVE  /\ pc' \in [Worker -> Step]
         /\ job' \in [Worker -> Job]
         /\ pc'[w] = "idle"
         /\ OthersKeep(w)
<1>1. "idle" \in Step /\ Goto(w, "idle") /\ job' = [job EXCEPT ![w] = NoJob]
  BY DEF Return, Step
<1> QED BY <1>1, GotoOthers, NoJobType DEF WorkersTypeOK, OthersKeep

LEMMA ContributionParts ==
  ASSUME NEW d, Contribution(d)' = Contribution(d)
  PROVE  /\ ChunksOf(d)' = ChunksOf(d)
         /\ MentionsOf(d)' = MentionsOf(d)
         /\ RelationshipsOf(d)' = RelationshipsOf(d)
BY DEF Contribution

\* A document whose rows are not touched stays consistent.
LEMMA ConsistentKept ==
  ASSUME NEW doc, Contribution(doc.id)' = Contribution(doc.id), Consistent(doc)
  PROVE  Consistent(doc)'
<1> DEFINE d == doc.id
<1>1. Contribution(d)' = Contribution(d)
  OBVIOUS
<1> HIDE DEF d
<1>2. /\ ChunksOf(d)' = ChunksOf(d)
      /\ MentionsOf(d)' = MentionsOf(d)
      /\ RelationshipsOf(d)' = RelationshipsOf(d)
  BY <1>1, ContributionParts
<1>3. PICK n \in Embedded[doc.content_hash] : HoldsLeading(doc, n)
  BY DEF Consistent
<1>4. HoldsLeading(doc, n)'
  BY <1>2, <1>3 DEF HoldsLeading, ChunkRows, MentionRows, RelationshipRows, EvidencedBy, d
<1> QED BY <1>3, <1>4 DEF Consistent

----------------------------------------------------------------------------
(* Steps that leave every document and its rows alone: the worker itself   *)
(* enters no writing step, and spoils the path if it leaves one.           *)

LEMMA QuietStep ==
  ASSUME PipelineInv, NEW w \in Worker,
         StoreInv', WorkersTypeOK', OthersKeep(w),
         UNCHANGED <<documents, chunks, mentions, relationships, next_id>>,
         pc'[w] \notin {"chunks", "graph"},
         pc'[w] \in Upserted => pc[w] \in Upserted /\ job'[w] = job[w],
         pc'[w] = "upsert" => job'[w].embedded \in Embedded[job'[w].content],
         pc'[w] \in DeleteStep =>
           \/ pc[w] \in DeleteStep /\ job'[w].path = job[w].path /\ job'[w].id = job[w].id
           \/ \E d \in documents : d.file_path = job'[w].path /\ d.id = job'[w].id,
         spoiled \subseteq spoiled',
         pc[w] \in {"chunks", "graph"} => job[w].path \in spoiled'
  PROVE  PipelineInv'
<1> USE DEF OthersKeep
<1>0. \A k : Contribution(k)' = Contribution(k)
  BY CommunitiesEffect
<1>1. IdsStayAtPath'
  <2> SUFFICES ASSUME NEW v \in Worker, pc'[v] \in Upserted \cup DeleteStep
               PROVE  /\ job'[v].id < next_id
                      /\ \A doc \in documents : doc.id = job'[v].id => doc.file_path = job'[v].path
    BY DEF IdsStayAtPath
  <2>1. CASE /\ pc[v] \in Upserted \cup DeleteStep
             /\ job'[v].path = job[v].path
             /\ job'[v].id = job[v].id
    BY <2>1 DEF PipelineInv, IdsStayAtPath
  <2>2. CASE \E d \in documents : d.file_path = job'[v].path /\ d.id = job'[v].id
    BY <2>2 DEF PipelineInv, StoreInv, UniqueDocuments
  <2> QED BY <2>1, <2>2
<1>2. AloneIsSoleWriter'
  BY DEF PipelineInv, AloneIsSoleWriter, Writers
<1>3. AloneOwnsRow'
  BY DEF PipelineInv, AloneOwnsRow
<1>4. AloneFindsItsChunks'
  <2> SUFFICES ASSUME NEW v \in Worker, pc'[v] = "graph", job'[v].alone
               PROVE  (/\ ChunksOf(job[v].id) = ChunkRows(job[v].id, job[v].content, job[v].embedded)
                       /\ MentionsOf(job[v].id) = {}
                       /\ RelationshipsOf(job[v].id) = {})'
    BY DEF AloneFindsItsChunks
  <2>1. v # w /\ pc[v] = "graph" /\ job[v].alone
    OBVIOUS
  <2>2. UNCHANGED <<job[v].id, job[v].content, job[v].embedded>>
    BY <2>1
  <2>3. (/\ ChunksOf(job[v].id) = ChunkRows(job[v].id, job[v].content, job[v].embedded)
         /\ MentionsOf(job[v].id) = {}
         /\ RelationshipsOf(job[v].id) = {})
    BY <2>1 DEF PipelineInv, AloneFindsItsChunks
  <2> QED BY <2>2, <2>3 DEF ChunksOf, ChunkRows, MentionsOf, RelationshipsOf, EvidencedBy
<1>5. SettledDocumentsConsistent'
  <2> SUFFICES ASSUME NEW doc \in documents,
                      doc.file_path \notin spoiled', Writers(doc.file_path)' = {}
               PROVE  Consistent(doc)'
    BY DEF SettledDocumentsConsistent
  <2>1. Writers(doc.file_path) = {}
    BY DEF Writers
  <2>2. Consistent(doc)
    BY <2>1 DEF PipelineInv, SettledDocumentsConsistent
  <2> QED BY <1>0, <2>2, ConsistentKept
<1>6. CreatedIsNotOverclaimed'
  BY DEF PipelineInv, CreatedIsNotOverclaimed
<1>7. AnswersRemembered'
  BY DEF PipelineInv, AnswersRemembered, Upserted, IngestStep
<1> QED BY <1>1, <1>2, <1>3, <1>4, <1>5, <1>6, <1>7 DEF PipelineInv

LEMMA CallPreserves ==
  ASSUME PipelineInv, NEW w \in Worker, CallStep(w)
  PROVE  PipelineInv'
<1>1. PICK p \in Path :
        \/ \E c \in Content : IngestUnchanged(w, p, c) \/ IngestChanged(w, p, c)
        \/ DeleteMissing(w, p)
        \/ DeleteSelect(w, p)
  BY DEF CallStep, RagIngest, RagDeleteSource
<1>2. /\ pc[w] = "idle"
      /\ started' \in Nat
      /\ UNCHANGED <<store, spoiled>>
  <2>1. Call(w) /\ UNCHANGED <<store, spoiled>>
    BY <1>1 DEF IngestUnchanged, IngestChanged, DeleteMissing, DeleteSelect
  <2>2. started \in Nat
    BY DEF PipelineInv, WorkersTypeOK
  <2> QED BY <2>1, <2>2 DEF Call
<1>3. StoreInv' /\ IsFiniteSet(chunks)'
  BY <1>2, StutterPreservesInv DEF PipelineInv, WorkersTypeOK, store
<1>4. UNCHANGED <<documents, chunks, mentions, relationships, next_id>>
  BY <1>2 DEF store
<1>5. CASE UNCHANGED <<pc, job>>
  <2>1. WorkersTypeOK' /\ OthersKeep(w)
    BY <1>2, <1>3, <1>5 DEF PipelineInv, WorkersTypeOK, OthersKeep
  <2> QED BY <1>2, <1>3, <1>4, <1>5, <2>1, QuietStep DEF Upserted, IngestStep, DeleteStep
<1>6. ASSUME NEW c \in Content, IngestChanged(w, p, c)
      PROVE  PipelineInv'
  <2>1. PICK n \in Embedded[c] :
          /\ Goto(w, "upsert")
          /\ job' = [job EXCEPT ![w].path = p, ![w].content = c, ![w].embedded = n]
    BY <1>6 DEF IngestChanged
  <2>2. /\ pc' \in [Worker -> Step]
        /\ pc'[w] = "upsert"
        /\ \A v \in Worker : v # w => pc'[v] = pc[v]
    BY <2>1, GotoOthers DEF PipelineInv, Step, IngestStep
  <2>3. /\ job' \in [Worker -> Job]
        /\ job'[w].embedded = n /\ job'[w].content = c
        /\ \A v \in Worker : v # w => job'[v] = job[v]
    BY <2>1, EmbeddedType DEF PipelineInv, WorkersTypeOK, Job
  <2>4. WorkersTypeOK' /\ OthersKeep(w)
    BY <1>2, <1>3, <2>2, <2>3 DEF PipelineInv, WorkersTypeOK, OthersKeep
  <2> QED BY <1>2, <2>3, <1>3, <1>4, <2>2, <2>4, QuietStep DEF Upserted, IngestStep, DeleteStep
<1>7. CASE DeleteSelect(w, p)
  <2>1. PICK d \in AtPath(p) : job' = [job EXCEPT ![w].path = p, ![w].id = d.id]
    BY <1>7 DEF DeleteSelect
  <2>2. d \in documents /\ d.file_path = p /\ d.id \in Nat
    BY <2>1 DEF AtPath, PipelineInv, StoreInv, StoreTypeOK, DocumentRow
  <2>3. /\ pc' \in [Worker -> Step]
        /\ pc'[w] = "count"
        /\ \A v \in Worker : v # w => pc'[v] = pc[v]
    BY <1>7, GotoOthers DEF DeleteSelect, PipelineInv, Step, DeleteStep
  <2>4. /\ job' \in [Worker -> Job]
        /\ \A v \in Worker : v # w => job'[v] = job[v]
        /\ job'[w].path = p /\ job'[w].id = d.id
    BY <2>1, <2>2 DEF PipelineInv, WorkersTypeOK, Job
  <2>5. WorkersTypeOK' /\ OthersKeep(w)
    BY <1>2, <1>3, <2>3, <2>4 DEF PipelineInv, WorkersTypeOK, OthersKeep
  <2> QED BY <1>2, <1>3, <1>4, <2>2, <2>3, <2>4, <2>5, QuietStep
          DEF Upserted, IngestStep, DeleteStep
<1> QED BY <1>1, <1>5, <1>6, <1>7 DEF IngestUnchanged, DeleteMissing

LEMMA CommunityStepsPreserve ==
  ASSUME PipelineInv, NEW w \in Worker, ClearCommunities(w) \/ StoreCommunities(w)
  PROVE  PipelineInv'
<1>1. /\ pc[w] \in {"clear", "save"}
      /\ \E step \in {"save", "report"} : Goto(w, step)
      /\ UNCHANGED <<job, started, spoiled>>
  BY DEF ClearCommunities, StoreCommunities
<1>2. /\ DeleteProjectCommunities \/ SaveCommunities(job[w].content) \/ UNCHANGED store
      /\ job[w].content \in Content
  BY DEF ClearCommunities, StoreCommunities, PipelineInv, WorkersTypeOK, Job
<1>3. StoreInv'
  BY <1>2, DeleteCommunitiesPreservesInv, SaveCommunitiesPreservesInv, StutterPreservesInv
     DEF PipelineInv
<1>4. UNCHANGED <<documents, chunks, mentions, relationships, next_id>>
  BY <1>2 DEF DeleteProjectCommunities, SaveCommunities, store
<1>5. /\ pc' \in [Worker -> Step]
      /\ pc'[w] \in {"save", "report"}
      /\ \A v \in Worker : v # w => pc'[v] = pc[v]
  BY <1>1, GotoOthers DEF PipelineInv, Step, IngestStep
<1>6. WorkersTypeOK' /\ OthersKeep(w)
  BY <1>1, <1>4, <1>5 DEF PipelineInv, WorkersTypeOK, OthersKeep
<1> QED BY <1>1, <1>3, <1>4, <1>5, <1>6, QuietStep DEF Upserted, IngestStep, DeleteStep

LEMMA ReturnPreserves ==
  ASSUME PipelineInv, NEW w \in Worker, Report(w) \/ Abort(w) \/ DeleteAbort(w)
  PROVE  PipelineInv'
<1>1. /\ Return(w)
      /\ UNCHANGED <<store, started>>
      /\ spoiled' \in {spoiled, spoiled \cup {job[w].path}}
      /\ pc[w] \in {"chunks", "graph"} => spoiled' = spoiled \cup {job[w].path}
  BY DEF Report, Abort, DeleteAbort, DeleteStep
<1>2. /\ pc' \in [Worker -> Step]
      /\ job' \in [Worker -> Job]
      /\ pc'[w] = "idle"
      /\ OthersKeep(w)
  BY <1>1, ReturnOthers DEF PipelineInv
<1>3. StoreInv'
  BY <1>1, StutterPreservesInv DEF PipelineInv
<1>4. UNCHANGED <<documents, chunks, mentions, relationships, next_id>>
  BY <1>1 DEF store
<1>5. job[w].path \in Path
  BY DEF PipelineInv, WorkersTypeOK, Job
<1>6. WorkersTypeOK'
  BY <1>1, <1>2, <1>4, <1>5 DEF PipelineInv, WorkersTypeOK
<1> QED BY <1>1, <1>2, <1>3, <1>4, <1>6, QuietStep DEF Upserted, IngestStep, DeleteStep

LEMMA DeleteCountPreserves ==
  ASSUME PipelineInv, NEW w \in Worker, DeleteCount(w)
  PROVE  PipelineInv'
<1>1. /\ pc[w] = "count"
      /\ Goto(w, "delete")
      /\ job' = [job EXCEPT ![w].count = CountedChunks(w)]
      /\ UNCHANGED <<store, started, spoiled>>
  BY DEF DeleteCount
<1>2. CountedChunks(w) \in Nat
  <2>1. {k \in chunks : \E i \in CountedIds(w) : k.document_id = i} \subseteq chunks
    OBVIOUS
  <2>2. IsFiniteSet(chunks)
    BY DEF PipelineInv, WorkersTypeOK
  <2> QED BY <2>1, <2>2, FS_Subset, FS_CardinalityType DEF CountedChunks
<1> HIDE DEF CountedChunks
<1>3. /\ pc' \in [Worker -> Step]
      /\ pc'[w] = "delete"
      /\ \A v \in Worker : v # w => pc'[v] = pc[v]
  BY <1>1, GotoOthers DEF PipelineInv, Step, DeleteStep
<1>4. /\ job' \in [Worker -> Job]
      /\ \A v \in Worker : v # w => job'[v] = job[v]
      /\ job'[w].path = job[w].path /\ job'[w].id = job[w].id
  BY <1>1, <1>2 DEF PipelineInv, WorkersTypeOK, Job
<1>5. StoreInv'
  BY <1>1, StutterPreservesInv DEF PipelineInv
<1>6. UNCHANGED <<documents, chunks, mentions, relationships, next_id>>
  BY <1>1 DEF store
<1>7. WorkersTypeOK' /\ OthersKeep(w)
  BY <1>1, <1>3, <1>4, <1>6 DEF PipelineInv, WorkersTypeOK, OthersKeep
<1> QED BY <1>1, <1>3, <1>4, <1>5, <1>6, <1>7, QuietStep DEF Upserted, IngestStep, DeleteStep

----------------------------------------------------------------------------
(* Upsert.                                                                 *)

\* The row the upsert leaves at the path is the only one that changed.
LEMMA UpsertedRowFacts ==
  ASSUME StoreInv, NEW p \in Path, NEW c \in Content, NEW d \in Nat,
         UpsertDocument(p, c), IsUpsertedId(p, d)
  PROVE  \E row \in documents' :
           /\ row.file_path = p
           /\ row.id = d
           /\ row.content_hash = c
           /\ row.revised = (AtPath(p) # {})
           /\ \A doc \in documents' : doc = row \/ (doc \in documents /\ doc.file_path # p)
           /\ \A doc \in documents : doc.file_path = p \/ doc \in documents'
           /\ d < next_id'
           /\ next_id <= next_id'
           /\ d = next_id \/ (\E old \in documents : old.id = d /\ old.file_path = p)
           /\ AtPath(p) = {} => d = next_id
<1>1. /\ next_id \in Nat
      /\ \A doc \in documents : doc.id \in Nat /\ doc.id < next_id
  BY DEF StoreInv, StoreTypeOK, UniqueDocuments, DocumentRow
<1>2. CASE /\ AtPath(p) = {}
           /\ documents' = documents \cup {UpsertedRow(next_id, p, c, FALSE)}
           /\ next_id' = next_id + 1
  <2>1. d = next_id
    BY <1>2 DEF IsUpsertedId
  <2>2. \A doc \in documents : doc.file_path # p
    BY <1>2 DEF AtPath
  <2> DEFINE row == UpsertedRow(next_id, p, c, FALSE)
  <2>3. row.file_path = p /\ row.id = d /\ row.content_hash = c /\ row.revised = FALSE
    BY <2>1 DEF UpsertedRow
  <2>4. documents' = documents \cup {row} /\ next_id' = next_id + 1
    BY <1>2, Zenon
  <2> HIDE DEF row
  <2>5. /\ row \in documents'
        /\ \A doc \in documents' : doc = row \/ (doc \in documents /\ doc.file_path # p)
        /\ \A doc \in documents : doc.file_path = p \/ doc \in documents'
        /\ d < next_id'
        /\ next_id <= next_id'
    BY <1>1, <2>1, <2>2, <2>4
  <2>6. row.revised = (AtPath(p) # {})
    BY <1>2, <2>3, Zenon
  <2> QED BY <2>1, <2>3, <2>5, <2>6, Zenon
<1>3. CASE \E old \in documents :
             /\ AtPath(p) = {old}
             /\ documents' = (documents \ {old}) \cup {UpsertedRow(old.id, p, c, TRUE)}
             /\ next_id' = next_id
  <2>1. PICK old \in documents :
             /\ AtPath(p) = {old}
             /\ documents' = (documents \ {old}) \cup {UpsertedRow(old.id, p, c, TRUE)}
             /\ next_id' = next_id
    BY <1>3
  <2>2. d = old.id /\ old.file_path = p /\ AtPath(p) # {}
    BY <2>1 DEF IsUpsertedId, AtPath
  <2>3. \A doc \in documents : doc.file_path = p => doc = old
    BY <2>1 DEF AtPath
  <2> DEFINE row == UpsertedRow(old.id, p, c, TRUE)
  <2>4. row.file_path = p /\ row.id = d /\ row.content_hash = c /\ row.revised = TRUE
    BY <2>2 DEF UpsertedRow
  <2>5. documents' = (documents \ {old}) \cup {row} /\ next_id' = next_id
    BY <2>1, Zenon
  <2> HIDE DEF row
  <2>6. /\ row \in documents'
        /\ \A doc \in documents' : doc = row \/ (doc \in documents /\ doc.file_path # p)
        /\ \A doc \in documents : doc.file_path = p \/ doc \in documents'
        /\ d < next_id'
        /\ next_id <= next_id'
        /\ \E other \in documents : other.id = d /\ other.file_path = p
    BY <1>1, <2>2, <2>3, <2>5
  <2>7. row.revised = (AtPath(p) # {})
    BY <2>2, <2>4, Zenon
  <2> QED BY <2>2, <2>4, <2>6, <2>7, Zenon
<1> QED BY <1>2, <1>3, UpsertEffect

LEMMA UpsertJob ==
  ASSUME WorkersTypeOK, NEW w \in Worker, NEW p,
         NEW d \in Nat,
         job' = [Overlap(p) EXCEPT ![w].id = d, ![w].fresh = (AtPath(p) = {}),
                                   ![w].alone = (Writers(p) = {})]
  PROVE  /\ job' \in [Worker -> Job]
         /\ job'[w].path = job[w].path
         /\ job'[w].content = job[w].content
         /\ job'[w].embedded = job[w].embedded
         /\ job'[w].id = d
         /\ job'[w].fresh = (AtPath(p) = {})
         /\ job'[w].alone = (Writers(p) = {})
         /\ \A v \in Worker : v # w =>
              /\ job'[v].path = job[v].path
              /\ job'[v].content = job[v].content
              /\ job'[v].embedded = job[v].embedded
              /\ job'[v].id = job[v].id
              /\ job'[v].fresh = job[v].fresh
              /\ job'[v].alone => job[v].alone /\ v \notin Busy(p)
<1>0. PICK fresh \in BOOLEAN, alone \in BOOLEAN :
        fresh = (AtPath(p) = {}) /\ alone = (Writers(p) = {})
  OBVIOUS
<1> DEFINE r0 == Overlap(p)
           r1 == [r0 EXCEPT ![w].id = d]
           r2 == [r1 EXCEPT ![w].fresh = fresh]
           r3 == [r2 EXCEPT ![w].alone = alone]
<1>1. /\ r0 \in [Worker -> Job]
      /\ \A v \in Worker :
           /\ r0[v].path = job[v].path
           /\ r0[v].content = job[v].content
           /\ r0[v].embedded = job[v].embedded
           /\ r0[v].id = job[v].id
           /\ r0[v].fresh = job[v].fresh
           /\ r0[v].alone => job[v].alone
           /\ v \in Busy(p) => ~r0[v].alone
  BY OverlapType
<1>2. job' = r3
  BY <1>0
<1>r. r0 \in [Worker -> Job]
  BY <1>1
<1> HIDE DEF r0
<1>3. /\ r1 \in [Worker -> Job]
      /\ r1[w].path = r0[w].path
      /\ r1[w].content = r0[w].content
      /\ r1[w].embedded = r0[w].embedded
      /\ r1[w].id = d
      /\ \A v \in Worker : v # w => r1[v] = r0[v]
  <2> DEFINE j == [r0[w] EXCEPT !.id = d]
  <2>1. j \in Job /\ j.path = r0[w].path /\ j.content = r0[w].content
        /\ j.embedded = r0[w].embedded /\ j.id = d
    BY <1>r DEF Job
  <2>2. r1 = [r0 EXCEPT ![w] = j]
    OBVIOUS
  <2> HIDE DEF j, r1
  <2> QED BY <1>r, <2>1, <2>2
<1> HIDE DEF r1
<1>4. /\ r2 \in [Worker -> Job]
      /\ r2[w].path = r0[w].path
      /\ r2[w].content = r0[w].content
      /\ r2[w].embedded = r0[w].embedded
      /\ r2[w].id = d
      /\ r2[w].fresh = fresh
      /\ \A v \in Worker : v # w => r2[v] = r0[v]
  <2> DEFINE j == [r1[w] EXCEPT !.fresh = fresh]
  <2>1. j \in Job /\ j.path = r1[w].path /\ j.content = r1[w].content
        /\ j.embedded = r1[w].embedded /\ j.id = r1[w].id /\ j.fresh = fresh
    <3>1. r1[w] \in Job
      BY <1>3
    <3> QED BY <3>1 DEF Job
  <2>2. r2 = [r1 EXCEPT ![w] = j]
    OBVIOUS
  <2> HIDE DEF j, r2
  <2> QED BY <1>3, <2>1, <2>2
<1> HIDE DEF r2
<1>5. /\ r3 \in [Worker -> Job]
      /\ r3[w].path = r0[w].path
      /\ r3[w].content = r0[w].content
      /\ r3[w].embedded = r0[w].embedded
      /\ r3[w].id = d
      /\ r3[w].fresh = fresh
      /\ r3[w].alone = alone
      /\ \A v \in Worker : v # w => r3[v] = r0[v]
  <2> DEFINE j == [r2[w] EXCEPT !.alone = alone]
  <2>1. j \in Job /\ j.path = r2[w].path /\ j.content = r2[w].content
        /\ j.embedded = r2[w].embedded /\ j.id = r2[w].id /\ j.fresh = r2[w].fresh
        /\ j.alone = alone
    <3>1. r2[w] \in Job
      BY <1>4
    <3> QED BY <3>1 DEF Job
  <2>2. r3 = [r2 EXCEPT ![w] = j]
    OBVIOUS
  <2> HIDE DEF j, r3
  <2> QED BY <1>4, <2>1, <2>2
<1> HIDE DEF r3
<1>6. /\ job' \in [Worker -> Job]
      /\ job'[w].path = job[w].path
      /\ job'[w].content = job[w].content
      /\ job'[w].embedded = job[w].embedded
      /\ job'[w].id = d
      /\ job'[w].fresh = fresh
      /\ job'[w].alone = alone
  BY <1>1, <1>2, <1>5
<1>7. ASSUME NEW v \in Worker, v # w
      PROVE  /\ job'[v].path = job[v].path
             /\ job'[v].content = job[v].content
             /\ job'[v].embedded = job[v].embedded
             /\ job'[v].id = job[v].id
             /\ job'[v].fresh = job[v].fresh
             /\ job'[v].alone => job[v].alone /\ v \notin Busy(p)
  <2>1. job'[v] = r0[v]
    BY <1>2, <1>5, <1>7
  <2>2. /\ r0[v].path = job[v].path
        /\ r0[v].content = job[v].content
        /\ r0[v].embedded = job[v].embedded
        /\ r0[v].id = job[v].id
        /\ r0[v].fresh = job[v].fresh
        /\ r0[v].alone => job[v].alone
        /\ v \in Busy(p) => ~r0[v].alone
    BY <1>1
  <2> QED BY <2>1, <2>2, Zenon
<1> QED BY <1>0, <1>6, <1>7

LEMMA UpsertPreserves ==
  ASSUME PipelineInv, NEW w \in Worker, Upsert(w)
  PROVE  PipelineInv'
<1>0. PICK p \in Path, c \in Content, fresh \in BOOLEAN, alone \in BOOLEAN :
        /\ p = job[w].path
        /\ c = job[w].content
        /\ fresh = (AtPath(p) = {})
        /\ alone = (Writers(p) = {})
  <2>1. job[w].path \in Path /\ job[w].content \in Content
    BY DEF PipelineInv, WorkersTypeOK, Job
  <2>2. /\ (AtPath(job[w].path) = {}) \in BOOLEAN
        /\ (Writers(job[w].path) = {}) \in BOOLEAN
    OBVIOUS
  <2> QED BY <2>1, <2>2
<1>1. PICK d \in 0 .. next_id :
        /\ IsUpsertedId(p, d)
        /\ job' = [Overlap(p) EXCEPT ![w].id = d, ![w].fresh = (AtPath(p) = {}),
                                     ![w].alone = (Writers(p) = {})]
  BY <1>0 DEF Upsert
<1>2. /\ pc[w] = "upsert"
      /\ UpsertDocument(p, c)
      /\ Goto(w, "chunks")
      /\ UNCHANGED <<started, spoiled>>
  BY <1>0 DEF Upsert
<1>3. next_id \in Nat /\ d \in Nat
  <2>1. next_id \in Nat
    BY DEF PipelineInv, StoreInv, StoreTypeOK
  <2> QED BY <2>1
<1>4. PICK row \in documents' :
        /\ row.file_path = p
        /\ row.id = d
        /\ row.content_hash = c
        /\ row.revised = (AtPath(p) # {})
        /\ \A doc \in documents' : doc = row \/ (doc \in documents /\ doc.file_path # p)
        /\ \A doc \in documents : doc.file_path = p \/ doc \in documents'
        /\ d < next_id'
        /\ next_id <= next_id'
        /\ d = next_id \/ (\E old \in documents : old.id = d /\ old.file_path = p)
        /\ AtPath(p) = {} => d = next_id
  <2>1. StoreInv /\ UpsertDocument(p, c) /\ IsUpsertedId(p, d)
    BY <1>1, <1>2 DEF PipelineInv
  <2> QED BY <1>3, <2>1, UpsertedRowFacts
<1>5. /\ job' \in [Worker -> Job]
      /\ job'[w].path = p
      /\ job'[w].content = c
      /\ job'[w].embedded = job[w].embedded
      /\ job'[w].id = d
      /\ job'[w].fresh = fresh
      /\ job'[w].alone = alone
      /\ \A v \in Worker : v # w =>
              /\ job'[v].path = job[v].path
              /\ job'[v].content = job[v].content
              /\ job'[v].embedded = job[v].embedded
              /\ job'[v].id = job[v].id
              /\ job'[v].fresh = job[v].fresh
              /\ job'[v].alone => job[v].alone /\ v \notin Busy(p)
  <2>1. WorkersTypeOK
    BY DEF PipelineInv
  <2>2. /\ job' \in [Worker -> Job]
        /\ job'[w].path = job[w].path
        /\ job'[w].content = job[w].content
        /\ job'[w].embedded = job[w].embedded
        /\ job'[w].id = d
        /\ job'[w].fresh = (AtPath(p) = {})
        /\ job'[w].alone = (Writers(p) = {})
        /\ \A v \in Worker : v # w =>
              /\ job'[v].path = job[v].path
              /\ job'[v].content = job[v].content
              /\ job'[v].embedded = job[v].embedded
              /\ job'[v].id = job[v].id
              /\ job'[v].fresh = job[v].fresh
              /\ job'[v].alone => job[v].alone /\ v \notin Busy(p)
    BY <1>1, <1>3, <2>1, UpsertJob
  <2> QED BY <1>0, <2>2, Zenon
<1>6. /\ pc' \in [Worker -> Step]
      /\ pc'[w] = "chunks"
      /\ \A v \in Worker : v # w => pc'[v] = pc[v]
  BY <1>2, GotoOthers DEF PipelineInv, Step, IngestStep
<1>7. UNCHANGED <<chunks, entities, mentions, relationships, communities>>
  BY <1>2 DEF UpsertDocument
<1>8. StoreInv'
  BY <1>2, <1>3, UpsertPreservesInv DEF PipelineInv
<1>9. \A k : Contribution(k)' = Contribution(k)
  BY <1>7, CommunitiesEffect
<1>10. WorkersTypeOK'
  BY <1>2, <1>5, <1>6, <1>7 DEF PipelineInv, WorkersTypeOK
<1>11. \A q : q # p => Writers(q)' = Writers(q)
  BY <1>0, <1>5, <1>6 DEF Writers
<1>12. w \in Writers(p)'
  BY <1>5, <1>6 DEF Writers
<1>13. row.file_path = p /\ row.id = d /\ row.content_hash = c /\ row.revised = ~fresh
  BY <1>0, <1>4
<1>14. IdsStayAtPath'
  <2> SUFFICES ASSUME NEW v \in Worker, pc'[v] \in Upserted \cup DeleteStep
               PROVE  /\ job'[v].id < next_id'
                      /\ \A doc \in documents' : doc.id = job'[v].id => doc.file_path = job'[v].path
    BY DEF IdsStayAtPath
  <2>1. CASE v = w
    BY <1>4, <1>5, <1>8, <1>13, <2>1 DEF StoreInv, UniqueDocuments
  <2>2. CASE v # w
    <3>1. /\ job[v].id \in Nat
          /\ job[v].id < next_id
          /\ \A doc \in documents : doc.id = job[v].id => doc.file_path = job[v].path
      BY <1>6, <2>2 DEF PipelineInv, IdsStayAtPath, WorkersTypeOK, Job
    <3>2. next_id' \in Nat
      BY <1>8 DEF StoreInv, StoreTypeOK
    <3> QED BY <1>3, <1>4, <1>5, <1>13, <2>2, <3>1, <3>2
  <2> QED BY <2>1, <2>2
<1>15. AloneIsSoleWriter'
  <2> SUFFICES ASSUME NEW v \in Worker, NEW u \in Worker,
                      pc'[v] \in {"chunks", "graph"}, job'[v].alone, u \in Writers(job[v].path)'
               PROVE  u = v
    BY DEF AloneIsSoleWriter, Writers
  <2>1. pc'[u] \in {"chunks", "graph"} /\ job'[u].path = job'[v].path
    BY DEF Writers
  <2>2. CASE v = w
    <3>1. Writers(p) = {}
      BY <1>0, <1>5, <2>2
    <3> QED BY <1>5, <1>6, <2>1, <2>2, <3>1 DEF Writers
  <2>3. CASE v # w /\ u = w
    BY <1>5, <1>6, <2>1, <2>3 DEF Busy, Upserted, IngestStep
  <2>4. CASE v # w /\ u # w
    BY <1>5, <1>6, <2>1, <2>4 DEF PipelineInv, AloneIsSoleWriter, Writers
  <2> QED BY <2>2, <2>3, <2>4
<1>16. AloneOwnsRow'
  <2> SUFFICES ASSUME NEW v \in Worker, pc'[v] \in Upserted, job'[v].alone
               PROVE  \E doc \in documents' :
                        /\ doc.file_path = job'[v].path
                        /\ doc.id = job'[v].id
                        /\ doc.content_hash = job'[v].content
                        /\ doc.revised = ~job'[v].fresh
    BY DEF AloneOwnsRow
  <2>1. CASE v = w
    BY <1>4, <1>5, <1>13, <2>1
  <2>2. CASE v # w
    <3>1. job[v].path # p
      BY <1>5, <1>6, <2>2 DEF Busy
    <3>2. PICK doc \in documents :
                        /\ doc.file_path = job[v].path
                        /\ doc.id = job[v].id
                        /\ doc.content_hash = job[v].content
                        /\ doc.revised = ~job[v].fresh
      BY <1>5, <1>6, <2>2 DEF PipelineInv, AloneOwnsRow
    <3>3. doc \in documents'
      BY <1>4, <3>1, <3>2
    <3> QED BY <1>5, <2>2, <3>2, <3>3
  <2> QED BY <2>1, <2>2
<1>17. AloneFindsItsChunks'
  <2> SUFFICES ASSUME NEW v \in Worker, pc'[v] = "graph", job'[v].alone
               PROVE  (/\ ChunksOf(job[v].id) = ChunkRows(job[v].id, job[v].content, job[v].embedded)
                       /\ MentionsOf(job[v].id) = {}
                       /\ RelationshipsOf(job[v].id) = {})'
    BY DEF AloneFindsItsChunks
  <2>1. v # w /\ pc[v] = "graph" /\ job[v].alone
    BY <1>5, <1>6
  <2>2. UNCHANGED <<job[v].id, job[v].content, job[v].embedded>>
    BY <1>5, <2>1
  <2>3. (/\ ChunksOf(job[v].id) = ChunkRows(job[v].id, job[v].content, job[v].embedded)
         /\ MentionsOf(job[v].id) = {}
         /\ RelationshipsOf(job[v].id) = {})
    BY <2>1 DEF PipelineInv, AloneFindsItsChunks
  <2> QED BY <1>7, <2>2, <2>3 DEF ChunksOf, ChunkRows, MentionsOf, RelationshipsOf, EvidencedBy
<1>18. SettledDocumentsConsistent'
  <2> SUFFICES ASSUME NEW doc \in documents',
                      doc.file_path \notin spoiled', Writers(doc.file_path)' = {}
               PROVE  Consistent(doc)'
    BY DEF SettledDocumentsConsistent
  <2>1. doc.file_path # p
    BY <1>12
  <2>2. doc \in documents /\ Writers(doc.file_path) = {}
    BY <1>4, <1>11, <1>13, <2>1
  <2>3. Consistent(doc)
    BY <1>2, <2>2 DEF PipelineInv, SettledDocumentsConsistent
  <2> QED BY <1>9, <2>3, ConsistentKept
<1>19. CreatedIsNotOverclaimed'
  <2> SUFFICES ASSUME NEW v \in Worker, NEW doc \in documents',
                      pc'[v] \in Upserted, doc.id = job'[v].id, ~doc.revised
               PROVE  job'[v].fresh
    BY DEF CreatedIsNotOverclaimed
  <2>1. CASE doc = row
    <3>1. fresh /\ d = next_id
      BY <1>0, <1>4, <1>13, <2>1
    <3>2. v = w
      <4>1. SUFFICES ASSUME v # w PROVE FALSE
        OBVIOUS
      <4>2. job[v].id \in Nat /\ job[v].id < next_id
        BY <1>6, <4>1 DEF PipelineInv, IdsStayAtPath, WorkersTypeOK, Job
      <4> QED BY <1>3, <1>5, <1>13, <2>1, <3>1, <4>1, <4>2
    <3> QED BY <1>5, <3>1, <3>2
  <2>2. CASE doc \in documents /\ doc.file_path # p
    <3>1. v # w
      BY <1>4, <1>5, <1>8, <1>13, <2>2 DEF StoreInv, UniqueDocuments
    <3> QED BY <1>5, <1>6, <2>2, <3>1 DEF PipelineInv, CreatedIsNotOverclaimed
  <2> QED BY <1>4, <2>1, <2>2
<1>20. AnswersRemembered'
  BY <1>0, <1>2, <1>5, <1>6 DEF PipelineInv, AnswersRemembered, IngestStep
<1> QED BY <1>8, <1>10, <1>14, <1>15, <1>16, <1>17, <1>18, <1>19, <1>20 DEF PipelineInv

----------------------------------------------------------------------------
(* The two calls that write a document's rows.  They reach the document by *)
(* the id the upsert returned, which is no one else's.                     *)

\* The rows w is about to write are no document's at another path, and no
\* other lone writer's.
LEMMA WritesItsOwnRows ==
  ASSUME PipelineInv, NEW w \in Worker, pc[w] \in {"chunks", "graph"}
  PROVE  /\ \A doc \in documents : doc.id = job[w].id => doc.file_path = job[w].path
         /\ \A v \in Worker :
              v # w /\ pc[v] \in {"chunks", "graph"} /\ job[v].alone => job[v].id # job[w].id
<1>1. \A doc \in documents : doc.id = job[w].id => doc.file_path = job[w].path
  BY DEF PipelineInv, IdsStayAtPath, Upserted, IngestStep
<1>2. ASSUME NEW v \in Worker, pc[v] \in {"chunks", "graph"}, job[v].alone,
             job[v].id = job[w].id
      PROVE  v = w
  <2>1. PICK doc \in documents : doc.file_path = job[v].path /\ doc.id = job[v].id
    BY <1>2 DEF PipelineInv, AloneOwnsRow, Upserted, IngestStep
  <2>2. w \in Writers(job[v].path)
    BY <1>1, <1>2, <2>1 DEF Writers
  <2> QED BY <1>2, <2>2 DEF PipelineInv, AloneIsSoleWriter
<1> QED BY <1>1, <1>2

LEMMA WriteStep ==
  ASSUME PipelineInv, NEW w \in Worker, NEW d, NEW c, NEW n,
         d = job[w].id, c = job[w].content, n = job[w].embedded,
         pc[w] \in {"chunks", "graph"},
         StoreInv', WorkersTypeOK',
         UNCHANGED <<documents, next_id, job>>,
         pc'[w] \in Upserted \ {"chunks"},
         \A v \in Worker : v # w => pc'[v] = pc[v],
         \A k : k # d => Contribution(k)' = Contribution(k),
         pc'[w] = "graph" =>
           /\ spoiled' = spoiled
           /\ ChunksOf(d)' = ChunkRows(d, c, n) /\ MentionsOf(d)' = {} /\ RelationshipsOf(d)' = {},
         pc'[w] # "graph" =>
           /\ Settle(w)
           /\ job[w].alone =>
                \A doc \in documents : doc.id = d /\ doc.content_hash = c => Consistent(doc)'
  PROVE  PipelineInv'
<1>1. /\ \A doc \in documents : doc.id = d => doc.file_path = job[w].path
      /\ \A v \in Worker :
              v # w /\ pc[v] \in {"chunks", "graph"} /\ job[v].alone => job[v].id # d
  BY WritesItsOwnRows
<1>2. pc[w] \in Upserted
  BY DEF Upserted, IngestStep
<1>3. IdsStayAtPath'
  BY <1>2 DEF PipelineInv, IdsStayAtPath
<1>4. AloneIsSoleWriter'
  BY DEF PipelineInv, AloneIsSoleWriter, Writers
<1>5. AloneOwnsRow'
  BY <1>2 DEF PipelineInv, AloneOwnsRow
<1>6. AloneFindsItsChunks'
  <2> SUFFICES ASSUME NEW v \in Worker, pc'[v] = "graph", job[v].alone
               PROVE  (/\ ChunksOf(job[v].id) = ChunkRows(job[v].id, job[v].content, job[v].embedded)
                       /\ MentionsOf(job[v].id) = {}
                       /\ RelationshipsOf(job[v].id) = {})'
    BY DEF AloneFindsItsChunks
  <2>1. PICK i, a, m : i = job[v].id /\ a = job[v].content /\ m = job[v].embedded
    OBVIOUS
  <2>2. i = job'[v].id /\ a = job'[v].content /\ m = job'[v].embedded
    BY <2>1
  <2>3. ChunksOf(i)' = ChunkRows(i, a, m) /\ MentionsOf(i)' = {} /\ RelationshipsOf(i)' = {}
    <3>1. CASE v = w
      BY <2>1, <3>1
    <3>2. CASE v # w
      <4>1. /\ i # d
            /\ ChunksOf(i) = ChunkRows(i, a, m) /\ MentionsOf(i) = {} /\ RelationshipsOf(i) = {}
        BY <1>1, <2>1, <3>2 DEF PipelineInv, AloneFindsItsChunks
      <4> QED BY <4>1, ContributionParts
    <3> QED BY <3>1, <3>2
  <2> QED BY <2>2, <2>3
<1>7. SettledDocumentsConsistent'
  <2> SUFFICES ASSUME NEW doc \in documents,
                      doc.file_path \notin spoiled', Writers(doc.file_path)' = {}
               PROVE  Consistent(doc)'
    BY DEF SettledDocumentsConsistent
  <2>1. CASE doc.file_path = job[w].path
    <3>1. pc'[w] # "graph"
      BY <2>1 DEF Writers
    <3>2. job[w].alone
      BY <2>1, <3>1 DEF Settle
    <3>3. doc.id = d /\ doc.content_hash = c
      BY <1>2, <2>1, <3>2 DEF PipelineInv, AloneOwnsRow, StoreInv, UniqueDocuments
    <3> QED BY <3>1, <3>2, <3>3
  <2>2. CASE doc.file_path # job[w].path
    <3>1. Writers(doc.file_path) = {}
      BY <2>2 DEF Writers
    <3>2. doc.file_path \notin spoiled
      BY <2>2 DEF Settle
    <3>3. Consistent(doc)
      BY <3>1, <3>2 DEF PipelineInv, SettledDocumentsConsistent
    <3>4. doc.id # d
      BY <1>1, <2>2
    <3> QED BY <3>3, <3>4, ConsistentKept
  <2> QED BY <2>1, <2>2
<1>8. CreatedIsNotOverclaimed'
  BY <1>2 DEF PipelineInv, CreatedIsNotOverclaimed
<1>9. AnswersRemembered'
  BY DEF PipelineInv, AnswersRemembered, IngestStep
<1> QED BY <1>3, <1>4, <1>5, <1>6, <1>7, <1>8, <1>9 DEF PipelineInv

LEMMA ChunkRowsFinite ==
  ASSUME NEW d, NEW c, NEW n \in Nat
  PROVE  IsFiniteSet(ChunkRows(d, c, n))
<1> DEFINE I == 0 .. n - 1
           f == [i \in I |-> [document_id |-> d, chunk_index |-> i, content |-> c]]
<1>1. IsFiniteSet(I)
  BY FS_Interval
<1>2. f \in Surjection(I, ChunkRows(d, c, n))
  BY DEF Surjection, ChunkRows
<1> HIDE DEF I, f
<1> QED BY <1>1, <1>2, FS_Surjection

LEMMA ReplaceChunksPreserves ==
  ASSUME PipelineInv, NEW w \in Worker, ReplaceChunks(w)
  PROVE  PipelineInv'
<1>1. PICK d, c, n : d = job[w].id /\ c = job[w].content /\ n = job[w].embedded
  OBVIOUS
<1>2. d \in Nat /\ c \in Content /\ n \in Nat /\ job[w].path \in Path
  BY <1>1 DEF PipelineInv, WorkersTypeOK, Job
<1>12. n \in Embedded[c]
  BY <1>1 DEF ReplaceChunks, PipelineInv, AnswersRemembered, IngestStep
<1>3. /\ pc[w] = "chunks"
      /\ ReplaceDocumentChunks(d, c, n)
      /\ UNCHANGED <<job, started>>
      /\ \/ Extractor /\ Goto(w, "graph") /\ UNCHANGED spoiled
         \/ ~Extractor /\ Goto(w, "report") /\ Settle(w)
  BY <1>1 DEF ReplaceChunks
<1>4. /\ pc' \in [Worker -> Step]
      /\ pc'[w] = IF Extractor THEN "graph" ELSE "report"
      /\ \A v \in Worker : v # w => pc'[v] = pc[v]
  BY <1>3, GotoOthers DEF PipelineInv, Step, IngestStep
<1>5. StoreInv /\ StoreInv'
  BY <1>2, <1>3, <1>12, ReplaceChunksPreservesInv DEF PipelineInv
<1>6. /\ ChunksOf(d)' = ChunkRows(d, c, n)
      /\ MentionsOf(d)' = {}
      /\ RelationshipsOf(d)' = {}
      /\ \A k : k # d => Contribution(k)' = Contribution(k)
  BY <1>2, <1>3, <1>5, <1>12, ReplaceChunksEffect
<1>7. WorkersTypeOK'
  <2>1. chunks' \subseteq chunks \cup ChunkRows(d, c, n) /\ IsFiniteSet(chunks)
    BY <1>3 DEF ReplaceDocumentChunks, PipelineInv, WorkersTypeOK
  <2>2. IsFiniteSet(chunks')
    BY <1>2, <2>1, ChunkRowsFinite, FS_Union, FS_Subset
  <2>3. spoiled' \subseteq Path
    BY <1>2, <1>3 DEF Settle, PipelineInv, WorkersTypeOK
  <2> QED BY <1>3, <1>4, <2>2, <2>3 DEF PipelineInv, WorkersTypeOK
<1>8. UNCHANGED <<documents, next_id>>
  BY <1>3 DEF ReplaceDocumentChunks
<1>9. pc'[w] # "graph" =>
        /\ Settle(w)
        /\ \A doc \in documents : doc.id = d /\ doc.content_hash = c => Consistent(doc)'
  <2> SUFFICES ASSUME ~Extractor
               PROVE  \A doc \in documents :
                        doc.id = d /\ doc.content_hash = c => Consistent(doc)'
    BY <1>3, <1>4
  <2> QED BY <1>6, <1>12 DEF Consistent, HoldsLeading
<1>10. pc'[w] = "graph" => spoiled' = spoiled
  BY <1>3, <1>4
<1>11. pc'[w] \in Upserted \ {"chunks"}
  BY <1>4 DEF Upserted, IngestStep
<1> QED BY <1>1, <1>3, <1>4, <1>5, <1>6, <1>7, <1>8, <1>9, <1>10, <1>11, WriteStep

LEMMA StoreGraphPreserves ==
  ASSUME PipelineInv, NEW w \in Worker, StoreGraph(w)
  PROVE  PipelineInv'
<1>1. PICK d, c, n : d = job[w].id /\ c = job[w].content /\ n = job[w].embedded
  OBVIOUS
<1>2. d \in Nat /\ c \in Content /\ n \in Nat /\ job[w].path \in Path
  BY <1>1 DEF PipelineInv, WorkersTypeOK, Job
<1>11. n \in Embedded[c]
  BY <1>1 DEF StoreGraph, PipelineInv, AnswersRemembered, IngestStep
<1>3. /\ pc[w] = "graph"
      /\ ReplaceDocumentEntityGraph(d, c)
      /\ UNCHANGED <<job, started>>
      /\ \E step \in {"clear", "report"} : Goto(w, step)
      /\ Settle(w)
  BY <1>1 DEF StoreGraph
<1>4. /\ pc' \in [Worker -> Step]
      /\ pc'[w] \in {"clear", "report"}
      /\ \A v \in Worker : v # w => pc'[v] = pc[v]
  BY <1>3, GotoOthers DEF PipelineInv, Step, IngestStep
<1>5. StoreInv /\ StoreInv'
  BY <1>2, <1>3, StoreGraphPreservesInv DEF PipelineInv
<1>6. /\ \A k : ChunksOf(k)' = ChunksOf(k)
      /\ MentionsOf(d)' = MentionsOf(d) \cup MentionRows(d, c, Indexes(d))
      /\ RelationshipsOf(d)' = RelationshipsOf(d) \cup
           {r \in RelationshipRows(d, c, Indexes(d)) : EvidencedBy(r, d)}
      /\ \A k : k # d => Contribution(k)' = Contribution(k)
  BY <1>2, <1>3, <1>5, StoreGraphEffect
<1>7. UNCHANGED <<documents, chunks, next_id>>
  BY <1>3 DEF ReplaceDocumentEntityGraph
<1>8. WorkersTypeOK'
  BY <1>2, <1>3, <1>4, <1>7 DEF Settle, PipelineInv, WorkersTypeOK
<1>9. ASSUME job[w].alone, NEW doc \in documents, doc.id = d, doc.content_hash = c
      PROVE  Consistent(doc)'
  <2> DEFINE I == 0 .. n - 1
  <2>1. /\ ChunksOf(d) = ChunkRows(d, c, n)
        /\ MentionsOf(d) = {}
        /\ RelationshipsOf(d) = {}
    BY <1>1, <1>3, <1>9 DEF PipelineInv, AloneFindsItsChunks
  <2>2. Indexes(d) = I
    <3>1. \A k \in ChunkRows(d, c, n) : k.chunk_index \in I
      BY DEF ChunkRows
    <3>2. ASSUME NEW i \in I PROVE \E k \in ChunkRows(d, c, n) : k.chunk_index = i
      <4>1. [document_id |-> d, chunk_index |-> i, content |-> c] \in ChunkRows(d, c, n)
        BY DEF ChunkRows
      <4> QED BY <4>1
    <3> HIDE DEF I
    <3> QED BY <2>1, <3>1, <3>2 DEF Indexes
  <2>3. MentionsOf(d)' = MentionRows(d, c, I)
    BY <1>6, <2>1, <2>2
  <2>4. RelationshipsOf(d)' = {r \in RelationshipRows(d, c, I) : EvidencedBy(r, d)}
    BY <1>6, <2>1, <2>2
  <2> HIDE DEF I
  <2>6. ChunksOf(d)' = ChunkRows(d, c, n)
    BY <1>6, <2>1
  <2>7. HoldsLeading(doc, n)'
    BY <1>9, <2>3, <2>4, <2>6 DEF HoldsLeading, EvidencedBy, MentionRows, RelationshipRows, I
  <2> QED BY <1>9, <1>11, <2>7 DEF Consistent
<1>10. pc'[w] \in Upserted \ {"chunks"} /\ pc'[w] # "graph"
  BY <1>4 DEF Upserted, IngestStep
<1> QED BY <1>1, <1>3, <1>4, <1>5, <1>6, <1>7, <1>8, <1>9, <1>10, WriteStep

----------------------------------------------------------------------------
(* Delete.                                                                 *)

LEMMA DeleteCommitPreserves ==
  ASSUME PipelineInv, NEW w \in Worker, DeleteCommit(w)
  PROVE  PipelineInv'
<1>1. PICK p \in Path, i \in Nat : p = job[w].path /\ i = job[w].id
  BY DEF PipelineInv, WorkersTypeOK, Job
<1> DEFINE hit == Doomed(p, i) # {}
<1>2. /\ pc[w] = "delete"
      /\ DeleteDocument(p, i)
      /\ Goto(w, "idle")
      /\ job' = [(IF hit THEN Overlap(p) ELSE job) EXCEPT ![w] = NoJob]
      /\ spoiled' = IF hit /\ Writers(p) = {} THEN spoiled \ {p} ELSE spoiled
      /\ UNCHANGED started
  BY <1>1 DEF DeleteCommit
<1>3. /\ documents' = documents \ Doomed(p, i)
      /\ chunks' \subseteq chunks
      /\ UNCHANGED next_id
  BY <1>2 DEF DeleteDocument
<1>4. StoreInv /\ StoreInv'
  BY <1>2, DeletePreservesInv DEF PipelineInv
<1>5. \A k : k \notin DoomedIds(p, i) => Contribution(k)' = Contribution(k)
  BY <1>2, <1>4, DeleteEffect
<1>6. \A doc \in Doomed(p, i) : doc \in documents /\ doc.file_path = p
  BY <1>1, <1>2 DEF Doomed, PipelineInv, IdsStayAtPath, DeleteStep
<1>7. \A doc \in documents : doc.id \in DoomedIds(p, i) => doc \in Doomed(p, i)
  BY <1>4 DEF DoomedIds, Doomed, StoreInv, UniqueDocuments
<1>8. /\ pc' \in [Worker -> Step]
      /\ pc'[w] = "idle"
      /\ \A v \in Worker : v # w => pc'[v] = pc[v]
  BY <1>2, GotoOthers DEF PipelineInv, Step
<1>9. /\ job' \in [Worker -> Job]
      /\ OthersKeep(w)
      /\ hit => \A v \in Worker : v # w /\ v \in Busy(p) => ~job'[v].alone
  <2>1. WorkersTypeOK
    BY DEF PipelineInv
  <2>2. CASE hit
    <3>1. job' = [Overlap(p) EXCEPT ![w] = NoJob]
      BY <1>2, <2>2
    <3>2. job' \in [Worker -> Job] /\ \A v \in Worker : v # w => job'[v] = Overlap(p)[v]
      BY <2>1, <3>1, OverlapType, NoJobType
    <3>3. \A v \in Worker :
              /\ Overlap(p)[v].path = job[v].path
              /\ Overlap(p)[v].content = job[v].content
              /\ Overlap(p)[v].embedded = job[v].embedded
              /\ Overlap(p)[v].id = job[v].id
              /\ Overlap(p)[v].fresh = job[v].fresh
              /\ Overlap(p)[v].alone => job[v].alone
              /\ v \in Busy(p) => ~Overlap(p)[v].alone
      BY <2>1, OverlapType
    <3> QED BY <1>8, <3>2, <3>3, Zenon DEF OthersKeep
  <2>3. CASE ~hit
    <3>1. job' = [job EXCEPT ![w] = NoJob]
      BY <1>2, <2>3
    <3>2. job' \in [Worker -> Job] /\ \A v \in Worker : v # w => job'[v] = job[v]
      BY <2>1, <3>1, NoJobType DEF WorkersTypeOK
    <3> QED BY <1>8, <2>3, <3>2, Zenon DEF OthersKeep
  <2> QED BY <2>2, <2>3
<1>10. WorkersTypeOK'
  BY <1>2, <1>3, <1>8, <1>9, FS_Subset DEF PipelineInv, WorkersTypeOK
<1> HIDE DEF hit
<1>11. documents' \subseteq documents
  BY <1>3
<1>12. \A q : Writers(q) \subseteq Writers(q)'
  BY <1>2, <1>8, <1>9 DEF Writers, OthersKeep
<1>13. IdsStayAtPath'
  BY <1>3, <1>8, <1>9 DEF PipelineInv, IdsStayAtPath, OthersKeep, Upserted, IngestStep, DeleteStep
<1>14. AloneIsSoleWriter'
  BY <1>8, <1>9 DEF PipelineInv, AloneIsSoleWriter, Writers, OthersKeep
\* A worker that is still alone still has its row.
<1>15. ASSUME NEW v \in Worker, pc'[v] \in Upserted, job'[v].alone
       PROVE  \E doc \in documents' :
                /\ doc.file_path = job[v].path
                /\ doc.id = job[v].id
                /\ doc.content_hash = job[v].content
                /\ doc.revised = ~job[v].fresh
                /\ doc.id \notin DoomedIds(p, i)
  <2>1. v # w /\ pc[v] \in Upserted /\ job[v].alone
    BY <1>8, <1>9, <1>15 DEF OthersKeep, Upserted, IngestStep
  <2>2. PICK doc \in documents :
                /\ doc.file_path = job[v].path
                /\ doc.id = job[v].id
                /\ doc.content_hash = job[v].content
                /\ doc.revised = ~job[v].fresh
    BY <2>1 DEF PipelineInv, AloneOwnsRow
  <2>3. doc \notin Doomed(p, i)
    <3> SUFFICES ASSUME doc \in Doomed(p, i) PROVE FALSE
      OBVIOUS
    <3>1. hit /\ v \in Busy(p)
      BY <1>6, <2>1, <2>2 DEF hit, Busy
    <3> QED BY <1>9, <1>15, <2>1, <3>1
  <2>4. doc \in documents' /\ doc.id \notin DoomedIds(p, i)
    BY <1>3, <1>7, <2>3
  <2> QED BY <2>2, <2>4
<1>16. AloneOwnsRow'
  <2> SUFFICES ASSUME NEW v \in Worker, pc'[v] \in Upserted, job'[v].alone
               PROVE  \E doc \in documents' :
                        /\ doc.file_path = job'[v].path
                        /\ doc.id = job'[v].id
                        /\ doc.content_hash = job'[v].content
                        /\ doc.revised = ~job'[v].fresh
    BY DEF AloneOwnsRow
  <2>1. v # w
    BY <1>8 DEF Upserted, IngestStep
  <2> QED BY <1>9, <1>15, <2>1 DEF OthersKeep
<1>17. AloneFindsItsChunks'
  <2> SUFFICES ASSUME NEW v \in Worker, pc'[v] = "graph", job'[v].alone
               PROVE  (/\ ChunksOf(job[v].id) = ChunkRows(job[v].id, job[v].content, job[v].embedded)
                       /\ MentionsOf(job[v].id) = {}
                       /\ RelationshipsOf(job[v].id) = {})'
    BY DEF AloneFindsItsChunks
  <2>1. PICK d, c, n :
          d = job[v].id /\ c = job[v].content /\ n = job[v].embedded
    OBVIOUS
  <2>2. /\ v # w /\ pc[v] = "graph" /\ job[v].alone
        /\ d = job'[v].id /\ c = job'[v].content /\ n = job'[v].embedded
    BY <1>8, <1>9, <2>1 DEF OthersKeep
  <2>3. ChunksOf(d) = ChunkRows(d, c, n) /\ MentionsOf(d) = {} /\ RelationshipsOf(d) = {}
    BY <2>1, <2>2 DEF PipelineInv, AloneFindsItsChunks
  <2>4. d \notin DoomedIds(p, i)
    BY <1>15, <2>1 DEF Upserted, IngestStep
  <2>5. ChunksOf(d)' = ChunkRows(d, c, n) /\ MentionsOf(d)' = {} /\ RelationshipsOf(d)' = {}
    BY <1>5, <2>3, <2>4, ContributionParts
  <2> QED BY <2>2, <2>5
<1>18. SettledDocumentsConsistent'
  <2> SUFFICES ASSUME NEW doc \in documents',
                      doc.file_path \notin spoiled', Writers(doc.file_path)' = {}
               PROVE  Consistent(doc)'
    BY DEF SettledDocumentsConsistent
  <2>1. /\ doc \in documents
        /\ doc.id \notin DoomedIds(p, i)
        /\ Writers(doc.file_path) = {}
    BY <1>3, <1>7, <1>12
  <2>2. doc.file_path \notin spoiled
    <3>1. hit => doc.file_path # p
      BY <1>3, <1>4, <1>6 DEF hit, StoreInv, UniqueDocuments
    <3> QED BY <1>2, <3>1 DEF hit
  <2>3. Consistent(doc)
    BY <2>1, <2>2 DEF PipelineInv, SettledDocumentsConsistent
  <2> QED BY <1>5, <2>1, <2>3, ConsistentKept
<1>19. CreatedIsNotOverclaimed'
  BY <1>8, <1>9, <1>11 DEF PipelineInv, CreatedIsNotOverclaimed, OthersKeep, Upserted, IngestStep
<1>20. AnswersRemembered'
  BY <1>8, <1>9 DEF PipelineInv, AnswersRemembered, OthersKeep, IngestStep
<1> QED BY <1>20, <1>4, <1>10, <1>13, <1>14, <1>16, <1>17, <1>18, <1>19 DEF PipelineInv

----------------------------------------------------------------------------
(* The invariants.                                                         *)

LEMMA PipelineInitInv == Init => PipelineInv
<1> SUFFICES ASSUME Init PROVE PipelineInv
  OBVIOUS
<1> USE DEF Init
<1>1. StoreInv
  BY StoreInitInv
<1>2. WorkersTypeOK
  BY NoJobType, FS_EmptySet DEF WorkersTypeOK, StoreInit, Step
<1>3. IdsStayAtPath /\ AloneIsSoleWriter /\ AloneOwnsRow /\ AloneFindsItsChunks /\ AnswersRemembered
  BY DEF IdsStayAtPath, AloneIsSoleWriter, AloneOwnsRow, AloneFindsItsChunks, AnswersRemembered,
         Upserted, IngestStep, DeleteStep
<1>4. SettledDocumentsConsistent /\ CreatedIsNotOverclaimed
  BY DEF SettledDocumentsConsistent, CreatedIsNotOverclaimed, StoreInit
<1> QED BY <1>1, <1>2, <1>3, <1>4 DEF PipelineInv

LEMMA PipelineStutter ==
  ASSUME PipelineInv, UNCHANGED vars
  PROVE  PipelineInv'
<1>1. UNCHANGED <<documents, chunks, entities, mentions, relationships, communities, next_id,
                  pc, job, started, spoiled>>
  BY DEF vars, store, runVars
<1>2. StoreInv'
  BY <1>1, StutterPreservesInv DEF PipelineInv, store
<1>3. WorkersTypeOK'
  BY <1>1 DEF PipelineInv, WorkersTypeOK
<1>4. (/\ IdsStayAtPath /\ AloneIsSoleWriter /\ AloneOwnsRow /\ CreatedIsNotOverclaimed
       /\ AnswersRemembered)'
  BY <1>1 DEF PipelineInv, IdsStayAtPath, AloneIsSoleWriter, AloneOwnsRow, AnswersRemembered,
              CreatedIsNotOverclaimed, Writers
<1>5. AloneFindsItsChunks'
  BY <1>1 DEF PipelineInv, AloneFindsItsChunks, ChunksOf, MentionsOf, RelationshipsOf, EvidencedBy
<1>6. SettledDocumentsConsistent'
  <2>1. \A k : Contribution(k)' = Contribution(k)
    BY <1>1, CommunitiesEffect
  <2>2. \A doc : Writers(doc.file_path)' = Writers(doc.file_path)
    BY <1>1 DEF Writers
  <2>3. \A doc : Consistent(doc) => Consistent(doc)'
    BY <2>1, ConsistentKept
  <2> QED BY <1>1, <2>2, <2>3 DEF PipelineInv, SettledDocumentsConsistent
<1> QED BY <1>2, <1>3, <1>4, <1>5, <1>6 DEF PipelineInv

LEMMA PipelineNextInv == PipelineInv /\ [Next]_vars => PipelineInv'
<1> SUFFICES ASSUME PipelineInv, [Next]_vars
             PROVE  PipelineInv'
  OBVIOUS
<1>1. ASSUME NEW w \in Worker, Upsert(w) PROVE PipelineInv'
  BY <1>1, UpsertPreserves
<1>2. ASSUME NEW w \in Worker, ReplaceChunks(w) PROVE PipelineInv'
  BY <1>2, ReplaceChunksPreserves
<1>3. ASSUME NEW w \in Worker, StoreGraph(w) PROVE PipelineInv'
  BY <1>3, StoreGraphPreserves
<1>4. ASSUME NEW w \in Worker, ClearCommunities(w) \/ StoreCommunities(w) PROVE PipelineInv'
  BY <1>4, CommunityStepsPreserve
<1>5. ASSUME NEW w \in Worker, Report(w) \/ Abort(w) \/ DeleteAbort(w) PROVE PipelineInv'
  BY <1>5, ReturnPreserves
<1>6. ASSUME NEW w \in Worker, DeleteCount(w) PROVE PipelineInv'
  BY <1>6, DeleteCountPreserves
<1>7. ASSUME NEW w \in Worker, DeleteCommit(w) PROVE PipelineInv'
  BY <1>7, DeleteCommitPreserves
<1>8. ASSUME NEW w \in Worker, CallStep(w) PROVE PipelineInv'
  BY <1>8, CallPreserves
<1>9. CASE UNCHANGED vars
  BY <1>9, PipelineStutter
<1> QED BY <1>1, <1>2, <1>3, <1>4, <1>5, <1>6, <1>7, <1>8, <1>9 DEF Next, Advance

LEMMA PipelineInvariant == Spec => []PipelineInv
BY PipelineInitInv, PipelineNextInv, PTL DEF Spec

\* The tables and the workers' jobs keep their types whatever overlaps.
THEOREM PipelineTyped == Spec => []TypeOK
<1>1. PipelineInv => TypeOK
  BY DEF PipelineInv, StoreInv, WorkersTypeOK, TypeOK
<1> QED BY <1>1, PipelineInvariant, PTL

\* The tables the workers leave to each other are always consistent: typed,
\* referentially intact, one row per path, leading chunks of one content each,
\* and edges whose ends are mentioned (every transaction of SqliteBackend under ingest_content).
THEOREM PipelineTables == Spec => [](StoreTypeOK /\ StoreIsSound)
<1>1. PipelineInv => StoreTypeOK /\ StoreIsSound
  BY DEF PipelineInv, StoreInv, StoreIsSound
<1> QED BY <1>1, PipelineInvariant, PTL

LEMMA StepChangesOneDocument == PipelineInv /\ [Next]_vars => OneDocumentChanges
<1> SUFFICES ASSUME PipelineInv, [Next]_vars,
                    NEW d1 \in 1 .. MaxDocuments, NEW d2 \in 1 .. MaxDocuments,
                    Contribution(d1)' # Contribution(d1),
                    Contribution(d2)' # Contribution(d2)
             PROVE  d1 = d2
  BY DEF OneDocumentChanges
<1>1. StoreInv /\ \A w \in Worker : job[w] \in Job
  BY DEF PipelineInv, WorkersTypeOK
<1>2. ASSUME NEW w \in Worker, Upsert(w) PROVE d1 = d2
  BY <1>2, CommunitiesEffect DEF Upsert, UpsertDocument
<1>3. ASSUME NEW w \in Worker, ReplaceChunks(w) PROVE d1 = d2
  <2>1. job[w].embedded \in Embedded[job[w].content]
    BY <1>3 DEF ReplaceChunks, PipelineInv, AnswersRemembered, IngestStep
  <2> QED BY <1>1, <1>3, <2>1, ReplaceChunksEffect DEF ReplaceChunks, Job
<1>4. ASSUME NEW w \in Worker, StoreGraph(w) PROVE d1 = d2
  BY <1>1, <1>4, StoreGraphEffect DEF StoreGraph, Job
<1>5. ASSUME NEW w \in Worker, ClearCommunities(w) \/ StoreCommunities(w) PROVE d1 = d2
  BY <1>5, CommunitiesEffect
     DEF ClearCommunities, StoreCommunities, DeleteProjectCommunities, SaveCommunities, store
<1>6. ASSUME NEW w \in Worker, DeleteCommit(w) PROVE d1 = d2
  <2>1. DeleteDocument(job[w].path, job[w].id) /\ job[w].path \in Path /\ job[w].id \in Nat
    BY <1>1, <1>6 DEF DeleteCommit, Job
  <2>2. {d1, d2} \subseteq DoomedIds(job[w].path, job[w].id)
    BY <1>1, <2>1, DeleteEffect
  <2> QED BY <1>1, <2>2, DoomedIsOne
<1>7. ASSUME NEW w \in Worker,
             Report(w) \/ Abort(w) \/ DeleteCount(w) \/ DeleteAbort(w) \/ CallStep(w)
      PROVE  d1 = d2
  BY <1>7, CommunitiesEffect
     DEF Report, Abort, DeleteCount, DeleteAbort, CallStep, RagIngest,
         RagDeleteSource, IngestUnchanged, IngestChanged,
         DeleteMissing, DeleteSelect, store
<1>8. CASE UNCHANGED vars
  BY <1>8, CommunitiesEffect DEF vars, store
<1> QED BY <1>2, <1>3, <1>4, <1>5, <1>6, <1>7, <1>8 DEF Next, Advance

\* No storage call of any worker changes what two documents contribute, though
\* prune_orphan_entities sweeps the entities of all of them.
THEOREM PipelineIsolatesDocuments == Spec => OneDocumentPerTransaction
<1>1. PipelineInv /\ [Next]_vars =>
        [\A d \in 1 .. MaxDocuments : Contribution(d)' # Contribution(d) =>
           \A other \in (1 .. MaxDocuments) \ {d} :
             Contribution(other)' = Contribution(other)]_store
  BY StepChangesOneDocument DEF OneDocumentChanges
<1> QED BY <1>1, PipelineInvariant, PTL DEF Spec, OneDocumentPerTransaction

----------------------------------------------------------------------------
(* The chunk count a delete reports.                                       *)

LEMMA ChunkRowsCount ==
  ASSUME NEW d, NEW c, NEW n \in Nat
  PROVE  Cardinality(ChunkRows(d, c, n)) = n
<1> DEFINE I == 0 .. n - 1
           f == [i \in I |-> [document_id |-> d, chunk_index |-> i, content |-> c]]
<1>1. IsFiniteSet(I) /\ Cardinality(I) = n
  BY FS_Interval
<1>2. f \in Surjection(I, ChunkRows(d, c, n))
  BY DEF Surjection, ChunkRows
<1>3. ASSUME NEW i \in I, NEW j \in I, f[i] = f[j]
      PROVE  i = j
  <2>1. f[i].chunk_index = i /\ f[j].chunk_index = j
    OBVIOUS
  <2> QED BY <1>3, <2>1
<1>4. f \in Injection(I, ChunkRows(d, c, n))
  BY <1>2, <1>3 DEF Surjection, Injection, IsInjective
<1> HIDE DEF I, f
<1> QED BY <1>1, <1>2, <1>4, FS_Surjection

\* What is counted are the chunks of the one row that would be deleted.
LEMMA CountIsOfOneVersion ==
  ASSUME PipelineInv, NEW w \in Worker
  PROVE  CountedChunks(w) \in {0} \cup UNION {Embedded[c] : c \in Content}
<1> DEFINE counted == {k \in chunks : \E i \in CountedIds(w) : k.document_id = i}
<1>1. StoreInv /\ CountedIds(w) = DoomedIds(job[w].path, job[w].id)
  BY DEF PipelineInv, CountedIds, DoomedIds
<1>2. CASE CountedIds(w) = {}
  BY <1>2, FS_EmptySet DEF CountedChunks
<1>3. CASE CountedIds(w) # {}
  <2>1. PICK doc \in Doomed(job[w].path, job[w].id) : TRUE
    BY <1>3 DEF CountedIds
  <2>2. doc \in documents /\ CountedIds(w) = {doc.id}
    BY <1>1, <2>1, DoomedIsOne DEF Doomed, DoomedIds
  <2>3. CountedChunks(w) = Cardinality(ChunksOf(doc.id))
    BY <2>2 DEF CountedChunks, ChunksOf
  <2>4. CASE ChunksOf(doc.id) = {}
    BY <2>3, <2>4, FS_EmptySet
  <2>5. ASSUME NEW c \in Content, NEW n \in Embedded[c], ChunksOf(doc.id) = ChunkRows(doc.id, c, n)
        PROVE  CountedChunks(w) \in UNION {Embedded[x] : x \in Content}
    <3>1. CountedChunks(w) = n
      BY <2>3, <2>5, EmbeddedType, ChunkRowsCount
    <3> QED BY <3>1
  <2> HIDE DEF CountedChunks
  <2> QED BY <1>1, <2>2, <2>4, <2>5 DEF StoreInv, UnmixedDocuments
<1> QED BY <1>2, <1>3

\* The count delete_document reads outside its transaction is that of one
\* version of the document, whatever is ingested meanwhile.
THEOREM DeletesCountOneVersion == Spec => []CountsAreOfOneVersion
<1>1. Init => CountsAreOfOneVersion
  BY DEF Init, CountsAreOfOneVersion
<1>2. ASSUME PipelineInv, PipelineInv', [Next]_vars, CountsAreOfOneVersion
      PROVE  CountsAreOfOneVersion'
  <2>0. WorkersTypeOK
    BY <1>2 DEF PipelineInv
  <2>1. ASSUME NEW v \in Worker, pc'[v] = "delete"
        PROVE  \/ pc[v] = "delete" /\ job'[v].count = job[v].count
               \/ job'[v].count = CountedChunks(v)
    <3>1. CASE UNCHANGED vars
      BY <2>1, <3>1 DEF vars, runVars
    <3>2. ASSUME NEW w \in Worker, Advance(w) \/ CallStep(w)
          PROVE  \/ pc[v] = "delete" /\ job'[v].count = job[v].count
                 \/ job'[v].count = CountedChunks(v)
      <4>1. CASE Upsert(w)
        <5>1. PICK d : job' = [Overlap(job[w].path) EXCEPT ![w].id = d,
                                 ![w].fresh = (AtPath(job[w].path) = {}),
                                 ![w].alone = (Writers(job[w].path) = {})]
          BY <4>1 DEF Upsert
        <5>2. pc[v] = "delete" /\ v # w
          BY <2>0, <2>1, <4>1 DEF Upsert, Goto, WorkersTypeOK
        <5>3. job'[v] = Overlap(job[w].path)[v]
          BY <5>1, <5>2 DEF Overlap
        <5>4. job[v] \in Job /\ Overlap(job[w].path)[v].count = job[v].count
          BY <2>0 DEF Overlap, WorkersTypeOK, Job
        <5> QED BY <5>2, <5>3, <5>4
      <4>2. CASE ReplaceChunks(w) \/ StoreGraph(w) \/ ClearCommunities(w) \/ StoreCommunities(w)
        BY <2>0, <2>1, <4>2 DEF ReplaceChunks, StoreGraph, ClearCommunities, StoreCommunities,
                                Goto, WorkersTypeOK
      <4>3. CASE Report(w) \/ Abort(w) \/ DeleteAbort(w)
        BY <2>0, <2>1, <4>3 DEF Report, Abort, DeleteAbort, Return, Goto, WorkersTypeOK
      <4>4. CASE DeleteCount(w)
        <5> HIDE DEF CountedChunks
        <5> QED BY <2>0, <2>1, <4>4 DEF DeleteCount, Goto, WorkersTypeOK, Job
      <4>5. CASE DeleteCommit(w)
        BY <2>0, <2>1, <4>5 DEF DeleteCommit, Goto, Overlap, WorkersTypeOK, Job
      <4>6. CASE CallStep(w)
        BY <2>0, <2>1, <4>6 DEF CallStep, RagIngest, RagDeleteSource, IngestUnchanged, IngestChanged, DeleteMissing,
                                DeleteSelect, Call, Goto, WorkersTypeOK
      <4> QED BY <3>2, <4>1, <4>2, <4>3, <4>4, <4>5, <4>6 DEF Advance
    <3> QED BY <1>2, <3>1, <3>2 DEF Next
  <2> QED BY <1>2, <2>1, CountIsOfOneVersion DEF CountsAreOfOneVersion
<1> QED BY <1>1, <1>2, PipelineInvariant, PTL DEF Spec

\* Every document nobody is writing, and whose last writer was neither
\* interrupted nor overlapped, has the leading chunks of the content its hash
\* names, as many as the provider may answer for, and exactly the mentions and
\* relationships of these chunks (ingest_content, delete_document, either
\* backend, extractor or not).
THEOREM PipelineConsistent == Spec => []SettledDocumentsConsistent
<1>1. PipelineInv => SettledDocumentsConsistent
  BY DEF PipelineInv
<1> QED BY <1>1, PipelineInvariant, PTL

\* What ingest_content remembers between its storage calls (the document id,
\* whether it inserted the row, its content, for how many chunks it has an
\* embedding) still describes the tables.
THEOREM PipelineKnowsItsRows == Spec => []WorkersKnowTheirRows
<1>1. PipelineInv => WorkersKnowTheirRows
  BY DEF PipelineInv, WorkersKnowTheirRows
<1> QED BY <1>1, PipelineInvariant, PTL

\* The status of an ingest that ran alone at its path is the right one, and
\* Created is never claimed for an updated row (ingest_content's second read).
THEOREM PipelineReports == Spec => [](ReportsHonestly /\ CreatedIsNotOverclaimed)
<1>1. PipelineInv => ReportsHonestly /\ CreatedIsNotOverclaimed
  <2> SUFFICES ASSUME PipelineInv, NEW w \in Worker, pc[w] = "report", job[w].alone
               PROVE  ReportsCreated(w) <=> job[w].fresh
    BY DEF PipelineInv, ReportsHonestly
  <2>1. PICK doc \in documents :
          /\ doc.file_path = job[w].path
          /\ doc.revised = ~job[w].fresh
    BY DEF PipelineInv, AloneOwnsRow, Upserted, IngestStep
  <2>2. AtPath(job[w].path) = {doc}
    BY <2>1 DEF AtPath, PipelineInv, StoreInv, UniqueDocuments
  <2>3. job[w].fresh \in BOOLEAN
    BY DEF PipelineInv, WorkersTypeOK, Job
  <2> QED BY <2>1, <2>2, <2>3 DEF ReportsCreated
<1> QED BY <1>1, PipelineInvariant, PTL

----------------------------------------------------------------------------
(* Orphan entities.                                                        *)

OrphanInv ==
  /\ OrphansAreTransient
  /\ ~Extractor => entities = {}
  /\ \A w \in Worker : pc[w] = "graph" => Extractor

NoOrphans == \A e \in entities : \E m \in mentions : m.entity = e

LEMMA PrunedTables ==
  ASSUME NEW rows, NEW edges, PruneOrphanEntities(rows, edges)
  PROVE  NoOrphans' /\ entities' \subseteq rows
BY DEF PruneOrphanEntities, NoOrphans

LEMMA OrphanStep == PipelineInv /\ OrphanInv /\ [Next]_vars => OrphanInv'
<1> SUFFICES ASSUME PipelineInv, OrphanInv, [Next]_vars
             PROVE  OrphanInv'
  OBVIOUS
<1>0. pc \in [Worker -> Step]
  BY DEF PipelineInv, WorkersTypeOK
<1>1. ASSUME UNCHANGED <<entities, mentions>>,
             \A w \in Worker : pc'[w] = "graph" <=> pc[w] = "graph",
             spoiled # {} => spoiled' # {}
      PROVE  OrphanInv'
  BY <1>1 DEF OrphanInv, OrphansAreTransient
<1>2. ASSUME NoOrphans', ~Extractor => entities' = {},
             \A w \in Worker : pc'[w] = "graph" => pc[w] = "graph"
      PROVE  OrphanInv'
  BY <1>2 DEF OrphanInv, OrphansAreTransient, NoOrphans
<1>3. ASSUME NEW w \in Worker, Upsert(w) PROVE OrphanInv'
  BY <1>0, <1>1, <1>3 DEF Upsert, UpsertDocument, Goto
<1>4. ASSUME NEW w \in Worker, ReplaceChunks(w) PROVE OrphanInv'
  <2>1. CASE Extractor
    <3>1. pc'[w] = "graph"
      BY <1>0, <1>4, <2>1 DEF ReplaceChunks, Goto
    <3> QED BY <2>1, <3>1 DEF OrphanInv, OrphansAreTransient
  <2>2. CASE ~Extractor
    <3>1. entities' = {}
      BY <1>4, <2>2 DEF OrphanInv, ReplaceChunks, ReplaceDocumentChunks
    <3>2. \A v \in Worker : pc'[v] # "graph"
      BY <1>0, <1>4, <2>2 DEF OrphanInv, ReplaceChunks, Goto
    <3> QED BY <3>1, <3>2 DEF OrphanInv, OrphansAreTransient
  <2> QED BY <2>1, <2>2
<1>5. ASSUME NEW w \in Worker, StoreGraph(w) PROVE OrphanInv'
  <2>1. NoOrphans'
    BY <1>5, PrunedTables DEF StoreGraph, ReplaceDocumentEntityGraph
  <2>2. Extractor
    BY <1>5 DEF OrphanInv, StoreGraph
  <2>3. \A v \in Worker : pc'[v] = "graph" => pc[v] = "graph"
    BY <1>0, <1>5 DEF StoreGraph, Goto
  <2> QED BY <1>2, <2>1, <2>2, <2>3
<1>6. ASSUME NEW w \in Worker, ClearCommunities(w) \/ StoreCommunities(w) PROVE OrphanInv'
  BY <1>0, <1>1, <1>6 DEF ClearCommunities, StoreCommunities, DeleteProjectCommunities,
                          SaveCommunities, Goto, store
<1>7. ASSUME NEW w \in Worker, Report(w) \/ DeleteAbort(w) PROVE OrphanInv'
  BY <1>0, <1>1, <1>7 DEF Report, DeleteAbort, DeleteStep, Return, Goto, store
<1>8. ASSUME NEW w \in Worker, Abort(w) PROVE OrphanInv'
  <2>1. UNCHANGED <<entities, mentions>> /\ spoiled \subseteq spoiled'
    BY <1>8 DEF Abort, store
  <2>2. CASE pc[w] = "graph"
    <3>1. spoiled' # {} /\ \A v \in Worker : pc'[v] = "graph" => pc[v] = "graph"
      BY <1>0, <1>8, <2>2 DEF Abort, Return, Goto
    <3> QED BY <2>1, <3>1 DEF OrphanInv, OrphansAreTransient
  <2>3. CASE pc[w] # "graph"
    BY <1>0, <1>1, <1>8, <2>1, <2>3 DEF Abort, Return, Goto
  <2> QED BY <2>2, <2>3
<1>9. ASSUME NEW w \in Worker, DeleteCount(w) PROVE OrphanInv'
  BY <1>0, <1>1, <1>9 DEF DeleteCount, Goto, store
<1>10. ASSUME NEW w \in Worker, DeleteCommit(w) PROVE OrphanInv'
  <2>1. NoOrphans' /\ entities' \subseteq entities
    BY <1>10, PrunedTables DEF DeleteCommit, DeleteDocument
  <2>2. \A v \in Worker : pc'[v] = "graph" => pc[v] = "graph"
    BY <1>0, <1>10 DEF DeleteCommit, Goto
  <2> QED BY <1>2, <2>1, <2>2 DEF OrphanInv
<1>11. ASSUME NEW w \in Worker, CallStep(w) PROVE OrphanInv'
  BY <1>0, <1>1, <1>11 DEF CallStep, RagIngest, RagDeleteSource, IngestUnchanged, IngestChanged, DeleteMissing, DeleteSelect,
                          Call, Goto, store
<1>12. CASE UNCHANGED vars
  BY <1>1, <1>12 DEF vars, store, runVars
<1> QED BY <1>3, <1>4, <1>5, <1>6, <1>7, <1>8, <1>9, <1>10, <1>11, <1>12 DEF Next, Advance

\* An entity nobody mentions is there only while an ingest is about to store
\* its graph, or because one was interrupted or overlapped.
THEOREM PipelineOrphans == Spec => []OrphansAreTransient
<1>1. Init => OrphanInv
  BY DEF Init, StoreInit, OrphanInv, OrphansAreTransient
<1>2. OrphanInv => OrphansAreTransient
  BY DEF OrphanInv
<1> QED BY <1>1, <1>2, OrphanStep, PipelineInvariant, PTL DEF Spec

----------------------------------------------------------------------------
(* The pipeline implements SearchableContent.                              *)

\* What a searcher sees at p, as a function of the tables.
Texts(docs, rows, p) ==
  {<<k.chunk_index, k.content>> :
     k \in {row \in rows : \E d \in docs : d.file_path = p /\ d.id = row.document_id}}

LEMMA ShownIsTexts ==
  /\ Shown = [p \in Path |-> Texts(documents, chunks, p)]
  /\ Shown' = [p \in Path |-> Texts(documents', chunks', p)]
<1>1. \A p : {row \in chunks : \E d \in AtPath(p) : d.id = row.document_id}
             = {row \in chunks : \E d \in documents : d.file_path = p /\ d.id = row.document_id}
  BY DEF AtPath
<1>2. \A p : {row \in chunks' : \E d \in AtPath(p)' : d.id = row.document_id}
             = {row \in chunks' : \E d \in documents' : d.file_path = p /\ d.id = row.document_id}
  BY DEF AtPath
<1> QED BY <1>1, <1>2 DEF Shown, Texts

LEMMA SameTexts ==
  ASSUME NEW docs1, NEW docs2, NEW rows1, NEW rows2, NEW p,
         {row \in rows1 : \E d \in docs1 : d.file_path = p /\ d.id = row.document_id}
         = {row \in rows2 : \E d \in docs2 : d.file_path = p /\ d.id = row.document_id}
  PROVE  Texts(docs1, rows1, p) = Texts(docs2, rows2, p)
BY DEF Texts

\* A step that changes neither what is shown nor what is pending.
LEMMA SameTables ==
  ASSUME UNCHANGED <<documents, chunks>>
  PROVE  Shown' = Shown
BY ShownIsTexts

LEMMA SamePending ==
  ASSUME NEW w \in Worker, OthersKeep(w),
         pc[w] \in IngestStep <=> pc'[w] \in IngestStep,
         pc[w] \in IngestStep => /\ job'[w].path = job[w].path
                               /\ job'[w].content = job[w].content
                               /\ job'[w].embedded = job[w].embedded
  PROVE  Pending' = Pending
BY DEF OthersKeep, Pending

LEMMA EndedIngest ==
  ASSUME NEW w \in Worker, OthersKeep(w), pc[w] \in IngestStep, pc'[w] \notin IngestStep
  PROVE  \/ Pending' = Pending
         \/ Pending' = Pending \ {<<job[w].path, job[w].content, job[w].embedded>>}
<1>1. CASE \E v \in Worker : /\ v # w /\ pc[v] \in IngestStep
                             /\ job[v].path = job[w].path /\ job[v].content = job[w].content
                             /\ job[v].embedded = job[w].embedded
  BY <1>1 DEF OthersKeep, Pending
<1>2. CASE ~ \E v \in Worker : /\ v # w /\ pc[v] \in IngestStep
                               /\ job[v].path = job[w].path /\ job[v].content = job[w].content
                             /\ job[v].embedded = job[w].embedded
  BY <1>2 DEF OthersKeep, Pending
<1> QED BY <1>1, <1>2

LEMMA UpsertShown ==
  ASSUME PipelineInv, NEW w \in Worker, Upsert(w)
  PROVE  Shown' = Shown
<1>1. PICK p \in Path, c \in Content : p = job[w].path /\ c = job[w].content
  BY DEF PipelineInv, WorkersTypeOK, Job
<1>2. PICK d \in 0 .. next_id : IsUpsertedId(p, d)
  BY <1>1 DEF Upsert
<1>3. /\ StoreInv /\ UpsertDocument(p, c)
      /\ d \in Nat
      /\ UNCHANGED chunks
  <2>1. next_id \in Nat
    BY DEF PipelineInv, StoreInv, StoreTypeOK
  <2>2. UpsertDocument(p, c)
    BY <1>1 DEF Upsert
  <2>3. UNCHANGED chunks
    BY <2>2 DEF UpsertDocument
  <2> QED BY <2>1, <2>2, <2>3 DEF PipelineInv
<1>4. PICK row \in documents' :
        /\ row.file_path = p
        /\ row.id = d
        /\ \A doc \in documents' : doc = row \/ (doc \in documents /\ doc.file_path # p)
        /\ \A doc \in documents : doc.file_path = p \/ doc \in documents'
        /\ d = next_id \/ (\E old \in documents : old.id = d /\ old.file_path = p)
  BY <1>2, <1>3, UpsertedRowFacts
<1>5. \A doc \in documents : doc.file_path = p => doc.id = d
  BY <1>2, <1>3 DEF IsUpsertedId, AtPath, StoreInv, UniqueDocuments
<1>6. \A k \in chunks : k.document_id # next_id
  BY <1>3 DEF StoreInv, ReferentialIntegrity, UniqueDocuments, StoreTypeOK, DocumentRow
<1>7. ASSUME NEW q
      PROVE  Texts(documents', chunks, q) = Texts(documents, chunks, q)
  <2>1. ASSUME NEW k \in chunks, NEW doc \in documents,
               doc.file_path = q, doc.id = k.document_id
        PROVE  \E new \in documents' : new.file_path = q /\ new.id = k.document_id
    BY <1>4, <1>5, <2>1
  <2>2. ASSUME NEW k \in chunks, NEW new \in documents',
               new.file_path = q, new.id = k.document_id
        PROVE  \E doc \in documents : doc.file_path = q /\ doc.id = k.document_id
    BY <1>4, <1>6, <2>2
  <2>3. {k \in chunks : \E doc \in documents' : doc.file_path = q /\ doc.id = k.document_id}
        = {k \in chunks : \E doc \in documents : doc.file_path = q /\ doc.id = k.document_id}
    BY <2>1, <2>2
  <2> QED BY <2>3 DEF Texts
<1> QED BY <1>3, <1>7, ShownIsTexts

\* Replacing the chunks publishes the content at its path, or, if the document
\* was deleted meanwhile and there are no chunks to insert, changes nothing.
LEMMA ReplaceChunksShown ==
  ASSUME PipelineInv, NEW w \in Worker, ReplaceChunks(w)
  PROVE  \/ Shown' = Shown
         \/ Shown' = [Shown EXCEPT ![job[w].path] =
                                Abstract!Leading(job[w].content, job[w].embedded)]
<1>1. PICK p \in Path, c \in Content, n \in Nat, d \in Nat :
        p = job[w].path /\ c = job[w].content /\ n = job[w].embedded /\ d = job[w].id
  BY DEF PipelineInv, WorkersTypeOK, Job
<1>2. /\ StoreInv
      /\ ChunksInsertable(d, n)
      /\ chunks' = (chunks \ ChunksOf(d)) \cup ChunkRows(d, c, n)
      /\ UNCHANGED documents
  BY <1>1 DEF PipelineInv, ReplaceChunks, ReplaceDocumentChunks
<1>3. \A doc \in documents : doc.id = d => doc.file_path = p
  BY <1>1, WritesItsOwnRows DEF ReplaceChunks
<1>4. CASE \A doc \in documents : doc.id # d
  <2>1. ChunksOf(d) = {}
    BY <1>2, <1>4 DEF ChunksOf, StoreInv, ReferentialIntegrity
  <2>2. ChunkRows(d, c, n) = {}
    <3>1. n \in Nat /\ ~(n > 0)
      BY <1>2, <1>4 DEF ChunksInsertable
    <3>2. 0 .. n - 1 = {}
      BY <3>1
    <3> QED BY <3>2 DEF ChunkRows
  <2> QED BY <1>2, <2>1, <2>2, SameTables
<1>5. ASSUME NEW doc \in documents, doc.id = d
      PROVE  Shown' = [Shown EXCEPT ![p] = Abstract!Leading(c, n)]
  <2>1. doc.file_path = p /\ \A other \in documents : other.file_path = p => other = doc
    BY <1>2, <1>3, <1>5 DEF StoreInv, UniqueDocuments
  <2>2. Texts(documents, chunks', p) = Abstract!Leading(c, n)
    <3>1. {row \in chunks' : \E other \in documents :
                               other.file_path = p /\ other.id = row.document_id}
          = {row \in chunks' : row.document_id = d}
      BY <1>5, <2>1
    <3>2. {row \in chunks' : row.document_id = d} = ChunkRows(d, c, n)
      BY <1>2 DEF ChunksOf, ChunkRows
    <3>3. Texts(documents, chunks', p) = {<<k.chunk_index, k.content>> : k \in ChunkRows(d, c, n)}
      BY <3>1, <3>2 DEF Texts
    <3> DEFINE I == 0 .. n - 1
               row(i) == [document_id |-> d, chunk_index |-> i, content |-> c]
    <3>4. ChunkRows(d, c, n) = {row(i) : i \in I} /\ Abstract!Leading(c, n) = {<<i, c>> : i \in I}
      BY DEF ChunkRows, Abstract!Leading
    <3>5. \A i \in I : row(i).chunk_index = i /\ row(i).content = c
      OBVIOUS
    <3> HIDE DEF I, row
    <3>6. \A x \in Abstract!Leading(c, n) : x \in {<<k.chunk_index, k.content>> : k \in ChunkRows(d, c, n)}
      BY <3>4, <3>5
    <3>7. \A k \in ChunkRows(d, c, n) : <<k.chunk_index, k.content>> \in Abstract!Leading(c, n)
      BY <3>4, <3>5
    <3> QED BY <3>3, <3>6, <3>7
  <2>3. ASSUME NEW q \in Path, q # p
        PROVE  Texts(documents, chunks', q) = Texts(documents, chunks, q)
    <3>1. \A other \in documents : other.file_path = q => other.id # d
      BY <1>3, <2>3
    <3>2. {row \in chunks' : \E other \in documents :
                               other.file_path = q /\ other.id = row.document_id}
          = {row \in chunks : \E other \in documents :
                               other.file_path = q /\ other.id = row.document_id}
      BY <1>2, <3>1 DEF ChunksOf, ChunkRows
    <3> QED BY <3>2, SameTexts
  <2> QED BY <1>2, <2>2, <2>3, ShownIsTexts
<1> QED BY <1>1, <1>4, <1>5

LEMMA DeleteCommitShown ==
  ASSUME PipelineInv, NEW w \in Worker, DeleteCommit(w)
  PROVE  Shown' = Shown \/ Shown' = [Shown EXCEPT ![job[w].path] = {}]
<1>1. PICK p \in Path, i \in Nat : p = job[w].path /\ i = job[w].id
  BY DEF PipelineInv, WorkersTypeOK, Job
<1>2. /\ StoreInv
      /\ documents' = documents \ Doomed(p, i)
      /\ chunks' = {k \in chunks : k.document_id \notin {doc.id : doc \in Doomed(p, i)}}
  BY <1>1 DEF PipelineInv, DeleteCommit, DeleteDocument
<1>3. \A doc \in Doomed(p, i) : doc \in documents /\ doc.file_path = p
  BY <1>1 DEF Doomed, PipelineInv, IdsStayAtPath, DeleteStep, DeleteCommit
<1>4. CASE Doomed(p, i) = {}
  BY <1>2, <1>4, SameTables
<1>5. ASSUME NEW doomed \in Doomed(p, i)
      PROVE  Shown' = [Shown EXCEPT ![p] = {}]
  <2>1. \A doc \in documents : doc.file_path = p \/ doc.id = doomed.id => doc = doomed
    BY <1>2, <1>3, <1>5 DEF StoreInv, UniqueDocuments
  <2>2. Doomed(p, i) = {doomed}
    BY <1>3, <1>5, <2>1
  <2>3. documents' = documents \ {doomed} /\ chunks' = {k \in chunks : k.document_id # doomed.id}
    BY <1>2, <2>2
  <2>4. Texts(documents', chunks', p) = {}
    BY <2>1, <2>3 DEF Texts
  <2>5. ASSUME NEW q \in Path, q # p
        PROVE  Texts(documents', chunks', q) = Texts(documents, chunks, q)
    <3>1. \A doc : doc \in documents' /\ doc.file_path = q <=> doc \in documents /\ doc.file_path = q
      BY <1>3, <1>5, <2>3, <2>5
    <3>2. \A doc \in documents : doc.file_path = q => doc.id # doomed.id
      BY <1>3, <1>5, <2>1, <2>5
    <3>3. {row \in chunks' : \E doc \in documents' :
                               doc.file_path = q /\ doc.id = row.document_id}
          = {row \in chunks : \E doc \in documents :
                               doc.file_path = q /\ doc.id = row.document_id}
      BY <2>3, <3>1, <3>2
    <3> QED BY <3>3, SameTexts
  <2> QED BY <2>4, <2>5, ShownIsTexts
<1> QED BY <1>1, <1>4, <1>5

LEMMA AbstractInit == Init => Abstract!Init
<1> SUFFICES ASSUME Init PROVE Shown = [p \in Path |-> {}] /\ Pending = {}
  BY DEF Abstract!Init
<1>1. Pending = {}
  BY DEF Init, Pending, IngestStep
<1>2. chunks = {}
  BY DEF Init, StoreInit
<1> QED BY <1>1, <1>2 DEF Shown

\* Every step is a step of SearchableContent or changes nothing it shows: the
\* chunk replacement publishes, the commit of a delete withdraws, a call
\* submits, a return finishes.
LEMMA AbstractStep ==
  ASSUME PipelineInv, [Next]_vars
  PROVE  [Abstract!Next]_(Abstract!abstractVars)
<1> DEFINE Stutter == Shown' = Shown /\ Pending' = Pending
<1>0. Stutter => [Abstract!Next]_(Abstract!abstractVars)
  BY DEF Abstract!abstractVars
<1> HIDE DEF Stutter
<1>1. WorkersTypeOK /\ \A w \in Worker : job[w].path \in Path /\ job[w].content \in Content
  BY DEF PipelineInv, WorkersTypeOK, Job
<1>2. pc \in [Worker -> Step] /\ job \in [Worker -> Job]
  BY <1>1 DEF WorkersTypeOK
<1>12. \A w \in Worker : pc[w] \in IngestStep => job[w].embedded \in Embedded[job[w].content]
  BY DEF PipelineInv, AnswersRemembered
<1>3. ASSUME NEW w \in Worker, Upsert(w) PROVE Stutter
  <2>1. /\ OthersKeep(w)
        /\ job'[w].path = job[w].path /\ job'[w].content = job[w].content
        /\ job'[w].embedded = job[w].embedded
    <3>1. PICK d \in 0 .. next_id :
            job' = [Overlap(job[w].path) EXCEPT ![w].id = d,
                      ![w].fresh = (AtPath(job[w].path) = {}),
                      ![w].alone = (Writers(job[w].path) = {})]
      BY <1>3 DEF Upsert
    <3>2. d \in Nat
      <4>1. next_id \in Nat
        BY DEF PipelineInv, StoreInv, StoreTypeOK
      <4> QED BY <4>1
    <3>3. \A v \in Worker : v # w => pc'[v] = pc[v]
      BY <1>2, <1>3 DEF Upsert, Goto
    <3> QED BY <1>1, <3>1, <3>2, <3>3, UpsertJob DEF OthersKeep
  <2>2. pc[w] = "upsert" /\ pc'[w] = "chunks"
    BY <1>2, <1>3 DEF Upsert, Goto
  <2>3. Pending' = Pending
    BY <2>1, <2>2, SamePending DEF IngestStep
  <2> QED BY <1>3, <2>3, UpsertShown DEF Stutter
<1>4. ASSUME NEW w \in Worker, ReplaceChunks(w) PROVE [Abstract!Next]_(Abstract!abstractVars)
  <2>1. /\ pc[w] = "chunks" /\ pc'[w] \in {"graph", "report"}
        /\ job' = job /\ \A v \in Worker : v # w => pc'[v] = pc[v]
    BY <1>2, <1>4 DEF ReplaceChunks, Goto
  <2>2. Pending' = Pending
    BY <2>1, SamePending DEF OthersKeep, IngestStep
  <2>3. <<job[w].path, job[w].content, job[w].embedded>> \in Pending
    BY <2>1 DEF Pending, IngestStep
  <2>4. job[w].embedded \in Embedded[job[w].content]
    BY <1>12, <2>1 DEF IngestStep
  <2> QED BY <1>0, <1>1, <1>4, <2>2, <2>3, <2>4, ReplaceChunksShown
          DEF Stutter, Abstract!Next, Abstract!Publish
<1>5. ASSUME NEW w \in Worker,
             StoreGraph(w) \/ ClearCommunities(w) \/ StoreCommunities(w)
      PROVE  Stutter
  <2>1. /\ pc[w] \in IngestStep /\ pc'[w] \in IngestStep
        /\ job' = job /\ \A v \in Worker : v # w => pc'[v] = pc[v]
    BY <1>2, <1>5 DEF StoreGraph, ClearCommunities, StoreCommunities, Goto, IngestStep
  <2>2. UNCHANGED <<documents, chunks>>
    BY <1>5 DEF StoreGraph, ReplaceDocumentEntityGraph, ClearCommunities, StoreCommunities,
                DeleteProjectCommunities, SaveCommunities, store
  <2> QED BY <2>1, <2>2, SamePending, SameTables DEF OthersKeep, Stutter
<1>6. ASSUME NEW w \in Worker, Report(w) \/ Abort(w)
      PROVE  [Abstract!Next]_(Abstract!abstractVars)
  <2>1. Return(w) /\ pc[w] \in IngestStep /\ UNCHANGED <<documents, chunks>>
    BY <1>6 DEF Report, Abort, IngestStep, store
  <2>2. OthersKeep(w) /\ pc'[w] \notin IngestStep
    BY <1>1, <2>1, ReturnOthers DEF IngestStep
  <2>3. \/ Pending' = Pending
        \/ Pending' = Pending \ {<<job[w].path, job[w].content, job[w].embedded>>}
    BY <2>1, <2>2, EndedIngest
  <2>4. Shown' = Shown
    BY <2>1, SameTables
  <2> QED BY <1>0, <1>1, <1>12, <2>1, <2>3, <2>4 DEF Stutter, Abstract!Next, Abstract!Finish
<1>7. ASSUME NEW w \in Worker, DeleteCount(w) PROVE Stutter
  <2>1. /\ pc[w] = "count" /\ pc'[w] = "delete"
        /\ OthersKeep(w) /\ UNCHANGED <<documents, chunks>>
    BY <1>2, <1>7 DEF DeleteCount, Goto, OthersKeep, store
  <2> QED BY <2>1, SamePending, SameTables DEF IngestStep, Stutter
<1>8. ASSUME NEW w \in Worker, DeleteAbort(w) PROVE Stutter
  <2>1. Return(w) /\ pc[w] \in DeleteStep /\ UNCHANGED <<documents, chunks>>
    BY <1>8 DEF DeleteAbort, store
  <2>2. OthersKeep(w) /\ pc'[w] = "idle"
    BY <1>1, <2>1, ReturnOthers
  <2> QED BY <2>1, <2>2, SamePending, SameTables DEF IngestStep, DeleteStep, Stutter
<1>9. ASSUME NEW w \in Worker, DeleteCommit(w) PROVE [Abstract!Next]_(Abstract!abstractVars)
  <2>1. pc[w] = "delete" /\ pc'[w] = "idle" /\ \A v \in Worker : v # w => pc'[v] = pc[v]
    BY <1>2, <1>9 DEF DeleteCommit, Goto
  <2>2. \E p : job' = [Overlap(p) EXCEPT ![w] = NoJob] \/ job' = [job EXCEPT ![w] = NoJob]
    BY <1>9 DEF DeleteCommit
  <2>3. OthersKeep(w)
    <3>1. ASSUME NEW p, job' = [Overlap(p) EXCEPT ![w] = NoJob] PROVE OthersKeep(w)
      <4>1. \A v \in Worker : v # w => job'[v] = Overlap(p)[v]
        BY <1>1, <3>1, OverlapType
      <4>2. \A v \in Worker :
              /\ Overlap(p)[v].path = job[v].path
              /\ Overlap(p)[v].content = job[v].content
              /\ Overlap(p)[v].embedded = job[v].embedded
              /\ Overlap(p)[v].id = job[v].id
              /\ Overlap(p)[v].fresh = job[v].fresh
              /\ Overlap(p)[v].alone => job[v].alone
        BY <1>1, OverlapType
      <4> QED BY <2>1, <4>1, <4>2, Zenon DEF OthersKeep
    <3>2. CASE job' = [job EXCEPT ![w] = NoJob]
      BY <1>2, <2>1, <3>2 DEF OthersKeep
    <3> QED BY <2>2, <3>1, <3>2
  <2>4. Pending' = Pending
    BY <2>1, <2>3, SamePending DEF IngestStep
  <2> QED BY <1>0, <1>1, <1>9, <2>4, DeleteCommitShown
          DEF Stutter, Abstract!Next, Abstract!Withdraw
<1>10. ASSUME NEW w \in Worker, CallStep(w) PROVE [Abstract!Next]_(Abstract!abstractVars)
  <2>1. PICK p \in Path :
        \/ \E c \in Content : IngestUnchanged(w, p, c) \/ IngestChanged(w, p, c)
        \/ DeleteMissing(w, p)
        \/ DeleteSelect(w, p)
    BY <1>10 DEF CallStep, RagIngest, RagDeleteSource
  <2>2. pc[w] = "idle" /\ Shown' = Shown
    BY <2>1, SameTables DEF IngestUnchanged, IngestChanged, DeleteMissing, DeleteSelect, Call, store
  <2>3. CASE UNCHANGED <<pc, job>>
    BY <1>0, <2>2, <2>3 DEF Stutter, Pending
  <2>4. ASSUME NEW c \in Content, IngestChanged(w, p, c)
        PROVE  \E n \in Embedded[c] : Abstract!Submit(p, c, n)
    <3>0. PICK n \in Embedded[c] :
            job' = [job EXCEPT ![w].path = p, ![w].content = c, ![w].embedded = n]
      BY <2>4 DEF IngestChanged
    <3>1. /\ pc' = [pc EXCEPT ![w] = "upsert"]
          /\ \A v \in Worker : v # w => job'[v] = job[v]
          /\ job'[w].path = p /\ job'[w].content = c /\ job'[w].embedded = n
      BY <1>2, <2>4, <3>0 DEF IngestChanged, Goto, Job
    <3>2. Pending' = Pending \cup {<<p, c, n>>}
      <4>1. \A v \in Worker : v # w => pc'[v] = pc[v]
        BY <1>2, <3>1
      <4>2. pc'[w] \in IngestStep /\ pc[w] \notin IngestStep
        BY <1>2, <2>2, <3>1 DEF IngestStep
      <4> QED BY <3>1, <4>1, <4>2 DEF Pending
    <3> QED BY <2>2, <3>2 DEF Abstract!Submit
  <2>5. CASE DeleteSelect(w, p)
    <3>1. pc'[w] = "count" /\ OthersKeep(w)
      BY <1>2, <2>5 DEF DeleteSelect, Goto, OthersKeep
    <3>2. Pending' = Pending
      BY <2>2, <3>1, SamePending DEF IngestStep
    <3> QED BY <1>0, <2>2, <3>2 DEF Stutter
  <2> QED BY <2>1, <2>3, <2>4, <2>5 DEF IngestUnchanged, DeleteMissing, Abstract!Next
<1>11. CASE UNCHANGED vars
  <2>1. UNCHANGED <<documents, chunks, pc, job>>
    BY <1>11 DEF vars, store, runVars
  <2> QED BY <1>0, <2>1, SameTables DEF Stutter, Pending
<1> QED BY <1>0, <1>3, <1>4, <1>5, <1>6, <1>7, <1>8, <1>9, <1>10, <1>11 DEF Next, Advance

\* Searchers see each path go from the embedded chunks of one content to those
\* of another in one step, whatever ingests, deletes, failures and crashes
\* overlap; of the whole contents where the provider answers for every chunk.
THEOREM PipelineImplementsSearchableContent == Spec => ImplementsSearchableContent
BY AbstractInit, AbstractStep, PipelineInvariant, PTL
   DEF Spec, ImplementsSearchableContent, Abstract!Spec

=============================================================================
