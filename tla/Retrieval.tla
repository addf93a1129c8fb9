----------------------------- MODULE Retrieval -----------------------------
(***************************************************************************)
(* One search (search_context_chunks of src/mcp/server.rs over             *)
(* src/retrieve and the search operations of the store), while ingests     *)
(* rewrite the documents it searches.                                      *)
(*                                                                         *)
(* Every statement sees the database of its own moment; no transaction     *)
(* spans two.  Similarities are arbitrary: a query with a LIMIT returns    *)
(* some ranking of what it finds.                                          *)
(***************************************************************************)
EXTENDS Integers, Sequences, FiniteSets, FiniteSetsExt, Functions

CONSTANTS
  Chunk,         \* ids of chunks, never used twice
  Entity,        \* ids of entities
  Community,     \* ids of communities
  Document,      \* ids of documents
  Owner,         \* the document of a chunk
  Generations,   \* the chunks successive ingests of a document give it
  MaxGeneration, \* bound on the ingests of a document
  Mentions,      \* the entities mentioned in a chunk
  Related,       \* the pairs of entities related in a chunk
  Members,       \* the entities of a community
  TopKs,         \* values of top_k clients ask for
  Filters,       \* sets of documents the filters of a call can admit
  Matching,      \* chunks whose text, title or path matches, by "fts" etc.
  GraphEnabled,  \* graph_settings.enabled
  Backends,      \* "sqlite", "postgres" or both
  Depth,         \* traversal_depth
  Reranks,       \* whether a reranker is configured, or {TRUE, FALSE}
  TopN,          \* reranker_top_n
  Unit,          \* the unit of fused scores, a multiple of 61, 62, ...
  MaxChanges     \* bound on what ingests do meanwhile

ASSUME RetrievalAssumption ==
  /\ IsFiniteSet(Chunk)
  /\ Owner \in [Chunk -> Document]
  /\ Generations \in [Document -> [1 .. MaxGeneration -> SUBSET Chunk]]
  /\ \A d \in Document, n \in 1 .. MaxGeneration :
       \A c \in Generations[d][n] : Owner[c] = d
  /\ Mentions \in [Chunk -> SUBSET Entity]
  /\ Related \in [Chunk -> SUBSET (Entity \X Entity)]
  /\ Members \in [Community -> SUBSET Entity]
  /\ Matching \in [{"fts", "titles", "paths"} -> SUBSET Chunk]
  /\ TopKs \subseteq Int
  /\ Filters \subseteq SUBSET Document
  /\ Backends \subseteq {"sqlite", "postgres"}
  /\ {GraphEnabled} \cup Reranks \subseteq BOOLEAN
  /\ {MaxGeneration, Depth, TopN, Unit, MaxChanges} \subseteq Nat

VARIABLES
  generation,  \* how often each document was rewritten
  graphed,     \* documents whose graph is stored
  call,        \* the arguments of the search
  pc,          \* where the search is
  found,       \* the results of its parts, from when they are in until used up
  answer,      \* the chunks to return
  seen,        \* observed only: the chunks stored at any time since the call
  changes      \* observed, and bounded: what ingests did since

database == <<generation, graphed, seen, changes>>
vars == <<generation, graphed, call, pc, found, answer, seen, changes>>

----------------------------------------------------------------------------
(* The database.                                                           *)

ChunksOf(d) == IF generation[d] = 0 THEN {} ELSE Generations[d][generation[d]]
Stored == UNION {ChunksOf(d) : d \in Document}

\* Bug variant: the condition on documents is left out.
Unfiltered == Stored

Visible == {c \in Stored : Owner[c] \in call.admitted}

\* The graph goes with the chunks it was built from.
InGraph == {c \in Stored : Owner[c] \in graphed}
EntitiesOf(ids) == UNION {Mentions[c] : c \in ids \cap InGraph}
Relationships == UNION {Related[c] : c \in InGraph}

\* The arguments of a call, and its server's database and reranker, if any.
Call == [backend : Backends, mode : {"dense", "sparse", "hybrid"},
         top_k : TopKs, admitted : Filters, reranks : Reranks]
Part == {"embedding", "fts", "titles", "trigram", "sparse", "dense", "seeds", "graph",
         "local", "global", "community"}

Init ==
  /\ generation \in [Document -> 0 .. MaxGeneration]
  /\ graphed \in SUBSET Document
  /\ call \in Call
  /\ pc = "retrieve"
  /\ found = [part \in {} |-> <<>>]
  /\ answer = <<>>
  /\ seen = Stored
  /\ changes = 0

\* replace_document_chunks, with the ids of a new generation, or
\* delete_document, where that is empty.
Rewrite(d) ==
  /\ generation[d] < MaxGeneration
  /\ generation' = [generation EXCEPT ![d] = @ + 1]
  /\ graphed' = graphed \ {d}

StoreGraph(d) ==
  /\ graphed' = graphed \cup {d}
  /\ UNCHANGED generation

Ingest(d) ==
  /\ pc # "done"
  /\ changes < MaxChanges
  /\ changes' = changes + 1
  /\ Rewrite(d) \/ StoreGraph(d)
  /\ seen' = seen \cup Stored'
  /\ UNCHANGED <<call, pc, found, answer>>

----------------------------------------------------------------------------
(* Rankings and their fusion.                                              *)

Smaller(m, n) == IF m < n THEN m ELSE n

\* What ORDER BY ... LIMIT n may return of S.
Rankings(S, n) == Injection(1 .. Smaller(n, Cardinality(S)), S)

\* The same where the order is not used.
Selections(S, n) == {T \in SUBSET S : Cardinality(T) = Smaller(n, Cardinality(S))}

RankedIn(q) == {q[i] : i \in DOMAIN q}
Rank(q, c) == CHOOSE i \in DOMAIN q : q[i] = c

\* rrf_score = sum(1 / (60 + rank))
FusedScore(branches, c) ==
  LET having == {b \in DOMAIN branches : c \in RankedIn(branches[b])}
  IN  MapThenSumSet(LAMBDA b : Unit \div (60 + Rank(branches[b], c)), having)

\* Bug variant: only what every branch has.
CommonChunks(branches) == {c \in Chunk : \A b \in DOMAIN branches : c \in RankedIn(branches[b])}

AllChunks(branches) == UNION {RankedIn(branches[b]) : b \in DOMAIN branches}

\* reciprocal_rank_fusion: ties go either way, the map has no order.
Fusions(branches, n) ==
  LET all == AllChunks(branches)
      score == [c \in all |-> FusedScore(branches, c)]
  IN  {q \in Rankings(all, n) :
         /\ \A i, j \in DOMAIN q : i < j => score[q[i]] >= score[q[j]]
         /\ \A c \in all \ RankedIn(q) : \A i \in DOMAIN q : score[q[i]] >= score[c]}

----------------------------------------------------------------------------
(* The graph walk.                                                         *)

\* Bug variant: relationships are followed one way only.
Successors(e) == {r[2] : r \in {edge \in Relationships : edge[1] = e}}

Neighbours(e) ==
  {r[2] : r \in {edge \in Relationships : edge[1] = e}} \cup
  {r[1] : r \in {edge \in Relationships : edge[2] = e}}

\* graph_walk: the paths from the entities of the ids given, by how many
\* relationships they follow.
Walk(ids, simple) ==
  LET paths[k \in 0 .. Depth] ==
        IF k = 0 THEN {<<e>> : e \in EntitiesOf(ids)}
        ELSE UNION {{Append(p, e) : e \in Neighbours(p[k]) \ (IF simple THEN RankedIn(p) ELSE {})} :
                      p \in paths[k - 1]}
  IN  paths

\* search_graph: chunks, other than those given, that mention where the walk
\* gets.  An id that is not a chunk's mentions nothing.
GraphHits(ids, simple) ==
  {c \in Visible \ ids :
     \E n \in 1 .. Depth : \E p \in Walk(ids, simple)[n] : p[n + 1] \in EntitiesOf({c})}

----------------------------------------------------------------------------
(* The parts of a search.                                                  *)

Ready(part) == part \in DOMAIN found
Uses(mode) == call.mode \in {mode, "hybrid"}

\* requested_top_k: a negative number is a huge usize, and as a LIMIT none for
\* SQLite and an error for Postgres.
TopK == IF call.top_k < 0 THEN Cardinality(Chunk) ELSE call.top_k

\* retrieval_top_k
Limit == IF call.reranks /\ TopN > TopK THEN TopN ELSE TopK

\* candidate_limit
CandidateLimit == IF call.top_k < 0 \/ 5 * Limit < 20 THEN 20 ELSE 5 * Limit

Postgres == call.backend = "postgres"
LimitAllowed == Postgres => call.top_k >= 0

\* A part gets its result, from others that it uses up.
Derive(part, results, used) ==
  /\ pc = "retrieve"
  /\ ~Ready(part)
  /\ \E r \in results :
       found' = [p \in (DOMAIN found \ used) \cup {part} |-> IF p = part THEN r ELSE found[p]]
  /\ UNCHANGED <<call, pc, answer, database>>

Find(part, results) == Derive(part, results, {})

Embed == Uses("dense") /\ Find("embedding", {<<>>})

SearchFts ==
  /\ Uses("sparse")
  /\ LimitAllowed
  /\ ~Ready("sparse")
  /\ Find("fts", Selections(Visible \cap Matching["fts"], Limit))

\* Postgres finds titles and paths in one statement ...
SearchTrigram ==
  /\ Postgres
  /\ Uses("sparse")
  /\ LimitAllowed
  /\ ~Ready("sparse")
  /\ Find("trigram", Selections(Visible \cap (Matching["titles"] \cup Matching["paths"]), Limit))

\* ... SQLite reads candidates by title and by path one after the other, and
\* then scores them.
SearchTitles ==
  /\ ~Postgres
  /\ Uses("sparse")
  /\ ~Ready("trigram")
  /\ ~Ready("sparse")
  /\ Find("titles", Selections(Visible \cap Matching["titles"], CandidateLimit))

SearchPaths ==
  /\ Ready("titles")
  /\ \E paths \in Selections(Visible \cap Matching["paths"], CandidateLimit) :
       Derive("trigram", Selections(found["titles"] \cup paths, Limit), {"titles"})

MergeSparse ==
  /\ Ready("fts")
  /\ Ready("trigram")
  /\ Derive("sparse", Rankings(found["fts"] \cup found["trigram"], Limit), {"fts", "trigram"})

SearchDense ==
  /\ ~Postgres
  /\ Ready("embedding")
  /\ Uses("sparse") => Ready("sparse")
  /\ Find("dense", Rankings(Visible, Limit))

\* The index of Postgres is walked before the filters apply: the chunks left
\* may be fewer than asked for.
SearchNearest ==
  /\ Postgres
  /\ LimitAllowed
  /\ Ready("embedding")
  /\ Uses("sparse") => Ready("sparse")
  /\ Find("dense", UNION {Rankings(Visible, n) : n \in 0 .. Limit})

\* Bug variant: the graph branch is awaited although nothing seeds it.
SeedsRequired ==
  /\ GraphEnabled
  /\ Ready("dense")
  /\ Ready("sparse")
  /\ found["dense"] \o found["sparse"] # <<>>
  /\ Find("seeds", Fusions(<<found["dense"], found["sparse"]>>, Limit))

ChooseSeeds ==
  /\ GraphEnabled
  /\ Ready("dense")
  /\ Ready("sparse")
  /\ Find("seeds", Fusions(<<found["dense"], found["sparse"]>>, Limit))

Seeds == RankedIn(found["seeds"])

SearchGraph == Ready("seeds") /\ Find("graph", Rankings(GraphHits(Seeds, Postgres), Limit))

\* get_communities_for_entities, with the ids of the seed chunks.
FindLocal ==
  /\ Ready("seeds")
  /\ ~Ready("community")
  /\ Find("local", {{k \in Community : Members[k] \cap Seeds # {}}})

\* search_communities_by_embedding: the five closest of those with an embedding.
FindGlobal ==
  /\ Ready("local")
  /\ Find("global", {S \in SUBSET Community : Cardinality(S) <= 5})

\* search_graph, with the ids of the communities.
SearchCommunities ==
  /\ Ready("global")
  /\ Derive("community",
            Rankings(GraphHits(found["local"] \cup found["global"], Postgres), Limit),
            {"local", "global"})

\* An error on the way to the community branch leaves it empty ...
CommunityFails ==
  /\ Ready("seeds")
  /\ Derive("community", {<<>>}, {"local", "global"})

Results ==
  CASE call.mode = "dense" -> {found["dense"]}
    [] call.mode = "sparse" -> {found["sparse"]}
    [] OTHER -> Fusions(<<found["dense"], found["sparse"]>> \o
                          (IF GraphEnabled THEN <<found["graph"], found["community"]>> ELSE <<>>),
                        Limit)

Complete ==
  /\ Uses("dense") => Ready("dense")
  /\ Uses("sparse") => Ready("sparse")
  /\ call.mode = "hybrid" /\ GraphEnabled => Ready("graph") /\ Ready("community")

\* ... and any other error ends the call.
SearchFails ==
  /\ pc = "retrieve"
  /\ ~Complete
  /\ pc' = "failed"
  /\ UNCHANGED <<call, found, answer, database>>

\* Postgres refuses a negative LIMIT.
SearchRefused ==
  /\ pc = "retrieve"
  /\ ~LimitAllowed
  /\ pc' = "failed"
  /\ UNCHANGED <<call, found, answer, database>>

Truncated(q, n) == SubSeq(q, 1, Smaller(n, Len(q)))

\* What has a score below the caller's threshold, if any, is at the end.
Collect ==
  /\ pc = "retrieve"
  /\ Complete
  /\ \E q \in Results : \E n \in 0 .. Len(q) :
       /\ answer' = IF call.reranks THEN Truncated(q, n) ELSE Truncated(Truncated(q, n), TopK)
       /\ pc' = IF call.reranks /\ n > 0 THEN "rerank" ELSE "done"
  /\ UNCHANGED <<call, found, database>>

\* The reranker scores some of the texts given and orders them, each once.
RerankAnswers == UNION {Injection(1 .. n, DOMAIN answer) : n \in 0 .. Len(answer)}

\* Bug variant: what the reranker returns is not cut.
RerankUncut ==
  /\ pc = "rerank"
  /\ \E q \in RerankAnswers : answer' = [i \in DOMAIN q |-> answer[q[i]]]
  /\ pc' = "done"
  /\ UNCHANGED <<call, found, database>>

\* Positions out of range are skipped, and a long list is cut.
Rerank ==
  /\ pc = "rerank"
  /\ \E q \in RerankAnswers : answer' = Truncated([i \in DOMAIN q |-> answer[q[i]]], TopK)
  /\ pc' = "done"
  /\ UNCHANGED <<call, found, database>>

RerankFails ==
  /\ pc = "rerank"
  /\ answer' = Truncated(answer, TopK)
  /\ pc' = "done"
  /\ UNCHANGED <<call, found, database>>

----------------------------------------------------------------------------
(* Specification.                                                          *)

\* What the providers of embeddings and of rerankings answer.
Providers == Embed \/ Rerank

Search ==
  \/ SearchFts \/ SearchTrigram \/ SearchTitles \/ SearchPaths \/ MergeSparse
  \/ SearchDense \/ SearchNearest \/ SearchRefused
  \/ ChooseSeeds \/ SearchGraph
  \/ FindLocal \/ FindGlobal \/ SearchCommunities
  \/ Collect

Next == Search \/ Providers \/ CommunityFails \/ SearchFails \/ RerankFails \/ \E d \in Document : Ingest(d)

Spec == Init /\ [][Next]_vars

\* Statements are answered, and nobody relies on errors.  The clients of the
\* providers have no timeout (reqwest::Client::new), so no answer is promised.
FairSpec == Spec /\ WF_vars(Search)

----------------------------------------------------------------------------
(* Properties.                                                             *)

RankedPart == {"sparse", "dense", "seeds", "graph", "community"}

TypeOK ==
  /\ generation \in [Document -> 0 .. MaxGeneration]
  /\ graphed \subseteq Document
  /\ call \in Call
  /\ pc \in {"retrieve", "rerank", "done", "failed"}
  /\ DOMAIN found \subseteq Part
  /\ \A part \in RankedPart : Ready(part) => found[part] \in Seq(Chunk)
  /\ \A part \in {"fts", "titles", "trigram"} : Ready(part) => found[part] \subseteq Chunk
  /\ \A tier \in {"local", "global"} : Ready(tier) => found[tier] \subseteq Community
  /\ answer \in Seq(Chunk)
  /\ seen \subseteq Chunk
  /\ changes \in Nat

\* Whichever branch a chunk came by, directly or through the graph, it passes
\* the filters and was stored at some moment of the call.
AnswersAreLegitimate == \A c \in RankedIn(answer) : c \in seen /\ Owner[c] \in call.admitted

\* An answer has no chunk twice, however many branches have it, and at most as
\* many as asked for, whether the reranker answers, fails or returns too many.
AnswersFit ==
  /\ \A i, j \in DOMAIN answer : answer[i] = answer[j] => i = j
  /\ pc = "done" /\ call.top_k >= 0 => Len(answer) <= call.top_k

Linked(e1, e2) == <<e1, e2>> \in Relationships \/ <<e2, e1>> \in Relationships

\* The entities at most k relationships from e.
Within[k \in 0 .. Depth] ==
  IF k = 0 THEN [e \in Entity |-> {e}]
  ELSE [e \in Entity |-> {f \in Entity : \E g \in Within[k - 1][e] : f = g \/ Linked(f, g)}]

Reachable(ids) == UNION {Within[Depth][e] \ {e} : e \in EntitiesOf(ids)}

\* The walk finds the chunks that mention an entity within reach of another
\* entity of a seed.  SQLite's, which may turn back, finds more, but only
\* chunks that share an entity with a seed.
WalkFindsReachable ==
  Ready("seeds") =>
    LET near == {c \in Visible \ Seeds : EntitiesOf({c}) \cap Reachable(Seeds) # {}}
    IN  /\ GraphHits(Seeds, TRUE) = near
        /\ near \subseteq GraphHits(Seeds, FALSE)
        /\ \A c \in GraphHits(Seeds, FALSE) \ near : EntitiesOf({c}) \cap EntitiesOf(Seeds) # {}

\* If nothing is ingested meanwhile, what a dense or hybrid search of SQLite
\* hands on to the threshold and the reranker is as much as there is or as the
\* limit allows.
RecallIsFull ==
  pc = "retrieve" /\ ~Postgres /\ Complete /\ changes = 0 /\ call.mode # "sparse" =>
    \A q \in Results : Len(q) = Smaller(Limit, Cardinality(Visible))

AwaitsEmbedding == pc = "retrieve" /\ Uses("dense") /\ ~Ready("embedding")
AwaitsRerank == pc = "rerank"

\* The search ends, whichever parts of it find nothing, unless it waits for ever
\* for an embedder or a reranker that is silent.
SearchEnds == <>(pc \in {"done", "failed"}) \/ <>[]AwaitsEmbedding \/ <>[]AwaitsRerank

----------------------------------------------------------------------------
(* Statements of the repository that the code does not keep.               *)

\* resources/docs/entity-communities.md:66, the local tier "finds communities
\* containing entities from the initial search results".
LocalTierFindsCommunities ==
  Ready("local") /\ changes = 0 =>
    \A k \in Community : Members[k] \cap EntitiesOf(Seeds) # {} => k \in found["local"]

=============================================================================
