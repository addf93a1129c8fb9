------------------------- MODULE Retrieval_proofs -------------------------
(***************************************************************************)
(* Proofs about Retrieval, for any database, any call and any number of    *)
(* ingests meanwhile.                                                      *)
(***************************************************************************)
EXTENDS Retrieval, FiniteSetTheorems, SequenceTheorems, TLAPS

\* The chunks an answer may have.
Legitimate == {c \in seen : Owner[c] \in call.admitted}

\* What a part of the search may hold.
Holds(part, r) ==
  /\ part \in {"sparse", "dense"} => IsInjective(r)
  /\ part \in RankedPart => r \in Seq(Legitimate)
  /\ part \in {"fts", "titles", "trigram"} => r \subseteq Legitimate
  /\ part \in {"local", "global"} => r \subseteq Community

FoundAreLegitimate == \A part \in DOMAIN found : part \in Part /\ Holds(part, found[part])

StoredAreSeen == Stored \subseteq seen

Basics ==
  /\ generation \in [Document -> 0 .. MaxGeneration]
  /\ graphed \subseteq Document
  /\ call \in Call
  /\ pc \in {"retrieve", "rerank", "done", "failed"}
  /\ seen \subseteq Chunk
  /\ changes \in Nat

AnswerIsLegitimate ==
  /\ answer \in Seq(Legitimate)
  /\ IsInjective(answer)
  /\ pc = "done" /\ call.top_k >= 0 => Len(answer) <= call.top_k

RetrievalInv ==
  /\ Basics
  /\ StoredAreSeen
  /\ FoundAreLegitimate
  /\ AnswerIsLegitimate

----------------------------------------------------------------------------
(* Facts about the operators.                                              *)

\* The smaller of two numbers is one of them and at most either.
LEMMA SmallerOfTwo ==
  \A m, n \in Nat : Smaller(m, n) \in Nat /\ Smaller(m, n) <= m /\ Smaller(m, n) <= n
BY DEF Smaller

\* A ranking of chunks lists some of them, each once, up to the limit.
LEMMA RankingsAreLists ==
  ASSUME NEW S, S \subseteq Chunk, NEW n \in Nat, NEW q \in Rankings(S, n)
  PROVE  q \in Seq(S) /\ IsInjective(q) /\ Len(q) <= n
<1>1. IsFiniteSet(S) /\ Cardinality(S) \in Nat
  BY RetrievalAssumption, FS_Subset, FS_CardinalityType
<1>2. DEFINE m == Smaller(n, Cardinality(S))
<1>3. m \in Nat /\ m <= n
  BY <1>1, SmallerOfTwo
<1>4. q \in [1 .. m -> S] /\ IsInjective(q)
  BY DEF Rankings, Injection
<1> QED
  BY <1>3, <1>4

\* A selection of chunks is a set of them.
LEMMA SelectionsAreSubsets ==
  ASSUME NEW S, NEW n, NEW T \in Selections(S, n)
  PROVE  T \subseteq S
BY DEF Selections

\* Fusion adds no chunk to what its branches have, and repeats none.
LEMMA FusionsAreLists ==
  ASSUME NEW S, S \subseteq Chunk, NEW n \in Nat, NEW branches \in Seq(Seq(S)),
         NEW q \in Fusions(branches, n)
  PROVE  q \in Seq(S) /\ IsInjective(q) /\ Len(q) <= n
<1>1. AllChunks(branches) \subseteq S
  BY DEF AllChunks, RankedIn
<1>2. q \in Rankings(AllChunks(branches), n)
  BY DEF Fusions
<1>3. q \in Seq(AllChunks(branches)) /\ IsInjective(q) /\ Len(q) <= n
  BY <1>1, <1>2, RankingsAreLists
<1> QED
  BY <1>1, <1>3

\* Truncation keeps a prefix, of at most the length asked for.
LEMMA TruncatedIsPrefix ==
  ASSUME NEW S, NEW q \in Seq(S), NEW n \in Nat
  PROVE  /\ Truncated(q, n) \in Seq(S)
         /\ Len(Truncated(q, n)) <= n
         /\ IsInjective(q) => IsInjective(Truncated(q, n))
<1> DEFINE m == Smaller(n, Len(q))
<1>0. Len(q) \in Nat
  OBVIOUS
<1>1. m \in Nat /\ m <= n /\ m <= Len(q)
  BY ONLY <1>0, n \in Nat, SmallerOfTwo
<1>2. Truncated(q, n) = SubSeq(q, 1, m)
  BY DEF Truncated
<1> HIDE DEF m
<1>3. /\ SubSeq(q, 1, m) \in Seq(S)
      /\ Len(SubSeq(q, 1, m)) = m
      /\ \A i \in 1 .. m : SubSeq(q, 1, m)[i] = q[i]
  <2>1. \A i \in 1 .. m : q[i] \in S
    BY <1>1
  <2>2. /\ SubSeq(q, 1, m) \in Seq(S)
        /\ Len(SubSeq(q, 1, m)) = IF 1 <= m THEN m - 1 + 1 ELSE 0
        /\ \A i \in 1 .. m - 1 + 1 : SubSeq(q, 1, m)[i] = q[1 + i - 1]
    BY <1>1, <2>1, SubSeqProperties
  <2> QED
    BY <1>1, <2>2
<1>4. IsInjective(q) => IsInjective(SubSeq(q, 1, m))
  BY <1>1, <1>3 DEF IsInjective
<1> QED
  BY <1>1, <1>2, <1>3, <1>4 DEF m

\* The limits of a call are natural numbers, whatever top_k is.
LEMMA LimitsAreNatural ==
  ASSUME Basics
  PROVE  TopK \in Nat /\ Limit \in Nat /\ (call.top_k >= 0 => TopK = call.top_k)
<1>1. Cardinality(Chunk) \in Nat
  BY RetrievalAssumption, FS_CardinalityType
<1>2. call.top_k \in Int /\ call.reranks \in BOOLEAN
  BY RetrievalAssumption DEF Basics, Call
<1> QED
  BY <1>1, <1>2, RetrievalAssumption DEF TopK, Limit

\* What a statement can see is legitimate.
LEMMA VisibleAreLegitimate ==
  ASSUME StoredAreSeen
  PROVE  Visible \subseteq Legitimate
BY DEF StoredAreSeen, Visible, Legitimate

\* Everything a document may have is a chunk.
LEMMA GenerationsAreChunks ==
  ASSUME NEW d \in Document, NEW n \in 0 .. MaxGeneration
  PROVE  (IF n = 0 THEN {} ELSE Generations[d][n]) \subseteq Chunk
<1>1. CASE n = 0
  BY <1>1
<1>2. CASE n # 0
  <2>1. n \in 1 .. MaxGeneration
    BY <1>2, RetrievalAssumption
  <2>2. Generations \in [Document -> [1 .. MaxGeneration -> SUBSET Chunk]]
    BY RetrievalAssumption
  <2> QED
    BY <2>1, <2>2, <1>2
<1> QED
  BY <1>1, <1>2

----------------------------------------------------------------------------
(* The invariant.                                                          *)

LEMMA InitEstablishesInv == Init => RetrievalInv
<1> SUFFICES ASSUME Init PROVE RetrievalInv
  OBVIOUS
<1>1. Stored \subseteq Chunk
  BY GenerationsAreChunks DEF Init, Stored, ChunksOf
<1>2. Basics /\ StoredAreSeen
  BY <1>1 DEF Init, Basics, StoredAreSeen
<1>3. FoundAreLegitimate
  BY DEF Init, FoundAreLegitimate
<1>4. AnswerIsLegitimate
  BY DEF Init, AnswerIsLegitimate, IsInjective
<1> QED
  BY <1>2, <1>3, <1>4 DEF RetrievalInv

\* A part of the search that gets something it may hold preserves the
\* invariant.
LEMMA DerivePreserves ==
  ASSUME RetrievalInv, NEW part \in Part, NEW results, NEW used,
         Derive(part, results, used),
         \A r \in results : Holds(part, r)
  PROVE  RetrievalInv'
<1>1. PICK r \in results :
        found' = [p \in (DOMAIN found \ used) \cup {part} |-> IF p = part THEN r ELSE found[p]]
  BY DEF Derive
<1>2. UNCHANGED <<call, pc, answer, generation, graphed, seen, changes>>
  BY DEF Derive, database
<1>3. Basics' /\ StoredAreSeen' /\ AnswerIsLegitimate'
  BY <1>2 DEF RetrievalInv, Basics, StoredAreSeen, Stored, ChunksOf, AnswerIsLegitimate, Legitimate
<1>4. ASSUME NEW p \in DOMAIN found' PROVE p \in Part /\ Holds(p, found'[p])
  <2>1. CASE p = part
    BY <1>1, <2>1
  <2>2. CASE p # part
    BY <1>1, <2>2 DEF RetrievalInv, FoundAreLegitimate
  <2> QED
    BY <2>1, <2>2
<1>5. FoundAreLegitimate'
  BY <1>2, <1>4 DEF FoundAreLegitimate, Holds, Legitimate
<1> QED
  BY <1>3, <1>5 DEF RetrievalInv

\* What graph search finds is legitimate, in whatever order.
LEMMA GraphRankingsAreLegitimate ==
  ASSUME RetrievalInv, NEW ids, NEW simple, NEW q \in Rankings(GraphHits(ids, simple), Limit)
  PROVE  q \in Seq(Legitimate)
<1>1. GraphHits(ids, simple) \subseteq Legitimate
  BY VisibleAreLegitimate DEF RetrievalInv, GraphHits
<1>2. Legitimate \subseteq Chunk /\ Limit \in Nat
  BY LimitsAreNatural DEF RetrievalInv, Basics, Legitimate
<1>3. q \in Seq(GraphHits(ids, simple))
  BY <1>1, <1>2, RankingsAreLists
<1> QED
  BY <1>1, <1>3

\* Every statement and every merge of the search finds what it may hold.
LEMMA PartsPreserve ==
  ASSUME RetrievalInv,
         \/ Embed \/ SearchFts \/ SearchTrigram \/ SearchTitles \/ SearchPaths \/ MergeSparse
         \/ SearchDense \/ SearchNearest
         \/ ChooseSeeds \/ SearchGraph
         \/ FindLocal \/ FindGlobal \/ SearchCommunities \/ CommunityFails
  PROVE  RetrievalInv'
<1>1. Visible \subseteq Legitimate /\ Legitimate \subseteq Chunk /\ Limit \in Nat
  BY VisibleAreLegitimate, LimitsAreNatural DEF RetrievalInv, Basics, Legitimate
<1>2. \A part \in DOMAIN found : Holds(part, found[part])
  BY DEF RetrievalInv, FoundAreLegitimate
<1>3. CASE Embed
  <2>1. Derive("embedding", {<<>>}, {})
    BY <1>3 DEF Embed, Find
  <2>2. "embedding" \in Part /\ Holds("embedding", <<>>)
    BY DEF Part, Holds, RankedPart
  <2> QED
    BY <2>1, <2>2, DerivePreserves
<1>4. CASE SearchFts
  <2> DEFINE results == Selections(Visible \cap Matching["fts"], Limit)
  <2>1. Derive("fts", results, {})
    BY <1>4 DEF SearchFts, Find
  <2>2. \A r \in results : r \subseteq Legitimate
    BY <1>1, SelectionsAreSubsets
  <2>3. "fts" \in Part /\ \A r \in results : Holds("fts", r)
    BY <2>2 DEF Part, Holds, RankedPart
  <2> QED
    BY <2>1, <2>3, DerivePreserves
<1>5. CASE SearchTitles
  <2> DEFINE results == Selections(Visible \cap Matching["titles"], CandidateLimit)
  <2>1. Derive("titles", results, {})
    BY <1>5 DEF SearchTitles, Find
  <2>2. \A r \in results : r \subseteq Legitimate
    BY <1>1, SelectionsAreSubsets
  <2>3. "titles" \in Part /\ \A r \in results : Holds("titles", r)
    BY <2>2 DEF Part, Holds, RankedPart
  <2> QED
    BY <2>1, <2>3, DerivePreserves
<1>6. CASE SearchPaths
  <2>1. PICK paths \in Selections(Visible \cap Matching["paths"], CandidateLimit) :
          Derive("trigram", Selections(found["titles"] \cup paths, Limit), {"titles"})
    BY <1>6 DEF SearchPaths
  <2> DEFINE results == Selections(found["titles"] \cup paths, Limit)
  <2>2. paths \subseteq Legitimate /\ found["titles"] \subseteq Legitimate
    BY <1>1, <1>2, <1>6, SelectionsAreSubsets DEF SearchPaths, Ready, Holds
  <2>3. \A r \in results : r \subseteq Legitimate
    BY <2>2, SelectionsAreSubsets
  <2>4. "trigram" \in Part /\ \A r \in results : Holds("trigram", r)
    BY <2>3 DEF Part, Holds, RankedPart
  <2> QED
    BY <2>1, <2>4, DerivePreserves
<1>7. CASE MergeSparse
  <2> DEFINE results == Rankings(found["fts"] \cup found["trigram"], Limit)
  <2>1. Derive("sparse", results, {"fts", "trigram"}) /\ {"fts", "trigram"} \subseteq DOMAIN found
    BY <1>7 DEF MergeSparse, Ready
  <2>2. found["fts"] \cup found["trigram"] \subseteq Legitimate
    BY <1>2, <2>1 DEF Holds
  <2>3. \A r \in results : r \in Seq(found["fts"] \cup found["trigram"]) /\ IsInjective(r)
    BY <1>1, <2>2, RankingsAreLists
  <2> HIDE DEF results
  <2>4. \A r \in results : r \in Seq(Legitimate) /\ IsInjective(r)
    BY <2>2, <2>3
  <2>5. "sparse" \in Part /\ \A r \in results : Holds("sparse", r)
    BY <2>4 DEF Part, Holds, RankedPart
  <2> QED
    BY <2>1, <2>5, DerivePreserves
<1>8. CASE SearchDense
  <2> DEFINE results == Rankings(Visible, Limit)
  <2>1. Derive("dense", results, {})
    BY <1>8 DEF SearchDense, Find
  <2>2. \A r \in results : r \in Seq(Visible) /\ IsInjective(r)
    BY <1>1, RankingsAreLists
  <2>3. \A r \in results : r \in Seq(Legitimate) /\ IsInjective(r)
    BY <1>1, <2>2
  <2>4. "dense" \in Part /\ \A r \in results : Holds("dense", r)
    BY <2>3 DEF Part, Holds, RankedPart
  <2> QED
    BY <2>1, <2>4, DerivePreserves
<1>9. CASE ChooseSeeds
  <2> DEFINE branches == <<found["dense"], found["sparse"]>>
             results == Fusions(branches, Limit)
  <2>1. Derive("seeds", results, {}) /\ {"dense", "sparse"} \subseteq DOMAIN found
    BY <1>9 DEF ChooseSeeds, Find, Ready
  <2>2. branches \in Seq(Seq(Legitimate))
    BY <1>2, <2>1 DEF Holds, RankedPart
  <2> HIDE DEF branches
  <2>3. \A r \in results : r \in Seq(Legitimate)
    BY <1>1, <2>2, FusionsAreLists
  <2>4. "seeds" \in Part /\ \A r \in results : Holds("seeds", r)
    BY <2>3 DEF Part, Holds, RankedPart
  <2> QED
    BY <2>1, <2>4, DerivePreserves DEF branches
<1>10. CASE SearchGraph
  <2> DEFINE results == Rankings(GraphHits(Seeds, Postgres), Limit)
  <2>1. Derive("graph", results, {})
    BY <1>10 DEF SearchGraph, Find
  <2>2. \A r \in results : r \in Seq(Legitimate)
    BY GraphRankingsAreLegitimate
  <2>3. "graph" \in Part /\ \A r \in results : Holds("graph", r)
    BY <2>2 DEF Part, Holds, RankedPart
  <2> QED
    BY <2>1, <2>3, DerivePreserves
<1>11. CASE FindLocal
  <2> DEFINE results == {{k \in Community : Members[k] \cap Seeds # {}}}
  <2>1. Derive("local", results, {})
    BY <1>11 DEF FindLocal, Find
  <2>2. "local" \in Part /\ \A r \in results : Holds("local", r)
    BY DEF Part, Holds, RankedPart
  <2> HIDE DEF results
  <2> QED
    BY <2>1, <2>2, DerivePreserves
<1>12. CASE FindGlobal
  <2> DEFINE results == {S \in SUBSET Community : Cardinality(S) <= 5}
  <2>1. Derive("global", results, {})
    BY <1>12 DEF FindGlobal, Find
  <2>2. "global" \in Part /\ \A r \in results : Holds("global", r)
    BY DEF Part, Holds, RankedPart
  <2> HIDE DEF results
  <2> QED
    BY <2>1, <2>2, DerivePreserves
<1>13. CASE SearchCommunities
  <2> DEFINE results == Rankings(GraphHits(found["local"] \cup found["global"], Postgres), Limit)
  <2>1. Derive("community", results, {"local", "global"})
    BY <1>13 DEF SearchCommunities
  <2>2. \A r \in results : r \in Seq(Legitimate)
    BY GraphRankingsAreLegitimate
  <2>3. "community" \in Part /\ \A r \in results : Holds("community", r)
    BY <2>2 DEF Part, Holds, RankedPart
  <2> QED
    BY <2>1, <2>3, DerivePreserves
<1>14. CASE CommunityFails
  <2>1. Derive("community", {<<>>}, {"local", "global"})
    BY <1>14 DEF CommunityFails
  <2>2. "community" \in Part /\ Holds("community", <<>>)
    BY DEF Part, Holds, RankedPart
  <2> QED
    BY <2>1, <2>2, DerivePreserves
<1>15. CASE SearchTrigram
  <2> DEFINE results == Selections(Visible \cap (Matching["titles"] \cup Matching["paths"]), Limit)
  <2>1. Derive("trigram", results, {})
    BY <1>15 DEF SearchTrigram, Find
  <2>2. \A r \in results : r \subseteq Legitimate
    BY <1>1, SelectionsAreSubsets
  <2>3. "trigram" \in Part /\ \A r \in results : Holds("trigram", r)
    BY <2>2 DEF Part, Holds, RankedPart
  <2> QED
    BY <2>1, <2>3, DerivePreserves
<1>16. CASE SearchNearest
  <2> DEFINE results == UNION {Rankings(Visible, n) : n \in 0 .. Limit}
  <2>1. Derive("dense", results, {})
    BY <1>16 DEF SearchNearest, Find
  <2>2. \A r \in results : \E n \in Nat : r \in Rankings(Visible, n)
    BY <1>1
  <2>3. \A r \in results : r \in Seq(Visible) /\ IsInjective(r)
    BY <1>1, <2>2, RankingsAreLists
  <2> HIDE DEF results
  <2>4. \A r \in results : r \in Seq(Legitimate) /\ IsInjective(r)
    BY <1>1, <2>3
  <2>5. "dense" \in Part /\ \A r \in results : Holds("dense", r)
    BY <2>4 DEF Part, Holds, RankedPart
  <2> QED
    BY <2>1, <2>5, DerivePreserves
<1> QED
  BY <1>3, <1>4, <1>5, <1>6, <1>7, <1>8, <1>9, <1>10, <1>11, <1>12, <1>13, <1>14, <1>15, <1>16

\* An ingest only adds to what was seen.
LEMMA IngestPreserves ==
  ASSUME RetrievalInv, NEW d \in Document, Ingest(d)
  PROVE  RetrievalInv'
<1>1. UNCHANGED <<call, pc, found, answer>> /\ seen' = seen \cup Stored'
  BY DEF Ingest
<1>2. generation' \in [Document -> 0 .. MaxGeneration] /\ graphed' \subseteq Document
  <2>1. generation \in [Document -> 0 .. MaxGeneration] /\ graphed \subseteq Document
    BY DEF RetrievalInv, Basics
  <2>2. MaxGeneration \in Nat
    BY RetrievalAssumption
  <2>3. Rewrite(d) \/ StoreGraph(d)
    BY DEF Ingest
  <2> QED BY <2>1, <2>2, <2>3 DEF Rewrite, StoreGraph
<1>3. changes' \in Nat
  BY DEF RetrievalInv, Basics, Ingest
<1>4. seen' \subseteq Chunk
  <2>1. Stored' \subseteq Chunk
    BY <1>2, GenerationsAreChunks DEF Stored, ChunksOf
  <2> QED
    BY <1>1, <2>1 DEF RetrievalInv, Basics
<1>5. Basics' /\ StoredAreSeen'
  BY <1>1, <1>2, <1>3, <1>4 DEF RetrievalInv, Basics, StoredAreSeen
<1>6. Legitimate \subseteq Legitimate'
  BY <1>1 DEF Legitimate
<1>7. FoundAreLegitimate' /\ AnswerIsLegitimate'
  BY <1>1, <1>6 DEF RetrievalInv, FoundAreLegitimate, Holds, AnswerIsLegitimate
<1> QED
  BY <1>5, <1>7 DEF RetrievalInv

\* Appending keeps what comes first.
LEMMA ConcatKeepsFirst ==
  ASSUME NEW S, NEW p \in Seq(S), NEW q \in Seq(S), Len(p) > 0
  PROVE  /\ p \o q \in Seq(S)
         /\ 1 \in DOMAIN (p \o q) /\ (p \o q)[1] = p[1]
OBVIOUS

\* The branches of a hybrid search, the dense one first.
HybridBranches ==
  <<found["dense"], found["sparse"]>> \o
    (IF GraphEnabled THEN <<found["graph"], found["community"]>> ELSE <<>>)

LEMMA HybridBranchesAreLists ==
  ASSUME RetrievalInv, Complete, call.mode = "hybrid"
  PROVE  /\ HybridBranches \in Seq(Seq(Legitimate))
         /\ 1 \in DOMAIN HybridBranches /\ HybridBranches[1] = found["dense"]
<1>1. \A part \in DOMAIN found : Holds(part, found[part])
  BY DEF RetrievalInv, FoundAreLegitimate
<1> DEFINE direct == <<found["dense"], found["sparse"]>>
           indirect == IF GraphEnabled THEN <<found["graph"], found["community"]>> ELSE <<>>
<1>2. {"dense", "sparse"} \subseteq DOMAIN found
  BY DEF Complete, Uses, Ready
<1>3. direct \in Seq(Seq(Legitimate)) /\ Len(direct) = 2 /\ direct[1] = found["dense"]
  BY <1>1, <1>2 DEF Holds, RankedPart
<1>4. indirect \in Seq(Seq(Legitimate))
  <2>1. CASE GraphEnabled
    <3>1. {"graph", "community"} \subseteq DOMAIN found
      BY <2>1 DEF Complete, Ready
    <3> QED
      BY <1>1, <2>1, <3>1 DEF Holds, RankedPart
  <2>2. CASE ~GraphEnabled
    BY <2>2
  <2> QED
    BY <2>1, <2>2
<1>5. HybridBranches = direct \o indirect
  BY DEF HybridBranches
<1> HIDE DEF direct, indirect
<1>6. Len(direct) > 0
  BY <1>3
<1> QED
  BY <1>3, <1>4, <1>5, <1>6, ConcatKeepsFirst

\* What the branches hand on is legitimate and has nothing twice.
LEMMA ResultsAreLists ==
  ASSUME RetrievalInv, Complete, NEW q \in Results
  PROVE  q \in Seq(Legitimate) /\ IsInjective(q)
<1>1. \A part \in DOMAIN found : Holds(part, found[part])
  BY DEF RetrievalInv, FoundAreLegitimate
<1>2. call.mode \in {"dense", "sparse", "hybrid"}
  BY DEF RetrievalInv, Basics, Call
<1>3. CASE call.mode = "dense"
  BY <1>1, <1>3 DEF Complete, Uses, Ready, Results, Holds, RankedPart
<1>4. CASE call.mode = "sparse"
  BY <1>1, <1>4 DEF Complete, Uses, Ready, Results, Holds, RankedPart
<1>5. CASE call.mode = "hybrid"
  <2>1. q \in Fusions(HybridBranches, Limit)
    BY <1>5 DEF Results, HybridBranches
  <2>2. HybridBranches \in Seq(Seq(Legitimate))
    BY <1>5, HybridBranchesAreLists
  <2>3. Legitimate \subseteq Chunk /\ Limit \in Nat
    BY LimitsAreNatural DEF RetrievalInv, Basics, Legitimate
  <2> QED
    BY <2>1, <2>2, <2>3, FusionsAreLists
<1> QED
  BY <1>2, <1>3, <1>4, <1>5

\* Collecting the results, with or without a reranker to follow, keeps a prefix
\* of them.
LEMMA CollectPreserves == RetrievalInv /\ Collect => RetrievalInv'
<1> SUFFICES ASSUME RetrievalInv, Collect PROVE RetrievalInv'
  OBVIOUS
<1>0. PICK q \in Results : \E n \in 0 .. Len(q) :
        /\ answer' = IF call.reranks THEN Truncated(q, n) ELSE Truncated(Truncated(q, n), TopK)
        /\ pc' = IF call.reranks /\ n > 0 THEN "rerank" ELSE "done"
  BY DEF Collect
<1>1. PICK n \in 0 .. Len(q) :
        /\ answer' = IF call.reranks THEN Truncated(q, n) ELSE Truncated(Truncated(q, n), TopK)
        /\ pc' = IF call.reranks /\ n > 0 THEN "rerank" ELSE "done"
  BY <1>0
<1>2. UNCHANGED <<call, found, generation, graphed, seen, changes>>
  BY DEF Collect, database
<1>3. q \in Seq(Legitimate) /\ IsInjective(q) /\ n \in Nat
  BY ResultsAreLists DEF Collect
<1>4. TopK \in Nat /\ (call.top_k >= 0 => TopK = call.top_k)
  BY LimitsAreNatural DEF RetrievalInv
<1>5. /\ Truncated(q, n) \in Seq(Legitimate)
      /\ IsInjective(Truncated(q, n))
      /\ Len(Truncated(q, n)) <= n
  BY <1>3, TruncatedIsPrefix
<1>6. /\ Truncated(Truncated(q, n), TopK) \in Seq(Legitimate)
      /\ IsInjective(Truncated(Truncated(q, n), TopK))
      /\ Len(Truncated(Truncated(q, n), TopK)) <= TopK
  BY <1>4, <1>5, TruncatedIsPrefix
<1>7. call.reranks \in BOOLEAN /\ call.top_k \in Int
  BY RetrievalAssumption DEF RetrievalInv, Basics, Call
<1>8. answer' \in Seq(Legitimate) /\ IsInjective(answer')
  BY <1>1, <1>5, <1>6, <1>7
<1>9. pc' = "done" /\ call.top_k >= 0 => Len(answer') <= call.top_k
  <2>1. CASE call.reranks
    <3>1. pc' = "done" => n = 0
      BY <1>1, <1>3, <2>1
    <3> QED
      BY <1>1, <1>3, <1>5, <1>7, <1>8, <2>1, <3>1
  <2>2. CASE ~call.reranks
    BY <1>1, <1>4, <1>6, <2>2
  <2> QED
    BY <2>1, <2>2
<1>10. AnswerIsLegitimate'
  BY <1>2, <1>8, <1>9 DEF AnswerIsLegitimate, Legitimate
<1>11. Basics' /\ StoredAreSeen' /\ FoundAreLegitimate'
  BY <1>1, <1>2
  DEF RetrievalInv, Basics, StoredAreSeen, Stored, ChunksOf, FoundAreLegitimate, Holds, Legitimate
<1> QED
  BY <1>10, <1>11 DEF RetrievalInv

\* The reranker chooses and reorders, and a failure of it only cuts.
LEMMA RerankPreserves == RetrievalInv /\ (Rerank \/ RerankFails) => RetrievalInv'
<1> SUFFICES ASSUME RetrievalInv, Rerank \/ RerankFails PROVE RetrievalInv'
  OBVIOUS
<1>1. UNCHANGED <<call, found, generation, graphed, seen, changes>> /\ pc' = "done"
  BY DEF Rerank, RerankFails, database
<1>2. answer \in Seq(Legitimate) /\ IsInjective(answer)
  BY DEF RetrievalInv, AnswerIsLegitimate
<1>3. PICK q \in Seq(Legitimate) : IsInjective(q) /\ answer' = Truncated(q, TopK)
  <2>1. CASE Rerank
    <3>0. PICK order \in RerankAnswers :
            answer' = Truncated([i \in DOMAIN order |-> answer[order[i]]], TopK)
      BY <2>1 DEF Rerank
    <3>1. PICK n \in 0 .. Len(answer) : order \in Injection(1 .. n, DOMAIN answer)
      BY DEF RerankAnswers
    <3>2. order \in [1 .. n -> DOMAIN answer] /\ IsInjective(order)
      BY <3>1 DEF Injection
    <3> DEFINE chosen == [i \in 1 .. n |-> answer[order[i]]]
    <3>3. chosen \in Seq(Legitimate)
      <4>1. \A i \in 1 .. n : answer[order[i]] \in Legitimate
        BY <1>2, <3>2
      <4>2. n \in Nat
        BY <1>2
      <4> QED
        BY <4>1, <4>2
    <3>4. IsInjective(chosen)
      BY <1>2, <3>2 DEF IsInjective
    <3>5. answer' = Truncated(chosen, TopK)
      BY <3>0, <3>2
    <3> QED
      BY <3>3, <3>4, <3>5
  <2>2. CASE RerankFails
    BY <1>2, <2>2 DEF RerankFails
  <2> QED
    BY <2>1, <2>2
<1>4. TopK \in Nat /\ (call.top_k >= 0 => TopK = call.top_k)
  BY LimitsAreNatural DEF RetrievalInv
<1>5. /\ answer' \in Seq(Legitimate)
      /\ IsInjective(answer')
      /\ Len(answer') <= TopK
  BY <1>3, <1>4, TruncatedIsPrefix
<1>6. AnswerIsLegitimate'
  BY <1>1, <1>4, <1>5 DEF AnswerIsLegitimate, Legitimate
<1>7. Basics' /\ StoredAreSeen' /\ FoundAreLegitimate'
  BY <1>1
  DEF RetrievalInv, Basics, StoredAreSeen, Stored, ChunksOf, FoundAreLegitimate, Holds, Legitimate
<1> QED
  BY <1>6, <1>7 DEF RetrievalInv

\* Failing, and doing nothing, leave the results alone.
LEMMA OthersPreserve ==
  RetrievalInv /\ (SearchFails \/ SearchRefused \/ UNCHANGED vars) => RetrievalInv'
BY DEF RetrievalInv, SearchFails, SearchRefused, database, vars, Basics, StoredAreSeen, Stored, ChunksOf,
       FoundAreLegitimate, AnswerIsLegitimate, Holds, Legitimate

LEMMA NextPreservesInv == RetrievalInv /\ [Next]_vars => RetrievalInv'
<1> SUFFICES ASSUME RetrievalInv, [Next]_vars PROVE RetrievalInv'
  OBVIOUS
<1>1. CASE \/ Embed \/ SearchFts \/ SearchTrigram \/ SearchTitles \/ SearchPaths \/ MergeSparse
           \/ SearchDense \/ SearchNearest
           \/ ChooseSeeds \/ SearchGraph
           \/ FindLocal \/ FindGlobal \/ SearchCommunities \/ CommunityFails
  BY <1>1, PartsPreserve
<1>2. CASE Collect
  BY <1>2, CollectPreserves
<1>3. CASE Rerank \/ RerankFails
  BY <1>3, RerankPreserves
<1>4. CASE SearchFails \/ SearchRefused \/ UNCHANGED vars
  BY <1>4, OthersPreserve
<1>5. CASE \E d \in Document : Ingest(d)
  BY <1>5, IngestPreserves
<1> QED
  BY <1>1, <1>2, <1>3, <1>4, <1>5 DEF Next, Search, Providers

LEMMA InvIsInvariant == Spec => []RetrievalInv
BY InitEstablishesInv, NextPreservesInv, PTL DEF Spec

----------------------------------------------------------------------------
(* Full answers.                                                           *)

\* Until something is ingested, what was seen is what is stored, and SQLite's
\* dense part has as much of what the filters admit as the limit allows.
DenseIsFull ==
  changes = 0 =>
    /\ seen = Stored
    /\ ~Postgres /\ Ready("dense") =>
         Len(found["dense"]) = Smaller(Limit, Cardinality(Visible))

\* A ranking of chunks has as many as there are, up to the limit.
LEMMA RankingsAreFull ==
  ASSUME NEW S, S \subseteq Chunk, NEW n \in Nat, NEW q \in Rankings(S, n)
  PROVE  Len(q) = Smaller(n, Cardinality(S))
<1>1. Cardinality(S) \in Nat
  BY RetrievalAssumption, FS_Subset, FS_CardinalityType
<1>2. Smaller(n, Cardinality(S)) \in Nat
  BY <1>1, SmallerOfTwo
<1>3. q \in [1 .. Smaller(n, Cardinality(S)) -> S]
  BY DEF Rankings, Injection
<1> QED
  BY <1>2, <1>3

\* A list without repetition has as many chunks as it is long.
LEMMA ListsCount ==
  ASSUME NEW S, NEW q \in Seq(S), IsInjective(q)
  PROVE  IsFiniteSet(RankedIn(q)) /\ Cardinality(RankedIn(q)) = Len(q)
<1>1. Len(q) \in Nat /\ DOMAIN q = 1 .. Len(q)
  OBVIOUS
<1>2. IsFiniteSet(1 .. Len(q)) /\ Cardinality(1 .. Len(q)) = Len(q)
  BY <1>1, FS_Interval
<1>3. q \in Bijection(1 .. Len(q), RankedIn(q))
  BY <1>1 DEF Bijection, Injection, Surjection, IsInjective, RankedIn
<1>4. ExistsBijection(1 .. Len(q), RankedIn(q))
  BY <1>3 DEF ExistsBijection
<1> QED
  BY <1>2, <1>4, FS_Bijection

LEMMA InitIsFull == Init => DenseIsFull
BY DEF Init, DenseIsFull, Ready

\* Only the dense part of SQLite is to be full, and it ranks what is visible.
LEMMA DeriveKeepsFull ==
  ASSUME RetrievalInv, DenseIsFull, NEW part, NEW results, NEW used,
         Derive(part, results, used),
         part = "dense" /\ ~Postgres =>
           \A r \in results : Len(r) = Smaller(Limit, Cardinality(Visible))
  PROVE  DenseIsFull'
<1>1. PICK r \in results :
        found' = [p \in (DOMAIN found \ used) \cup {part} |-> IF p = part THEN r ELSE found[p]]
  BY DEF Derive
<1>2. UNCHANGED <<call, generation, graphed, seen, changes>>
  BY DEF Derive, database
<1>3. /\ Stored' = Stored /\ Visible' = Visible /\ Limit' = Limit /\ Postgres' = Postgres
      /\ seen' = seen /\ changes' = changes
  BY <1>2 DEF Stored, ChunksOf, Visible, Limit, TopK, Postgres
<1>4. ASSUME changes = 0, ~Postgres, "dense" \in DOMAIN found'
      PROVE  Len(found'["dense"]) = Smaller(Limit, Cardinality(Visible))
  <2>1. CASE part = "dense"
    BY <1>1, <1>4, <2>1
  <2>2. CASE part # "dense"
    BY <1>1, <1>4, <2>2 DEF DenseIsFull, Ready
  <2> QED
    BY <2>1, <2>2
<1> QED
  BY <1>3, <1>4 DEF DenseIsFull, Ready

LEMMA NextKeepsFull == RetrievalInv /\ DenseIsFull /\ [Next]_vars => DenseIsFull'
<1> SUFFICES ASSUME RetrievalInv, DenseIsFull, [Next]_vars PROVE DenseIsFull'
  OBVIOUS
<1>1. Visible \subseteq Chunk /\ Limit \in Nat
  BY VisibleAreLegitimate, LimitsAreNatural DEF RetrievalInv, Basics, Legitimate
<1>2. CASE SearchDense
  <2>1. Derive("dense", Rankings(Visible, Limit), {})
    BY <1>2 DEF SearchDense, Find
  <2>2. \A r \in Rankings(Visible, Limit) : Len(r) = Smaller(Limit, Cardinality(Visible))
    BY <1>1, RankingsAreFull
  <2> QED
    BY <2>1, <2>2, DeriveKeepsFull
<1>3. CASE SearchNearest
  <2>1. Derive("dense", UNION {Rankings(Visible, n) : n \in 0 .. Limit}, {}) /\ Postgres
    BY <1>3 DEF SearchNearest, Find
  <2> QED
    BY <2>1, DeriveKeepsFull
<1>4. CASE \/ Embed \/ SearchFts \/ SearchTrigram \/ SearchTitles \/ SearchPaths \/ MergeSparse
           \/ ChooseSeeds \/ SearchGraph
           \/ FindLocal \/ FindGlobal \/ SearchCommunities \/ CommunityFails
  <2>1. \E part \in Part \ {"dense"} : \E results, used : Derive(part, results, used)
    BY <1>4
    DEF Embed, SearchFts, SearchTrigram, SearchTitles, SearchPaths, MergeSparse, ChooseSeeds,
        SearchGraph, FindLocal, FindGlobal, SearchCommunities, CommunityFails, Find, Part
  <2> QED
    BY <2>1, DeriveKeepsFull
<1>5. CASE \/ Collect \/ Rerank \/ RerankFails \/ SearchFails \/ SearchRefused \/ UNCHANGED vars
  <2>1. UNCHANGED <<call, found, generation, graphed, seen, changes>>
    BY <1>5 DEF Collect, Rerank, RerankFails, SearchFails, SearchRefused, vars, database
  <2> QED
    BY <2>1 DEF DenseIsFull, Ready, Stored, ChunksOf, Visible, Limit, TopK, Postgres
<1>6. CASE \E d \in Document : Ingest(d)
  <2>1. changes' # 0
    BY <1>6 DEF Ingest, RetrievalInv, Basics
  <2> QED
    BY <2>1 DEF DenseIsFull
<1> QED
  BY <1>2, <1>3, <1>4, <1>5, <1>6 DEF Next, Search, Providers

\* Fusion of a full branch with others, all of what is visible, is full.
LEMMA FusionIsFull ==
  ASSUME NEW S, S \subseteq Chunk, NEW n \in Nat, NEW branches \in Seq(Seq(S)),
         NEW b \in DOMAIN branches, IsInjective(branches[b]),
         Len(branches[b]) = Smaller(n, Cardinality(S)),
         NEW q \in Fusions(branches, n)
  PROVE  Len(q) = Smaller(n, Cardinality(S))
<1> DEFINE all == AllChunks(branches)
<1>1. all \subseteq S /\ RankedIn(branches[b]) \subseteq all
  BY DEF AllChunks, RankedIn
<1>2. IsFiniteSet(S) /\ IsFiniteSet(all)
  BY <1>1, RetrievalAssumption, FS_Subset
<1>3. branches[b] \in Seq(S)
  OBVIOUS
<1>4. Cardinality(RankedIn(branches[b])) = Smaller(n, Cardinality(S))
  BY <1>3, ListsCount
<1>5. Cardinality(all) <= Cardinality(S) /\ Smaller(n, Cardinality(S)) <= Cardinality(all)
  BY <1>1, <1>2, <1>4, FS_Subset
<1>6. Cardinality(S) \in Nat /\ Cardinality(all) \in Nat
  BY <1>2, FS_CardinalityType
<1>7. Smaller(n, Cardinality(all)) = Smaller(n, Cardinality(S))
  BY <1>5, <1>6 DEF Smaller
<1>8. q \in Rankings(all, n)
  BY DEF Fusions
<1>9. all \subseteq Chunk
  BY <1>1
<1> QED
  BY <1>7, <1>8, <1>9, RankingsAreFull

----------------------------------------------------------------------------

\* Whatever branches, rankings, communities and reranker do, and whatever is
\* ingested meanwhile, an answer has only chunks that passed the filters and
\* were stored during the call.
THEOREM SearchIsLegitimate == Spec => []AnswersAreLegitimate
<1>1. RetrievalInv => AnswersAreLegitimate
  BY DEF RetrievalInv, AnswerIsLegitimate, AnswersAreLegitimate, RankedIn, Legitimate
<1> QED
  BY <1>1, InvIsInvariant, PTL

\* What the branches found and the answer keep their types, whichever of them
\* have answered.
THEOREM SearchTyped == Spec => []TypeOK
<1>1. ASSUME RetrievalInv
      PROVE  TypeOK
  <2>1. Legitimate \subseteq Chunk
    BY <1>1 DEF RetrievalInv, Basics, Legitimate
  <2>2. answer \in Seq(Chunk)
    BY <1>1, <2>1 DEF RetrievalInv, AnswerIsLegitimate
  <2>3. \A part \in DOMAIN found : part \in Part /\ Holds(part, found[part])
    BY <1>1 DEF RetrievalInv, FoundAreLegitimate
  <2>4. ASSUME NEW part \in RankedPart, Ready(part)
        PROVE  found[part] \in Seq(Chunk)
    BY <2>1, <2>3, <2>4 DEF Ready, Holds
  <2>5. ASSUME NEW part \in {"fts", "titles", "trigram"}, Ready(part)
        PROVE  found[part] \subseteq Chunk
    BY <2>1, <2>3, <2>5 DEF Ready, Holds
  <2>6. ASSUME NEW tier \in {"local", "global"}, Ready(tier)
        PROVE  found[tier] \subseteq Community
    BY <2>3, <2>6 DEF Ready, Holds
  <2>7. DOMAIN found \subseteq Part
    BY <2>3
  <2> QED BY <1>1, <2>2, <2>4, <2>5, <2>6, <2>7 DEF TypeOK, RetrievalInv, Basics
<1> QED
  BY <1>1, InvIsInvariant, PTL

\* An answer repeats no chunk and is as short as asked for, for every top_k.
THEOREM SearchFits == Spec => []AnswersFit
<1>1. RetrievalInv => AnswersFit
  BY DEF RetrievalInv, AnswerIsLegitimate, AnswersFit, IsInjective
<1> QED
  BY <1>1, InvIsInvariant, PTL

\* If nothing is ingested meanwhile, a dense or hybrid search of SQLite hands
\* on as much as there is or as the limit allows, however many of its other
\* branches are empty and whatever the communities brought: the dense part has
\* that many, and fusion, which has the same limit, loses none of the room.
THEOREM SearchIsFull == Spec => []RecallIsFull
<1>1. ASSUME RetrievalInv, DenseIsFull
      PROVE  RecallIsFull
  <2> SUFFICES ASSUME pc = "retrieve", ~Postgres, Complete, changes = 0, call.mode # "sparse",
                      NEW q \in Results
               PROVE  Len(q) = Smaller(Limit, Cardinality(Visible))
    BY DEF RecallIsFull
  <2>1. /\ Visible = Legitimate /\ Visible \subseteq Chunk
        /\ Limit \in Nat
    BY <1>1, VisibleAreLegitimate, LimitsAreNatural
    DEF RetrievalInv, Basics, Legitimate, Visible, DenseIsFull
  <2>2. call.mode \in {"dense", "sparse", "hybrid"} /\ "dense" \in DOMAIN found
    BY <1>1 DEF RetrievalInv, Basics, Call, Complete, Uses, Ready
  <2>3. \A part \in DOMAIN found : Holds(part, found[part])
    BY <1>1 DEF RetrievalInv, FoundAreLegitimate
  <2>4. /\ found["dense"] \in Seq(Visible) /\ IsInjective(found["dense"])
        /\ Len(found["dense"]) = Smaller(Limit, Cardinality(Visible))
    BY <1>1, <2>1, <2>2, <2>3 DEF Holds, RankedPart, DenseIsFull, Ready
  <2>5. CASE call.mode = "dense"
    BY <2>4, <2>5 DEF Results
  <2>6. CASE call.mode = "hybrid"
    <3> DEFINE branches == HybridBranches
    <3>1. branches \in Seq(Seq(Visible)) /\ 1 \in DOMAIN branches /\ branches[1] = found["dense"]
      BY <1>1, <2>1, <2>6, HybridBranchesAreLists
    <3>2. q \in Fusions(branches, Limit)
      BY <2>6 DEF Results, HybridBranches
    <3> HIDE DEF branches
    <3> QED
      BY <2>1, <2>4, <3>1, <3>2, FusionIsFull
  <2> QED
    BY <2>2, <2>5, <2>6
<1> QED
  BY <1>1, InvIsInvariant, InitIsFull, NextKeepsFull, PTL DEF Spec

----------------------------------------------------------------------------
(* The graph walk, recursive functions of the number of relationships.     *)

\* Induction, of a set of numbers: the intervals 0 .. m are ordered by inclusion,
\* so a number that is not in the set would have a smallest one before it.
LEMMA InductionOnNat ==
  ASSUME NEW S, 0 \in S, \A n \in Nat : n \in S => n + 1 \in S
  PROVE  \A n \in Nat : n \in S
<1> SUFFICES ASSUME NEW n \in Nat, n \notin S PROVE FALSE
  OBVIOUS
<1> DEFINE bad == {I \in SUBSET (0 .. n) : \E m \in 0 .. n : I = 0 .. m /\ m \notin S}
<1>1. 0 .. n \in bad
  OBVIOUS
<1>2. IsWellFoundedOn(StrictSubsetOrdering(0 .. n), SUBSET (0 .. n))
  <2>1. IsFiniteSet(0 .. n)
    BY FS_Interval
  <2> QED
    BY <2>1, FS_StrictSubsetOrderingWellFounded, FS_FiniteSubsetsOfFinite
<1>3. PICK I \in bad : \A J \in bad : ~(<<J, I>> \in StrictSubsetOrdering(0 .. n))
  <2>1. bad \subseteq SUBSET (0 .. n)
    OBVIOUS
  <2> HIDE DEF bad
  <2> QED
    BY <1>1, <1>2, <2>1, WFMin
<1>4. PICK m \in 0 .. n : I = 0 .. m /\ m \notin S
  OBVIOUS
<1>5. m # 0 /\ m - 1 \in 0 .. n /\ m - 1 \notin S
  BY <1>4
<1>6. 0 .. (m - 1) \in bad
  BY <1>5
<1>7. <<0 .. (m - 1), I>> \in StrictSubsetOrdering(0 .. n)
  <2>1. /\ 0 .. (m - 1) \subseteq I /\ m \in I /\ m \notin 0 .. (m - 1)
        /\ I \subseteq 0 .. n
    BY <1>4
  <2> QED
    BY <2>1 DEF StrictSubsetOrdering
<1> QED
  BY <1>3, <1>6, <1>7

\* The paths of k relationships, from those of one less.
Extended(P, k, simple) ==
  UNION {{Append(p, e) : e \in Neighbours(p[k]) \ (IF simple THEN RankedIn(p) ELSE {})} : p \in P}

\* graph_walk goes on from the paths it has.
LEMMA WalkGoesOn ==
  ASSUME NEW ids, NEW simple
  PROVE  /\ Walk(ids, simple)[0] = {<<e>> : e \in EntitiesOf(ids)}
         /\ \A k \in 1 .. Depth : Walk(ids, simple)[k] = Extended(Walk(ids, simple)[k - 1], k, simple)
<1> DEFINE start == {<<e>> : e \in EntitiesOf(ids)}
           Recursive(g, n) == g = [k \in 0 .. n |-> IF k = 0 THEN start ELSE Extended(g[k - 1], k, simple)]
           S == {n \in Nat : \E g : Recursive(g, n)}
<1>1. Walk(ids, simple) = CHOOSE g : Recursive(g, Depth)
  BY DEF Walk, Extended
<1> HIDE DEF start
<1>2. 0 \in S
  <2>1. Recursive([k \in 0 .. 0 |-> start], 0)
    OBVIOUS
  <2> QED
    BY <2>1
<1>3. ASSUME NEW n \in Nat, n \in S PROVE n + 1 \in S
  <2>1. PICK g : Recursive(g, n)
    BY <1>3
  <2> DEFINE h == [k \in 0 .. n + 1 |-> IF k <= n THEN g[k] ELSE Extended(g[n], n + 1, simple)]
  <2>2. \A k \in 0 .. n + 1 : h[k] = IF k = 0 THEN start ELSE Extended(h[k - 1], k, simple)
    BY <2>1
  <2>3. h = [k \in 0 .. n + 1 |-> h[k]]
    OBVIOUS
  <2> HIDE DEF h
  <2>4. Recursive(h, n + 1)
    BY <2>2, <2>3
  <2> QED
    BY <2>4
<1>4. Depth \in Nat
  BY RetrievalAssumption
<1> HIDE DEF Recursive
<1>5. Depth \in S
  <2> HIDE DEF S
  <2> QED
    BY <1>2, <1>3, <1>4, InductionOnNat
<1>6. Recursive(Walk(ids, simple), Depth)
  BY <1>1, <1>5
<1> QED
  BY <1>4, <1>6 DEF Recursive, start

\* A path of n relationships.
IsPath(p, n) == p \in [1 .. n + 1 -> Entity] /\ \A i \in 1 .. n : Linked(p[i], p[i + 1])

\* The graph is one of entities, and its neighbours are linked either way.
GraphTyped ==
  /\ \A ids : EntitiesOf(ids) \subseteq Entity
  /\ \A e \in Entity : Neighbours(e) = {f \in Entity : Linked(e, f)}

LEMMA InvGivesGraphTyped == RetrievalInv => GraphTyped
<1> SUFFICES ASSUME RetrievalInv PROVE GraphTyped
  OBVIOUS
<1>1. InGraph \subseteq Chunk
  BY DEF RetrievalInv, Basics, StoredAreSeen, InGraph
<1>2. \A ids : EntitiesOf(ids) \subseteq Entity
  <2>1. Mentions \in [Chunk -> SUBSET Entity]
    BY RetrievalAssumption
  <2> QED
    BY <1>1, <2>1 DEF EntitiesOf
<1>3. Relationships \subseteq Entity \X Entity
  <2>1. Related \in [Chunk -> SUBSET (Entity \X Entity)]
    BY RetrievalAssumption
  <2> QED
    BY <1>1, <2>1 DEF Relationships
<1>4. ASSUME NEW e \in Entity PROVE Neighbours(e) = {f \in Entity : Linked(e, f)}
  <2>1. ASSUME NEW f \in Neighbours(e) PROVE f \in Entity /\ Linked(e, f)
    <3>1. PICK r \in Relationships : (r[1] = e /\ f = r[2]) \/ (r[2] = e /\ f = r[1])
      <4>1. f \in {r[2] : r \in {edge \in Relationships : edge[1] = e}}
              \/ f \in {r[1] : r \in {edge \in Relationships : edge[2] = e}}
        BY <2>1, Zenon DEF Neighbours
      <4> QED
        BY <4>1
    <3>2. r = <<r[1], r[2]>> /\ r[1] \in Entity /\ r[2] \in Entity
      BY <1>3, <3>1
    <3> QED
      BY <3>1, <3>2 DEF Linked
  <2>2. ASSUME NEW f \in Entity, Linked(e, f) PROVE f \in Neighbours(e)
    <3>1. CASE <<e, f>> \in Relationships
      BY <3>1 DEF Neighbours
    <3>2. CASE <<f, e>> \in Relationships
      BY <3>2 DEF Neighbours
    <3> QED
      BY <2>2, <3>1, <3>2 DEF Linked
  <2> QED
    BY <2>1, <2>2
<1> QED
  BY <1>2, <1>4 DEF GraphTyped

\* Append, of a sequence given as a function.
LEMMA AppendedPath ==
  ASSUME NEW k \in Nat, NEW r \in [1 .. k -> Entity], NEW e \in Entity
  PROVE  /\ Append(r, e) \in [1 .. k + 1 -> Entity]
         /\ Append(r, e)[k + 1] = e
         /\ \A i \in 1 .. k : Append(r, e)[i] = r[i]
<1>1. r \in Seq(Entity) /\ Len(r) = k
  OBVIOUS
<1>2. /\ Append(r, e) \in Seq(Entity) /\ Len(Append(r, e)) = k + 1
      /\ Append(r, e)[k + 1] = e
      /\ \A i \in 1 .. k : Append(r, e)[i] = r[i]
  BY <1>1, AppendProperties
<1>3. Append(r, e) \in [1 .. k + 1 -> Entity]
  BY <1>2, LenProperties
<1> QED
  BY <1>2, <1>3

\* The walk takes the paths from the entities it starts from, the simple ones
\* if those only.
LEMMA WalkTakesPaths ==
  ASSUME GraphTyped, NEW ids, NEW simple \in BOOLEAN, NEW n \in 0 .. Depth, NEW p
  PROVE  p \in Walk(ids, simple)[n] <=>
           IsPath(p, n) /\ p[1] \in EntitiesOf(ids) /\ (simple => IsInjective(p))
<1> DEFINE Good(q, k) == IsPath(q, k) /\ q[1] \in EntitiesOf(ids) /\ (simple => IsInjective(q))
           S == {k \in Nat : k \in 0 .. Depth => \A q : q \in Walk(ids, simple)[k] <=> Good(q, k)}
<1>0. Depth \in Nat
  BY RetrievalAssumption
<1>1. 0 \in S
  <2>1. Walk(ids, simple)[0] = {<<e>> : e \in EntitiesOf(ids)}
    BY WalkGoesOn
  <2>2. ASSUME NEW e \in EntitiesOf(ids) PROVE Good(<<e>>, 0)
    BY DEF GraphTyped, IsPath, IsInjective
  <2>3. ASSUME NEW q, Good(q, 0) PROVE q = <<q[1]>> /\ q[1] \in EntitiesOf(ids)
    BY <2>3 DEF IsPath
  <2> QED
    BY <2>1, <2>2, <2>3
<1>2. ASSUME NEW m \in Nat, m \in S PROVE m + 1 \in S
  <2> SUFFICES ASSUME m + 1 \in 0 .. Depth
               PROVE  \A q : q \in Walk(ids, simple)[m + 1] <=> Good(q, m + 1)
    OBVIOUS
  <2> DEFINE k == m + 1
  <2>1. k \in 1 .. Depth /\ k - 1 = m /\ m \in 0 .. Depth
    BY <1>0
  <2>2. \A q : q \in Walk(ids, simple)[m] <=> Good(q, m)
    BY <1>2, <2>1
  <2>3. Walk(ids, simple)[k] = Extended(Walk(ids, simple)[m], k, simple)
    BY <2>1, WalkGoesOn
  <2>4. ASSUME NEW q \in Walk(ids, simple)[k] PROVE Good(q, k)
    <3>1. PICK r \in Walk(ids, simple)[m] :
                 \E e \in Neighbours(r[k]) \ (IF simple THEN RankedIn(r) ELSE {}) : q = Append(r, e)
      BY <2>3 DEF Extended
    <3>2. PICK e \in Neighbours(r[k]) : q = Append(r, e) /\ (simple => e \notin RankedIn(r))
      BY <3>1
    <3>3. Good(r, m) /\ r \in [1 .. k -> Entity]
      BY <2>1, <2>2 DEF IsPath
    <3>4. r[k] \in Entity /\ e \in Entity /\ Linked(r[k], e)
      BY <2>1, <3>3 DEF GraphTyped
    <3>5. q \in [1 .. k + 1 -> Entity] /\ q[k + 1] = e /\ \A i \in 1 .. k : q[i] = r[i]
      <4>1. k \in Nat /\ r \in [1 .. k -> Entity] /\ e \in Entity /\ q = Append(r, e)
        BY <2>1, <3>2, <3>3, <3>4
      <4> HIDE DEF k
      <4> QED
        BY <4>1, AppendedPath
    <3>6. ASSUME NEW i \in 1 .. k PROVE Linked(q[i], q[i + 1])
      <4>1. CASE i = k
        <5>1. q[i] = r[k] /\ q[i + 1] = e
          BY <2>1, <3>5, <4>1
        <5> QED
          BY <3>4, <5>1
      <4>2. CASE i # k
        <5>1. i \in 1 .. m /\ i + 1 \in 1 .. k
          BY <2>1, <4>2
        <5>2. q[i] = r[i] /\ q[i + 1] = r[i + 1]
          BY <3>5, <5>1
        <5> QED
          BY <3>3, <5>1, <5>2 DEF IsPath
      <4> QED
        BY <4>1, <4>2
    <3>7. simple => IsInjective(q)
      BY <2>1, <3>2, <3>3, <3>5 DEF IsInjective, RankedIn
    <3> QED
      BY <2>1, <3>3, <3>5, <3>6, <3>7 DEF IsPath
  <2>5. ASSUME NEW q, Good(q, k) PROVE q \in Walk(ids, simple)[k]
    <3> DEFINE r == [i \in 1 .. k |-> q[i]]
               e == q[k + 1]
    <3>1. q \in [1 .. k + 1 -> Entity] /\ \A i \in 1 .. k : Linked(q[i], q[i + 1])
      BY <2>5 DEF IsPath
    <3>2. r \in [1 .. m + 1 -> Entity] /\ e \in Entity
      BY <2>1, <3>1
    <3>3. q = Append(r, e)
      <4>1. /\ Append(r, e) \in [1 .. k + 1 -> Entity]
            /\ Append(r, e)[k + 1] = e
            /\ \A i \in 1 .. k : Append(r, e)[i] = q[i]
        <5>1. \A i \in 1 .. k : r[i] = q[i]
          OBVIOUS
        <5> HIDE DEF r, e
        <5>2. k \in Nat /\ r \in [1 .. k -> Entity]
          BY <2>1, <3>2
        <5> QED
          BY <3>2, <5>1, <5>2, AppendedPath
      <4> HIDE DEF r
      <4>2. \A i \in 1 .. k + 1 : Append(r, e)[i] = q[i]
        BY <2>1, <4>1
      <4> QED
        BY <3>1, <4>1, <4>2
    <3>4. Good(r, m)
      BY <2>1, <2>5, <3>1, <3>2 DEF IsPath, IsInjective
    <3>5. r \in Walk(ids, simple)[m]
      BY <2>2, <3>4
    <3>6. e \in Neighbours(r[k])
      BY <2>1, <3>1, <3>2 DEF GraphTyped
    <3>7. simple => e \notin RankedIn(r)
      BY <2>1, <2>5, <3>1 DEF IsInjective, RankedIn
    <3> HIDE DEF r, e
    <3> QED
      BY <2>3, <3>3, <3>5, <3>6, <3>7 DEF Extended
  <2> QED
    BY <2>4, <2>5
<1> HIDE DEF S
<1>3. n \in S
  BY <1>0, <1>1, <1>2, InductionOnNat
<1> QED
  BY <1>3 DEF S

\* One relationship further than B gets.
Further(B) == [e \in Entity |-> {f \in Entity : \E g \in B[e] : f = g \/ Linked(f, g)}]

\* Within goes on from the entities it has.
LEMMA WithinGoesOn ==
  /\ Within[0] = [e \in Entity |-> {e}]
  /\ \A k \in 1 .. Depth : Within[k] = Further(Within[k - 1])
<1> DEFINE start == [e \in Entity |-> {e}]
           Recursive(g, n) == g = [k \in 0 .. n |-> IF k = 0 THEN start ELSE Further(g[k - 1])]
           S == {n \in Nat : \E g : Recursive(g, n)}
<1>1. Within = CHOOSE g : Recursive(g, Depth)
  BY DEF Within, Further
<1> HIDE DEF start
<1>2. 0 \in S
  <2>1. Recursive([k \in 0 .. 0 |-> start], 0)
    OBVIOUS
  <2> QED
    BY <2>1
<1>3. ASSUME NEW n \in Nat, n \in S PROVE n + 1 \in S
  <2>1. PICK g : Recursive(g, n)
    BY <1>3
  <2> DEFINE h == [k \in 0 .. n + 1 |-> IF k <= n THEN g[k] ELSE Further(g[n])]
  <2>2. \A k \in 0 .. n + 1 : h[k] = IF k = 0 THEN start ELSE Further(h[k - 1])
    BY <2>1
  <2>3. h = [k \in 0 .. n + 1 |-> h[k]]
    OBVIOUS
  <2> HIDE DEF h
  <2>4. Recursive(h, n + 1)
    BY <2>2, <2>3
  <2> QED
    BY <2>4
<1>4. Depth \in Nat
  BY RetrievalAssumption
<1> HIDE DEF Recursive
<1>5. Depth \in S
  <2> HIDE DEF S
  <2> QED
    BY <1>2, <1>3, <1>4, InductionOnNat
<1>6. Recursive(Within, Depth)
  BY <1>1, <1>5
<1>7. \A k \in 0 .. Depth : Within[k] = IF k = 0 THEN start ELSE Further(Within[k - 1])
  <2> HIDE DEF start
  <2> DEFINE g == Within
  <2>1. g = [k \in 0 .. Depth |-> IF k = 0 THEN start ELSE Further(g[k - 1])]
    BY <1>6 DEF Recursive
  <2> HIDE DEF g
  <2>2. \A k \in 0 .. Depth : g[k] = IF k = 0 THEN start ELSE Further(g[k - 1])
    BY <2>1
  <2> QED
    BY <2>2 DEF g
<1>8. 0 \in 0 .. Depth /\ \A k \in 1 .. Depth : k \in 0 .. Depth /\ k # 0
  BY <1>4
<1> QED
  BY <1>7, <1>8 DEF start

\* A path of n relationships stays within n, or more, of where it starts.
LEMMA PathsStayWithin ==
  ASSUME NEW n \in 0 .. Depth, NEW p, IsPath(p, n)
  PROVE  p[n + 1] \in Within[Depth][p[1]]
<1> DEFINE at(k) == p[Smaller(k, n) + 1]
           S == {k \in Nat : k \in 0 .. Depth => at(k) \in Within[k][p[1]]}
<1>0. Depth \in Nat /\ n \in Nat /\ p \in [1 .. n + 1 -> Entity] /\ p[1] \in Entity
  BY RetrievalAssumption DEF IsPath
<1>1. 0 \in S
  <2>1. at(0) = p[1]
    BY <1>0 DEF Smaller
  <2> QED
    BY <1>0, <2>1, WithinGoesOn
<1>2. ASSUME NEW m \in Nat, m \in S PROVE m + 1 \in S
  <2> SUFFICES ASSUME m + 1 \in 0 .. Depth PROVE at(m + 1) \in Within[m + 1][p[1]]
    OBVIOUS
  <2>1. m + 1 \in 1 .. Depth /\ m \in 0 .. Depth /\ (m + 1) - 1 = m
    BY <1>0
  <2>2. at(m) \in Within[m][p[1]]
    BY <1>2, <2>1
  <2>3. Within[m + 1] = Further(Within[m])
    BY <2>1, WithinGoesOn
  <2>4. at(m + 1) \in Entity /\ (at(m + 1) = at(m) \/ Linked(at(m + 1), at(m)))
    <3>1. CASE m + 1 <= n
      <4>1. at(m + 1) = p[m + 2] /\ at(m) = p[m + 1]
        BY <1>0, <3>1 DEF Smaller
      <4>2. m + 1 \in 1 .. n /\ m + 2 \in 1 .. n + 1 /\ (m + 1) + 1 = m + 2
        BY <1>0, <3>1
      <4>3. Linked(p[m + 1], p[m + 2])
        BY <4>2 DEF IsPath
      <4> QED
        BY <1>0, <4>1, <4>2, <4>3 DEF Linked
    <3>2. CASE ~(m + 1 <= n)
      <4>1. at(m + 1) = p[n + 1] /\ at(m) = p[n + 1]
        BY <1>0, <3>2 DEF Smaller
      <4> QED
        BY <1>0, <4>1
    <3> QED
      BY <3>1, <3>2
  <2> HIDE DEF at
  <2> QED
    BY <1>0, <2>2, <2>3, <2>4 DEF Further
<1> HIDE DEF S
<1>3. Depth \in S
  BY <1>0, <1>1, <1>2, InductionOnNat
<1>4. Smaller(Depth, n) = n /\ Depth \in 0 .. Depth
  BY <1>0 DEF Smaller
<1> QED
  BY <1>3, <1>4 DEF S

\* What is within n relationships of e a simple path of no more than n gets to.
LEMMA SimplePathsReach ==
  ASSUME NEW e \in Entity, NEW f \in Within[Depth][e]
  PROVE  \E n \in 0 .. Depth : \E p : IsPath(p, n) /\ IsInjective(p) /\ p[1] = e /\ p[n + 1] = f
<1> DEFINE Simple(p, n, g) == IsPath(p, n) /\ IsInjective(p) /\ p[1] = e /\ p[n + 1] = g
           S == {k \in Nat : k \in 0 .. Depth =>
                   \A g \in Within[k][e] : \E n \in 0 .. k : \E p : Simple(p, n, g)}
<1>0. Depth \in Nat
  BY RetrievalAssumption
<1>1. 0 \in S
  <2>1. Within[0][e] = {e}
    BY WithinGoesOn
  <2>2. Simple(<<e>>, 0, e)
    BY DEF IsPath, IsInjective
  <2> HIDE DEF Simple
  <2> QED
    BY <2>1, <2>2
<1>2. ASSUME NEW m \in Nat, m \in S PROVE m + 1 \in S
  <2> SUFFICES ASSUME m + 1 \in 0 .. Depth, NEW g \in Within[m + 1][e]
               PROVE  \E n \in 0 .. m + 1 : \E p : Simple(p, n, g)
    OBVIOUS
  <2>1. m + 1 \in 1 .. Depth /\ m \in 0 .. Depth /\ (m + 1) - 1 = m
    BY <1>0
  <2>2. PICK h \in Within[m][e] : g \in Entity /\ (g = h \/ Linked(g, h))
    <3>1. Within[m + 1] = Further(Within[m])
      BY <2>1, WithinGoesOn
    <3>2. g \in Further(Within[m])[e]
      BY <3>1
    <3> QED
      BY <3>2 DEF Further
  <2>3. PICK n \in 0 .. m : \E p : Simple(p, n, h)
    BY <1>2, <2>1
  <2>4. PICK p : Simple(p, n, h)
    BY <2>3
  <2>5. n \in Nat /\ n \in 0 .. m + 1 /\ p \in [1 .. n + 1 -> Entity] /\ p[1] = e /\ p[n + 1] = h
    BY <2>4 DEF IsPath
  <2>6. CASE g = h
    BY <2>4, <2>5, <2>6
  <2>7. CASE \E i \in 1 .. n + 1 : g = p[i]
    <3>1. PICK i \in 1 .. n + 1 : g = p[i]
      BY <2>7
    <3> DEFINE r == [j \in 1 .. i |-> p[j]]
               l == i - 1
    <3>2. l \in 0 .. m + 1 /\ l + 1 = i /\ 1 \in 1 .. i
      BY <2>5, <3>1
    <3>3. r \in [1 .. i -> Entity] /\ r[1] = e /\ r[i] = g
      BY <2>5, <3>1, <3>2
    <3>4. ASSUME NEW j \in 1 .. l PROVE Linked(r[j], r[j + 1])
      <4>1. j \in 1 .. n /\ j \in 1 .. i /\ j + 1 \in 1 .. i
        BY <2>5, <3>1
      <4>2. Linked(p[j], p[j + 1])
        BY <2>4, <4>1 DEF IsPath
      <4> QED
        BY <4>1, <4>2
    <3>5. IsInjective(r)
      BY <2>4, <2>5, <3>1 DEF IsInjective
    <3> HIDE DEF r, l
    <3>6. Simple(r, l, g)
      BY <3>2, <3>3, <3>4, <3>5 DEF IsPath
    <3> QED
      BY <3>2, <3>6
  <2>8. CASE ~(g = h) /\ ~(\E i \in 1 .. n + 1 : g = p[i])
    <3> DEFINE r == Append(p, g)
               k == n + 1
    <3>1. k \in Nat /\ k \in 0 .. m + 1 /\ 1 \in 1 .. k /\ k \in 1 .. k
      BY <2>5
    <3>2. r \in [1 .. k + 1 -> Entity] /\ r[k + 1] = g /\ \A i \in 1 .. k : r[i] = p[i]
      <4> HIDE DEF k
      <4> QED
        BY <2>2, <2>5, <3>1, AppendedPath DEF k
    <3> HIDE DEF r
    <3>3. Linked(h, g)
      BY <2>2, <2>8 DEF Linked
    <3>4. ASSUME NEW i \in 1 .. k PROVE Linked(r[i], r[i + 1])
      <4>1. CASE i = k
        BY <2>5, <3>1, <3>2, <3>3, <4>1
      <4>2. CASE i # k
        <5>1. i \in 1 .. n /\ i + 1 \in 1 .. k
          BY <2>5, <4>2
        <5>2. r[i] = p[i] /\ r[i + 1] = p[i + 1]
          BY <3>2, <5>1
        <5> QED
          BY <2>4, <5>1, <5>2 DEF IsPath
      <4> QED
        BY <4>1, <4>2
    <3>5. IsInjective(r)
      BY <2>4, <2>5, <2>8, <3>1, <3>2 DEF IsInjective
    <3>6. r[1] = e
      BY <2>5, <3>1, <3>2
    <3>7. Simple(r, k, g)
      BY <3>2, <3>4, <3>5, <3>6 DEF IsPath
    <3> HIDE DEF Simple
    <3> QED
      BY <3>1, <3>7
  <2> QED
    BY <2>6, <2>7, <2>8
<1> HIDE DEF S
<1>3. Depth \in S
  BY <1>0, <1>1, <1>2, InductionOnNat
<1> QED
  BY <1>0, <1>3 DEF S

\* Where the walk gets to is what is within reach, for simple paths, and no
\* more than that and where it started, for others.
LEMMA WalkReaches ==
  ASSUME GraphTyped, NEW ids
  PROVE  /\ \A n \in 1 .. Depth : \A p \in Walk(ids, TRUE)[n] : p[n + 1] \in Reachable(ids)
         /\ \A f \in Reachable(ids) :
              \E n \in 1 .. Depth : \E p \in Walk(ids, TRUE)[n] : p \in Walk(ids, FALSE)[n] /\ p[n + 1] = f
         /\ \A n \in 1 .. Depth : \A p \in Walk(ids, FALSE)[n] :
              p[n + 1] \in Reachable(ids) \cup EntitiesOf(ids)
<1>0. Depth \in Nat /\ EntitiesOf(ids) \subseteq Entity
  BY RetrievalAssumption DEF GraphTyped
<1>1. ASSUME NEW simple \in BOOLEAN, NEW n \in 1 .. Depth, NEW p \in Walk(ids, simple)[n]
      PROVE  /\ p[n + 1] # p[1] => p[n + 1] \in Reachable(ids)
             /\ p[1] \in EntitiesOf(ids)
             /\ simple => p[n + 1] # p[1]
  <2>1. n \in 0 .. Depth /\ n \in Nat
    BY <1>0
  <2>2. IsPath(p, n) /\ p[1] \in EntitiesOf(ids) /\ (simple => IsInjective(p))
    BY <1>1, <2>1, WalkTakesPaths
  <2>3. p[n + 1] \in Within[Depth][p[1]]
    BY <2>1, <2>2, PathsStayWithin
  <2>4. simple => p[n + 1] # p[1]
    BY <2>1, <2>2, <1>1 DEF IsInjective, IsPath
  <2> QED
    BY <2>2, <2>3, <2>4 DEF Reachable
<1>2. ASSUME NEW f \in Reachable(ids)
      PROVE  \E n \in 1 .. Depth : \E p \in Walk(ids, TRUE)[n] : p \in Walk(ids, FALSE)[n] /\ p[n + 1] = f
  <2>1. PICK e \in EntitiesOf(ids) : f \in Within[Depth][e] \ {e}
    BY DEF Reachable
  <2>2. PICK n \in 0 .. Depth : \E p : IsPath(p, n) /\ IsInjective(p) /\ p[1] = e /\ p[n + 1] = f
    BY <1>0, <2>1, SimplePathsReach
  <2>3. PICK p : IsPath(p, n) /\ IsInjective(p) /\ p[1] = e /\ p[n + 1] = f
    BY <2>2
  <2>4. n \in 1 .. Depth
    BY <1>0, <2>1, <2>3
  <2>5. p \in Walk(ids, TRUE)[n] /\ p \in Walk(ids, FALSE)[n]
    BY <2>1, <2>3, WalkTakesPaths
  <2> QED
    BY <2>3, <2>4, <2>5
<1>3. \A n \in 1 .. Depth : \A p \in Walk(ids, TRUE)[n] : p[n + 1] \in Reachable(ids)
  BY <1>1
<1>4. \A n \in 1 .. Depth : \A p \in Walk(ids, FALSE)[n] :
        p[n + 1] \in Reachable(ids) \cup EntitiesOf(ids)
  BY <1>1
<1> QED
  BY <1>2, <1>3, <1>4

\* The walk of search_graph finds exactly the chunks that mention an entity
\* within traversal_depth relationships of another entity of a seed; SQLite's,
\* which does not keep to simple paths, finds these, and beyond them only
\* chunks that share an entity with a seed.
THEOREM WalkIsExact == Spec => []WalkFindsReachable
<1>1. RetrievalInv => WalkFindsReachable
  <2> SUFFICES ASSUME RetrievalInv PROVE WalkFindsReachable
    OBVIOUS
  <2> DEFINE ids == Seeds
             near == {c \in Visible \ ids : EntitiesOf({c}) \cap Reachable(ids) # {}}
  <2>1. GraphTyped
    BY InvGivesGraphTyped
  <2>2. ASSUME NEW c \in near PROVE c \in GraphHits(ids, TRUE) /\ c \in GraphHits(ids, FALSE)
    <3>1. PICK f \in Reachable(ids) : f \in EntitiesOf({c})
      OBVIOUS
    <3>2. PICK n \in 1 .. Depth :
            \E p \in Walk(ids, TRUE)[n] : p \in Walk(ids, FALSE)[n] /\ p[n + 1] = f
      BY <2>1, <3>1, WalkReaches
    <3>3. PICK p \in Walk(ids, TRUE)[n] : p \in Walk(ids, FALSE)[n] /\ p[n + 1] = f
      BY <3>2
    <3>4. c \in Visible \ ids
      OBVIOUS
    <3> QED
      BY <3>1, <3>3, <3>4 DEF GraphHits
  <2>3. ASSUME NEW c \in GraphHits(ids, TRUE) PROVE c \in near
    BY <2>1, WalkReaches DEF GraphHits
  <2>4. ASSUME NEW c \in GraphHits(ids, FALSE), c \notin near
        PROVE  EntitiesOf({c}) \cap EntitiesOf(ids) # {}
    <3>1. c \in Visible \ ids
      BY DEF GraphHits
    <3>2. PICK n \in 1 .. Depth : \E p \in Walk(ids, FALSE)[n] : p[n + 1] \in EntitiesOf({c})
      BY DEF GraphHits
    <3>3. PICK p \in Walk(ids, FALSE)[n] : p[n + 1] \in EntitiesOf({c})
      BY <3>2
    <3>4. p[n + 1] \notin Reachable(ids)
      BY <2>4, <3>1, <3>3
    <3> QED
      BY <2>1, <3>3, <3>4, WalkReaches
  <2> QED
    <3> HIDE DEF near
    <3>1. GraphHits(ids, TRUE) = near /\ near \subseteq GraphHits(ids, FALSE)
      BY <2>2, <2>3
    <3> QED
      BY <2>4, <3>1 DEF WalkFindsReachable, near
<1>2. Spec => []RetrievalInv
  BY InvIsInvariant
<1> QED
  BY <1>1, <1>2, PTL
============================================================================
