--------------------------- MODULE IngestPipeline ---------------------------
(***************************************************************************)
(* Concurrent callers of ingest_content (src/ingest/pipeline.rs) and of    *)
(* delete_document over one DocumentStore: the tasks of rag_ingest_batch   *)
(* and of ingest_directory, tool calls of the server, and the CLI working  *)
(* on the same database.  No lock is held per path and no transaction      *)
(* spans two storage calls, so every call is a step of its own.            *)
(***************************************************************************)
EXTENDS DocumentStore

CONSTANTS
  Worker,       \* tasks that call the pipeline
  Extractor,    \* options.entity_extractor is Some
  MinEntities,  \* MIN_ENTITIES_FOR_COMMUNITIES
  Faults,       \* storage calls may fail and processes may die
  MaxRuns       \* bound on the calls made

ASSUME PipelineAssumption ==
  /\ Extractor \in BOOLEAN
  /\ Faults \in BOOLEAN
  /\ MinEntities \in Nat
  /\ MaxRuns \in Nat
  /\ Path # {}
  /\ Content # {}

VARIABLES
  pc,       \* the step each worker is about to take
  job,      \* its arguments and what its earlier calls returned
  started,  \* calls made so far
  spoiled   \* observed only: paths last written by an interrupted or an
            \* overlapped ingest

runVars == <<pc, job, started, spoiled>>
vars == <<store, runVars>>

----------------------------------------------------------------------------
(* Workers.                                                                *)

\* An ingest goes upsert, chunks, graph, clear, save, report; a delete goes
\* count, delete.
IngestStep == {"upsert", "chunks", "graph", "clear", "save", "report"}
DeleteStep == {"count", "delete"}
Step == {"idle"} \cup IngestStep \cup DeleteStep

\* `embedded` is the number of chunks the provider returned an embedding for,
\* `id` the document id a call returned, `fresh` whether the upsert
\* inserted the row, `count` the chunk count read by a delete, and `alone`
\* (observed only) that no one else has written the path since the upsert.
Job == [path : Path, content : Content, embedded : Nat, id : Nat,
        fresh : BOOLEAN, alone : BOOLEAN, count : Nat]

NoJob ==
  [path |-> CHOOSE p \in Path : TRUE, content |-> CHOOSE c \in Content : TRUE,
   embedded |-> 0, id |-> 0, fresh |-> FALSE, alone |-> FALSE, count |-> 0]

\* Workers between the upsert of a path and the last write of its rows.
Writers(p) == {w \in Worker : pc[w] \in {"chunks", "graph"} /\ job[w].path = p}

\* Workers that have upserted p and not yet returned.
Upserted == IngestStep \ {"upsert"}
Busy(p) == {w \in Worker : pc[w] \in Upserted /\ job[w].path = p}

\* None of them is alone once someone else writes or deletes the row of p.
Overlap(p) ==
  [w \in Worker |-> IF w \in Busy(p) THEN [job[w] EXCEPT !.alone = FALSE] ELSE job[w]]

Goto(w, step) == pc' = [pc EXCEPT ![w] = step]

Return(w) ==
  /\ Goto(w, "idle")
  /\ job' = [job EXCEPT ![w] = NoJob]

\* The rows of w's document are written: they can be trusted if w was alone.
Settle(w) ==
  spoiled' = IF job[w].alone THEN spoiled \ {job[w].path} ELSE spoiled \cup {job[w].path}

Init ==
  /\ StoreInit
  /\ pc = [w \in Worker |-> "idle"]
  /\ job = [w \in Worker |-> NoJob]
  /\ started = 0
  /\ spoiled = {}

----------------------------------------------------------------------------
(* ingest_content.                                                         *)

Call(w) ==
  /\ pc[w] = "idle"
  /\ started < MaxRuns
  /\ started' = started + 1

HasHash(p, c) == \E d \in AtPath(p) : d.content_hash = c

\* The stored hash is the submitted one: return Unchanged at once.
IngestUnchanged(w, p, c) ==
  /\ Call(w)
  /\ HasHash(p, c)
  /\ UNCHANGED <<store, pc, job, spoiled>>

\* Otherwise chunk, embed, extract and build the graph, none of which touches
\* the store.  Nobody compares the number of embeddings with that of chunks.
IngestChanged(w, p, c) ==
  /\ Call(w)
  /\ ~HasHash(p, c)
  /\ Goto(w, "upsert")
  /\ \E n \in Embedded[c] :
       job' = [job EXCEPT ![w].path = p, ![w].content = c, ![w].embedded = n]
  /\ UNCHANGED <<store, spoiled>>

Upsert(w) ==
  LET p == job[w].path
  IN  /\ pc[w] = "upsert"
      /\ UpsertDocument(p, job[w].content)
      /\ \E d \in 0 .. next_id :
           /\ IsUpsertedId(p, d)
           /\ job' = [Overlap(p) EXCEPT ![w].id = d,
                                        ![w].fresh = (AtPath(p) = {}),
                                        ![w].alone = (Writers(p) = {})]
      /\ Goto(w, "chunks")
      /\ UNCHANGED <<started, spoiled>>

\* Chunks are zipped with embeddings: those without one are left out, and the
\* ingest goes on as if they were stored.
ReplaceChunks(w) ==
  /\ pc[w] = "chunks"
  /\ ReplaceDocumentChunks(job[w].id, job[w].content, job[w].embedded)
  /\ IF Extractor
     THEN Goto(w, "graph") /\ UNCHANGED spoiled
     ELSE Goto(w, "report") /\ Settle(w)
  /\ UNCHANGED <<job, started>>

\* Community analysis follows if the graph is large enough; if the analysis
\* fails, that is logged and the communities are left as they are.
IsLarge(c) == Cardinality(Graph[c].entities) >= MinEntities

StoreGraph(w) ==
  /\ pc[w] = "graph"
  /\ ReplaceDocumentEntityGraph(job[w].id, job[w].content)
  /\ Settle(w)
  /\ \/ IsLarge(job[w].content) /\ Goto(w, "clear")
     \/ (Faults \/ ~IsLarge(job[w].content)) /\ Goto(w, "report")
  /\ UNCHANGED <<job, started>>

\* An error of either of these two calls is logged and ignored.
ClearCommunities(w) ==
  /\ pc[w] = "clear"
  /\ DeleteProjectCommunities \/ (Faults /\ UNCHANGED store)
  /\ Goto(w, "save")
  /\ UNCHANGED <<job, started, spoiled>>

StoreCommunities(w) ==
  /\ pc[w] = "save"
  /\ SaveCommunities(job[w].content) \/ (Faults /\ UNCHANGED store)
  /\ Goto(w, "report")
  /\ UNCHANGED <<job, started, spoiled>>

\* The status comes from reading the document at the path once more: it is
\* Updated iff created_at # updated_at, Created otherwise, absent included.
ReportsCreated(w) == \A d \in AtPath(job[w].path) : ~d.revised

Report(w) ==
  /\ pc[w] = "report"
  /\ Return(w)
  /\ UNCHANGED <<store, started, spoiled>>

\* Bug variant: a failed foreign key is never returned to the caller.
AbortOnFaultsOnly(w) ==
  /\ pc[w] \in IngestStep
  /\ Faults
  /\ Return(w)
  /\ spoiled' = IF pc[w] \in {"chunks", "graph"} THEN spoiled \cup {job[w].path} ELSE spoiled
  /\ UNCHANGED <<store, started>>

\* A storage call returns an error, or the process dies, before the call took
\* effect: the ingest ends with Err and nothing is undone.  Without faults only
\* the foreign key of the chunk table makes a call fail.
Abort(w) ==
  /\ pc[w] \in IngestStep
  /\ Faults \/ (pc[w] = "chunks" /\ ~ChunksInsertable(job[w].id, job[w].embedded))
  /\ Return(w)
  /\ spoiled' = IF pc[w] \in {"chunks", "graph"} THEN spoiled \cup {job[w].path} ELSE spoiled
  /\ UNCHANGED <<store, started>>

----------------------------------------------------------------------------
(* delete_document.                                                        *)

DeleteMissing(w, p) ==
  /\ Call(w)
  /\ AtPath(p) = {}
  /\ UNCHANGED <<store, pc, job, spoiled>>

DeleteSelect(w, p) ==
  /\ Call(w)
  /\ \E d \in AtPath(p) : job' = [job EXCEPT ![w].path = p, ![w].id = d.id]
  /\ Goto(w, "count")
  /\ UNCHANGED <<store, spoiled>>

\* The reported count is read outside the transaction that deletes.
CountedIds(w) == {d.id : d \in Doomed(job[w].path, job[w].id)}
CountedChunks(w) ==
  Cardinality({k \in chunks : \E i \in CountedIds(w) : k.document_id = i})

\* Bug variant: every chunk of the table is counted.
DeleteCountsTable(w) ==
  /\ pc[w] = "count"
  /\ job' = [job EXCEPT ![w].count = Cardinality(chunks)]
  /\ Goto(w, "delete")
  /\ UNCHANGED <<store, started, spoiled>>

DeleteCount(w) ==
  /\ pc[w] = "count"
  /\ job' = [job EXCEPT ![w].count = CountedChunks(w)]
  /\ Goto(w, "delete")
  /\ UNCHANGED <<store, started, spoiled>>

DeleteCommit(w) ==
  LET p == job[w].path
      hit == Doomed(p, job[w].id) # {}
  IN  /\ pc[w] = "delete"
      /\ DeleteDocument(p, job[w].id)
      /\ Goto(w, "idle")
      /\ job' = [(IF hit THEN Overlap(p) ELSE job) EXCEPT ![w] = NoJob]
      /\ spoiled' = IF hit /\ Writers(p) = {} THEN spoiled \ {p} ELSE spoiled
      /\ UNCHANGED started

DeleteAbort(w) ==
  /\ Faults
  /\ pc[w] \in DeleteStep
  /\ Return(w)
  /\ UNCHANGED <<store, started, spoiled>>

----------------------------------------------------------------------------
(* Specification.                                                          *)

\* The steps a worker takes on its own once called.
Advance(w) ==
  \/ Upsert(w) \/ ReplaceChunks(w) \/ StoreGraph(w)
  \/ ClearCommunities(w) \/ StoreCommunities(w) \/ Report(w)
  \/ Abort(w)
  \/ DeleteCount(w) \/ DeleteCommit(w) \/ DeleteAbort(w)

\* A text given inline, or read from the file or the URL.
RagIngest(w, p, c) == IngestUnchanged(w, p, c) \/ IngestChanged(w, p, c)

RagDeleteSource(w, p) == DeleteMissing(w, p) \/ DeleteSelect(w, p)

CallStep(w) ==
  \E p \in Path : RagDeleteSource(w, p) \/ \E c \in Content : RagIngest(w, p, c)

Next == \E w \in Worker : Advance(w) \/ CallStep(w)

Spec == Init /\ [][Next]_vars

\* The analysis of communities, before they are replaced, waits for a language
\* model or an embedder, whose clients have no timeout.
AwaitsProviders(w) == pc[w] = "clear"

\* The runtime keeps polling a task whose storage call has returned; callers and
\* providers owe nothing.
FairSpec == Spec /\ \A w \in Worker : WF_vars(~AwaitsProviders(w) /\ Advance(w))
----------------------------------------------------------------------------
(* Properties.                                                             *)

\* The tables hold rows of their schema and every worker a well-formed job.
TypeOK ==
  /\ StoreTypeOK
  /\ pc \in [Worker -> Step]
  /\ job \in [Worker -> Job]
  /\ started \in Nat
  /\ spoiled \subseteq Path

\* A document's rows all come from the content its hash names: its first n
\* chunks, and of the graph what those n evidence.
HoldsLeading(doc, n) ==
  LET d == doc.id
      c == doc.content_hash
  IN  /\ ChunksOf(d) = ChunkRows(d, c, n)
      /\ Extractor =>
           /\ MentionsOf(d) = MentionRows(d, c, 0 .. n - 1)
           /\ RelationshipsOf(d) = {r \in RelationshipRows(d, c, 0 .. n - 1) : EvidencedBy(r, d)}

\* The number of chunks is one the provider may have answered for the content.
Consistent(doc) == \E n \in Embedded[doc.content_hash] : HoldsLeading(doc, n)

\* The content hash, which decides whether a later ingest is skipped, names the
\* content that chunks and graph of a document come from, and chunks and graph
\* agree on how much of it is stored, for every document that nobody is
\* writing, unless its last writer was interrupted between its storage calls or
\* overlapped another writer of the path; and a later ingest that runs alone
\* repairs such a document.  (That all of the content is stored takes a
\* provider that answers for every chunk: Embedded[c] = {ChunkCount[c]}.)
SettledDocumentsConsistent ==
  \A doc \in documents :
    doc.file_path \notin spoiled /\ Writers(doc.file_path) = {} => Consistent(doc)

\* Replacing chunks leaves entities nobody mentions; they last only until the
\* graph step that follows, unless an ingest was spoiled and not yet repaired.
OrphansAreTransient ==
  (\E e \in entities : \A m \in mentions : m.entity # e)
    => spoiled # {} \/ \E w \in Worker : pc[w] = "graph"

\* An ingest whose path nobody else wrote reports Created exactly if its own
\* upsert inserted the row, although the status is worked out by a second read
\* several calls later.
ReportsHonestly ==
  \A w \in Worker :
    pc[w] = "report" /\ job[w].alone => (ReportsCreated(w) <=> job[w].fresh)

\* Whatever overlaps and fails, an ingest never claims Created for the very row
\* it updated.
CreatedIsNotOverclaimed ==
  \A w \in Worker : \A doc \in documents :
    pc[w] \in Upserted /\ doc.id = job[w].id /\ ~doc.revised => job[w].fresh

\* Although it is read outside the transaction that deletes, the chunk count a
\* delete reports is that of one version of the document, or zero for a row
\* whose chunks are not written yet or that is gone.
CountsAreOfOneVersion ==
  \A w \in Worker :
    pc[w] = "delete" => job[w].count \in {0} \cup UNION {Embedded[c] : c \in Content}

\* The row a worker obtained stays at its path if it stays at all.
IdsStayAtPath ==
  \A w \in Worker : pc[w] \in Upserted \cup DeleteStep =>
    /\ job[w].id < next_id
    /\ \A doc \in documents : doc.id = job[w].id => doc.file_path = job[w].path

\* An ingest that counts as alone is the only one writing its path.
AloneIsSoleWriter ==
  \A w, v \in Worker :
    pc[w] \in {"chunks", "graph"} /\ job[w].alone /\ v \in Writers(job[w].path) => v = w

\* Its row is the one it upserted, as it upserted it.
AloneOwnsRow ==
  \A w \in Worker : pc[w] \in Upserted /\ job[w].alone =>
    \E doc \in documents :
      /\ doc.file_path = job[w].path
      /\ doc.id = job[w].id
      /\ doc.content_hash = job[w].content
      /\ doc.revised = ~job[w].fresh

\* Before it stores its graph, the chunks it had embeddings for are stored, and
\* nothing else is.
AloneFindsItsChunks ==
  \A w \in Worker : pc[w] = "graph" /\ job[w].alone =>
    /\ ChunksOf(job[w].id) = ChunkRows(job[w].id, job[w].content, job[w].embedded)
    /\ MentionsOf(job[w].id) = {}
    /\ RelationshipsOf(job[w].id) = {}

\* What a worker remembers from its earlier calls still describes the tables
\* when it makes the next one, as long as nobody else wrote its path.
WorkersKnowTheirRows ==
  IdsStayAtPath /\ AloneIsSoleWriter /\ AloneOwnsRow /\ AloneFindsItsChunks

\* Every ingest that has its embeddings and its graph, and every delete, returns,
\* unless it waits for ever for a provider to summarise its communities.
CallsReturn ==
  \A w \in Worker : (pc[w] # "idle" ~> pc[w] = "idle") \/ <>[]AwaitsProviders(w)

----------------------------------------------------------------------------
(* The pipeline implements SearchableContent.                              *)

Shown ==
  [p \in Path |->
     {<<k.chunk_index, k.content>> :
        k \in {row \in chunks : \E d \in AtPath(p) : d.id = row.document_id}}]

Pending ==
  {<<job[w].path, job[w].content, job[w].embedded>> : w \in {v \in Worker : pc[v] \in IngestStep}}

Abstract == INSTANCE SearchableContent WITH index <- Shown, pending <- Pending

\* Searchers see each path move from one submitted content, as far as it was
\* embedded, to another in one step, under overlapping ingests, deletes, short
\* answers, failures and crashes alike.
ImplementsSearchableContent == Abstract!Spec

----------------------------------------------------------------------------
(* Statements of the repository that the code does not keep.               *)

\* resources/docs/setup-example.md:340, "re-ingestion only processes what
\* actually changed": what an ingest skips is indexed.
SkippedIsIndexed ==
  \A doc \in documents :
    Writers(doc.file_path) = {} =>
      ChunksOf(doc.id) =
        ChunkRows(doc.id, doc.content_hash, ChunkCount[doc.content_hash])

=============================================================================
