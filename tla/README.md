# wendRAG in TLA+

A verification development of wendRAG, a retrieval-augmented-generation server:
TLA+ modules translated from its Rust source and SQL, model-checked with TLC on
small instances, and theorems about them proved with TLAPS for all instances.
Paths below are relative to the repository.

## The system

wendRAG keeps documents in a SQLite or PostgreSQL database, cut into chunks with
embeddings, optionally with an entity graph and communities of entities, and
answers searches over them. It is driven by a command line, by an MCP server and
by whatever else opens the same database.

| Part | State | Operations | Hard behaviour |
| --- | --- | --- | --- |
| Storage backend (`src/store`) | tables `documents`, `chunks`, `entities`, `entity_mentions`, `entity_relationships`, `entity_communities`, `community_members` | `upsert_document`, `replace_document_chunks`, `replace_document_entity_graph`, `delete_document`, `save_communities`, `delete_project_communities`, searches | cascades, whole-table pruning, queries outside the transaction they belong to |
| Ingest pipeline (`src/ingest/pipeline.rs`) | none of its own; a sequence of storage calls | `ingest_content` | no transaction or lock spans two storage calls; overlap, failure and crash between any two |
| Directory and batch ingestion (`src/ingest/directory.rs`, `rag_ingest_batch` in `src/mcp/server.rs`) | task set, semaphore, counters | walk, spawn, join, delete orphans | tasks that panic, list-then-delete, two files at once |
| Chunker (`src/ingest/chunker*.rs`) | none | split by sections, sizes, sentence similarity | boundaries, limits |
| Entity extraction and graph (`src/entity`) | none | extract, normalise, aggregate, detect communities | ties, empty names |
| Retrieval (`src/retrieve`, `src/store/sqlite/mod.rs`) | none | dense, sparse, graph and community branches, fusion, routing | identifiers of three tables, cyclic graph walk |
| Memory (`src/memory`) | memories in the database, a table of sessions that nothing fills | store, retrieve, invalidate, delete, decay, prune | read-modify-write maintenance |
| API keys (`src/auth.rs`) | key file, keys held by the daemon | create, revoke, authenticate | lost updates, stale keys |
| Providers (`src/embed`, `src/rerank`, `src/entity/extractor.rs`) | none | HTTP calls | answers that are short, or never come: no client has a timeout |
| Readers, URL fetching, configuration, logging, tool dispatch | none | parsing and translation | - |

What makes each part correct: the tables refer to each other soundly and a
transaction only touches its own document (store); the content hash, which
decides whether an ingest is skipped, tells the truth about chunks and graph
(pipeline); counters add up and only removed files are deleted (directory);
chunks cover the text and respect the limits (chunker); maintenance does not undo
what clients did meanwhile (memory); a revoked key stops working and no key is
lost (keys); an answer has only chunks that pass the filters, none twice, no more
than asked for, and misses none for a branch that failed (retrieval).

`PROJECT.json` lists the components with their status, and the hazards with the
line where each bites.

## Plan

Most important behaviour first; everything on it is done.

1. `DocumentStore`, `SearchableContent`, `IngestPipeline` and their proofs.
2. `DirectoryIngest` over an abstract pipeline (a task is two steps), with the
   batch tool as its second instance, and its proofs.
3. `MemoryStore`: memories, their tools, retrieval and maintenance, and its
   proofs. Sessions were planned and are left out, see "Not modelled".
4. `Retrieval`: one search over all branches and both backends, with fusion, graph
   walk, fallbacks and reranker, while ingests rewrite what it searches, and its
   proofs.
5. `KeyFile`: command line and daemon over one file, and its proofs.
6. `EntityGraph` and `Communities`: from a language model's extractions to a graph
   and its communities, and their proofs.
7. `Chunker`: from a source to its chunks, and its proofs.
8. `PostgresGraph`: PostgreSQL's graph transactions at statement level under READ
   COMMITTED, and its proofs.

Every run and every property has its price, so the project keeps a dozen runs: a
question that another run also answers has no run of its own, and what is proved for
every instance, such as the types of `IngestPipeline`, `MemoryStore`, `Retrieval`
and `KeyFile`, is not checked on a small one again.

## Modules

### DocumentStore

The tables and the write operations of `StorageBackend`, one action per
transaction, for one project scope. A table is a set of rows.

| TLA+ | Code |
| --- | --- |
| `documents` | `documents`, with `revised` for `created_at != updated_at` |
| `chunks` | `chunks`, identified by `(document_id, chunk_index)`, the content they were cut from |
| `entities`, `mentions`, `relationships` | `entities`, `entity_mentions`, `entity_relationships`; `evidence = {}` is `NULL` |
| `communities` | `entity_communities` with `community_members`; the communities of one detection are one row |
| `UpsertDocument` | `INSERT ... ON CONFLICT(file_path) DO UPDATE` |
| `ReplaceDocumentChunks` | delete relationships by evidence, delete chunks (mentions cascade), insert chunks |
| `ReplaceDocumentEntityGraph` | look chunk ids up by index, insert entities, mentions, relationships, prune |
| `PruneOrphanEntities` | `prune_orphan_entities` with its cascades |
| `DeleteDocument` | the transaction of `delete_document`; `DeleteByPath` chooses the PostgreSQL form |
| `SaveCommunities`, `ResolveEntityIds`, `DeleteProjectCommunities` | `src/store/sqlite/community.rs` |

A content is a model value. `ChunkCount` and `Graph` stand for what
`chunk_document` and `build_document_entity_graph` return for it; both are
functions of the content, which holds for fixed ingest options and a
deterministic extractor (a caller may choose chunking options for one call, which is
abstracted). `Embedded` says how many embeddings the provider may return for the
chunks: `openai_compat.rs` returns one place per text, `ollama.rs` what the answer
holds. A transaction inserts what it is handed, so `ReplaceDocumentChunks` takes the
number of chunks as an argument. `GraphAssumption` says what the builder guarantees: a
relationship's endpoints are mentioned in the chunk that evidences it. An
entity without a mention is allowed, as the builder leaves one behind when it
skips a relationship from an entity to itself.

### SearchableContent

What ingestion promises a searcher: each path shows nothing or the leading chunks of
one submitted content, as many as the embedder answered for, and changes in one step,
to what is being ingested there. Under `Embedded[c] = {ChunkCount[c]}`, a provider
that answers for every chunk, that is the whole content; the code checks nowhere that
it does.

### IngestPipeline

Any number of workers that call `ingest_content` and `delete_document` over one
`DocumentStore`. Each storage call is a step (`Upsert`, `ReplaceChunks`,
`StoreGraph`, `ClearCommunities`, `StoreCommunities`, `Report`; `DeleteSelect`,
`DeleteCount`, `DeleteCommit`). The early return for an unchanged hash is
`IngestUnchanged`; chunking, embedding and extraction lie between
`IngestChanged` and `Upsert` and touch no table. How many embeddings came is part of
the worker's state (`embedded`), and `ReplaceChunks` stores as many chunks. `Abort` and `DeleteAbort` are a
storage error, the failed foreign key of a chunk whose document was deleted, or
the death of the process: the code undoes nothing, so all three leave the same
state. Errors of the community calls are swallowed, as in the code.

Two components of the state are observed only and guard nothing: `job[w].alone`,
that nobody else has written the path since the worker's upsert, and `spoiled`,
the paths whose last ingest was interrupted between its writes or overlapped.
`SettledDocumentsConsistent` and `OrphansAreTransient` leave these paths out, so they
do not say that an interrupted or overlapped ingest does no harm: it does, see
findings, and `skipped_is_indexed` shows it. They say that nothing else does harm and
that an ingest which then goes undisturbed repairs it.

### DirectoryIngest

One call of `ingest_directory`, with `delete_removed` ("sync") or without
("directory"), or of `rag_ingest_batch` ("batch"), with its tasks and the world
around it.

| TLA+ | Code |
| --- | --- |
| `call` | which of the three it is |
| `RagIngestDirectory`, `IngestPath`, `RagIngestBatch` | the ways a call begins: the two tools and the command line (`ingest_path` of `src/main.rs`) |
| `disk` | the files below the directory |
| `documents` | the version of each document in the database |
| `queue` | the files discovered, or the documents of the batch |
| `tasks`, `permits` | the `JoinSet` and the `Semaphore`; a permit is dropped with its task |
| `collected` | the results joined, with the index that the batch sorts by |
| `orphans`, `output` | documents found to be deleted; `IngestDirectoryOutput` or the tool's reply |
| `WalkDirectory`, `Spawn`, `Join`, `JoinPanicked`, `Report` | discovery, the spawn loop, the join loop, the assembly of the reply |
| `ListDocuments`, `ListFails`, `DeleteOrphan` | `delete_removed` |
| `ReadFile`, `StoreVersion`, `TaskFails`, `TaskPanics` | `ingest_file` or `ingest_content` in a task |
| `Disturb` | another program changes a file, another client a document |

The walk is one step and the list of documents another, so that files and
documents may change between them. `IngestPipeline` looks inside the task; here it
takes a version, then compares and stores it, or leaves it half done. `Under`,
`Supported`, `Matching` and `Unreadable` say which paths the directory, the file
types, the pattern and the permissions admit. A file of an unknown type is never
read, so it has one version. A file or URL that the command line ingests alone is
one call of `IngestPipeline`. `disturbed` is observed only.

### MemoryStore

The table `memory_entries` shared by any number of server processes.

| TLA+ | Code |
| --- | --- |
| `rows` | `memory_entries`; `original` is observed only |
| `now` | the clock, in days |
| `pc`, `copies` | the maintenance task of each process and the rows it has read |
| `StoreMemory`, `InvalidateMemory`, `DeleteMemory` | the memory tools of `src/mcp/server.rs` |
| `Retrieve`, `RetrieveByEmbedding` | `memory_retrieve` over SQLite and over PostgreSQL, which write nothing; the result is the set of answers that ties allow |
| `Prune`, `ListFading`, `DecayNext`, `CycleFails` | one maintenance cycle |

`CycleFails` ends a cycle at any of its statements, its removal included, as the `?`
after each do; the clean-up of sessions before it and, on SQLite, the `DELETE` of
memories that outlived their time to live find nothing. A cycle lists the fading memories (`Listings`: every order that `ORDER BY ...
LIMIT` allows) and writes them back one at a time, with whatever clients and other
cycles do in between. `Decayed` and `Recency` are the two exponentials as tables
over importance and days; `DecayAssumption` asks only that decay strengthens
nothing. Importance is in whole steps, so a request outside the range, which
`Clamp` handles, is a number outside it. `recency_weight`, which nothing validates, is
any of `RecencyWeights`, from 0 to the 1.0 that the documentation allows.

### Retrieval

One call of `search_context_chunks` over a database that ingests rewrite meanwhile.

| TLA+ | Code |
| --- | --- |
| `generation`, `graphed` | the version of each document's chunks; whether its graph is stored |
| `call` | `SearchInput`: mode, `top_k`, the documents its filters admit; the backend and whether a reranker is configured |
| `found` | the results held by the futures of the call, until they are used up |
| `answer`, `pc` | the chunks to return; retrieving, reranking, done or failed |
| `seen`, `changes` | observed only: the chunks stored at any time of the call, the ingests since |
| `Embed`, `SearchFts`, `SearchTitles`, `SearchPaths`, `MergeSparse`, `SearchDense` | the branches of `src/retrieve/hybrid.rs` and the statements of `src/store/sqlite/mod.rs` |
| `SearchTrigram`, `SearchNearest`, `SearchRefused` | the statements of `src/store/postgres/search.rs` that differ |
| `ChooseSeeds`, `SearchGraph` | fusion of dense and sparse results, and `search_graph` from them |
| `FindLocal`, `FindGlobal`, `SearchCommunities`, `CommunityFails` | `src/retrieve/community.rs` and the `unwrap_or_default` around it |
| `Collect`, `Rerank`, `RerankFails`, `SearchFails` | threshold, reranking and cut in `src/mcp/server.rs`, any other error |

Similarities are left open: `ORDER BY ... LIMIT` returns `Rankings`, any ranking of
what the statement sees. Reciprocal rank fusion is exact: `Unit` is a multiple of
all its denominators, so that scores are whole numbers, and ties go either way.
`Walk` enumerates paths of relationships as the recursive query does, with the
cycle check of PostgreSQL or without. PostgreSQL differs further in three ways: one
statement looks for similar titles and paths, its index of embeddings may return
fewer rows than exist, and it refuses a negative `LIMIT`, which SQLite takes for
none. A chunk id is never used
twice, so `Generations` gives each version of a document chunks of its own. The
identifiers that `FindLocal` and `SearchCommunities` pass on are those of the code.
A reranker is assumed to return each position at most once; it may return
positions out of range, or more than asked for.

### KeyFile

Key commands and a daemon over one file.

| TLA+ | Code |
| --- | --- |
| `file` | the key file: missing, blank, not parsable, or a list of keys |
| `store`, `change` | the `KeyStore` a command holds, and what it does to the list |
| `Generate`, `Revoke`, `Refuse` | `run_key_generate` and `run_key_revoke` of `src/main.rs` up to the save, or their errors |
| `Truncate`, `Write`, `Finish`, `Fail` | the save (`fs::write` opens with truncation), the permissions and the report; an error or kill at each |
| `StartDaemon`, `StopDaemon` | `Authenticator::from_environment`, once per process, with any of `StaticKey` in its environment or none |
| `Admits` | `auth_middleware` in front of `/mcp`, where `serve_http` puts it |

A file that a command writes over what another has just written may hold the end of
the longer text and then does not parse. `ledger` and `disturbed` are
observed only: what the commands reported, and whether two overlapped or one died
half-way. `UndisturbedLedger` and `StartsWithLedger` leave disturbed runs out: the
update that two overlapping commands lose is real (see findings) and no property
denies it.

### EntityGraph and Communities

`EntityGraph` aggregates what an extractor finds, chunk by chunk and item by item,
as `build_document_entity_graph` does; `Communities` extends it with what
`CommunityManager` does with the graph.

| TLA+ | Code |
| --- | --- |
| `AddEntity`, `AddRelationship`, `NextChunk`, `Embed` | `src/entity/graph_build.rs`, with the names, types and weights `normalize.rs` and `extractor.rs` let through |
| `entities`, `mentions`, `relationships` | the graph; a relationship counts, as the code keeps a vector |
| `SkipDetection`, `StartDetection` | `analyze_graph` and `build_sparse_graph` |
| `Visit`, `AnotherPass`, `AnotherIteration`, `Group` | `louvain_clustering` of `src/entity/community.rs`, node by node |
| `sizes`, `degrees` | `community_sizes`, `community_degrees`, kept incrementally |
| `Output` | what `detect_communities` returns of a community: an identifier and the names of its entities |
| `SummariseBatch`, `SummariesFail`, `Return` | `generate_summaries_batch` of `src/entity/community_manager.rs` |

Names are numbers in the order of their normalized text, a description is its
length. Gains are integers, scaled by the square of the total weight: a tie goes
either way, as the candidates come from a hash map, and a gain of exactly zero may
be rounded to either side. The weight inside communities stands for modularity,
since the rest of it does not depend on the assignment. `seen` is observed only.

The nodes are keyed by name and type, but what is returned are names. Two entities of
one name and different types therefore put that name into both their communities
(`CommunitiesPlaceNames` allows just that), and `save_communities` later takes every
entity of the name for a member (`ResolveEntityIds` of `DocumentStore`). The nodes of a
community are connected; its members in the table need not be, if an unlinked namesake
was added.

### Chunker

One document on its way through a reader and `chunk_document`.

| TLA+ | Code |
| --- | --- |
| `Fragment` | the text between punctuation marks, with what the filter and the sentence splitter see of it |
| `EnforceRobots`, `ReadFile`, `ReadPage`, `Fails` | `src/ingest/url.rs`, `reader.rs` |
| `Paragraphs` | how each file type lays out its text |
| `ReadHeading`, `ReadBody`, `ReadParagraph`, `EndOfText` | `src/ingest/chunker_sections.rs` |
| `SkipSection`, `KeepSection`, `WindowSection`, `UncutSection`, `Finish` | `src/ingest/chunker.rs` |
| `StartEmbedding`, `EmbedNothing`, `Embed`, `CutGroup`, `EndGroups` | `src/ingest/chunker_semantic.rs`, between any similarities |
| `Sentences`, `Content`, `Filtered` | the sentence splitter and the filter; `Chosen` and `EndOfSentence` say what their loops over characters come to |
| `CutWindow` | `split_with_overlap` |

Two chunks of one text that overlap are one text and two intervals of it. Windows
of only blanks and the difference between bytes and characters are abstracted. How
many embeddings come back depends on the provider (`Answers`): the OpenAI client
puts each in its place and leaves what is missing empty, the Ollama client takes
what comes. The limit of sentences may be 0, under which no group ends. A chunk
records the section it is cut from, so that the limits are stated of the pieces of a
section.

### PostgresGraph

`replace_document_entity_graph` and `delete_document` of the PostgreSQL backend, by
statement and row, where the rest of the project takes transactions as atomic.

| TLA+ | Code |
| --- | --- |
| `row`, `mentions`, `chunks` | what is committed of `entities` (its `mention_count`), `entity_mentions`, `chunks` |
| `written`, `added`, `dropped`, `holder` | what a transaction has written, and the row locks |
| `snapshot`, `todo` | the mentions its statement sees, the rows it has yet to visit |
| `BeginGraph`, `Upsert`, `InsertMentions`, `DropDocument` | the statements before the prune |
| `CountStatement`, `ZeroStatement`, `PruneStatement`, `Visit` | the three statements of `prune_orphan_entities` |
| `Commit`, `Fail` | the end of the transaction; a deadlock fails one of them |

The rules are those of READ COMMITTED: a statement that finds a row locked waits,
then looks again at the row but not at the other tables.

## Runs

The MC modules instantiate the modules: in `MCIngestPipeline` a content of one
chunk and one of two whose graphs share an entity, so that pruning must spare it,
entities of one name and two types, an empty content, and an embedder that may answer
for none, some or all of the chunks; in
`MCDirectoryIngest` three paths of which one is of unknown type, and a batch that
names one document twice; in `MCMemoryStore` importance in five steps, halved each
day, and of three memories two that fade and one that does not, two embedded and one
not; in `MCRetrieval` three entities in a line, so that a walk of depth two can turn
back, over a document that is rewritten and one that is deleted; in `MCKeyFile` a
name typed with and without blanks, and a blank one; in `MCCommunities` a name in
two spellings and a blank one, and every graph on eight of the ten pairs of five
names; in `MCChunker` texts of three or four fragments of six kinds, and texts of
five or nine sentences under limits from none to more than there are; in `MCPostgresGraph` two documents that
share an entity, one that is never touched and one with an empty graph.
Workers, paths, commands or keys are interchangeable where a run declares symmetry,
which no run with a liveness property does.

| Run | Instance | Shows |
| --- | --- | --- |
| `ingest_races` | 2 workers, 2 paths, 3 contents (one empty), short answers, namesakes, 3 calls, faults | the tables are sound (`StoreIsSound`: referential integrity, unique paths, chunks of one content without a gap, endpoints mentioned) under every interleaving; no storage call changes what two documents contribute; hash, chunks and graph of settled documents agree, as far as the content was embedded; orphan entities are transient; an undisturbed ingest reports truly what it did, and a delete counts what some version had; the refinement of `SearchableContent` |
| `ingest_one_path` | 2 workers, 1 path, 3 contents (one empty), short answers, PostgreSQL's delete, 4 calls, no faults | every call returns where all of them collide and a delete can make the chunk write fail, unless a provider never answers |
| `skipped_is_indexed` | 1 worker, faults, no extractor | violated: see findings |
| `directory_sync` | 3 files, any initial disk and database, 2 permits, 1 disturbance; synchronising, not synchronising, or a batch of 4 | counters add up with the statuses, which come in the order of the queue (`ReportIsFaithful`); what was reported as ingested is stored; a call without failures mirrors the directory; the orphan pass spares every file the walk could see; the call returns, whatever panics while it holds a permit, unless an embedder never answers |
| `memory_store` | 3 memories, 2 maintenance tasks, 3 days, cycles that fail at any statement, weights of recency 0, 0.3 and 1 | overlapping cycles strengthen nothing, fade nothing stored at or above the limit of the code and revive nothing forgotten; recall is as full as its limit allows and goes by importance and recency (`RecallIsFair`); invalidated memories are removed if removals go on succeeding somewhere |
| `retrieval` | both backends, 2 documents, 4 chunks, 3 entities, walks of depth 2, `top_k` 1 and -1, with and without a reranker, 1 ingest meanwhile | answers are legitimate and fit; the walk finds what is reachable; nothing is lost before the cut (SQLite); the search ends, unless a provider never answers |
| `local_tier_finds_communities` | the same without ingest or reranker, SQLite | violated |
| `key_file` | 2 commands, 2 names, 3 keys, with and without an environment key, faults | no list has a name twice; without overlap and death file and reports agree, and a daemon that starts at any moment admits the keys reported, or just saved, and is open to everybody only without any or in the middle of a save |
| `entity_communities` | 2 chunks, 2 items, 256 given graphs | graphs are storable; incremental sums are exact after every move; communities are connected, place every name and share only namesakes; detection ends, unless a provider never answers |
| `chunking` | every file type, filter and strategy over the texts above | the chunks hold the text, once and in order, and a text gives a chunk (`ChunksKeepText`); the pieces of a section that is cut keep the limits of size and sentences (`CutsObeyLimits`); windows leave no gap; chunking ends, unless the limit of sentences is 0 or the embedder never answers |
| `postgres_graph` | 2 connections, any 2 operations on 3 of 4 documents, one always stored | pruning takes orphans only and takes them all |
| `prunes_orphans_only` | the same without a document that is always stored | violated |

Bounds. `MaxRuns` bounds the calls made, `MaxDocuments` the identifiers that
`OneDocumentPerTransaction` compares: three calls use up no more than three.
Three calls of two workers contain every overlap of two ingests, or of an ingest and
a delete, followed by a call that repairs or observes the result; on one path there
are four. `MaxChanges` bounds
what others do during a directory call: one disturbance lands between any two of
its steps, and properties leave out the paths disturbed. `MaxConcurrent` is 2 for
two to four tasks, so that the spawn loop waits. `MaxDay` 2 with a `Retention` of 1
has a memory invalidated, kept and removed, and read on one day and written back on
the next; `Window` stands for the 1000 rows that a cycle reads. With three memories a recall of
one is cut twice, to two by the query and to one by the score. A search starts
from every database the generations allow and meets one rewrite, deletion or graph
write between any two of its statements, which is enough for two branches to
disagree; `TopN` 2 over a `top_k` of 1 over-fetches, and two documents with three
chunks are more than either limit. Three keys are a key lost, one kept and one
added; two commands are every overlap, as each reads once and writes once. Five
nodes are a path, a cycle, a star and two components, and hold every tie of two
communities; `MaxItems` 2 lets two chunks, or two items of one, name one entity.
A section limit of 8 or 12 over fragments of 4 has a text fit, exceed by one and
exceed by many, with an overlap of 3 that ends inside a fragment; the limits on
sentences below, at and above `GroupSize` turn forced breaks off and on. Two
transactions are what a lock can put in order; three rows are one of each
transaction's own and one both want. Since the systems stop when their calls or
days are used up, or when the one call they follow has returned, no run checks
deadlock; that nothing hangs is what the liveness properties say.

Fairness. The clients of every provider are built by `reqwest::Client::new()`, which
sets no timeout (`embed/ollama.rs:73`, `embed/openai_compat.rs:37`, `rerank/cohere.rs:65`,
`rerank/jina.rs:65`, `rerank/openai_compat.rs:73`, `entity/extractor.rs:77`,
`entity/community_manager.rs:67`; only downloads have one, `ingest/url.rs:234`), so no
specification is fair to an answer of an embedder, a reranker or a language model, and
each liveness property but `InvalidatedAreRemoved`, which awaits none, has the case that
one is awaited for ever (`AwaitsProviders`,
`AwaitsEmbedder`, `AwaitsEmbedding`, `AwaitsRerank`). What is asked for is that the
async runtime keeps polling a task whose call has completed, that the storage backend
answers, and that a computation runs on: weak fairness of `Advance(w)` in
`IngestPipeline`, of the call and each task in `DirectoryIngest`, of the statements in
`Retrieval`, of detection in `Communities` and of chunking in `Chunker`. Nothing is
asked of callers, nor of particular outcomes; errors are possible but relied on by
nothing. In `MemoryStore` only time passes. Maintenance may fail at every statement and
a process may end before its first interval is over, so `InvalidatedAreRemoved` says
that memories go if the removals of some process succeed again and again.
`KeyFile` and `PostgresGraph` state no liveness: a command may hang, and a transaction
waits as long as another holds its row.

What the properties rely on or leave open. A reranker returns each position once
(`AnswersFit`), which the code does not enforce. `CountsAreOfOneVersion` says only that
the count is one that some version has had. `NamesAreUnique` and `UndisturbedLedger` do
not catch the update that overlapping commands lose, nor what a command leaves that
died half-way. `ReportsHonestly` is about paths nobody else writes.
`CommunitiesAreConnected` speaks of the nodes of detection.

## Findings

- The hash is committed before the content it stands for
  (`src/ingest/pipeline.rs:220`): after a failure, ingesting the same text again
  is skipped as unchanged although it was never indexed. Only a different text
  repairs the document; `SettledDocumentsConsistent` shows that it then does.
  `resources/docs/setup-example.md:340` says that re-ingestion processes what changed.
- The local tier of the community branch looks communities up by the ids of chunks
  (`src/retrieve/community.rs:42`), and its graph search starts from the ids of
  communities (line 60), so the branch is always empty.
- Two PostgreSQL graph transactions can lose mentions one of them has stored
  (`src/store/postgres/entity_graph.rs:185`): the statement that zeroes the
  entities without mentions waits for a row, then zeroes it with mentions just
  committed, and the next statement deletes it. As long as any one entity is
  mentioned throughout, the first statement writes its count in every transaction
  and so puts the prunes in order, which is why `postgres_graph` holds.

The models show more that no run states:

- Communities are detected from one document's graph but replace those of the whole
  project (`src/ingest/pipeline.rs:264`), and `save_communities` does not replace,
  so two ingests can leave the communities of both
  (`src/store/sqlite/community.rs:22`).
- `delete_removed` deletes the documents of files that exist but that this call's
  walk did not see: excluded by the pattern, below an unreadable directory or, when
  not recursive, in a subdirectory (`src/ingest/directory.rs:266`).
- Chunks are zipped with embeddings whose number nobody compares
  (`src/ingest/pipeline.rs:231`, `src/embed/ollama.rs:124`): an answer that is short
  stores the leading chunks only, without an error, under the hash of the whole text,
  and ingesting that text again is skipped as unchanged. This needs no failure and no
  overlap, so it contradicts `resources/docs/setup-example.md:340` as well. Nothing in
  the project says that a document is stored whole; it says that what is stored is of
  one content, from its beginning and without a gap.
- Of two overlapping ingests of one path, the graph of one can be attached to the
  chunks of the other (`src/ingest/pipeline.rs:250`), which is what `spoiled` sets
  aside.
- Memories fade by other rules than `resources/docs/memory-sessions.md:74-76` has them.
  Retrieval never updates `last_accessed` or `access_count` (line 74), so a memory
  fades however often it is recalled. Not all unaccessed memories fade (line 75) but
  only those below one and a half times `prune_threshold`, and of these the 1000
  weakest (`src/memory/manager.rs:243-247`); the others keep their importance for ever,
  which is what `FadingIsBounded` states of the code. Fading compounds, since each cycle
  starts from the importance the last one left and counts the same days again. Nothing
  removes a memory for its weakness (line 76), so that those that have faded to nothing
  stay among the 1000 weakest and can keep all others from fading.
- Memories are said to be searched by semantic similarity
  (`src/mcp/server.rs:709`), but the query's embedding only selects candidates, on
  PostgreSQL alone, and the scores that rank and cut them are of importance and recency
  (`src/memory/retrieval.rs:144-169`). `RecallIsFair` states the ranking of the code.
- Two key commands that overlap lose one change and can leave a file that does not
  parse (`src/auth.rs:119`). A daemon keeps the keys it read (`src/auth.rs:238`), so a
  key revoked later is accepted until it restarts, although `src/main.rs:60` and `:532`
  say that subsequent requests receive 401, and the first key generated protects
  nothing until then. When the last key is revoked the restarted daemon is open to
  everybody, who presents the revoked key too; and one that starts between the
  truncation and the write of a save, without a key in its environment, is open to
  everybody as long as it runs.
- `louvain_clustering` returns its last partition, not the one of the best
  modularity it has seen; a node is moved to the best other community even if
  staying were better, since staying is given no gain (`src/entity/community.rs:285`).
- The configuration accepts a limit of no sentences (`src/config.rs:295`), under
  which the loops that form groups never advance
  (`src/ingest/chunker_semantic.rs:335-339`, `367-371`) and add empty groups until
  memory ends: the third case of `ChunkingEnds`.
- The limit of sentences is called a hard upper bound (`resources/docs/configuration.md:137`,
  `resources/docs/retrieval.md:84`), but it binds only a section that is cut: one that
  fits the size limit stays whole with any number of sentences, and so does one of up
  to three sentences, and one for which fewer than two embeddings came back.
  `CutsObeyLimits` states how far it goes. One long sentence stays one chunk; when the
  filter drops every sentence of a document its beginning is kept, and the rest is not
  searchable.
- Namesakes of different types are confused from detection on
  (`src/entity/community.rs:91`, `src/store/sqlite/community.rs:211`): each is a member
  of the communities of the other.
- A transaction of PostgreSQL that waited for a row writes the count its statement
  had seen: `mention_count` may be stale until the next prune.

## Proofs

`IngestPipeline_proofs` holds the proofs about the tables and about the pipeline, for
all values of the constants that satisfy the modules' assumptions
(`ChunkCountAssumption`, `EmbeddedAssumption`, `GraphAssumption`, `DeleteByPathAssumption`,
`PipelineAssumption`). Of the tables (`DocumentStore`), for every order of
transactions with every argument:

- `StoreCorrect`: types and `StoreIsSound`, whose parts are inductive
  only together (`StoreInv`): that identifiers are not reused, for instance,
  needs that no row is left behind under one.
- `StoreIsolation`: the action property. A prune cascades only into
  relationships without evidence, because the endpoints of an evidenced one are
  mentioned (`EndpointsMentioned`).

Of the pipeline:

- `PipelineTables`, `PipelineIsolatesDocuments`: every storage call of the pipeline
  is a transaction of `DocumentStore`, so its invariants and its action property
  hold here as well.
- `DeletesCountOneVersion`: `DeleteCount` and `DeleteCommit` look at one version of
  the document although other workers write between them.
- `PipelineTyped`, `PipelineConsistent`, `PipelineKnowsItsRows`,
  `PipelineReports`: from the inductive invariant `PipelineInv`, for every number of
  embeddings that may come back. Consistency of settled documents is not inductive: an ingest that finishes must know that its
  row, its chunks and the absence of other mentions are as it left them. That is
  `AloneOwnsRow` and `AloneFindsItsChunks`, which in turn need that an ingest
  that counts as alone is the path's only writer (`AloneIsSoleWriter`) and that
  a row never changes its path (`IdsStayAtPath`).
- `PipelineOrphans`: from `PipelineInv` and `OrphanInv`.
- `PipelineImplementsSearchableContent`: every step of the pipeline is a step or
  a stutter of `SearchableContent` under `Shown` and `Pending`.

`DirectoryIngest_proofs` proves, under `DirectoryAssumption`:

- `PermitsNeverLost`: `PermitsBalance`, that every permit is in the semaphore or held
  by one running task, for any number of documents and permits.
- `SeenFilesAreSpared`: the action property `SeenFilesStayIndexed`. A deletion
  needs its path among `orphans`, and what the walk saw is in the queue and never
  among them; so the inductive invariant (`DirectoryInv`) carries that before the
  walk nothing is queued, that a visible undisturbed file is discovered, that no
  orphan is, and that a task about to store has a text.
- `DirectoryTypes`, `ReportsAreFaithful`: from `ReportInv`. A report is faithful
  because every task that was joined is in it once, at its place in the queue
  (`CollectedOnce`, `ReportCoversTasks`): that `sort_by_key` puts them there, in
  whatever order they were joined, is `SortedInOrder`, which says of any set of
  numbers that its members have one rank each. The counters are then the numbers
  of lines (`EndedIsSorted`, `PushCounts`), and the panicked tasks, which have no
  line, and the directories that could not be read come on top
  (`FailuresCounted`).
- `ReportedIsStored`, `SyncMirrors`: from `MirrorInv`. What a task stored stays until
  someone else writes its path (`StoredStay`), no two tasks having the same path; an
  orphan is deleted, listed, or has failed (`OrphansGo`); and without failures every
  task succeeded (`NoFailures`).

`MemoryStore_proofs` proves, under `MemoryAssumption` and `DecayAssumption`:

- `MemoriesTyped`: rows and copies keep their types, from the same invariant.
- `FadingStaysBounded`: a copy that a cycle holds was below the threshold when
  read and so belongs to a memory stored below it (`CopiesAreFading`), whatever
  happened to the row since: that, and that copies exist only in the decay phase
  and carry no date to come, makes `FadingIsBounded` inductive (`MemoryInv`).
- `ForgettingIsFinal`: the action property `ForgottenStaysForgotten`, since only
  issued ids are stored and writing back updates one column of a row that exists.
- `RecallStaysFair`: `RecallIsFair`, for every table. Neither of the two cuts, the
  query's to twice the limit by importance and the score's to the limit, drops a
  memory for one that is weaker and no more recent (`CutsLeaveNoRoom`,
  `StrongerScoresMore`), except that with a weight of 1 two memories of the same
  recency score the same; it needs of recency only that it does not grow with age
  (`DecayAssumption`).

`Retrieval_proofs` proves, under `RetrievalAssumption`, for any database, rankings,
fusion results, communities, reranker and number of ingests meanwhile:

- `SearchTyped`, `SearchIsLegitimate` and `SearchFits`: from the inductive invariant
  `RetrievalInv`: everything stored has been seen since the call (`StoredAreSeen`),
  every part found so far holds only chunks seen and admitted, without repetition
  where it is handed on alone (`FoundAreLegitimate`), and so does the answer, cut
  when done (`AnswerIsLegitimate`). `Rankings`, `Fusions` and `Truncated` each have
  a lemma; `DerivePreserves` reduces the eleven parts to what they find.
- `SearchIsFull`: `RecallIsFull`. Until something is ingested the dense part has as
  much as there is or the limit allows (`DenseIsFull`), and a fusion of it with lists
  of the same visible chunks is as full (`FusionIsFull`).
- `WalkIsExact`: `WalkFindsReachable`, for every graph and depth. What `Walk` takes
  is characterised as the paths that begin at a seed's entity, the simple ones where
  the backend checks for cycles (`WalkTakesPaths`). A path of n relationships stays
  within n (`PathsStayWithin`), and what is within n has a simple path of no more
  than n to it, for one that met itself could be cut short (`SimplePathsReach`).

`KeyFile_proofs` proves, under `TrimAssumption`, for any number of commands and keys:

- `KeyFileCorrect`: the types, `NamesAreUnique` and `UndisturbedLedger`. `NamesAreUnique` needs that key material is
  drawn once (what is `generated` bounds every list), and `UndisturbedLedger` that a
  command alone holds in memory the ledger with its change applied, at each of its
  steps; both are in the inductive invariant.
- `DaemonStartsWithLedger`: `StartsWithLedger`, from the same invariant: what is on file
  at each step of an undisturbed save is the ledger, nothing, or the ledger with the
  change (`StartedAdmits`).

`Communities_proofs` proves, under the named assumptions of both modules, for any
extractions, graphs and ties:

- `GraphCorrect`: `GraphIsStorable`, inductive with the types, and
  `AggregatesAreLongest`, by what one `Upserted` does (`LongestUpserted`).
- `CommunitiesCorrect`: `CommunitiesAreConnected` and `CommunitiesPlaceNames`. A node
  moves to the community of a neighbour, so that what was linked stays linked
  through it: the adjacency is fixed while detection runs, and so linkage never
  shrinks, even when the node that joined two parts moves on.
- `BookkeepingCorrect`: `TypeOK` and `BookkeepingExact`, together: a degree does not go
  below zero because it is the sum it is meant to be, a sum of which the node that
  leaves is a part. The sums are folds; that they go element by element is proved
  from their definition (`SmallestSubset`, `PartialSums`).

`Chunker_proofs` proves, under `CallsAssumption` and `SizesAssumption`, for any
document, any sizes (an overlap as long as the window too) and any similarities:

- `TypeCorrect`: the types, with what each phase has at hand (`Typed`). No sentence
  is empty and no break lies outside the sentences, so every chunk holds something.
- `TextIsKept`: `ChunksKeepText`. The invariant is that the text stays in line
  (`StaysInLine`): what the chunks hold, then what is left of the section being cut,
  then the filtered sections to come, are together the filtered text, or a thinner
  text in the same order where sentences may be dropped. While blocks are read, the
  sections and the buffer hold the blocks so far (`ReadSoFar`). Each step takes a
  piece from the line and puts a piece in its place (`Moves`), and nothing else
  moves. It rests on lemmas about the operators: sentences flattened are the text
  (`SentencesAreText`), a filtered whole is the whole of filtered parts
  (`FilteredFlatten`), a paragraph's layout loses nothing (`ParagraphsAreText`).
- `PiecesFitTheLimit`: `PiecesFit`, the half of `CutsObeyLimits` about sizes. Two
  chunks of one section can only come from a group or a window of it, which are cut to
  the limit, or from a section still at hand, which has given none before
  (`Sectioned`): so the number of the section tells pieces from whole sections
  (`OneSectionLess`, `NoPieceMore`, `OnePieceMore`). The half about sentences,
  `PiecesAreShort`, is model-checked only.
- `WindowsLeaveNoGap`: `WindowsCover`, with the window to come as part of the
  invariant (`WindowsGoOn`): it begins inside the last chunk, because a step is at
  least one and at most the limit (`StepIsProper`). The exception for the chunk taken
  for want of any other needs `StaysInLine`: where there was no chunk, all was
  filtered.

`PostgresGraph_proofs` proves, under `PostgresAssumption`, for any number of
connections, documents and entities:

- `TypeCorrect`: the types, whatever stands.
- `PrunesOrphans`, `PrunesAllOrphans`: `OnlyOrphansArePruned` and
  `EntitiesAreMentioned`, if `AnchorStands`: some document whose graph is stored
  throughout has an entity. Without it the first is false, which is the finding above
  and the run `prunes_orphans_only`; so the theorems say exactly what saves the
  code. The invariant (`IInv`) follows one such entity: every prune writes its count
  first, holds that row to its end, and so no other transaction is past the first
  statement of its prune (`CommitAlone`). What a statement still has to visit, what it
  has written and what it saw (`Counting`, `Zeroing`, `Pruning`) then agree with what
  is committed when it commits; that a chunk a transaction mentions is not deleted by
  another is `ChunksAreHeld`.

The provers have no induction over data, since the library's induction theorems take
an operator. What the proofs need of recursive functions and folds is proved without
it: a set of numbers (or of subsets of a finite set) without the property, were it not
empty, would have a smallest member, which is `WFMin` of the library for the strict
subset ordering (`InductionOnNat`, `SmallestSubset`). For `Chunker` that gives
recursive functions (`Recursion`), flattening member by member (`FlattenAppends`) and
induction over sequences (`InductionOnSeq`).

Only model-checked: liveness (`CallsReturn`, `CallReturns`, `InvalidatedAreRemoved`,
`SearchEnds`, `AnalysisEnds`, `ChunkingEnds`), which is beyond the prover, and the
violated statements.

## Not modelled

- SQLite's busy snapshots other than as a failed call; PostgreSQL's interleaving
  inside transactions other than those of `PostgresGraph`; project scopes other than
  one; PostgreSQL's community statements, which are those of SQLite.
- Embeddings, similarity scores and the text of descriptions and summaries; the
  requests of the providers and the parsing of their answers; the parsing of file
  formats; the validation of paths and addresses.
- The query router, whose classification is only logged; configuration, logging and
  argument handling, which are translations; listing and reading tools.
- Memory sessions: `session_buffers` is read and cleaned but nothing in the source
  inserts into it, so the table of sessions is always empty and every operation on
  it takes its early return. A memory's time to live: every caller passes none.
