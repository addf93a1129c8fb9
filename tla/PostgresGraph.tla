--------------------------- MODULE PostgresGraph ---------------------------
(* The graph transactions of the PostgreSQL backend, statement by statement *)
(* and row by row (src/store/postgres/entity_graph.rs, delete_document of   *)
(* src/store/postgres/mod.rs).                                             *)
(*                                                                         *)
(* The transactions run under READ COMMITTED: a statement sees what was     *)
(* committed when it began and what its own transaction wrote; an update    *)
(* waits for the transaction that holds a row, then looks again at the row, *)
(* but at its other tables still as of when it began.  A document has one   *)
(* chunk, written before.                                                  *)
EXTENDS Integers, FiniteSets

CONSTANTS
  Document,
  Entity,
  Graph,          \* the entities of each document's graph
  Worker,         \* connections
  Anchors,        \* documents whose graph is stored and stays
  None,           \* nobody, and no version written
  Gone            \* the version of a row that is not there

ASSUME PostgresAssumption ==
  /\ IsFiniteSet(Document)
  /\ IsFiniteSet(Entity)
  /\ Graph \in [Document -> SUBSET Entity]
  /\ Anchors \subseteq Document
  /\ None \notin Nat \cup Worker \cup {Gone}
  /\ Gone \notin Nat

VARIABLES
  operation,  \* what each connection is to do to which document
  row,        \* entities: the committed mention_count of each, or Gone
  mentions,   \* entity_mentions: committed pairs of a chunk's document and an entity
  chunks,     \* the documents whose chunk is stored
  holder,     \* the transaction that holds each entity's row, or None
  pc,         \* each transaction's statement
  snapshot,   \* the mentions its statement sees
  todo,       \* the rows its statement has still to visit
  written,    \* the versions it has written, by entity
  added,      \* the mentions it has inserted
  dropped,    \* the documents whose chunks it has deleted
  stored      \* documents whose graph was committed and that stand unchanged since

tables == <<operation, row, mentions, chunks, stored>>
vars == <<operation, row, mentions, chunks, holder, pc, snapshot, todo, written, added, dropped, stored>>

Operation == [kind: {"graph", "delete"}, document: Document \ Anchors]

TypeOK ==
  /\ operation \in [Worker -> Operation]
  /\ row \in [Entity -> Nat \cup {Gone}]
  /\ mentions \subseteq Document \X Entity
  /\ chunks \subseteq Document
  /\ holder \in [Entity -> Worker \cup {None}]
  /\ pc \in [Worker -> {"begin", "upsert", "mention", "count", "zero", "prune", "commit", "done", "failed"}]
  /\ snapshot \in [Worker -> SUBSET (Document \X Entity)]
  /\ todo \in [Worker -> SUBSET Entity]
  /\ written \in [Worker -> [Entity -> Nat \cup {Gone, None}]]
  /\ added \in [Worker -> SUBSET (Document \X Entity)]
  /\ dropped \in [Worker -> SUBSET Document]
  /\ stored \subseteq Document

Target(t) == operation[t].document

\* The version of a row transaction t sees, and the mentions it sees.
Version(t, e) == IF written[t][e] = None THEN row[e] ELSE written[t][e]
Deletes(t, m) == m[1] \in dropped[t] \/ written[t][m[2]] = Gone
Visible(t) == {m \in mentions \cup added[t] : ~Deletes(t, m)}
Count(seen, e) == Cardinality({m \in seen : m[2] = e})

Free(t, e) == holder[e] \in {None, t}

\* Some documents are stored whole; others are new or have just had their
\* chunks replaced, which took their mentions and may have left orphans.
Init ==
  /\ operation \in [Worker -> Operation]
  /\ stored \in {S \in SUBSET Document : Anchors \subseteq S}
  /\ \A t \in Worker : operation[t].kind = "graph" => operation[t].document \notin stored
  /\ mentions = {m \in stored \X Entity : m[2] \in Graph[m[1]]}
  /\ \E orphans \in SUBSET Entity :
       row = [e \in Entity |-> IF Count(mentions, e) > 0 THEN Count(mentions, e)
                               ELSE IF e \in orphans THEN 1 ELSE Gone]
  /\ chunks = Document
  /\ holder = [e \in Entity |-> None]
  /\ pc = [t \in Worker |-> "begin"]
  /\ snapshot = [t \in Worker |-> {}]
  /\ todo = [t \in Worker |-> {}]
  /\ written = [t \in Worker |-> [e \in Entity |-> None]]
  /\ added = [t \in Worker |-> {}]
  /\ dropped = [t \in Worker |-> {}]

----------------------------------------------------------------------------

\* The next statement sees what is committed now, and visits these rows.
Statement(t, statement, seen, rows) ==
  /\ pc' = [pc EXCEPT ![t] = statement]
  /\ snapshot' = [snapshot EXCEPT ![t] = seen]
  /\ todo' = [todo EXCEPT ![t] = rows]

Running(t) == pc[t] \notin {"begin", "done", "failed"}
Others(t) == {u \in Worker \ {t} : Running(u)}

\* Row e gets a new version, which no other transaction can write after now.
Write(t, e, version) ==
  /\ written' = [written EXCEPT ![t][e] = version]
  /\ holder' = [holder EXCEPT ![e] = t]

\* The chunks are read first, and mentions resolved with them; an empty graph
\* only prunes.
BeginGraph(t) ==
  /\ pc[t] = "begin"
  /\ operation[t].kind = "graph"
  /\ LET resolved == IF Target(t) \in chunks THEN {Target(t)} \X Graph[Target(t)]
                     ELSE {}
     IN  IF Graph[Target(t)] = {}
         THEN Statement(t, "mention", {}, {})
         ELSE Statement(t, "upsert", resolved, Graph[Target(t)])
  /\ UNCHANGED <<tables, holder, written, added, dropped>>

\* INSERT .. ON CONFLICT DO UPDATE leaves a mention_count that is there.
Upsert(t) ==
  /\ pc[t] = "upsert"
  /\ \E e \in todo[t] :
       /\ Free(t, e)
       /\ Write(t, e, IF Version(t, e) = Gone THEN 0 ELSE Version(t, e))
       /\ todo' = [todo EXCEPT ![t] = @ \ {e}]
  /\ UNCHANGED <<tables, pc, snapshot, added, dropped>>

\* The foreign key of a mention waits for who is deleting its chunk; once that
\* is gone the statement, and the transaction, fail (see Fail).
InsertMentions(t) ==
  /\ pc[t] = "upsert"
  /\ todo[t] = {}
  /\ \A u \in Others(t) : Target(t) \notin dropped[u]
  /\ snapshot[t] = {} \/ Target(t) \in chunks
  /\ added' = [added EXCEPT ![t] = snapshot[t]]
  /\ pc' = [pc EXCEPT ![t] = "mention"]
  /\ UNCHANGED <<tables, holder, snapshot, todo, written, dropped>>

\* A delete takes the chunk and by cascade its mentions, after waiting for who
\* adds some to it.
DropDocument(t) ==
  /\ pc[t] = "begin"
  /\ operation[t].kind = "delete"
  /\ \A u \in Others(t) : Target(t) \notin dropped[u] /\ \A m \in added[u] : m[1] # Target(t)
  /\ dropped' = [dropped EXCEPT ![t] = {Target(t)}]
  /\ pc' = [pc EXCEPT ![t] = "mention"]
  /\ UNCHANGED <<tables, holder, snapshot, todo, written, added>>

\* Bug variant: only the counts of the document's own entities are brought up
\* to date.
CountOwnOnly(t) ==
  /\ pc[t] = "mention"
  /\ Statement(t, "count", Visible(t), Graph[Target(t)] \cap {e \in Entity : Count(Visible(t), e) > 0})
  /\ UNCHANGED <<tables, holder, written, added, dropped>>

\* prune_orphan_entities: the three statements, each with a view of its own.
CountStatement(t) ==
  /\ pc[t] = "mention"
  /\ Statement(t, "count", Visible(t), {e \in Entity : Version(t, e) # Gone /\ Count(Visible(t), e) > 0})
  /\ UNCHANGED <<tables, holder, written, added, dropped>>

ZeroStatement(t) ==
  /\ pc[t] = "count"
  /\ todo[t] = {}
  /\ Statement(t, "zero", Visible(t), {e \in Entity : Version(t, e) # Gone /\ Count(Visible(t), e) = 0})
  /\ UNCHANGED <<tables, holder, written, added, dropped>>

\* Bug variant: the rows to delete are those of the document's own entities.
PruneZeroedOnly(t) ==
  /\ pc[t] = "zero"
  /\ todo[t] = {}
  /\ Statement(t, "prune", Visible(t),
               {e \in Graph[Target(t)] : Version(t, e) = 0})
  /\ UNCHANGED <<tables, holder, written, added, dropped>>

PruneStatement(t) ==
  /\ pc[t] = "zero"
  /\ todo[t] = {}
  /\ Statement(t, "prune", Visible(t), {e \in Entity : Version(t, e) = 0})
  /\ UNCHANGED <<tables, holder, written, added, dropped>>

\* Bug variant: the first statement takes one mention off each count.
VisitDecrements(t) ==
  /\ pc[t] \in {"count", "zero", "prune"}
  /\ \E e \in todo[t] :
       /\ Free(t, e)
       /\ Write(t, e, CASE pc[t] = "count" -> Version(t, e) - 1
                        [] pc[t] = "zero" -> 0
                        [] pc[t] = "prune" -> Gone)
       /\ todo' = [todo EXCEPT ![t] = @ \ {e}]
  /\ UNCHANGED <<tables, pc, snapshot, added, dropped>>

\* What a statement does with a row once it is free: another may have deleted
\* it, or given it a version the statement did not see.  The counts, and that
\* it has none, are still those of the statement's own view.
Visit(t) ==
  /\ pc[t] \in {"count", "zero", "prune"}
  /\ \E e \in todo[t] :
       /\ Free(t, e)
       /\ IF Version(t, e) = Gone \/ (pc[t] = "prune" /\ Version(t, e) # 0)
          THEN UNCHANGED <<written, holder>>
          ELSE Write(t, e, CASE pc[t] = "count" -> Count(snapshot[t], e)
                             [] pc[t] = "zero" -> 0
                             [] pc[t] = "prune" -> Gone)
       /\ todo' = [todo EXCEPT ![t] = @ \ {e}]
  /\ UNCHANGED <<tables, pc, snapshot, added, dropped>>

Release(t) == holder' = [e \in Entity |-> IF holder[e] = t THEN None ELSE holder[e]]

Commit(t) ==
  /\ pc[t] = "prune"
  /\ todo[t] = {}
  /\ row' = [e \in Entity |-> Version(t, e)]
  /\ mentions' = Visible(t)
  /\ chunks' = chunks \ dropped[t]
  /\ stored' = IF operation[t].kind = "graph" /\ Target(t) \in chunks
               THEN stored \cup {Target(t)} ELSE stored \ dropped[t]
  /\ pc' = [pc EXCEPT ![t] = "done"]
  /\ Release(t)
  /\ UNCHANGED <<operation, snapshot, todo, written, added, dropped>>

\* A failed statement, a lost connection or a deadlock, which the database
\* ends at the cost of one transaction, rolls it back.
Fail(t) ==
  /\ pc[t] \notin {"done", "failed"}
  /\ pc' = [pc EXCEPT ![t] = "failed"]
  /\ Release(t)
  /\ UNCHANGED <<tables, snapshot, todo, written, added, dropped>>

Next == \E t \in Worker :
  \/ BeginGraph(t)
  \/ Upsert(t)
  \/ InsertMentions(t)
  \/ DropDocument(t)
  \/ CountStatement(t)
  \/ ZeroStatement(t)
  \/ PruneStatement(t)
  \/ Visit(t)
  \/ Commit(t)
  \/ Fail(t)

Spec == Init /\ [][Next]_vars

----------------------------------------------------------------------------
(* Properties.                                                             *)

\* Pruning removes orphans only: the graph of a document that was stored, and
\* has not been deleted since, is all there.  It holds as long as the graph of
\* one more document stands: the first statement writes the count of every
\* mentioned entity, and so lets one transaction prune at a time.
OnlyOrphansArePruned ==
  \A d \in stored : \A e \in Graph[d] : <<d, e>> \in mentions /\ row[e] # Gone

\* When no transaction runs and one has committed, the entities are those with
\* a mention.  Their counts may be stale: a transaction that waited for a row
\* writes the count its statement had seen, and the next prune mends it.
EntitiesAreMentioned ==
  (\A t \in Worker : ~Running(t)) /\ (\E t \in Worker : pc[t] = "done") =>
    \A e \in Entity : row[e] # Gone <=> Count(mentions, e) > 0

=============================================================================
