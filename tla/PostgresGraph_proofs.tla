------------------------ MODULE PostgresGraph_proofs -----------------------
(***************************************************************************)
(* What holds of any documents, graphs, connections and operations on them, *)
(* as long as the graph of one document with an entity stands.  The first   *)
(* statement of a prune writes the count of every mentioned entity, that one *)
(* among them, and holds its row until it commits: so no two transactions    *)
(* are past that statement together, and what one of them finds without a    *)
(* mention is still without when it deletes it.                             *)
(***************************************************************************)
EXTENDS PostgresGraph, FiniteSetTheorems, TLAPS

USE PostgresAssumption

\* A document whose graph stands has an entity.
AnchorStands == \E a \in Anchors : Graph[a] # {}

----------------------------------------------------------------------------
(* The inductive invariant.                                                *)

\* A mention of e among those seen; what t will leave of the mentions if it
\* deletes no entity.
Mentioned(seen, e) == \E m \in seen : m[2] = e
Live(t) == {m \in mentions \cup added[t] : m[1] \notin dropped[t]}

\* What is committed: no count of zero, an entity for each mention, a chunk for
\* each mention, the graphs that stand, and no orphan once one has pruned.
Committed ==
  /\ Anchors \subseteq stored
  /\ OnlyOrphansArePruned
  /\ \A e \in Entity : row[e] # 0
  /\ \A m \in mentions : row[m[2]] # Gone /\ m[1] \in chunks
  /\ (\E t \in Worker : pc[t] = "done") =>
       \A e \in Entity : row[e] # Gone => Mentioned(mentions, e)

\* A row a transaction wrote is its own until it ends.
RowsAreHeld ==
  \A t \in Worker : Running(t) => \A e \in Entity : written[t][e] # None => holder[e] = t

\* What t adds stays resolvable: its chunk is stored and no one deletes it.
ChunksAreHeld ==
  \A t \in Worker : Running(t) => \A m \in added[t] :
    m[1] \in chunks /\ \A u \in Worker : Running(u) => m[1] \notin dropped[u]

\* What each transaction has done up to its statement.
Begun(t) ==
  pc[t] = "begin" => added[t] = {} /\ dropped[t] = {} /\ \A e \in Entity : written[t][e] = None

Own(t) ==
  /\ dropped[t] \subseteq {Target(t)}
  /\ operation[t].kind = "graph" => dropped[t] = {}
  /\ \A m \in added[t] : m[1] = Target(t) /\ m[2] \in Graph[Target(t)]
  /\ Running(t) => \A m \in added[t] : written[t][m[2]] # None

Resolved(t, seen) ==
  operation[t].kind = "graph" /\ Target(t) \in chunks => {Target(t)} \X Graph[Target(t)] \subseteq seen

Upserting(t) ==
  pc[t] = "upsert" =>
    /\ operation[t].kind = "graph"
    /\ snapshot[t] \subseteq {Target(t)} \X Graph[Target(t)]
    /\ Resolved(t, snapshot[t])
    /\ \A e \in Graph[Target(t)] \ todo[t] : written[t][e] # None

Upserted(t) == pc[t] \in {"mention", "count", "zero", "prune"} => Resolved(t, added[t])

Counting(t) ==
  pc[t] = "count" => \A e \in Entity :
    /\ e \in todo[t] => Mentioned(snapshot[t], e)
    /\ e \notin todo[t] /\ written[t][e] = 0 => ~Mentioned(Live(t), e)

Zeroing(t) ==
  pc[t] = "zero" => \A e \in Entity :
    /\ e \in todo[t] \/ Version(t, e) = 0 => ~Mentioned(Live(t), e)
    /\ Mentioned(Live(t), e) \/ Version(t, e) \in {0, Gone} \/ e \in todo[t]

Pruning(t) ==
  /\ Running(t) => \A e \in Entity :
       written[t][e] = Gone => pc[t] = "prune" /\ ~Mentioned(Live(t), e)
  /\ pc[t] = "prune" => \A e \in Entity :
       /\ Version(t, e) = 0 => e \in todo[t]
       /\ e \in todo[t] => ~Mentioned(Live(t), e)
       /\ Mentioned(Live(t), e) \/ Version(t, e) \in {0, Gone}

\* The statement t is at has taken row e, or will not before it moves on.
Late(t, e) == pc[t] \in {"zero", "prune"} \/ (pc[t] = "count" /\ e \notin todo[t])

Transaction(t) ==
  Begun(t) /\ Own(t) /\ Upserting(t) /\ Upserted(t) /\ Counting(t) /\ Zeroing(t) /\ Pruning(t)

IInv(e) ==
  /\ TypeOK
  /\ Committed
  /\ RowsAreHeld
  /\ ChunksAreHeld
  /\ \A t \in Worker : Transaction(t)
  /\ \A t \in Worker : Late(t, e) => written[t][e] # None

----------------------------------------------------------------------------
(* Counting and seeing.                                                    *)

\* Mentions are finitely many, and an entity is counted where it is mentioned.
LEMMA CountIsNat ==
  ASSUME NEW seen \in SUBSET (Document \X Entity), NEW e
  PROVE  /\ Count(seen, e) \in Nat
         /\ Count(seen, e) = 0 <=> ~Mentioned(seen, e)
         /\ Count(seen, e) > 0 <=> Mentioned(seen, e)
<1> DEFINE of == {m \in seen : m[2] = e}
<1>1. IsFiniteSet(Document \X Entity) /\ of \in SUBSET (Document \X Entity)
  BY FS_Product
<1>2. IsFiniteSet(of)
  BY <1>1, FS_Subset
<1>3. Cardinality(of) \in Nat /\ (Cardinality(of) = 0 <=> of = {})
  BY <1>2, FS_CardinalityType, FS_EmptySet
<1>4. of = {} <=> ~Mentioned(seen, e)
  BY DEF Mentioned
<1> HIDE DEF of
<1>5. Count(seen, e) = Cardinality(of)
  BY DEF Count, of
<1> QED BY <1>3, <1>4, <1>5

LEMMA ViewsAreMentions ==
  ASSUME TypeOK, NEW t \in Worker
  PROVE  /\ Visible(t) \in SUBSET (Document \X Entity)
         /\ Live(t) \in SUBSET (Document \X Entity)
         /\ \A e \in Entity : Version(t, e) \in Nat \cup {Gone}
BY DEF TypeOK, Visible, Live, Version

\* Until it ends a transaction deletes only what no mention it leaves names.
LEMMA VisibleIsLive ==
  ASSUME TypeOK, NEW t \in Worker, Running(t), Pruning(t)
  PROVE  Visible(t) = Live(t)
<1>1. \A m \in mentions \cup added[t] : m[2] \in Entity
  BY DEF TypeOK
<1> QED BY <1>1 DEF Visible, Live, Deletes, Pruning, Mentioned

----------------------------------------------------------------------------
(* Types.                                                                  *)

LEMMA TypeInit == Init => TypeOK
<1> SUFFICES ASSUME Init PROVE TypeOK
  OBVIOUS
<1>1. mentions \in SUBSET (Document \X Entity)
  BY DEF Init
<1>2. row \in [Entity -> Nat \cup {Gone}]
  <2>1. \A e \in Entity : Count(mentions, e) \in Nat
    BY <1>1, CountIsNat
  <2>2. PICK orphans \in SUBSET Entity :
          row = [e \in Entity |-> IF Count(mentions, e) > 0 THEN Count(mentions, e)
                                  ELSE IF e \in orphans THEN 1 ELSE Gone]
    BY DEF Init
  <2> QED BY <2>1, <2>2
<1> QED BY <1>1, <1>2 DEF Init, TypeOK

LEMMA TypeStep == TypeOK /\ [Next]_vars => TypeOK'
<1> SUFFICES ASSUME TypeOK, [Next]_vars PROVE TypeOK'
  OBVIOUS
<1> USE DEF TypeOK
<1>1. ASSUME NEW t \in Worker, BeginGraph(t) PROVE TypeOK'
  <2>1. Target(t) \in Document
    BY DEF Operation, Target
  <2>2. Graph[Target(t)] \in SUBSET Entity
    BY <2>1
  <2>3. {Target(t)} \X Graph[Target(t)] \in SUBSET (Document \X Entity)
    BY <2>1, <2>2
  <2>4. \E seen \in SUBSET (Document \X Entity), rows \in SUBSET Entity,
           statement \in {"mention", "upsert"} : Statement(t, statement, seen, rows)
    BY <1>1, <2>2, <2>3 DEF BeginGraph
  <2> QED BY <1>1, <2>4 DEF BeginGraph, Statement, tables
<1>2. ASSUME NEW t \in Worker, Upsert(t) PROVE TypeOK'
  BY <1>2, ViewsAreMentions DEF Upsert, Write, tables
<1>3. ASSUME NEW t \in Worker, InsertMentions(t) PROVE TypeOK'
  BY <1>3 DEF InsertMentions, tables
<1>4. ASSUME NEW t \in Worker, DropDocument(t) PROVE TypeOK'
  <2>1. Target(t) \in Document
    BY DEF Operation, Target
  <2> QED BY <1>4, <2>1 DEF DropDocument, tables
<1>5. ASSUME NEW t \in Worker, CountStatement(t) \/ ZeroStatement(t) \/ PruneStatement(t)
      PROVE  TypeOK'
  <2>1. \E seen \in SUBSET (Document \X Entity), rows \in SUBSET Entity,
           statement \in {"count", "zero", "prune"} : Statement(t, statement, seen, rows)
    <3> DEFINE counted == {e \in Entity : Version(t, e) # Gone /\ Count(Visible(t), e) > 0}
               zeroed == {e \in Entity : Version(t, e) # Gone /\ Count(Visible(t), e) = 0}
               pruned == {e \in Entity : Version(t, e) = 0}
    <3>1. {counted, zeroed, pruned} \subseteq SUBSET Entity
      OBVIOUS
    <3>2. \/ Statement(t, "count", Visible(t), counted)
          \/ Statement(t, "zero", Visible(t), zeroed)
          \/ Statement(t, "prune", Visible(t), pruned)
      BY <1>5 DEF CountStatement, ZeroStatement, PruneStatement
    <3> HIDE DEF counted, zeroed, pruned
    <3> QED BY <3>1, <3>2, ViewsAreMentions
  <2> QED
    BY <1>5, <2>1 DEF CountStatement, ZeroStatement, PruneStatement, Statement, tables
<1>6. ASSUME NEW t \in Worker, Visit(t) PROVE TypeOK'
  <2>1. PICK e \in todo[t] :
          /\ IF Version(t, e) = Gone \/ (pc[t] = "prune" /\ Version(t, e) # 0)
             THEN UNCHANGED <<written, holder>>
             ELSE Write(t, e, CASE pc[t] = "count" -> Count(snapshot[t], e)
                                [] pc[t] = "zero" -> 0
                                [] pc[t] = "prune" -> Gone)
          /\ todo' = [todo EXCEPT ![t] = @ \ {e}]
    BY <1>6 DEF Visit
  <2>2. Count(snapshot[t], e) \in Nat
    BY CountIsNat
  <2>3. \/ UNCHANGED <<written, holder>>
        \/ \E version \in Nat \cup {Gone} : Write(t, e, version)
    BY <1>6, <2>1, <2>2 DEF Visit
  <2>4. todo' \in [Worker -> SUBSET Entity] /\ e \in Entity
    BY <2>1
  <2>5. written' \in [Worker -> [Entity -> Nat \cup {Gone, None}]]
    <3>1. CASE written' = written
      BY <3>1
    <3>2. ASSUME NEW version \in Nat \cup {Gone}, Write(t, e, version)
          PROVE  written' \in [Worker -> [Entity -> Nat \cup {Gone, None}]]
      BY <2>4, <3>2 DEF Write
    <3> QED BY <2>3, <3>1, <3>2
  <2>6. holder' \in [Entity -> Worker \cup {None}]
    BY <2>3, <2>4 DEF Write
  <2> QED BY <1>6, <2>4, <2>5, <2>6 DEF Visit, tables
<1>7. ASSUME NEW t \in Worker, Commit(t) PROVE TypeOK'
  <2>1. Target(t) \in Document
    BY DEF Operation, Target
  <2> QED BY <1>7, <2>1, ViewsAreMentions DEF Commit, Release
<1>8. ASSUME NEW t \in Worker, Fail(t) PROVE TypeOK'
  BY <1>8 DEF Fail, Release, tables
<1>9. CASE UNCHANGED vars
  BY <1>9 DEF vars
<1> QED BY <1>1, <1>2, <1>3, <1>4, <1>5, <1>6, <1>7, <1>8, <1>9 DEF Next

----------------------------------------------------------------------------
(* What a step of one transaction leaves to the others.                    *)

Untouched(u) ==
  /\ pc'[u] = pc[u] /\ snapshot'[u] = snapshot[u] /\ todo'[u] = todo[u]
  /\ written'[u] = written[u] /\ added'[u] = added[u] /\ dropped'[u] = dropped[u]

LEMMA FrameTransaction ==
  ASSUME NEW u \in Worker, Transaction(u), UNCHANGED tables, Untouched(u)
  PROVE  Transaction(u)'
<1>1. /\ Target(u)' = Target(u) /\ Running(u)' = Running(u) /\ Live(u)' = Live(u)
      /\ \A e \in Entity : Version(u, e)' = Version(u, e)
  BY DEF Untouched, tables, Target, Running, Live, Version
<1>2. Begun(u)' /\ Own(u)'
  BY <1>1 DEF Transaction, Begun, Own, Untouched, tables
<1>3. Upserting(u)' /\ Upserted(u)'
  BY <1>1 DEF Transaction, Upserting, Upserted, Resolved, Untouched, tables
<1>4. Counting(u)'
  BY <1>1 DEF Transaction, Counting, Mentioned, Untouched
<1>5. Zeroing(u)'
  BY <1>1 DEF Transaction, Zeroing, Mentioned, Untouched
<1>6. Pruning(u)'
  BY <1>1 DEF Transaction, Pruning, Mentioned, Untouched
<1> QED BY <1>2, <1>3, <1>4, <1>5, <1>6 DEF Transaction

LEMMA FrameCommitted ==
  ASSUME Committed, UNCHANGED tables, \A u \in Worker : pc'[u] = "done" => pc[u] = "done"
  PROVE  Committed'
BY DEF Committed, OnlyOrphansArePruned, Mentioned, tables

\* The graph that stands is there for every transaction.
LEMMA AnchorIsLive ==
  ASSUME NEW e \in Entity, IInv(e), NEW a \in Anchors, e \in Graph[a],
         NEW t \in Worker, Running(t)
  PROVE  Mentioned(Live(t), e) /\ written[t][e] # Gone /\ Version(t, e) # Gone
<1>1. <<a, e>> \in mentions /\ row[e] # Gone
  BY DEF IInv, Committed, OnlyOrphansArePruned
<1>2. a \notin dropped[t]
  BY DEF IInv, TypeOK, Operation, Transaction, Own, Target
<1>3. Mentioned(Live(t), e)
  BY <1>1, <1>2 DEF Mentioned, Live
<1>4. written[t][e] # Gone
  BY <1>3 DEF IInv, Transaction, Pruning
<1> QED BY <1>1, <1>3, <1>4 DEF Version

----------------------------------------------------------------------------
(* The invariant holds at first.                                           *)

LEMMA InvInit == ASSUME NEW e \in Entity PROVE Init => IInv(e)
<1> SUFFICES ASSUME Init PROVE IInv(e)
  OBVIOUS
<1>1. TypeOK
  BY TypeInit
<1>2. \A t \in Worker : /\ pc[t] = "begin" /\ ~Running(t) /\ added[t] = {} /\ dropped[t] = {}
                       /\ \A x \in Entity : written[t][x] = None
  BY DEF Init, Running
<1>3. mentions = {m \in stored \X Entity : m[2] \in Graph[m[1]]}
  BY DEF Init
<1>4. \A x \in Entity : row[x] # 0 /\ (Mentioned(mentions, x) => row[x] # Gone)
  <2>1. PICK orphans \in SUBSET Entity :
          row = [x \in Entity |-> IF Count(mentions, x) > 0 THEN Count(mentions, x)
                                  ELSE IF x \in orphans THEN 1 ELSE Gone]
    BY DEF Init
  <2>2. \A x \in Entity : Count(mentions, x) \in Nat /\ (Count(mentions, x) > 0 <=> Mentioned(mentions, x))
    BY <1>1, CountIsNat DEF TypeOK
  <2> QED BY <2>1, <2>2
<1>5. \A m \in mentions : row[m[2]] # Gone /\ m[1] \in chunks
  BY <1>1, <1>4 DEF Mentioned, TypeOK, Init
<1>6. OnlyOrphansArePruned
  <2> SUFFICES ASSUME NEW d \in stored, NEW x \in Graph[d]
               PROVE  <<d, x>> \in mentions /\ row[x] # Gone
    BY DEF OnlyOrphansArePruned
  <2>1. x \in Entity /\ <<d, x>> \in mentions
    BY <1>1, <1>3 DEF TypeOK
  <2> QED BY <1>4, <2>1 DEF Mentioned
<1>7. Committed
  BY <1>2, <1>4, <1>5, <1>6 DEF Committed, Init
<1>8. \A t \in Worker : Transaction(t)
  BY <1>2 DEF Transaction, Begun, Own, Upserting, Upserted, Counting, Zeroing, Pruning
<1> QED BY <1>1, <1>2, <1>7, <1>8 DEF IInv, RowsAreHeld, ChunksAreHeld, Late

----------------------------------------------------------------------------
(* A step that commits nothing, put together from what it does to its own   *)
(* transaction and to what the transactions share.                         *)

LEMMA RowsStay ==
  ASSUME NEW e \in Entity, IInv(e), NEW t \in Worker, \A u \in Worker \ {t} : Untouched(u),
         UNCHANGED <<written, holder>>, pc[t] \notin {"done", "failed"}
  PROVE  RowsAreHeld'
<1> SUFFICES ASSUME NEW u \in Worker, Running(u)', NEW x \in Entity, written'[u][x] # None
             PROVE  holder'[x] = u
  BY DEF RowsAreHeld
<1>1. Running(u)
  BY DEF Running, Untouched, IInv, Transaction, Begun
<1> QED BY <1>1 DEF IInv, RowsAreHeld

LEMMA RowWritten ==
  ASSUME NEW e \in Entity, IInv(e), NEW t \in Worker, \A u \in Worker \ {t} : Untouched(u),
         NEW x \in Entity, NEW version, Running(t), Free(t, x), Write(t, x, version)
  PROVE  RowsAreHeld'
<1> SUFFICES ASSUME NEW u \in Worker, Running(u)', NEW y \in Entity, written'[u][y] # None
             PROVE  holder'[y] = u
  BY DEF RowsAreHeld
<1>1. written \in [Worker -> [Entity -> Nat \cup {Gone, None}]] /\ holder \in [Entity -> Worker \cup {None}]
  BY DEF IInv, TypeOK
<1>2. CASE u = t
  <2>1. CASE y = x
    BY <1>1, <1>2, <2>1 DEF Write
  <2>2. CASE y # x
    <3>1. written[t][y] # None
      BY <1>1, <1>2, <2>2 DEF Write
    <3> QED BY <1>1, <1>2, <2>2, <3>1 DEF Write, IInv, RowsAreHeld
  <2> QED BY <2>1, <2>2
<1>3. CASE u # t
  <2>1. Running(u) /\ written[u][y] # None
    BY <1>3 DEF Untouched, Running
  <2>2. holder[y] = u
    BY <2>1 DEF IInv, RowsAreHeld
  <2>3. y # x
    BY <1>3, <2>2 DEF Free
  <2> QED BY <1>1, <2>2, <2>3 DEF Write
<1> QED BY <1>2, <1>3

LEMMA ChunksStay ==
  ASSUME NEW e \in Entity, IInv(e), NEW t \in Worker, \A u \in Worker \ {t} : Untouched(u),
         UNCHANGED <<chunks, added, dropped>>, pc[t] \notin {"done", "failed"}
  PROVE  ChunksAreHeld'
<1>1. \A u \in Worker : Running(u)' => Running(u) \/ (added[u] = {} /\ dropped[u] = {})
  BY DEF Running, Untouched, IInv, Transaction, Begun
<1> QED BY <1>1 DEF IInv, ChunksAreHeld

LEMMA Together ==
  ASSUME NEW e \in Entity, IInv(e), TypeOK', NEW t \in Worker, UNCHANGED tables,
         \A u \in Worker \ {t} : Untouched(u), pc'[t] # "done",
         Transaction(t)', RowsAreHeld', ChunksAreHeld', Late(t, e)' => written'[t][e] # None
  PROVE  IInv(e)'
<1>1. Committed'
  <2>1. \A u \in Worker : pc'[u] = "done" => pc[u] = "done"
    BY DEF Untouched
  <2> QED BY <2>1, FrameCommitted DEF IInv
<1>2. \A u \in Worker : Transaction(u)'
  BY FrameTransaction DEF IInv
<1>3. \A u \in Worker : Late(u, e)' => written'[u][e] # None
  BY DEF Late, Untouched, IInv
<1> QED BY <1>1, <1>2, <1>3 DEF IInv

----------------------------------------------------------------------------
(* One lemma per action.                                                   *)

LEMMA BeginGraphKeeps ==
  ASSUME NEW e \in Entity, IInv(e), TypeOK', NEW t \in Worker, BeginGraph(t)
  PROVE  IInv(e)'
<1> DEFINE resolved == IF Target(t) \in chunks THEN {Target(t)} \X Graph[Target(t)] ELSE {}
<1>1. /\ pc[t] = "begin" /\ operation[t].kind = "graph"
      /\ UNCHANGED <<tables, holder, written, added, dropped>>
      /\ IF Graph[Target(t)] = {} THEN Statement(t, "mention", {}, {})
         ELSE Statement(t, "upsert", resolved, Graph[Target(t)])
  BY DEF BeginGraph
<1>2. pc'[t] \in {"mention", "upsert"} /\ \A u \in Worker \ {t} : Untouched(u)
  BY <1>1 DEF Statement, Untouched, IInv, TypeOK
<1>3. added[t] = {} /\ dropped[t] = {} /\ \A x \in Entity : written[t][x] = None
  BY <1>1 DEF IInv, Transaction, Begun
<1>4. Target(t)' = Target(t) /\ Target(t) \in Document
  BY <1>1 DEF Target, tables, IInv, TypeOK, Operation
<1>5. Transaction(t)'
  <2>1. Begun(t)' /\ Counting(t)' /\ Zeroing(t)'
    BY <1>2 DEF Begun, Counting, Zeroing
  <2>2. Own(t)'
    BY <1>1, <1>3 DEF Own
  <2>3. Upserting(t)'
    <3> SUFFICES ASSUME pc'[t] = "upsert" PROVE Upserting(t)'
      BY DEF Upserting
    <3>1. snapshot'[t] = resolved /\ todo'[t] = Graph[Target(t)]
      BY <1>1 DEF Statement, IInv, TypeOK
    <3> QED BY <1>1, <1>4, <3>1 DEF Upserting, Resolved, tables
  <2>4. Upserted(t)'
    <3> SUFFICES ASSUME pc'[t] = "mention" PROVE Upserted(t)'
      BY <1>2 DEF Upserted
    <3>1. Graph[Target(t)] = {}
      BY <1>1 DEF Statement, IInv, TypeOK
    <3> QED BY <1>4, <3>1 DEF Upserted, Resolved
  <2>5. Pruning(t)'
    BY <1>1, <1>2, <1>3 DEF Pruning
  <2> QED BY <2>1, <2>2, <2>3, <2>4, <2>5 DEF Transaction
<1>6. RowsAreHeld' /\ ChunksAreHeld'
  BY <1>1, <1>2, RowsStay, ChunksStay DEF tables
<1>7. ~Late(t, e)'
  BY <1>2 DEF Late
<1> QED BY <1>1, <1>2, <1>5, <1>6, <1>7, Together

LEMMA UpsertKeeps ==
  ASSUME NEW e \in Entity, IInv(e), TypeOK', NEW t \in Worker, Upsert(t)
  PROVE  IInv(e)'
<1>1. PICK x \in todo[t] :
        /\ Free(t, x)
        /\ Write(t, x, IF Version(t, x) = Gone THEN 0 ELSE Version(t, x))
        /\ todo' = [todo EXCEPT ![t] = @ \ {x}]
  BY DEF Upsert
<1>2. x \in Entity /\ pc[t] = "upsert" /\ Running(t)
  BY DEF Upsert, IInv, TypeOK, Running
<1>3. UNCHANGED <<tables, pc, snapshot, added, dropped>>
  BY DEF Upsert
<1>4. \A u \in Worker \ {t} : Untouched(u)
  BY <1>1, <1>3 DEF Write, Untouched, IInv, TypeOK
<1>5. PICK version \in Nat : written' = [written EXCEPT ![t][x] = version]
  BY <1>1, <1>2, ViewsAreMentions DEF Write, IInv
<1>6. /\ written'[t][x] = version
      /\ \A y \in Entity \ {x} : written'[t][y] = written[t][y]
      /\ todo'[t] = todo[t] \ {x}
  BY <1>1, <1>2, <1>5 DEF IInv, TypeOK
<1>7. Target(t)' = Target(t) /\ Target(t) \in Document /\ Running(t)'
  BY <1>2, <1>3 DEF Target, tables, IInv, TypeOK, Operation, Running
<1>8. Transaction(t)'
  <2>1. Begun(t)' /\ Counting(t)' /\ Zeroing(t)' /\ Upserted(t)'
    BY <1>2, <1>3 DEF Begun, Counting, Zeroing, Upserted
  <2>2. Own(t)'
    <3>1. Own(t) /\ \A m \in added[t] : m[2] \in Entity
      BY DEF IInv, Transaction, TypeOK
    <3>2. \A m \in added[t] : written'[t][m[2]] # None
      <4> SUFFICES ASSUME NEW m \in added[t] PROVE written'[t][m[2]] # None
        OBVIOUS
      <4>1. m[2] # x => written[t][m[2]] # None
        BY <1>2, <3>1 DEF Own
      <4> QED BY <1>6, <3>1, <4>1
    <3> QED BY <1>3, <1>7, <3>1, <3>2 DEF Own, tables
  <2>3. Upserting(t)'
    <3>1. Upserting(t) /\ Graph[Target(t)] \in SUBSET Entity
      BY <1>7 DEF IInv, Transaction
    <3> QED BY <1>2, <1>3, <1>6, <1>7, <3>1 DEF Upserting, Resolved, tables
  <2>4. Pruning(t)'
    BY <1>2, <1>3, <1>6 DEF Pruning, IInv, Transaction
  <2> QED BY <2>1, <2>2, <2>3, <2>4 DEF Transaction
<1>9. RowsAreHeld' /\ ChunksAreHeld'
  BY <1>1, <1>2, <1>3, <1>4, RowWritten, ChunksStay DEF tables
<1>10. ~Late(t, e)'
  BY <1>2, <1>3 DEF Late
<1> QED BY <1>2, <1>3, <1>4, <1>8, <1>9, <1>10, Together

LEMMA InsertMentionsKeeps ==
  ASSUME NEW e \in Entity, IInv(e), TypeOK', NEW t \in Worker, InsertMentions(t)
  PROVE  IInv(e)'
<1>1. /\ pc[t] = "upsert" /\ todo[t] = {}
      /\ \A u \in Others(t) : Target(t) \notin dropped[u]
      /\ snapshot[t] = {} \/ Target(t) \in chunks
      /\ added' = [added EXCEPT ![t] = snapshot[t]]
      /\ pc' = [pc EXCEPT ![t] = "mention"]
      /\ UNCHANGED <<tables, holder, snapshot, todo, written, dropped>>
  BY DEF InsertMentions
<1>2. pc'[t] = "mention" /\ added'[t] = snapshot[t] /\ Running(t) /\ Running(t)'
  BY <1>1 DEF IInv, TypeOK, Running
<1>3. \A u \in Worker \ {t} : Untouched(u)
  BY <1>1 DEF Untouched, IInv, TypeOK
<1>4. Target(t)' = Target(t) /\ Target(t) \in Document
  BY <1>1 DEF Target, tables, IInv, TypeOK, Operation
<1>5. Upserting(t) /\ Own(t) /\ Pruning(t)
  BY DEF IInv, Transaction
<1>6. \A m \in snapshot[t] : m[1] = Target(t) /\ m[2] \in Graph[Target(t)] /\ written[t][m[2]] # None
  BY <1>1, <1>5 DEF Upserting
<1>7. Transaction(t)'
  <2>1. Begun(t)' /\ Counting(t)' /\ Zeroing(t)' /\ Upserting(t)'
    BY <1>2 DEF Begun, Counting, Zeroing, Upserting
  <2>2. Own(t)'
    BY <1>1, <1>2, <1>4, <1>5, <1>6 DEF Own, tables
  <2>3. Upserted(t)'
    BY <1>1, <1>2, <1>4, <1>5 DEF Upserting, Upserted, Resolved, tables
  <2>4. Pruning(t)'
    BY <1>1, <1>2, <1>5 DEF Pruning
  <2> QED BY <2>1, <2>2, <2>3, <2>4 DEF Transaction
<1>8. RowsAreHeld'
  BY <1>1, <1>2, <1>3, RowsStay
<1>9. ChunksAreHeld'
  <2> SUFFICES ASSUME NEW u \in Worker, Running(u)', NEW m \in added'[u]
               PROVE  m[1] \in chunks' /\ \A v \in Worker : Running(v)' => m[1] \notin dropped'[v]
    BY DEF ChunksAreHeld
  <2>1. \A v \in Worker : Running(v)' => Running(v)
    BY <1>2, <1>3 DEF Untouched, Running
  <2>2. CASE u = t
    <3>1. m[1] = Target(t) /\ Target(t) \in chunks
      BY <1>1, <1>2, <1>6, <2>2
    <3>2. Target(t) \notin dropped[t]
      BY <1>1, <1>5 DEF Own, Upserting
    <3> QED BY <1>1, <2>1, <3>1, <3>2 DEF Others, tables
  <2>3. CASE u # t
    BY <1>1, <1>3, <2>1, <2>3 DEF Untouched, IInv, ChunksAreHeld, tables
  <2> QED BY <2>2, <2>3
<1>10. ~Late(t, e)'
  BY <1>2 DEF Late
<1> QED BY <1>1, <1>2, <1>3, <1>7, <1>8, <1>9, <1>10, Together

LEMMA DropDocumentKeeps ==
  ASSUME NEW e \in Entity, IInv(e), TypeOK', NEW t \in Worker, DropDocument(t)
  PROVE  IInv(e)'
<1>1. /\ pc[t] = "begin" /\ operation[t].kind = "delete"
      /\ \A u \in Others(t) : \A m \in added[u] : m[1] # Target(t)
      /\ dropped' = [dropped EXCEPT ![t] = {Target(t)}]
      /\ pc' = [pc EXCEPT ![t] = "mention"]
      /\ UNCHANGED <<tables, holder, snapshot, todo, written, added>>
  BY DEF DropDocument
<1>2. pc'[t] = "mention" /\ dropped'[t] = {Target(t)}
  BY <1>1 DEF IInv, TypeOK
<1>3. \A u \in Worker \ {t} : Untouched(u)
  BY <1>1 DEF Untouched, IInv, TypeOK
<1>4. added[t] = {} /\ \A x \in Entity : written[t][x] = None
  BY <1>1 DEF IInv, Transaction, Begun
<1>5. operation' = operation /\ Target(t)' = Target(t)
  BY <1>1 DEF Target, tables
<1>6. Transaction(t)'
  <2>1. Begun(t)' /\ Counting(t)' /\ Zeroing(t)' /\ Upserting(t)'
    BY <1>2 DEF Begun, Counting, Zeroing, Upserting
  <2>2. Own(t)' /\ Upserted(t)'
    BY <1>1, <1>2, <1>4, <1>5 DEF Own, Upserted, Resolved
  <2>3. Pruning(t)'
    BY <1>1, <1>2, <1>4 DEF Pruning
  <2> QED BY <2>1, <2>2, <2>3 DEF Transaction
<1>7. RowsAreHeld'
  BY <1>1, <1>2, <1>3, RowsStay
<1>8. ChunksAreHeld'
  <2> SUFFICES ASSUME NEW u \in Worker, Running(u)', NEW m \in added'[u]
               PROVE  m[1] \in chunks' /\ \A v \in Worker : Running(v)' => m[1] \notin dropped'[v]
    BY DEF ChunksAreHeld
  <2>1. u # t /\ Running(u) /\ m \in added[u]
    BY <1>1, <1>3, <1>4 DEF Untouched, Running
  <2>2. m[1] \in chunks' /\ m[1] \notin dropped'[t]
    BY <1>1, <1>2, <2>1 DEF Others, IInv, ChunksAreHeld, tables
  <2>3. \A v \in Worker \ {t} : Running(v)' => m[1] \notin dropped'[v]
    BY <1>3, <2>1 DEF Untouched, Running, IInv, ChunksAreHeld
  <2> QED BY <2>2, <2>3
<1>9. ~Late(t, e)'
  BY <1>2 DEF Late
<1> QED BY <1>1, <1>2, <1>3, <1>6, <1>7, <1>8, <1>9, Together

\* What the three statements of a prune have in common as they begin.
LEMMA StatementBegins ==
  ASSUME NEW e \in Entity, IInv(e), NEW t \in Worker, Running(t),
         NEW statement \in {"count", "zero", "prune"}, NEW rows, Statement(t, statement, Visible(t), rows),
         UNCHANGED <<tables, holder, written, added, dropped>>
  PROVE  /\ pc'[t] = statement /\ snapshot'[t] = Live(t) /\ todo'[t] = rows
         /\ Running(t)' /\ Live(t)' = Live(t) /\ Target(t)' = Target(t)
         /\ \A x \in Entity : Version(t, x)' = Version(t, x)
         /\ \A u \in Worker \ {t} : Untouched(u)
         /\ Begun(t)' /\ Own(t)' /\ Upserting(t)'
         /\ RowsAreHeld' /\ ChunksAreHeld'
<1>1. /\ pc'[t] = statement /\ snapshot'[t] = Visible(t) /\ todo'[t] = rows
      /\ \A u \in Worker \ {t} : Untouched(u)
  BY DEF Statement, Untouched, IInv, TypeOK
<1>2. Visible(t) = Live(t)
  BY VisibleIsLive DEF IInv, Transaction
<1>3. Running(t)' /\ Live(t)' = Live(t) /\ Target(t)' = Target(t)
  BY <1>1 DEF Running, Live, Target, tables
<1>4. \A x \in Entity : Version(t, x)' = Version(t, x)
  BY DEF Version, tables
<1>5. Begun(t)' /\ Upserting(t)'
  BY <1>1 DEF Begun, Upserting
<1>6. Own(t)'
  BY <1>3 DEF Own, IInv, Transaction, tables
<1>7. pc[t] \notin {"done", "failed"} /\ chunks' = chunks
  BY DEF Running, tables
<1>8. RowsAreHeld' /\ ChunksAreHeld'
  BY <1>1, <1>7, RowsStay, ChunksStay
<1> QED BY <1>1, <1>2, <1>3, <1>4, <1>5, <1>6, <1>8

LEMMA CountStatementKeeps ==
  ASSUME NEW e \in Entity, IInv(e), NEW a \in Anchors, e \in Graph[a],
         TypeOK', NEW t \in Worker, CountStatement(t)
  PROVE  IInv(e)'
<1> DEFINE rows == {x \in Entity : Version(t, x) # Gone /\ Count(Visible(t), x) > 0}
<1>1. /\ pc[t] = "mention" /\ Running(t) /\ Statement(t, "count", Visible(t), rows)
      /\ UNCHANGED <<tables, holder, written, added, dropped>>
  BY DEF CountStatement, Running
<1>2. \A x \in Entity : x \in rows <=> Version(t, x) # Gone /\ Mentioned(Live(t), x)
  BY <1>1, CountIsNat, ViewsAreMentions, VisibleIsLive DEF IInv, Transaction
<1> HIDE DEF rows
<1>3. /\ pc'[t] = "count" /\ snapshot'[t] = Live(t) /\ todo'[t] = rows
      /\ Live(t)' = Live(t) /\ Target(t)' = Target(t)
      /\ \A u \in Worker \ {t} : Untouched(u)
      /\ Begun(t)' /\ Own(t)' /\ Upserting(t)' /\ RowsAreHeld' /\ ChunksAreHeld'
  BY <1>1, StatementBegins
<1>4. Transaction(t)'
  <2>1. Upserted(t)'
    BY <1>1, <1>3 DEF Upserted, Resolved, IInv, Transaction, tables
  <2>2. Counting(t)'
    BY <1>1, <1>2, <1>3 DEF Counting, Version, Mentioned, IInv, TypeOK
  <2>3. Zeroing(t)'
    BY <1>3 DEF Zeroing
  <2>4. Pruning(t)'
    BY <1>1, <1>3 DEF Pruning, IInv, Transaction
  <2> QED BY <1>3, <2>1, <2>2, <2>3, <2>4 DEF Transaction
<1>5. ~Late(t, e)'
  BY <1>1, <1>2, <1>3, AnchorIsLive DEF Late
<1> QED BY <1>1, <1>3, <1>4, <1>5, Together

LEMMA ZeroStatementKeeps ==
  ASSUME NEW e \in Entity, IInv(e), TypeOK', NEW t \in Worker, ZeroStatement(t)
  PROVE  IInv(e)'
<1> DEFINE rows == {x \in Entity : Version(t, x) # Gone /\ Count(Visible(t), x) = 0}
<1>1. /\ pc[t] = "count" /\ todo[t] = {} /\ Running(t) /\ Statement(t, "zero", Visible(t), rows)
      /\ UNCHANGED <<tables, holder, written, added, dropped>>
  BY DEF ZeroStatement, Running
<1>2. \A x \in Entity : x \in rows <=> Version(t, x) # Gone /\ ~Mentioned(Live(t), x)
  BY <1>1, CountIsNat, ViewsAreMentions, VisibleIsLive DEF IInv, Transaction
<1> HIDE DEF rows
<1>3. /\ pc'[t] = "zero" /\ todo'[t] = rows
      /\ Live(t)' = Live(t) /\ Target(t)' = Target(t)
      /\ \A x \in Entity : Version(t, x)' = Version(t, x)
      /\ \A u \in Worker \ {t} : Untouched(u)
      /\ Begun(t)' /\ Own(t)' /\ Upserting(t)' /\ RowsAreHeld' /\ ChunksAreHeld'
  BY <1>1, StatementBegins
<1>4. \A x \in Entity : Version(t, x) = 0 => ~Mentioned(Live(t), x)
  BY <1>1 DEF Version, IInv, Committed, Transaction, Counting
<1>5. Transaction(t)'
  <2>1. Upserted(t)'
    BY <1>1, <1>3 DEF Upserted, Resolved, IInv, Transaction, tables
  <2>2. Counting(t)'
    BY <1>3 DEF Counting
  <2>3. Zeroing(t)'
    BY <1>2, <1>3, <1>4 DEF Zeroing, Mentioned
  <2>4. Pruning(t)'
    BY <1>1, <1>3 DEF Pruning, IInv, Transaction
  <2> QED BY <1>3, <2>1, <2>2, <2>3, <2>4 DEF Transaction
<1>6. written'[t][e] # None
  BY <1>1 DEF IInv, Late
<1> QED BY <1>1, <1>3, <1>5, <1>6, Together

LEMMA PruneStatementKeeps ==
  ASSUME NEW e \in Entity, IInv(e), TypeOK', NEW t \in Worker, PruneStatement(t)
  PROVE  IInv(e)'
<1> DEFINE rows == {x \in Entity : Version(t, x) = 0}
<1>1. /\ pc[t] = "zero" /\ todo[t] = {} /\ Running(t) /\ Statement(t, "prune", Visible(t), rows)
      /\ UNCHANGED <<tables, holder, written, added, dropped>>
  BY DEF PruneStatement, Running
<1>2. \A x \in Entity : x \in rows <=> Version(t, x) = 0
  OBVIOUS
<1> HIDE DEF rows
<1>3. /\ pc'[t] = "prune" /\ todo'[t] = rows
      /\ Live(t)' = Live(t) /\ Target(t)' = Target(t)
      /\ \A x \in Entity : Version(t, x)' = Version(t, x)
      /\ \A u \in Worker \ {t} : Untouched(u)
      /\ Begun(t)' /\ Own(t)' /\ Upserting(t)' /\ RowsAreHeld' /\ ChunksAreHeld'
  BY <1>1, StatementBegins
<1>4. Transaction(t)'
  <2>1. Upserted(t)'
    BY <1>1, <1>3 DEF Upserted, Resolved, IInv, Transaction, tables
  <2>2. Counting(t)' /\ Zeroing(t)'
    BY <1>3 DEF Counting, Zeroing
  <2>3. Pruning(t)'
    BY <1>1, <1>2, <1>3 DEF Pruning, Zeroing, Mentioned, IInv, Transaction
  <2> QED BY <1>3, <2>1, <2>2, <2>3 DEF Transaction
<1>5. written'[t][e] # None
  BY <1>1 DEF IInv, Late
<1> QED BY <1>1, <1>3, <1>4, <1>5, Together

LEMMA VisitKeeps ==
  ASSUME NEW e \in Entity, IInv(e), NEW a \in Anchors, e \in Graph[a],
         TypeOK', NEW t \in Worker, Visit(t)
  PROVE  IInv(e)'
<1>1. PICK x \in todo[t] :
        /\ Free(t, x)
        /\ IF Version(t, x) = Gone \/ (pc[t] = "prune" /\ Version(t, x) # 0)
           THEN UNCHANGED <<written, holder>>
           ELSE Write(t, x, CASE pc[t] = "count" -> Count(snapshot[t], x)
                              [] pc[t] = "zero" -> 0
                              [] pc[t] = "prune" -> Gone)
        /\ todo' = [todo EXCEPT ![t] = @ \ {x}]
  BY DEF Visit
<1>2. /\ x \in Entity /\ pc[t] \in {"count", "zero", "prune"} /\ Running(t) /\ Running(t)'
      /\ UNCHANGED <<tables, pc, snapshot, added, dropped>>
  BY DEF Visit, IInv, TypeOK, Running
<1>3. \A u \in Worker \ {t} : Untouched(u)
  BY <1>1, <1>2 DEF Write, Untouched, IInv, TypeOK
<1>4. /\ todo'[t] = todo[t] \ {x} /\ Target(t)' = Target(t) /\ Live(t)' = Live(t)
      /\ \A y \in Entity \ {x} : written'[t][y] = written[t][y] /\ Version(t, y)' = Version(t, y)
  BY <1>1, <1>2 DEF IInv, TypeOK, Write, Target, Live, Version, tables
<1>5. written[t][x] # None => written'[t][x] # None
  BY <1>1, <1>2, CountIsNat DEF Write, IInv, TypeOK
<1>6. Begun(t)' /\ Upserting(t)' /\ Upserted(t)' /\ Own(t)'
  <2>1. Begun(t)' /\ Upserting(t)'
    BY <1>2 DEF Begun, Upserting
  <2>2. Upserted(t)'
    BY <1>2, <1>4 DEF Upserted, Resolved, IInv, Transaction, tables
  <2>3. \A m \in added[t] : written'[t][m[2]] # None
    <3> SUFFICES ASSUME NEW m \in added[t] PROVE written'[t][m[2]] # None
      OBVIOUS
    <3>1. m[2] \in Entity /\ written[t][m[2]] # None
      BY <1>2 DEF IInv, Transaction, Own, TypeOK
    <3> QED BY <1>4, <1>5, <3>1
  <2> QED BY <1>2, <1>4, <2>1, <2>2, <2>3 DEF Own, IInv, Transaction, tables
<1>7. RowsAreHeld'
  <2>1. CASE UNCHANGED <<written, holder>>
    BY <1>2, <1>3, <2>1, RowsStay
  <2>2. CASE ~UNCHANGED <<written, holder>>
    <3>1. \E version : Write(t, x, version)
      BY <1>1, <2>2
    <3> QED BY <1>1, <1>2, <1>3, <3>1, RowWritten
  <2> QED BY <2>1, <2>2
<1>8. ChunksAreHeld'
  BY <1>2, <1>3, ChunksStay DEF tables
<1>9. \A y \in Entity : Mentioned(Live(t), y)' <=> Mentioned(Live(t), y)
  BY <1>4 DEF Mentioned
<1>10. CASE pc[t] = "count"
  <2>1. pc'[t] = "count" /\ Counting(t) /\ Pruning(t)
    BY <1>2, <1>10 DEF IInv, Transaction
  <2>2. \/ Version(t, x) = Gone /\ written' = written
        \/ Version(t, x) # Gone /\ written'[t][x] \in Nat \ {0}
    BY <1>1, <1>2, <1>10, <2>1, CountIsNat DEF Write, Counting, IInv, TypeOK
  <2>3. Counting(t)'
    <3>1. \A y \in Entity : Mentioned(snapshot[t], y)' <=> Mentioned(snapshot[t], y)
      BY <1>2 DEF Mentioned
    <3>2. written[t][x] # 0 \/ written'[t][x] # 0
      BY <2>2 DEF Version
    <3>3. written'[t][x] # 0
      BY <2>2, <3>2 DEF Version
    <3> QED BY <1>2, <1>4, <1>9, <2>1, <3>1, <3>3 DEF Counting
  <2>4. Zeroing(t)'
    BY <2>1 DEF Zeroing
  <2>5. Pruning(t)'
    BY <1>2, <1>4, <1>10, <2>1, <2>2 DEF Pruning
  <2>6. Late(t, e)' => written'[t][e] # None
    <3>1. Version(t, e) # Gone
      BY <1>2, AnchorIsLive
    <3>2. Late(t, e)' => Late(t, e) \/ e = x
      BY <1>4, <2>1, <1>10 DEF Late
    <3> QED BY <1>4, <1>5, <2>2, <3>1, <3>2 DEF IInv, TypeOK
  <2>7. Transaction(t)'
    BY <1>6, <2>3, <2>4, <2>5 DEF Transaction
  <2> QED BY <1>2, <1>3, <1>7, <1>8, <2>1, <2>6, <2>7, Together
<1>11. CASE pc[t] = "zero"
  <2>1. pc'[t] = "zero" /\ Zeroing(t) /\ Pruning(t)
    BY <1>2, <1>11 DEF IInv, Transaction
  <2>2. \/ Version(t, x) = Gone /\ written' = written /\ Version(t, x)' = Gone
        \/ Version(t, x) # Gone /\ written'[t][x] = 0 /\ Version(t, x)' = 0
    BY <1>1, <1>2, <1>11 DEF Write, Version, IInv, TypeOK, tables
  <2>3. Zeroing(t)'
    <3> SUFFICES ASSUME NEW y \in Entity
                 PROVE  /\ y \in todo'[t] \/ Version(t, y)' = 0 => ~Mentioned(Live(t), y)'
                        /\ Mentioned(Live(t), y)' \/ Version(t, y)' \in {0, Gone} \/ y \in todo'[t]
      BY DEF Zeroing
    <3>1. /\ y \in todo[t] \/ Version(t, y) = 0 => ~Mentioned(Live(t), y)
          /\ Mentioned(Live(t), y) \/ Version(t, y) \in {0, Gone} \/ y \in todo[t]
      BY <1>11, <2>1 DEF Zeroing
    <3>2. CASE y = x
      BY <1>1, <1>4, <1>9, <2>2, <3>1, <3>2
    <3>3. CASE y # x
      BY <1>4, <1>9, <3>1, <3>3
    <3> QED BY <3>2, <3>3
  <2>4. Counting(t)'
    BY <2>1 DEF Counting
  <2>5. Pruning(t)'
    BY <1>2, <1>4, <1>9, <1>11, <2>1, <2>2 DEF Pruning
  <2>6. Transaction(t)'
    BY <1>6, <2>3, <2>4, <2>5 DEF Transaction
  <2>7. written'[t][e] # None
    BY <1>4, <1>5, <1>11 DEF IInv, Late
  <2> QED BY <1>2, <1>3, <1>7, <1>8, <2>1, <2>6, <2>7, Together
<1>12. CASE pc[t] = "prune"
  <2>1. pc'[t] = "prune" /\ Pruning(t)
    BY <1>2, <1>12 DEF IInv, Transaction
  <2>2. \/ Version(t, x) # 0 /\ written' = written /\ Version(t, x)' = Version(t, x)
        \/ Version(t, x) = 0 /\ written'[t][x] = Gone /\ Version(t, x)' = Gone
    BY <1>1, <1>2, <1>12 DEF Write, Version, IInv, TypeOK, tables
  <2>3. Counting(t)' /\ Zeroing(t)'
    BY <2>1 DEF Counting, Zeroing
  <2>4. Pruning(t)'
    BY <1>2, <1>4, <1>9, <1>12, <2>1, <2>2 DEF Pruning
  <2>5. Transaction(t)'
    BY <1>6, <2>3, <2>4 DEF Transaction
  <2>6. written'[t][e] # None
    BY <1>4, <1>5, <1>12 DEF IInv, Late
  <2> QED BY <1>2, <1>3, <1>7, <1>8, <2>1, <2>5, <2>6, Together
<1> QED BY <1>2, <1>10, <1>11, <1>12

LEMMA FailKeeps ==
  ASSUME NEW e \in Entity, IInv(e), TypeOK', NEW t \in Worker, Fail(t)
  PROVE  IInv(e)'
<1>1. /\ pc' = [pc EXCEPT ![t] = "failed"] /\ Release(t)
      /\ UNCHANGED <<tables, snapshot, todo, written, added, dropped>>
  BY DEF Fail
<1>2. pc'[t] = "failed" /\ ~Running(t)' /\ \A u \in Worker \ {t} : Untouched(u) /\ Running(u)' = Running(u)
  BY <1>1 DEF Untouched, Running, IInv, TypeOK
<1>3. Transaction(t)'
  <2>1. Own(t)'
    BY <1>1, <1>2 DEF Own, Target, IInv, Transaction, tables
  <2> QED BY <1>2, <2>1 DEF Transaction, Begun, Upserting, Upserted, Counting, Zeroing, Pruning
<1>4. RowsAreHeld'
  <2> SUFFICES ASSUME NEW u \in Worker, Running(u)', NEW x \in Entity, written'[u][x] # None
               PROVE  holder'[x] = u
    BY DEF RowsAreHeld
  <2>1. u # t /\ holder[x] = u
    BY <1>1, <1>2 DEF IInv, RowsAreHeld
  <2> QED BY <1>1, <2>1 DEF Release
<1>5. ChunksAreHeld'
  BY <1>1, <1>2 DEF IInv, ChunksAreHeld, tables
<1>6. ~Late(t, e)'
  BY <1>2 DEF Late
<1> QED BY <1>1, <1>2, <1>3, <1>4, <1>5, <1>6, Together

\* No other transaction is past the first statement of its prune, nor has it
\* written a row that this one has.
LEMMA CommitAlone ==
  ASSUME NEW e \in Entity, IInv(e), NEW t \in Worker, pc[t] = "prune", NEW u \in Worker \ {t}
  PROVE  /\ ~Late(u, e)
         /\ Running(u) => \A x \in Entity : written[u][x] = None \/ written[t][x] = None
<1>1. Running(t) /\ Late(t, e)
  BY DEF Running, Late
<1>2. holder[e] = t
  BY <1>1 DEF IInv, RowsAreHeld
<1>3. Late(u, e) => Running(u)
  BY DEF Running, Late
<1> QED BY <1>1, <1>2, <1>3 DEF IInv, RowsAreHeld

LEMMA CommitKeeps ==
  ASSUME NEW e \in Entity, IInv(e), TypeOK', NEW t \in Worker, Commit(t)
  PROVE  IInv(e)'
<1>1. /\ pc[t] = "prune" /\ todo[t] = {}
      /\ row' = [x \in Entity |-> Version(t, x)]
      /\ mentions' = Visible(t)
      /\ chunks' = chunks \ dropped[t]
      /\ pc' = [pc EXCEPT ![t] = "done"]
      /\ Release(t)
      /\ UNCHANGED <<operation, snapshot, todo, written, added, dropped>>
  BY DEF Commit
<1>2. Running(t) /\ Transaction(t) /\ Visible(t) = Live(t) /\ Target(t) \in Document
  BY <1>1, VisibleIsLive DEF Running, IInv, Transaction, TypeOK, Operation, Target
<1>3. /\ pc'[t] = "done" /\ ~Running(t)'
      /\ \A u \in Worker \ {t} : Untouched(u) /\ Running(u)' = Running(u) /\ Target(u)' = Target(u)
  BY <1>1 DEF Untouched, Running, Target, IInv, TypeOK
<1>4. \A x \in Entity : /\ Version(t, x) # 0
                       /\ (Mentioned(Live(t), x) \/ Version(t, x) = Gone)
  BY <1>1, <1>2 DEF Transaction, Pruning
<1>5. \A m \in Live(t) : m[1] \in Document /\ m[2] \in Entity /\ Version(t, m[2]) # Gone
  <2> SUFFICES ASSUME NEW m \in Live(t)
               PROVE  m[1] \in Document /\ m[2] \in Entity /\ Version(t, m[2]) # Gone
    OBVIOUS
  <2>1. m[1] \in Document /\ m[2] \in Entity
    BY DEF Live, IInv, TypeOK
  <2>2. written[t][m[2]] # Gone
    BY <1>2, <2>1 DEF Transaction, Pruning, Mentioned
  <2>3. m \in mentions => row[m[2]] # Gone
    BY DEF IInv, Committed
  <2>4. m \in added[t] => written[t][m[2]] # None
    BY <1>2 DEF Transaction, Own
  <2> QED BY <2>1, <2>2, <2>3, <2>4 DEF Version, Live
<1>6. Committed'
  <2>1. Anchors \subseteq stored'
    BY <1>2 DEF Commit, IInv, Committed, TypeOK, Operation, Transaction, Own, Target
  <2>2. \A d \in stored' : \A x \in Graph[d] : <<d, x>> \in Live(t)
    <3> SUFFICES ASSUME NEW d \in stored', NEW x \in Graph[d] PROVE <<d, x>> \in Live(t)
      OBVIOUS
    <3>1. CASE d \in stored \ dropped[t]
      BY <3>1 DEF Live, IInv, Committed, OnlyOrphansArePruned
    <3>2. CASE operation[t].kind = "graph" /\ Target(t) \in chunks /\ d = Target(t)
      BY <1>1, <1>2, <3>2 DEF Live, Transaction, Own, Upserted, Resolved
    <3>3. operation[t].kind = "graph" => dropped[t] = {}
      BY <1>2 DEF Transaction, Own
    <3> QED BY <3>1, <3>2, <3>3 DEF Commit
  <2>3. OnlyOrphansArePruned'
    BY <1>1, <1>2, <1>5, <2>2 DEF OnlyOrphansArePruned
  <2>4. \A m \in mentions' : m[1] \in chunks'
    BY <1>1, <1>2 DEF Live, IInv, Committed, ChunksAreHeld
  <2>5. \A m \in mentions' : row'[m[2]] # Gone
    BY <1>1, <1>2, <1>5
  <2>6. \A x \in Entity : row'[x] # 0 /\ (row'[x] # Gone => Mentioned(mentions, x)')
    BY <1>1, <1>2, <1>4 DEF Mentioned
  <2> QED BY <2>1, <2>3, <2>4, <2>5, <2>6 DEF Committed
<1>7. \A u \in Worker : Transaction(u)'
  <2> SUFFICES ASSUME NEW u \in Worker PROVE Transaction(u)'
    OBVIOUS
  <2>1. Begun(u)' /\ Own(u)'
    BY <1>1, <1>3 DEF Begun, Own, Running, Target, IInv, Transaction
  <2>2. Upserting(u)' /\ Upserted(u)'
    BY <1>1, <1>3 DEF Upserting, Upserted, Resolved, Target, Untouched, IInv, Transaction
  <2>3. CASE u = t
    BY <1>3, <2>1, <2>2, <2>3 DEF Transaction, Counting, Zeroing, Pruning
  <2>4. CASE u # t
    <3>1. pc'[u] = pc[u] /\ pc[u] \notin {"zero", "prune"}
      BY <1>1, <1>3, <2>4, CommitAlone DEF Untouched, Late
    <3>2. Counting(u)'
      <4> SUFFICES ASSUME pc[u] = "count", NEW x \in Entity, x \notin todo[u], written[u][x] = 0
                   PROVE  ~Mentioned(Live(u), x)'
        BY <1>1, <3>1 DEF Counting, Mentioned, IInv, Transaction
      <4>1. Running(u) /\ written[t][x] = None
        BY <1>1, <2>4, CommitAlone DEF Running
      <4>2. ~Mentioned(Live(u), x)
        BY DEF IInv, Transaction, Counting
      <4>3. \A m \in added[t] : m[2] # x
        BY <1>2, <4>1 DEF Transaction, Own
      <4>4. mentions' \subseteq mentions \cup added[t]
        BY <1>1, <1>2 DEF Live
      <4> QED BY <1>1, <4>2, <4>3, <4>4 DEF Mentioned, Live
    <3>3. Pruning(u)'
      BY <1>1, <1>3, <2>4, <3>1 DEF Pruning, IInv, Transaction
    <3> QED BY <2>1, <2>2, <3>1, <3>2, <3>3 DEF Transaction, Zeroing
  <2> QED BY <2>3, <2>4
<1>8. RowsAreHeld'
  <2> SUFFICES ASSUME NEW u \in Worker, Running(u)', NEW x \in Entity, written'[u][x] # None
               PROVE  holder'[x] = u
    BY DEF RowsAreHeld
  <2>1. u # t /\ holder[x] = u
    BY <1>1, <1>3 DEF IInv, RowsAreHeld
  <2> QED BY <1>1, <2>1 DEF Release
<1>9. ChunksAreHeld'
  BY <1>1, <1>2, <1>3 DEF IInv, ChunksAreHeld
<1>10. \A u \in Worker : Late(u, e)' => written'[u][e] # None
  BY <1>1, <1>3 DEF Late, Untouched, IInv
<1> QED BY <1>6, <1>7, <1>8, <1>9, <1>10 DEF IInv

----------------------------------------------------------------------------
(* Every step keeps the invariant.                                         *)

LEMMA InvStep ==
  ASSUME NEW a \in Anchors, NEW e \in Graph[a]
  PROVE  IInv(e) /\ [Next]_vars => IInv(e)'
<1> SUFFICES ASSUME IInv(e), [Next]_vars PROVE IInv(e)'
  OBVIOUS
<1>1. e \in Entity /\ TypeOK'
  BY TypeStep DEF IInv
<1>2. CASE UNCHANGED vars
  <2>1. \A u \in Worker : Untouched(u) /\ UNCHANGED tables /\ UNCHANGED holder
    BY <1>2 DEF vars, tables, Untouched
  <2>2. Committed' /\ \A u \in Worker : Transaction(u)'
    <3>1. Committed'
      BY <1>2, FrameCommitted DEF IInv, vars, tables
    <3>2. UNCHANGED tables
      BY <1>2 DEF vars, tables
    <3> QED BY <2>1, <3>1, <3>2, FrameTransaction DEF IInv
  <2>3. RowsAreHeld' /\ ChunksAreHeld' /\ \A u \in Worker : Late(u, e)' => written'[u][e] # None
    BY <2>1 DEF IInv, RowsAreHeld, ChunksAreHeld, Running, Late, Untouched, tables
  <2> QED BY <1>1, <2>2, <2>3 DEF IInv
<1>3. ASSUME NEW t \in Worker,
             \/ BeginGraph(t) \/ Upsert(t) \/ InsertMentions(t) \/ DropDocument(t)
             \/ CountStatement(t) \/ ZeroStatement(t) \/ PruneStatement(t) \/ Visit(t)
             \/ Commit(t) \/ Fail(t)
      PROVE  IInv(e)'
  BY <1>1, <1>3, BeginGraphKeeps, UpsertKeeps, InsertMentionsKeeps, DropDocumentKeeps,
     CountStatementKeeps, ZeroStatementKeeps, PruneStatementKeeps, VisitKeeps, CommitKeeps, FailKeeps
<1> QED BY <1>2, <1>3 DEF Next

----------------------------------------------------------------------------
(* The theorems.                                                           *)

\* The tables, and what each transaction holds and has written, have their
\* types, whatever stands (the transactions of entity_graph.rs and mod.rs).
THEOREM TypeCorrect == Spec => []TypeOK
<1>1. Init => TypeOK
  BY TypeInit
<1>2. TypeOK /\ [Next]_vars => TypeOK'
  BY TypeStep
<1> QED BY <1>1, <1>2, PTL DEF Spec

\* Pruning takes no entity that a stored graph mentions, nor a mention with it,
\* for any number of connections, as long as one graph stands.
THEOREM PrunesOrphans == AnchorStands => (Spec => []OnlyOrphansArePruned)
<1> SUFFICES ASSUME AnchorStands PROVE Spec => []OnlyOrphansArePruned
  OBVIOUS
<1>1. PICK a \in Anchors : Graph[a] # {}
  BY DEF AnchorStands
<1>2. PICK e \in Graph[a] : e \in Entity
  BY <1>1
<1>3. Init => IInv(e)
  BY <1>2, InvInit
<1>4. IInv(e) /\ [Next]_vars => IInv(e)'
  BY InvStep
<1>5. IInv(e) => OnlyOrphansArePruned
  BY DEF IInv, Committed
<1> QED BY <1>3, <1>4, <1>5, PTL DEF Spec

\* Once a transaction has committed, the entities are those with a mention,
\* even while others run: what prune_orphan_entities is there for.
THEOREM PrunesAllOrphans == AnchorStands => (Spec => []EntitiesAreMentioned)
<1> SUFFICES ASSUME AnchorStands PROVE Spec => []EntitiesAreMentioned
  OBVIOUS
<1>1. PICK a \in Anchors : Graph[a] # {}
  BY DEF AnchorStands
<1>2. PICK e \in Graph[a] : e \in Entity
  BY <1>1
<1>3. Init => IInv(e)
  BY <1>2, InvInit
<1>4. IInv(e) /\ [Next]_vars => IInv(e)'
  BY InvStep
<1>5. IInv(e) => EntitiesAreMentioned
  <2> SUFFICES ASSUME IInv(e), NEW t \in Worker, pc[t] = "done", NEW x \in Entity
               PROVE  row[x] # Gone <=> Count(mentions, x) > 0
    BY DEF EntitiesAreMentioned
  <2>1. Count(mentions, x) > 0 <=> Mentioned(mentions, x)
    BY CountIsNat DEF IInv, TypeOK
  <2>2. row[x] # Gone <=> Mentioned(mentions, x)
    BY DEF IInv, Committed, Mentioned
  <2> QED BY <2>1, <2>2
<1> QED BY <1>3, <1>4, <1>5, PTL DEF Spec

=============================================================================
