---------------------------- MODULE MemoryStore ----------------------------
(***************************************************************************)
(* Long-term memories (src/memory): the memory_entries table, the tools    *)
(* that store, retrieve and forget, and the maintenance task each server   *)
(* process runs over the shared table, which removes what was invalidated  *)
(* long ago and lets unimportant memories fade.                            *)
(*                                                                         *)
(* A maintenance cycle reads the fading memories once and writes them back *)
(* one by one.  Time is in days, importance in steps.  The time to live of *)
(* a memory is always null: no caller sets one.                            *)
(***************************************************************************)
EXTENDS Integers, Sequences, FiniteSets

CONSTANTS
  Memory,         \* ids of memories
  User,           \* user ids
  None,           \* no row
  Never,          \* invalidated_at IS NULL
  MaxImportance,  \* importance 1.0 in steps
  Requested,      \* importances clients may ask for, by memory
  Embedder,       \* whether the embedder may answer, by memory
  Threshold,      \* prune_threshold * 1.5, below it memories fade
  Decayed,        \* calculate_decayed_importance, by importance and days
  Recency,        \* e^(-0.023 * days) in steps, by days
  RecencyWeights, \* the values recency_weight is given, in tenths
  Window,         \* LIMIT of get_memories_for_pruning
  Retention,      \* days an invalidated memory is kept
  Faults,         \* whether maintenance cycles may fail
  Maintainer,     \* server processes over the database
  MaxDay          \* bound on the clock

Day == 0 .. MaxDay
Importance == 0 .. MaxImportance

ASSUME MemoryAssumption ==
  /\ None \notin [user : User, importance : Importance, original : Importance,
                  accessed : Day, embedded : BOOLEAN, invalidated : Day \cup {Never}]
  /\ Never \notin Int
  /\ {MaxImportance, Threshold, Window, Retention, MaxDay} \subseteq Nat
  /\ Requested \in [Memory -> SUBSET Int]
  /\ Embedder \in [Memory -> SUBSET BOOLEAN]
  /\ Faults \in BOOLEAN
  /\ RecencyWeights \subseteq 0 .. 10

\* Decay never strengthens a memory, and e^(-0.023 * days) falls with time.
ASSUME DecayAssumption ==
  /\ Decayed \in [Importance \X Day -> Importance]
  /\ \A i \in Importance, d \in Day : Decayed[i, d] <= i
  /\ Recency \in [Day -> Nat]
  /\ \A d, e \in Day : d <= e => Recency[d] >= Recency[e]

VARIABLES
  rows,    \* memory_entries, by id
  issued,  \* ids given out so far
  now,     \* the day
  pc,      \* the step each maintenance task is about to take
  copies   \* what is left of the rows each has read

vars == <<rows, issued, now, pc, copies>>

----------------------------------------------------------------------------
(* The table.                                                              *)

\* original is observed only: the importance the memory was stored with.
Row == [user : User, importance : Importance, original : Importance,
        accessed : Day, embedded : BOOLEAN, invalidated : Day \cup {Never}]

Copy == [id : Memory, importance : Importance, accessed : Day]

Stored == {m \in Memory : rows[m] # None}
Valid == {m \in Stored : rows[m].invalidated = Never}

\* The sets ORDER BY key DESC LIMIT n can return: ties go either way.
TopSets(S, key, n) ==
  {T \in SUBSET S :
     /\ Cardinality(T) <= n
     /\ \/ T = S
        \/ Cardinality(T) = n /\ \A a \in T, b \in S \ T : key[a] >= key[b]}

Init ==
  /\ rows = [m \in Memory |-> None]
  /\ issued = {}
  /\ now = 0
  /\ pc = [t \in Maintainer |-> "asleep"]
  /\ copies = [t \in Maintainer |-> <<>>]

----------------------------------------------------------------------------
(* The tools.                                                              *)

Clamp(i) == IF i < 0 THEN 0 ELSE IF i > MaxImportance THEN MaxImportance ELSE i

\* A memory whose embedding fails is stored without one.
StoreMemory(m, u) ==
  /\ m \notin issued
  /\ issued' = issued \cup {m}
  /\ \E i \in Requested[m], embedded \in Embedder[m] :
       rows' = [rows EXCEPT ![m] =
                  [user |-> u, importance |-> Clamp(i), original |-> Clamp(i),
                   accessed |-> now, embedded |-> embedded, invalidated |-> Never]]
  /\ UNCHANGED <<now, pc, copies>>

InvalidateMemory(m) ==
  /\ m \in Valid
  /\ rows' = [rows EXCEPT ![m].invalidated = now]
  /\ UNCHANGED <<issued, now, pc, copies>>

DeleteMemory(m) ==
  /\ m \in Stored
  /\ rows' = [rows EXCEPT ![m] = None]
  /\ UNCHANGED <<issued, now, pc, copies>>

----------------------------------------------------------------------------
(* Retrieval, which writes nothing: the sets of memories it can return.    *)

\* WHERE invalidated_at IS NULL AND user_id = ?; the user is optional.
VisibleTo(users) == {m \in Valid : rows[m].user \in users}

\* Bug variant: the condition on embeddings that the query by distance has.
QueryEmbedded(users, n) ==
  LET Strength == [m \in Valid |-> rows[m].importance]
  IN  TopSets({m \in VisibleTo(users) : rows[m].embedded}, Strength, n)

\* The order is by importance even when the query has an embedding: ranking by
\* similarity comes after the LIMIT, and keeps all it is given.
QueryMemories(users, n) ==
  LET Strength == [m \in Valid |-> rows[m].importance]
  IN  TopSets(VisibleTo(users), Strength, n)

\* PostgreSQL orders by distance, and sees only memories with an embedding.
QueryByEmbedding(users, n) ==
  LET Similarity == [m \in Valid |-> 0]
  IN  TopSets({m \in VisibleTo(users) : rows[m].embedded}, Similarity, n)

Days(m) == now - rows[m].accessed

\* (1 - w) * (0.8 + 0.2 * importance) + w * recency
Score(m, w) == (10 - w) * (4 * MaxImportance + rows[m].importance) + w * Recency[Days(m)]

\* Twice as many rows as asked for are fetched, and the best by score kept.
Ranked(fetched, limit, w) == UNION {TopSets(S, [m \in S |-> Score(m, w)], limit) : S \in fetched}

Retrieve(users, limit, w) == Ranked(QueryMemories(users, 2 * limit), limit, w)

RetrieveByEmbedding(users, limit, w) == Ranked(QueryByEmbedding(users, 2 * limit), limit, w)

----------------------------------------------------------------------------
(* Maintenance.                                                            *)

\* Bug variant: the comparison with the date a week ago is the wrong way round.
Recent(m) == rows[m].invalidated # Never /\ now - rows[m].invalidated <= Retention

\* invalidated_at < week_ago
Outdated(m) == rows[m].invalidated # Never /\ now - rows[m].invalidated > Retention

\* The session clean-up before it finds no session: nothing creates one.  On
\* SQLite the DELETE of what outlived its time to live comes before, and finds
\* nothing.
Prune(t) ==
  /\ pc[t] = "asleep"
  /\ rows' = [m \in Memory |-> IF m \in Stored /\ Outdated(m) THEN None ELSE rows[m]]
  /\ pc' = [pc EXCEPT ![t] = "list"]
  /\ UNCHANGED <<issued, now, copies>>

CopyOf(m) == [id |-> m, importance |-> rows[m].importance, accessed |-> rows[m].accessed]

\* Bug variant: every memory fades.
AllFading == Valid

Fading == {m \in Valid : rows[m].importance < Threshold}

\* ORDER BY importance_score ASC LIMIT 1000: the ways to list the weakest.
Listings ==
  {q \in UNION {[1 .. n -> Fading] : n \in 0 .. Window} :
     /\ \A i, j \in DOMAIN q :
          i < j => q[i] # q[j] /\ rows[q[i]].importance <= rows[q[j]].importance
     /\ \A m \in Fading \ {q[i] : i \in DOMAIN q} :
          Len(q) = Window /\ \A i \in DOMAIN q : rows[q[i]].importance <= rows[m].importance}

AfterDecay(t, rest) ==
  /\ copies' = [copies EXCEPT ![t] = rest]
  /\ pc' = [pc EXCEPT ![t] = IF rest = <<>> THEN "asleep" ELSE "decay"]

ListFading(t) ==
  /\ pc[t] = "list"
  /\ \E q \in Listings : AfterDecay(t, [i \in DOMAIN q |-> CopyOf(q[i])])
  /\ UNCHANGED <<rows, issued, now>>

\* Bug variant: INSERT OR REPLACE of the whole row.
ReplaceMemory(c, i) ==
  rows' = [rows EXCEPT ![c.id] =
             [user |-> CHOOSE u \in User : TRUE, importance |-> i, original |-> i,
              accessed |-> c.accessed, embedded |-> TRUE, invalidated |-> Never]]

\* UPDATE ... WHERE id = ?, of nothing if the memory was deleted meanwhile, and
\* whether or not it was invalidated.
UpdateMemory(c, i) ==
  rows' = IF c.id \in Stored THEN [rows EXCEPT ![c.id].importance = i] ELSE rows

\* Bug variant: the copy is written back as it was read in the first place.
DecayFromScratch(c) == Decayed[MaxImportance, now - c.accessed]

DecayedCopy(c) == Decayed[c.importance, now - c.accessed]

DecayNext(t) ==
  /\ pc[t] = "decay"
  /\ LET c == Head(copies[t])
     IN  IF DecayedCopy(c) = c.importance
         THEN UNCHANGED rows
         ELSE UpdateMemory(c, DecayedCopy(c))
  /\ AfterDecay(t, Tail(copies[t]))
  /\ UNCHANGED <<issued, now>>

\* A database error ends the cycle, at its removal (a cycle that is asleep stays
\* so) or after it, and so does a restart of the process.
CycleFails(t) ==
  /\ Faults
  /\ AfterDecay(t, <<>>)
  /\ UNCHANGED <<rows, issued, now>>

----------------------------------------------------------------------------
(* Specification.                                                          *)

Tick ==
  /\ now < MaxDay
  /\ now' = now + 1
  /\ UNCHANGED <<rows, issued, pc, copies>>

Client ==
  \E m \in Memory :
    \/ \E u \in User : StoreMemory(m, u)
    \/ InvalidateMemory(m)
    \/ DeleteMemory(m)

Maintain(t) == Prune(t) \/ ListFading(t) \/ DecayNext(t) \/ CycleFails(t)

Next == Client \/ Tick \/ \E t \in Maintainer : Maintain(t)

Spec == Init /\ [][Next]_vars

\* Time passes.  That maintenance goes on is not promised: a process may end
\* before its first interval is over, and its statements may fail for ever.
FairSpec == Spec /\ WF_vars(Tick)

----------------------------------------------------------------------------
(* Properties.                                                             *)

TypeOK ==
  /\ rows \in [Memory -> Row \cup {None}]
  /\ issued \subseteq Memory
  /\ now \in Day
  /\ pc \in [Maintainer -> {"asleep", "list", "decay"}]
  /\ copies \in [Maintainer -> Seq(Copy)]

Forgotten == issued \ Valid

\* What was forgotten, invalidated or deleted, stays so, although a maintenance
\* cycle that read it before writes it back after.
ForgottenStaysForgotten == [][Forgotten \subseteq Forgotten']_vars

\* However many cycles overlap and write back copies read long before, no memory
\* gets stronger than it was stored, and one that was stored at or above the limit
\* below which cycles list memories keeps its importance.  (That limit is the
\* code's rule, manager.rs:243-247; the documentation has another, see README.)
FadingIsBounded ==
  \A m \in Stored :
    /\ rows[m].importance <= rows[m].original
    /\ rows[m].original >= Threshold => rows[m].importance = rows[m].original

Callers == (SUBSET User) \ {{}}

\* A memory is left out of an answer only for want of room: an embedding it
\* lacks makes PostgreSQL pass it over.
RecallIsComplete ==
  \A users \in Callers, limit \in 1 .. Cardinality(Memory), w \in RecencyWeights :
    /\ \A answer \in Retrieve(users, limit, w) :
         Cardinality(answer) = limit \/ answer = VisibleTo(users)
    /\ \A answer \in RetrieveByEmbedding(users, limit, w) :
         Cardinality(answer) = limit \/ answer = {m \in VisibleTo(users) : rows[m].embedded}

\* Where the query goes by importance, no memory gets in before a more important
\* one unless it is more recent, or recency alone counts and theirs is the same.
RecallPrefersStronger ==
  \A users \in Callers, limit \in 1 .. Cardinality(Memory), w \in RecencyWeights :
    \A answer \in Retrieve(users, limit, w) :
      \A in \in answer, out \in VisibleTo(users) \ answer :
        rows[out].importance > rows[in].importance =>
          \/ rows[out].accessed < rows[in].accessed
          \/ w = 10 /\ Recency[Days(out)] = Recency[Days(in)]

\* Neither the limit of the query, taken before scores are known, nor the cut
\* after them leaves a caller with fewer memories than there is room for, or with
\* a weaker one for no reason of recency (retrieve, whose scores have no
\* similarity to the query in them).
RecallIsFair == RecallIsComplete /\ RecallPrefersStronger

\* An invalidated memory is removed once its retention is over, if the clock
\* gets that far and the removals of some process keep succeeding, although
\* others fail and cycles end at any statement.
InvalidatedAreRemoved ==
  []<><<\E t \in Maintainer : Prune(t)>>_vars =>
    \A m \in Memory :
      m \in Stored /\ rows[m].invalidated # Never /\ rows[m].invalidated + Retention < MaxDay
        ~> m \notin Stored

=============================================================================
