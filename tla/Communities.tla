---------------------------- MODULE Communities ----------------------------
(***************************************************************************)
(* Community detection (community.rs, community_manager.rs) on the graph of *)
(* a document: the nodes are moved one by one, in passes, to the best       *)
(* community of a neighbour, and what results is summarised in batches.     *)
(*                                                                         *)
(* A node is the key of its entity, a community is called by the node it    *)
(* started from (the index of the code).  Floating point is replaced by     *)
(* integers: a gain is scaled by the square of the total weight, and where  *)
(* the exact gain is zero rounding may leave it on either side.             *)
(***************************************************************************)
EXTENDS EntityGraph, Functions

CONSTANTS
  MinEntities,      \* MIN_ENTITIES_FOR_COMMUNITIES
  MaxIterations,    \* max_iterations
  MaxPasses,        \* local passes of an iteration
  BatchSize,        \* SUMMARY_BATCH_SIZE
  GainParts,        \* min_modularity_gain is one GainParts-th
  Given             \* graphs that are there from the start: functions from edges

ASSUME LimitsAssumption ==
  /\ {MinEntities, MaxIterations, MaxPasses, BatchSize, GainParts} \subseteq Nat \ {0}
ASSUME GivenAssumption ==
  \A g \in Given :
    /\ IsFiniteSet(DOMAIN g)
    /\ \A e \in DOMAIN g : /\ e \in Edge /\ e.source # e.target /\ e.weight # 0
                           /\ e.chunk = 0 /\ g[e] \in Nat \ {0}

VARIABLES
  adjacency,    \* adjacency[<<k, l>>]: the weight between two nodes
  assignment,   \* community_assignment
  sizes,        \* community_sizes
  degrees,      \* community_degrees
  left,         \* nodes the current pass has yet to visit
  movesMade,    \* moves_made
  pass,         \* local_pass
  iteration,    \* iteration
  best,         \* internal weight at best_modularity, -1 before the first
  communities,  \* communities found that have no summary yet
  summarised    \* communities with a summary

louvainVars == <<assignment, sizes, degrees, left, movesMade, pass, iteration, best>>
vars == <<buildVars, adjacency, louvainVars, communities, summarised>>

Nodes == Keys
Before(k, l) == k[1] < l[1] \/ (k[1] = l[1] /\ k[2] < l[2])

\* node_index: of the entities of one name the last in key order has its edges.
NodeOf(name) == CHOOSE k \in Nodes : k[1] = name /\ \A l \in Nodes : l[1] = name => l[2] <= k[2]
Ends(e) == {NodeOf(e.source[1]), NodeOf(e.target[1])}

\* build_sparse_graph: parallel edges add up, an edge between namesakes is dropped.
WeightBetween(k, l) ==
  IF k = l THEN 0
  ELSE SumFunction([e \in {x \in Edges : Ends(x) = {k, l}} |-> e.weight * relationships[e]])

Adjacent(k, l) == adjacency[<<k, l>>] > 0
Neighbours(n) == {m \in Nodes : Adjacent(n, m)}
Degree(n) == SumFunction([m \in Nodes |-> adjacency[<<n, m>>]])
TotalWeight == SumFunction([n \in Nodes |-> Degree(n)])
Members(c) == {n \in Nodes : assignment[n] = c}
Connection(n, c) == SumFunction([m \in Members(c) |-> adjacency[<<n, m>>]])
-----------------------------------------------------------------------------
\* analyze_graph: a small graph is one community, a larger one is clustered
\* (louvain_clustering starts with every node alone).
BuildSparseGraph ==
  adjacency' = [p \in Nodes \X Nodes |-> WeightBetween(p[1], p[2])]

SkipDetection ==
  /\ stage = "built"
  /\ Nodes = {} \/ Cardinality(Nodes) < MinEntities
  /\ stage' = "skipped"
  /\ UNCHANGED <<chunk, items, entities, mentions, relationships, seen,
                 adjacency, louvainVars, communities, summarised>>

StartDetection ==
  /\ stage = "built"
  /\ Nodes # {} /\ Cardinality(Nodes) >= MinEntities
  /\ stage' = "louvain"
  /\ BuildSparseGraph
  /\ assignment' = [n \in Nodes |-> n]
  /\ sizes' = [n \in Nodes |-> 1]
  /\ degrees' = [n \in Nodes |-> SumFunction([m \in Nodes |-> WeightBetween(n, m)])]
  /\ left' = Nodes /\ movesMade' = FALSE /\ pass' = 1 /\ iteration' = 1 /\ best' = -1
  /\ UNCHANGED <<chunk, items, entities, mentions, relationships, seen, communities, summarised>>

\* find_best_community: the gain of joining c, times the square of the total
\* weight.  (The resolution is 1, the default, which nothing overrides.)
Gain(n, c) == Connection(n, c) * TotalWeight - Degree(n) * degrees[c]

\* Mutation of Candidates: any community will do.
AnyCommunity(n) == {assignment[m] : m \in Nodes} \ {assignment[n]}

Candidates(n) == {assignment[m] : m \in Neighbours(n)} \ {assignment[n]}

\* The communities the node may go to: candidates with the largest gain when it
\* is positive, in the order of a hash map; where it is zero, rounding decides.
\* Staying is not given a gain to compare with.
BestCommunities(n) ==
  LET top == {c \in Candidates(n) : \A d \in Candidates(n) : Gain(n, c) >= Gain(n, d)}
      gains == {Gain(n, c) : c \in top}
  IN  IF \E g \in gains : g > 0 THEN top
      ELSE {assignment[n]} \cup {c \in top : Gain(n, c) = 0}

\* Mutation of Move: the community that is left keeps the degree of the node.
MoveKeepsDegree(n, c) ==
  LET old == assignment[n]
  IN  /\ assignment' = [assignment EXCEPT ![n] = c]
      /\ sizes' = [sizes EXCEPT ![old] = @ - 1, ![c] = @ + 1]
      /\ degrees' = [degrees EXCEPT ![c] = @ + Degree(n)]

Move(n, c) ==
  LET old == assignment[n]
  IN  /\ assignment' = [assignment EXCEPT ![n] = c]
      /\ sizes' = [sizes EXCEPT ![old] = @ - 1, ![c] = @ + 1]
      /\ degrees' = [degrees EXCEPT ![old] = @ - Degree(n), ![c] = @ + Degree(n)]

\* The next node of the pass is visited.
Visit ==
  /\ stage = "louvain"
  /\ \E n \in left :
       /\ \A m \in left \ {n} : Before(n, m)
       /\ left' = left \ {n}
       /\ \E c \in BestCommunities(n) :
            IF c = assignment[n]
            THEN UNCHANGED <<assignment, sizes, degrees, movesMade>>
            ELSE Move(n, c) /\ movesMade' = TRUE
  /\ UNCHANGED <<buildVars, adjacency, pass, iteration, best, communities, summarised>>

\* Mutation of AnotherPass: the number of passes is not limited.
AnotherPassUnlimited ==
  /\ stage = "louvain" /\ left = {} /\ movesMade
  /\ left' = Nodes /\ movesMade' = FALSE
  /\ pass' = IF pass < MaxPasses THEN pass + 1 ELSE pass
  /\ UNCHANGED <<buildVars, adjacency, assignment, sizes, degrees, iteration, best,
                 communities, summarised>>

\* Another local pass while moves are made, ten at most.
AnotherPass ==
  /\ stage = "louvain" /\ left = {}
  /\ movesMade /\ pass < MaxPasses
  /\ left' = Nodes /\ movesMade' = FALSE /\ pass' = pass + 1
  /\ UNCHANGED <<buildVars, adjacency, assignment, sizes, degrees, iteration, best,
                 communities, summarised>>

\* calculate_modularity: the weight inside communities is all that varies in it,
\* the term that is subtracted does not depend on the assignment.
Internal == SumFunction([n \in Nodes |-> Connection(n, assignment[n])])
SquaredDegrees == SumFunction([n \in Nodes |-> Degree(n) * Degree(n)])

\* current_modularity > best_modularity + min_modularity_gain, where the first
\* best_modularity is -1.
Improved ==
  IF TotalWeight = 0 THEN best = -1
  ELSE IF best = -1
       THEN GainParts * (Internal * TotalWeight - SquaredDegrees)
              > (1 - GainParts) * TotalWeight * TotalWeight
       ELSE GainParts * (Internal - best) > TotalWeight

Converging == ~movesMade \/ pass = MaxPasses

AnotherIteration ==
  /\ stage = "louvain" /\ left = {} /\ Converging
  /\ Improved /\ iteration < MaxIterations
  /\ best' = Internal
  /\ left' = Nodes /\ movesMade' = FALSE /\ pass' = 1 /\ iteration' = iteration + 1
  /\ UNCHANGED <<buildVars, adjacency, assignment, sizes, degrees, communities, summarised>>

\* What detect_communities returns of a community: an identifier of its own and the
\* names of its entities, without their types.
Output(c) == [id |-> c, entity_ids |-> {n[1] : n \in Members(c)}]

\* The nodes are grouped by community; the work state of the function is gone.
Group ==
  /\ stage = "louvain" /\ left = {} /\ Converging
  /\ ~Improved \/ iteration = MaxIterations
  /\ stage' = "summaries"
  /\ communities' = {Output(c) : c \in {assignment[n] : n \in Nodes}}
  /\ UNCHANGED <<chunk, items, entities, mentions, relationships, seen, adjacency,
                 louvainVars, summarised>>

\* generate_summaries_batch: the summaries of a batch are made concurrently and
\* all of them must be embedded; a language model that fails is replaced by a
\* synthetic summary.
SummariseBatch ==
  /\ stage = "summaries" /\ communities # {}
  /\ \E batch \in SUBSET communities :
       /\ \/ Cardinality(batch) = BatchSize
          \/ batch = communities /\ Cardinality(batch) < BatchSize
       /\ communities' = communities \ batch
       /\ summarised' = summarised \cup batch
  /\ UNCHANGED <<buildVars, adjacency, louvainVars>>

\* analyze_graph returns the communities ...
Return ==
  /\ stage = "summaries" /\ communities = {}
  /\ stage' = "analysed"
  /\ UNCHANGED <<chunk, items, entities, mentions, relationships, seen, adjacency,
                 louvainVars, communities, summarised>>

\* Mutation of SummariesFail: the batches before the failure are kept.
SummariesFailPartly ==
  /\ stage = "summaries" /\ communities # {}
  /\ stage' = "skipped"
  /\ communities' = {}
  /\ UNCHANGED <<chunk, items, entities, mentions, relationships, seen, adjacency,
                 louvainVars, summarised>>

\* ... or no community at all, when one summary cannot be embedded.
SummariesFail ==
  /\ stage = "summaries" /\ communities # {}
  /\ stage' = "skipped"
  /\ communities' = {} /\ summarised' = {}
  /\ UNCHANGED <<chunk, items, entities, mentions, relationships, seen, adjacency, louvainVars>>

AnalyseNext ==
  \/ SkipDetection \/ StartDetection \/ Visit \/ AnotherPass \/ AnotherIteration \/ Group
  \/ SummariseBatch \/ Return \/ SummariesFail

\* A document whose extraction starts, or one whose graph is given: one relationship
\* after the other, every name of one type, in chunk 0.
GivenInit ==
  \E g \in Given :
    /\ relationships = g
    /\ stage = "built" /\ chunk = 0 /\ items = 0
    /\ LET named == UNION {{e.source, e.target} : e \in DOMAIN g}
       IN  /\ entities = [k \in named |-> [display |-> 0, description |-> 0]]
           /\ mentions = {0} \X named
           /\ seen = named \X {0} \X {0}

Init ==
  /\ BuildInit \/ GivenInit
  /\ adjacency = << >> /\ assignment = << >> /\ sizes = << >> /\ degrees = << >>
  /\ left = {} /\ movesMade = FALSE /\ pass = 0 /\ iteration = 0 /\ best = -1
  /\ communities = {} /\ summarised = {}

Build == BuildNext /\ UNCHANGED <<adjacency, louvainVars, communities, summarised>>
Next == Build \/ AnalyseNext
Spec == Init /\ [][Next]_vars

\* The analysis runs on by itself, except where it waits for a language model or
\* the embedder: their clients have no timeout, so no answer is promised.
AwaitsProviders == stage = "summaries" /\ communities # {}
FairSpec == Spec /\ WF_vars(~AwaitsProviders /\ AnalyseNext)
-----------------------------------------------------------------------------
\* The values of the variables.
Stages == {"entities", "relationships", "embed", "failed", "built",
           "skipped", "louvain", "summaries", "analysed"}
Detecting == stage = "louvain"

TypeOK ==
  /\ BuildTypeOK
  /\ stage \in Stages
  /\ Detecting =>
       /\ adjacency \in [Nodes \X Nodes -> Nat]
       /\ assignment \in [Nodes -> Nodes]
       /\ sizes \in [Nodes -> 0 .. Cardinality(Nodes)] /\ degrees \in [Nodes -> Nat]
       /\ pass \in 1 .. MaxPasses /\ iteration \in 1 .. MaxIterations
       /\ left \subseteq Nodes

\* The sizes and degrees that louvain_clustering keeps incrementally are those of
\* the assignment, after every move of every pass: the sum that a gain is
\* computed from never drifts from the partition it stands for.
BookkeepingExact ==
  Detecting =>
    \A c \in Nodes :
      /\ sizes[c] = Cardinality(Members(c))
      /\ degrees[c] = SumFunctionOnSet([n \in Nodes |-> Degree(n)], Members(c))

\* A set of nodes that no edge leaves.
Closed(S) == \A n \in S : Neighbours(n) \subseteq S
Linked(n, m) == \A S \in SUBSET Nodes : Closed(S) /\ n \in S => m \in S

Returned == communities \cup summarised
Namesakes(name) == \E n, m \in Nodes : n # m /\ n[1] = name /\ m[1] = name

\* Two nodes are put in one community only if relationships connect them,
\* however many passes move them about and whichever ties are taken
\* (find_best_community); of two names that a community is returned with, some
\* entities that bear them are connected.
CommunitiesAreConnected ==
  /\ Detecting => \A n, m \in Nodes : assignment[n] = assignment[m] => Linked(n, m)
  /\ \A c \in Returned : \A x, y \in c.entity_ids :
       \E n, m \in Nodes : n[1] = x /\ m[1] = y /\ Linked(n, m)

\* Once the nodes are grouped every name of the graph is in a community, no
\* community is empty or has a name of its own making, and two communities share
\* a name only where entities of different types bear it (their names are all
\* that is returned, community.rs:88-92); the batches neither lose nor repeat a
\* community, and an analysis that fails keeps none (generate_summaries_batch).
CommunitiesPlaceNames ==
  /\ stage \in {"summaries", "analysed"} =>
       /\ UNION {c.entity_ids : c \in Returned} = {n[1] : n \in Nodes}
       /\ \A c, d \in Returned : c.id = d.id => c = d
       /\ \A c, d \in Returned : c = d \/ \A x \in c.entity_ids \cap d.entity_ids : Namesakes(x)
       /\ \A c \in Returned : c.entity_ids # {}
       /\ communities \cap summarised = {}
  /\ stage = "analysed" => communities = {}
  /\ stage = "skipped" => summarised = {}

\* The analysis of a graph ends although a node may go back and forth between
\* two communities for ever (passes and iterations are limited), unless a provider
\* never answers.
AnalysisEnds == (stage = "built" ~> stage \in {"skipped", "analysed"}) \/ <>[]AwaitsProviders
=============================================================================
