------------------------ MODULE Communities_proofs ------------------------
(***************************************************************************)
(* What holds of every graph built and of every partition found, for any    *)
(* names, types, weights, limits and given graphs.  That a community is     *)
(* connected rests on one fact: a node is always linked to the node its     *)
(* community is called by, since it only ever joins the community of a      *)
(* neighbour; and Linked is symmetric because the adjacency is.             *)
(***************************************************************************)
EXTENDS Communities, FiniteSetTheorems, TLAPS

(* Sums, which the definitions take with a fold.                           *)

\* Induction on finite sets, without an operator for what is proved of them: a
\* set of subsets that is not empty has a smallest one.
LEMMA SmallestSubset ==
  ASSUME NEW S, IsFiniteSet(S), NEW bad \in SUBSET SUBSET S, bad # {}
  PROVE  \E s \in bad : \A r \in bad : r \subseteq s => r = s
<1>1. IsWellFoundedOn(StrictSubsetOrdering(S), SUBSET S)
  BY FS_StrictSubsetOrderingWellFounded, FS_FiniteSubsetsOfFinite
<1>2. PICK s \in bad : \A r \in bad : ~(<<r, s>> \in StrictSubsetOrdering(S))
  BY <1>1, WFMin
<1> QED
  BY <1>2 DEF StrictSubsetOrdering

\* The partial sums of f over the subsets of S, each an element more.
PartialSums(g, f, S) ==
  g = [s \in SUBSET S |->
         IF s = {} THEN 0 ELSE LET x == CHOOSE x \in s : TRUE IN f[x] + g[s \ {x}]]

LEMMA SumIsPartialSum ==
  \A f, S : SumFunctionOnSet(f, S) = (CHOOSE g : PartialSums(g, f, S))[S]
BY DEF SumFunctionOnSet, FoldFunctionOnSet, MapThenFoldSet, PartialSums

\* There is one way at most to sum, whatever larger set a sum is a part of.
LEMMA PartialSumsAgree ==
  ASSUME NEW f, NEW B, NEW A \in SUBSET B, IsFiniteSet(A), NEW g, NEW h,
         PartialSums(g, f, A), PartialSums(h, f, B)
  PROVE  \A s \in SUBSET A : g[s] = h[s]
<1> DEFINE bad == {s \in SUBSET A : g[s] # h[s]}
<1> SUFFICES ASSUME bad # {} PROVE FALSE
  OBVIOUS
<1>1. PICK s \in bad : \A r \in bad : r \subseteq s => r = s
  <2>1. bad \in SUBSET SUBSET A
    OBVIOUS
  <2> HIDE DEF bad
  <2> QED
    BY <2>1, SmallestSubset
<1>2. CASE s = {}
  BY <1>2 DEF PartialSums
<1>3. CASE s # {}
  <2> DEFINE x == CHOOSE x \in s : TRUE
  <2>1. x \in s
    BY <1>3
  <2>2. g[s] = f[x] + g[s \ {x}] /\ h[s] = f[x] + h[s \ {x}]
    BY <1>3 DEF PartialSums
  <2>3. s \ {x} \in SUBSET A /\ s \ {x} \notin bad
    BY <1>1, <2>1
  <2> QED
    BY <2>2, <2>3
<1> QED
  BY <1>2, <1>3

\* There is one way at least.
LEMMA PartialSumsExist ==
  ASSUME NEW f, NEW S, IsFiniteSet(S)
  PROVE  \E g : PartialSums(g, f, S)
<1> DEFINE bad == {s \in SUBSET S : ~\E g : PartialSums(g, f, s)}
<1> SUFFICES ASSUME bad # {} PROVE FALSE
  OBVIOUS
<1>1. PICK T \in bad : \A r \in bad : r \subseteq T => r = T
  <2>1. bad \in SUBSET SUBSET S
    OBVIOUS
  <2> HIDE DEF bad
  <2> QED
    BY <2>1, SmallestSubset
<1>2. T \subseteq S /\ IsFiniteSet(T)
  BY FS_Subset
<1> DEFINE G(s) == CHOOSE g : PartialSums(g, f, s)
<1>3. \A s \in SUBSET T : s # T => PartialSums(G(s), f, s)
  <2> SUFFICES ASSUME NEW s \in SUBSET T, s # T PROVE PartialSums(G(s), f, s)
    OBVIOUS
  <2>1. s \in SUBSET S /\ s \notin bad
    BY <1>1, <1>2
  <2>2. \E g : PartialSums(g, f, s)
    BY <2>1
  <2> QED
    BY <2>2
<1> DEFINE x(s) == CHOOSE x \in s : TRUE
           h == [s \in SUBSET T |-> IF s = {} THEN 0 ELSE f[x(s)] + G(s \ {x(s)})[s \ {x(s)}]]
<1>4. \A s \in SUBSET T : s # {} => x(s) \in s
  OBVIOUS
<1>5. \A s \in SUBSET T : PartialSums(G(s), f, s) =>
        G(s) = [r \in SUBSET s |-> IF r = {} THEN 0 ELSE f[x(r)] + G(s)[r \ {x(r)}]]
  BY DEF PartialSums
<1> HIDE DEF G, x
<1>6. ASSUME NEW s \in SUBSET T, s # T
      PROVE  G(s)[s] = h[s]
  <2>1. PartialSums(G(s), f, s)
    BY <1>3, <1>6
  <2>2. CASE s = {}
    BY <1>5, <2>1, <2>2
  <2>3. CASE s # {}
    <3> DEFINE r == s \ {x(s)}
    <3>1. x(s) \in s /\ r \in SUBSET T /\ r # T /\ r \in SUBSET s
      BY <1>4, <2>3
    <3>2. G(s)[s] = f[x(s)] + G(s)[r]
      BY <1>5, <2>1, <2>3
    <3>3. h[s] = f[x(s)] + G(r)[r]
      BY <2>3
    <3>4. PartialSums(G(r), f, r) /\ IsFiniteSet(r)
      BY <1>2, <1>3, <3>1, FS_Subset
    <3> HIDE DEF h, r
    <3>5. G(r)[r] = G(s)[r]
      BY <2>1, <3>1, <3>4, PartialSumsAgree
    <3> QED
      BY <3>2, <3>3, <3>5
  <2> QED
    BY <2>2, <2>3
<1>7. \A s \in SUBSET T : s # {} => G(s \ {x(s)})[s \ {x(s)}] = h[s \ {x(s)}]
  <2> HIDE DEF h
  <2> QED
    BY <1>4, <1>6
<1>8. \A s \in SUBSET T : h[s] = IF s = {} THEN 0 ELSE f[x(s)] + h[s \ {x(s)}]
  BY <1>7
<1>9. h = [s \in SUBSET T |-> h[s]]
  OBVIOUS
<1> HIDE DEF h
<1>10. h = [s \in SUBSET T |-> IF s = {} THEN 0 ELSE f[x(s)] + h[s \ {x(s)}]]
  BY <1>8, <1>9
<1>11. PartialSums(h, f, T)
  BY <1>10 DEF PartialSums, x
<1> QED
  BY <1>11

\* A sum is that of what its definition picks first and of the rest.
LEMMA SumPicks ==
  ASSUME NEW f, NEW S, IsFiniteSet(S)
  PROVE  /\ S = {} => SumFunctionOnSet(f, S) = 0
         /\ S # {} => SumFunctionOnSet(f, S) =
                        LET x == CHOOSE x \in S : TRUE IN f[x] + SumFunctionOnSet(f, S \ {x})
<1> DEFINE G(s) == CHOOSE g : PartialSums(g, f, s)
<1>1. \A s \in SUBSET S : PartialSums(G(s), f, s)
  <2> SUFFICES ASSUME NEW s \in SUBSET S PROVE PartialSums(G(s), f, s)
    OBVIOUS
  <2>1. IsFiniteSet(s)
    BY FS_Subset
  <2>2. \E g : PartialSums(g, f, s)
    BY <2>1, PartialSumsExist
  <2> QED
    BY <2>2
<1>2. \A s \in SUBSET S : SumFunctionOnSet(f, s) = G(s)[s]
  BY SumIsPartialSum
<1> HIDE DEF G
<1>3. CASE S = {}
  <2>1. G(S)[S] = 0
    BY <1>1, <1>3 DEF PartialSums
  <2> QED
    BY <1>2, <1>3, <2>1
<1>4. CASE S # {}
  <2> DEFINE x == CHOOSE x \in S : TRUE
             r == S \ {x}
  <2>1. x \in S /\ r \in SUBSET S
    BY <1>4
  <2>2. G(S)[S] = f[x] + G(S)[r]
    BY <1>1, <1>4 DEF PartialSums
  <2> HIDE DEF x, r
  <2>3. IsFiniteSet(r) /\ PartialSums(G(r), f, r) /\ PartialSums(G(S), f, S)
    BY <1>1, <2>1, FS_Subset
  <2>4. G(r)[r] = G(S)[r]
    BY <2>1, <2>3, PartialSumsAgree
  <2>5. SumFunctionOnSet(f, S) = f[x] + SumFunctionOnSet(f, r)
    BY <1>2, <2>1, <2>2, <2>4
  <2> QED
    BY <1>4, <2>5 DEF x, r
<1> QED
  BY <1>3, <1>4

\* A sum of natural numbers is one.
LEMMA SumIsNatural ==
  ASSUME NEW f, NEW S, IsFiniteSet(S), \A x \in S : f[x] \in Nat
  PROVE  SumFunctionOnSet(f, S) \in Nat
<1> DEFINE bad == {s \in SUBSET S : SumFunctionOnSet(f, s) \notin Nat}
<1> SUFFICES ASSUME bad # {} PROVE FALSE
  OBVIOUS
<1>1. PICK s \in bad : \A r \in bad : r \subseteq s => r = s
  <2>1. bad \in SUBSET SUBSET S
    OBVIOUS
  <2> HIDE DEF bad
  <2> QED
    BY <2>1, SmallestSubset
<1>2. IsFiniteSet(s)
  BY FS_Subset
<1>3. s # {}
  <2>1. SumFunctionOnSet(f, {}) = 0
    BY SumPicks, FS_EmptySet
  <2> QED
    BY <2>1
<1> DEFINE x == CHOOSE x \in s : TRUE
           r == s \ {x}
<1>4. x \in s /\ r \in SUBSET S /\ r # s /\ r \subseteq s
  BY <1>3
<1>5. SumFunctionOnSet(f, s) = f[x] + SumFunctionOnSet(f, r)
  BY <1>2, <1>3, SumPicks
<1> HIDE DEF x, r
<1>6. SumFunctionOnSet(f, r) \in Nat
  BY <1>1, <1>4
<1>7. f[x] \in Nat
  BY <1>4
<1> QED
  BY <1>5, <1>6, <1>7

\* Any element of a set of natural numbers may be added last.
LEMMA SumSplits ==
  ASSUME NEW f, NEW S, IsFiniteSet(S), \A x \in S : f[x] \in Nat
  PROVE  \A x \in S : SumFunctionOnSet(f, S) = f[x] + SumFunctionOnSet(f, S \ {x})
<1> DEFINE bad == {s \in SUBSET S :
                     \E x \in s : SumFunctionOnSet(f, s) # f[x] + SumFunctionOnSet(f, s \ {x})}
<1> SUFFICES ASSUME bad # {} PROVE FALSE
  OBVIOUS
<1>1. PICK s \in bad : \A r \in bad : r \subseteq s => r = s
  <2>1. bad \in SUBSET SUBSET S
    OBVIOUS
  <2> HIDE DEF bad
  <2> QED
    BY <2>1, SmallestSubset
<1>2. PICK x \in s : SumFunctionOnSet(f, s) # f[x] + SumFunctionOnSet(f, s \ {x})
  OBVIOUS
<1> DEFINE y == CHOOSE y \in s : TRUE
           both == (s \ {x}) \ {y}
<1>3. y \in s /\ both = (s \ {y}) \ {x}
  BY <1>2
<1>4. SumFunctionOnSet(f, s) = f[y] + SumFunctionOnSet(f, s \ {y})
  <2>1. IsFiniteSet(s)
    BY FS_Subset
  <2> QED
    BY <1>2, <2>1, SumPicks
<1> HIDE DEF y, both
<1>5. x # y
  BY <1>2, <1>4
<1>6. SumFunctionOnSet(f, s \ {x}) = f[y] + SumFunctionOnSet(f, both)
  <2>1. s \ {x} \in SUBSET S /\ s \ {x} \notin bad /\ y \in s \ {x}
    BY <1>1, <1>2, <1>3, <1>5
  <2> QED
    BY <2>1 DEF both
<1>7. SumFunctionOnSet(f, s \ {y}) = f[x] + SumFunctionOnSet(f, both)
  <2>1. s \ {y} \in SUBSET S /\ s \ {y} \notin bad /\ x \in s \ {y}
    BY <1>1, <1>2, <1>3, <1>5
  <2> QED
    BY <1>3, <2>1
<1>8. SumFunctionOnSet(f, both) \in Nat /\ f[x] \in Nat /\ f[y] \in Nat
  <2>1. both \in SUBSET S
    BY DEF both
  <2>2. IsFiniteSet(both)
    BY <2>1, FS_Subset
  <2> QED
    BY <1>2, <1>3, <2>1, <2>2, SumIsNatural
<1> QED
  BY <1>2, <1>4, <1>6, <1>7, <1>8
-----------------------------------------------------------------------------
USE NamesAssumption, SizeAssumption

\* The graph as it grows.
GraphInv ==
  /\ chunk \in 0 .. Chunks - 1
  /\ GraphIsStorable
  /\ \A e \in Edges : {e.source, e.target} \subseteq Keys

LEMMA GraphInit == Init => GraphInv
<1> SUFFICES ASSUME Init PROVE GraphInv
  OBVIOUS
<1>1. CASE BuildInit
  BY <1>1 DEF BuildInit, GraphInv, GraphIsStorable, Edges, Keys
<1>2. CASE GivenInit
  <2>1. PICK g \in Given :
          /\ relationships = g /\ chunk = 0
          /\ LET named == UNION {{e.source, e.target} : e \in DOMAIN g}
             IN  /\ entities = [k \in named |-> [display |-> 0, description |-> 0]]
                 /\ mentions = {0} \X named
    BY <1>2 DEF GivenInit
  <2> DEFINE named == UNION {{e.source, e.target} : e \in DOMAIN g}
  <2>2. Keys = named /\ mentions = {0} \X named /\ Edges = DOMAIN g
    BY <2>1 DEF Keys, Edges
  <2>3. \A e \in DOMAIN g : e.source # e.target /\ e.chunk = 0 /\ e.source \in named /\ e.target \in named
    BY GivenAssumption
  <2> QED BY <2>1, <2>2, <2>3 DEF GraphInv, GraphIsStorable
<1> QED BY <1>1, <1>2 DEF Init

LEMMA GraphStep == GraphInv /\ [Next]_vars => GraphInv'
<1> SUFFICES ASSUME GraphInv, [Next]_vars PROVE GraphInv'
  OBVIOUS
<1>1. ASSUME NEW n \in RawName, NEW t \in RawType, NEW d \in Description, AddEntity(n, t, d)
      PROVE  GraphInv'
  <2>1. Keys' = Keys \cup {KeyOf(n, t)}
    BY <1>1 DEF AddEntity, Keys, Upserted
  <2>2. mentions' = mentions \cup {<<chunk, KeyOf(n, t)>>} /\ chunk' = chunk /\ Edges' = Edges
    BY <1>1 DEF AddEntity, Edges
  <2> QED BY <2>1, <2>2 DEF GraphInv, GraphIsStorable
<1>2. ASSUME NEW n \in RawName, NEW m \in RawName, NEW t \in RawType, NEW u \in RawType,
             NEW w \in RawWeight, AddRelationship(n, t, m, u, w)
      PROVE  GraphInv'
  <2> DEFINE source == KeyOf(n, t)
             target == KeyOf(m, u)
             edge == [source |-> source, target |-> target, weight |-> Weight(w), chunk |-> chunk]
  <2>1. Keys' = Keys \cup {source, target} /\ chunk' = chunk
    BY <1>2 DEF AddRelationship, Keys, Upserted
  <2>2. CASE source = target
    <3>1. mentions' = mentions /\ Edges' = Edges
      BY <1>2, <2>2 DEF AddRelationship, Edges
    <3> QED BY <2>1, <3>1 DEF GraphInv, GraphIsStorable
  <2>3. CASE source # target
    <3>1. /\ mentions' = mentions \cup {<<chunk, source>>, <<chunk, target>>}
          /\ Edges' = Edges \cup {edge}
      BY <1>2, <2>3 DEF AddRelationship, Mentioned, Edges, Pushed
    <3>e. edge.source = source /\ edge.target = target /\ edge.chunk = chunk
      OBVIOUS
    <3> HIDE DEF source, target, edge
    <3>2. \A e \in Edges' : e.source # e.target /\ {e.source, e.target} \subseteq Keys'
      <4> SUFFICES ASSUME NEW e \in Edges'
                   PROVE  e.source # e.target /\ {e.source, e.target} \subseteq Keys'
        OBVIOUS
      <4>1. CASE e = edge
        BY <2>1, <2>3, <3>e, <4>1
      <4>2. CASE e \in Edges
        BY <2>1, <4>2 DEF GraphInv, GraphIsStorable
      <4> QED BY <3>1, <4>1, <4>2
    <3>3. \A e \in Edges' : {<<e.chunk, e.source>>, <<e.chunk, e.target>>} \subseteq mentions'
      <4> SUFFICES ASSUME NEW e \in Edges'
                   PROVE  {<<e.chunk, e.source>>, <<e.chunk, e.target>>} \subseteq mentions'
        OBVIOUS
      <4>1. CASE e = edge
        BY <3>1, <3>e, <4>1
      <4>2. CASE e \in Edges
        BY <3>1, <4>2 DEF GraphInv, GraphIsStorable
      <4> QED BY <3>1, <4>1, <4>2
    <3>4. \A x \in mentions' : x[2] \in Keys' /\ x[1] \in 0 .. Chunks - 1
      BY <2>1, <3>1 DEF GraphInv, GraphIsStorable
    <3> QED BY <2>1, <3>2, <3>3, <3>4 DEF GraphInv, GraphIsStorable
  <2> QED BY <2>2, <2>3
<1>3. ASSUME NextChunk PROVE GraphInv'
  BY <1>3 DEF NextChunk, GraphInv, GraphIsStorable, Edges, Keys
<1>4. ASSUME UNCHANGED <<chunk, entities, mentions, relationships>> PROVE GraphInv'
  BY <1>4 DEF GraphInv, GraphIsStorable, Edges, Keys
<1>5. CASE Build
  BY <1>1, <1>2, <1>3, <1>4, <1>5 DEF Build, BuildNext, Embed, BuildFails
<1>6. CASE AnalyseNext
  BY <1>4, <1>6
  DEF AnalyseNext, SkipDetection, StartDetection, Visit, AnotherPass, AnotherIteration, Group,
      SummariseBatch, Return, SummariesFail, buildVars
<1>7. CASE UNCHANGED vars
  BY <1>4, <1>7 DEF vars, buildVars
<1> QED BY <1>5, <1>6, <1>7 DEF Next
-----------------------------------------------------------------------------
\* AggregatesAreLongest as a relation of aggregated entities and occurrences.
Longest(known, occurred) ==
  /\ \A k \in DOMAIN known :
       /\ known[k].display \in Nat /\ known[k].description \in Nat
       /\ \E o \in occurred : o[1] = k /\ o[2] = known[k].display
       /\ \E o \in occurred : o[1] = k /\ o[3] = known[k].description
  /\ \A o \in occurred : /\ o[1] \in DOMAIN known
                         /\ o[2] \in Nat /\ o[2] <= known[o[1]].display
                         /\ o[3] \in Nat /\ o[3] <= known[o[1]].description

LEMMA LongestUpserted ==
  ASSUME NEW known, NEW occurred, Longest(known, occurred),
         NEW k, NEW d \in Nat, NEW x \in Nat
  PROVE  Longest(Upserted(known, k, d, x), occurred \cup {<<k, d, x>>})
<1> DEFINE new == Upserted(known, k, d, x)
           now == occurred \cup {<<k, d, x>>}
           this == <<k, d, x>>
<1>0. this \in now /\ this[1] = k /\ this[2] = d /\ this[3] = x
  OBVIOUS
<1>1. DOMAIN new = DOMAIN known \cup {k}
  BY DEF Upserted
<1>2. \A l \in DOMAIN known : l # k => new[l] = known[l]
  BY DEF Upserted
<1>3. CASE k \notin DOMAIN known
  <2>1. new[k].display = d /\ new[k].description = x
    BY <1>3 DEF Upserted
  <2>2. \A o \in occurred : o[1] # k
    BY <1>3 DEF Longest
  <2>3. \A l \in DOMAIN new :
          /\ new[l].display \in Nat /\ new[l].description \in Nat
          /\ \E o \in now : o[1] = l /\ o[2] = new[l].display
          /\ \E o \in now : o[1] = l /\ o[3] = new[l].description
    <3> SUFFICES ASSUME NEW l \in DOMAIN new
                 PROVE  /\ new[l].display \in Nat /\ new[l].description \in Nat
                        /\ \E o \in now : o[1] = l /\ o[2] = new[l].display
                        /\ \E o \in now : o[1] = l /\ o[3] = new[l].description
      OBVIOUS
    <3>1. CASE l = k
      BY <1>0, <2>1, <3>1
    <3>2. CASE l # k
      BY <1>1, <1>2, <3>2 DEF Longest
    <3> QED BY <3>1, <3>2
  <2>4. ASSUME NEW o \in now
        PROVE  /\ o[1] \in DOMAIN new
               /\ o[2] \in Nat /\ o[2] <= new[o[1]].display
               /\ o[3] \in Nat /\ o[3] <= new[o[1]].description
    <3>1. CASE o = this
      BY <1>0, <1>1, <2>1, <3>1
    <3>2. CASE o \in occurred
      BY <1>1, <1>2, <2>2, <3>2 DEF Longest
    <3> QED BY <3>1, <3>2
  <2> QED BY <2>3, <2>4 DEF Longest
<1>4. CASE k \in DOMAIN known
  <2>1. /\ new[k].display = Better(d, known[k].display)
        /\ new[k].description = Better(x, known[k].description)
    BY <1>4 DEF Upserted
  <2>2. known[k].display \in Nat /\ known[k].description \in Nat
    BY <1>4 DEF Longest
  <2>3. /\ new[k].display \in Nat /\ new[k].display >= d /\ new[k].display >= known[k].display
        /\ new[k].description \in Nat /\ new[k].description >= x
        /\ new[k].description >= known[k].description
    BY <2>1, <2>2 DEF Better
  <2>4. \E o \in now : o[1] = k /\ o[2] = new[k].display
    <3>1. CASE new[k].display = d
      BY <1>0, <3>1
    <3>2. CASE new[k].display = known[k].display
      <4>1. \E o \in occurred : o[1] = k /\ o[2] = known[k].display
        BY <1>4 DEF Longest
      <4> QED BY <3>2, <4>1
    <3> QED BY <2>1, <3>1, <3>2 DEF Better
  <2>5. \E o \in now : o[1] = k /\ o[3] = new[k].description
    <3>1. CASE new[k].description = x
      BY <1>0, <3>1
    <3>2. CASE new[k].description = known[k].description
      <4>1. \E o \in occurred : o[1] = k /\ o[3] = known[k].description
        BY <1>4 DEF Longest
      <4> QED BY <3>2, <4>1
    <3> QED BY <2>1, <3>1, <3>2 DEF Better
  <2>6. \A l \in DOMAIN new :
          /\ new[l].display \in Nat /\ new[l].description \in Nat
          /\ \E o \in now : o[1] = l /\ o[2] = new[l].display
          /\ \E o \in now : o[1] = l /\ o[3] = new[l].description
    BY <1>1, <1>2, <2>3, <2>4, <2>5 DEF Longest
  <2>7. ASSUME NEW o \in now
        PROVE  /\ o[1] \in DOMAIN new
               /\ o[2] \in Nat /\ o[2] <= new[o[1]].display
               /\ o[3] \in Nat /\ o[3] <= new[o[1]].description
    <3>1. CASE o = <<k, d, x>>
      BY <1>1, <2>3, <3>1
    <3>2. CASE o \in occurred /\ o[1] = k
      <4>1. /\ o[2] \in Nat /\ o[2] <= known[k].display
            /\ o[3] \in Nat /\ o[3] <= known[k].description
        BY <3>2 DEF Longest
      <4> QED BY <1>1, <2>2, <2>3, <3>2, <4>1
    <3>3. CASE o \in occurred /\ o[1] # k
      BY <1>1, <1>2, <3>3 DEF Longest
    <3> QED BY <3>1, <3>2, <3>3
  <2> QED BY <2>6, <2>7 DEF Longest
<1> QED BY <1>3, <1>4

LEMMA LongestInit == Init => Longest(entities, seen)
<1> SUFFICES ASSUME Init PROVE Longest(entities, seen)
  OBVIOUS
<1>1. CASE BuildInit
  BY <1>1 DEF BuildInit, Longest
<1>2. CASE GivenInit
  <2>1. PICK named : /\ entities = [k \in named |-> [display |-> 0, description |-> 0]]
                     /\ seen = named \X {0} \X {0}
    BY <1>2 DEF GivenInit
  <2>2. \A k \in named : <<k, 0, 0>> \in seen
    BY <2>1
  <2>3. \A o \in seen : o[1] \in named /\ o[2] = 0 /\ o[3] = 0
    BY <2>1
  <2>4. \A k \in named : entities[k].display = 0 /\ entities[k].description = 0
    BY <2>1
  <2>5. \A k \in named : \E o \in seen : o[1] = k /\ o[2] = 0 /\ o[3] = 0
    BY <2>2
  <2> QED BY <2>1, <2>3, <2>4, <2>5 DEF Longest
<1> QED BY <1>1, <1>2 DEF Init

LEMMA LongestStep == Longest(entities, seen) /\ [Next]_vars => Longest(entities, seen)'
<1> SUFFICES ASSUME Longest(entities, seen), [Next]_vars PROVE Longest(entities', seen')
  BY DEF Longest
<1>1. ASSUME NEW n \in RawName, NEW t \in RawType, NEW d \in Description, AddEntity(n, t, d)
      PROVE  Longest(entities', seen')
  <2>1. Length[n] \in Nat /\ d \in Nat
    BY DescriptionAssumption
  <2> QED BY <1>1, <2>1, LongestUpserted DEF AddEntity
<1>2. ASSUME NEW n \in RawName, NEW m \in RawName, NEW t \in RawType, NEW u \in RawType,
             NEW w \in RawWeight, AddRelationship(n, t, m, u, w)
      PROVE  Longest(entities', seen')
  <2> DEFINE one == Upserted(entities, KeyOf(n, t), Length[n], 0)
             first == seen \cup {<<KeyOf(n, t), Length[n], 0>>}
             second == first \cup {<<KeyOf(m, u), Length[m], 0>>}
  <2>1. Length[n] \in Nat /\ Length[m] \in Nat
    OBVIOUS
  <2>2. Longest(one, first)
    BY <2>1, LongestUpserted
  <2>3. Longest(Upserted(one, KeyOf(m, u), Length[m], 0), second)
    BY <2>1, <2>2, LongestUpserted
  <2>4. seen' = second
    BY <1>2 DEF AddRelationship
  <2> QED BY <1>2, <2>3, <2>4 DEF AddRelationship
<1>3. ASSUME UNCHANGED <<entities, seen>> PROVE Longest(entities', seen')
  BY <1>3
<1>4. CASE Build
  BY <1>1, <1>2, <1>3, <1>4 DEF Build, BuildNext, NextChunk, Embed, BuildFails
<1>5. CASE AnalyseNext
  BY <1>3, <1>5
  DEF AnalyseNext, SkipDetection, StartDetection, Visit, AnotherPass, AnotherIteration, Group,
      SummariseBatch, Return, SummariesFail, buildVars
<1>6. CASE UNCHANGED vars
  BY <1>3, <1>6 DEF vars, buildVars
<1> QED BY <1>4, <1>5, <1>6 DEF Next

LEMMA LongestIsGoal == Longest(entities, seen) => AggregatesAreLongest
  BY DEF Longest, AggregatesAreLongest, Keys
-----------------------------------------------------------------------------
\* The adjacency is symmetric, a node is linked to the node its community is
\* called by, and communities that are grouped stay what they are.
Clustered == stage \in {"louvain", "summaries", "analysed"}

Symmetric == \A k, l \in Nodes : adjacency[<<k, l>>] = adjacency[<<l, k>>]

LinkedNames ==
  \A c \in Returned : \A x, y \in c.entity_ids :
    \E n, m \in Nodes : n[1] = x /\ m[1] = y /\ Linked(n, m)

ClusterInv ==
  /\ Clustered => Symmetric
  /\ Detecting => /\ assignment \in [Nodes -> Nodes]
                  /\ left \subseteq Nodes
                  /\ \A n \in Nodes : Linked(n, assignment[n])
  /\ stage \notin {"summaries", "analysed"} => communities = {} /\ summarised = {}
  /\ LinkedNames
  /\ CommunitiesPlaceNames

LEMMA LinkedReflexive == \A n : Linked(n, n)
  BY DEF Linked

LEMMA LinkedTransitive == \A n, m, l : Linked(n, m) /\ Linked(m, l) => Linked(n, l)
  BY DEF Linked

LEMMA NeighbourLinked ==
  ASSUME NEW n \in Nodes, NEW m \in Neighbours(n)
  PROVE  Linked(n, m)
  BY DEF Linked, Closed

\* What no edge leaves, no edge enters.
LEMMA LinkedSymmetric ==
  ASSUME Symmetric, NEW n \in Nodes, NEW m \in Nodes, Linked(n, m)
  PROVE  Linked(m, n)
<1> SUFFICES ASSUME NEW S \in SUBSET Nodes, Closed(S), m \in S, n \notin S PROVE FALSE
  BY DEF Linked
<1>1. Closed(Nodes \ S)
  <2> SUFFICES ASSUME NEW k \in Nodes \ S, NEW l \in Neighbours(k), l \in S PROVE FALSE
    BY DEF Closed, Neighbours
  <2>1. k \in Neighbours(l)
    BY DEF Neighbours, Adjacent, Symmetric
  <2> QED BY <2>1 DEF Closed
<1> QED BY <1>1 DEF Linked

LEMMA WeightSymmetric ==
  ASSUME NEW k \in Nodes, NEW l \in Nodes
  PROVE  WeightBetween(k, l) = WeightBetween(l, k)
<1>1. {k, l} = {l, k}
  OBVIOUS
<1> QED BY <1>1 DEF WeightBetween

\* A node stays or joins the community of a neighbour.
LEMMA BestIsLinked ==
  ASSUME NEW n \in Nodes, assignment \in [Nodes -> Nodes],
         \A m \in Nodes : Linked(m, assignment[m]),
         NEW c \in BestCommunities(n)
  PROVE  c \in Nodes /\ Linked(n, c)
<1>1. CASE c = assignment[n]
  BY <1>1
<1>2. CASE c \in Candidates(n)
  <2>1. PICK m \in Neighbours(n) : c = assignment[m]
    BY <1>2 DEF Candidates
  <2>2. m \in Nodes /\ Linked(n, m)
    BY NeighbourLinked DEF Neighbours
  <2> QED BY <2>1, <2>2, LinkedTransitive
<1> QED BY <1>1, <1>2 DEF BestCommunities

LEMMA ClusterInit == Init => ClusterInv
<1> SUFFICES ASSUME Init PROVE ClusterInv
  OBVIOUS
<1>1. stage \in {"entities", "built"} /\ communities = {} /\ summarised = {}
  BY DEF Init, BuildInit, GivenInit
<1> QED BY <1>1 DEF ClusterInv, Clustered, Detecting, LinkedNames, CommunitiesPlaceNames, Returned

\* As long as the graph stays, so do its links.
LEMMA SameLinks ==
  ASSUME UNCHANGED <<entities, adjacency>>
  PROVE  /\ Nodes' = Nodes /\ (Symmetric' <=> Symmetric)
         /\ \A n, m : Linked(n, m)' <=> Linked(n, m)
         /\ \A x : Namesakes(x)' <=> Namesakes(x)
<1>1. Nodes' = Nodes
  BY DEF Nodes, Keys
<1>2. \A S : Closed(S)' <=> Closed(S)
  BY <1>1 DEF Closed, Neighbours, Adjacent
<1> QED BY <1>1, <1>2 DEF Linked, Symmetric, Namesakes

\* And as long as the communities stay too, so does what holds of them.
LEMMA SameNames ==
  ASSUME UNCHANGED <<entities, adjacency>>, Returned' = Returned, LinkedNames
  PROVE  LinkedNames'
<1>1. Nodes' = Nodes /\ \A n, m : Linked(n, m)' <=> Linked(n, m)
  BY SameLinks
<1> QED BY <1>1 DEF LinkedNames

LEMMA SamePlaces ==
  ASSUME UNCHANGED <<entities, adjacency>>, Returned' = Returned, CommunitiesPlaceNames,
         stage \in {"summaries", "analysed"}, stage' \in {"summaries", "analysed"},
         communities' \cap summarised' = {}, stage' = "analysed" => communities' = {}
  PROVE  CommunitiesPlaceNames'
<1>1. Nodes' = Nodes /\ \A x : Namesakes(x)' <=> Namesakes(x)
  BY SameLinks
<1>2. /\ UNION {c.entity_ids : c \in Returned'} = {n[1] : n \in Nodes'}
      /\ \A c, d \in Returned' : c.id = d.id => c = d
      /\ \A c \in Returned' : c.entity_ids # {}
  BY <1>1 DEF CommunitiesPlaceNames
<1>3. \A c, d \in Returned' :
        c = d \/ \A x \in c.entity_ids \cap d.entity_ids : Namesakes(x)'
  BY <1>1 DEF CommunitiesPlaceNames
<1> QED BY <1>2, <1>3 DEF CommunitiesPlaceNames

LEMMA ClusterStep == ClusterInv /\ [Next]_vars => ClusterInv'
<1> SUFFICES ASSUME ClusterInv, [Next]_vars PROVE ClusterInv'
  OBVIOUS
<1>1. ASSUME stage \notin {"louvain", "summaries", "analysed"},
             stage' \notin {"louvain", "summaries", "analysed"},
             UNCHANGED <<communities, summarised>>
      PROVE  ClusterInv'
  BY <1>1 DEF ClusterInv, Clustered, Detecting, LinkedNames, CommunitiesPlaceNames, Returned
<1>2. CASE Build
  <2>1. /\ stage \in {"entities", "relationships", "embed"}
        /\ stage' \in {"entities", "relationships", "embed", "built", "failed"}
    <3> DEFINE stages == /\ stage \in {"entities", "relationships", "embed"}
                         /\ stage' \in {"entities", "relationships", "embed", "built", "failed"}
    <3>1. ASSUME NEW n \in RawName, NEW t \in RawType, NEW d \in Description, AddEntity(n, t, d)
          PROVE  stages
      BY <3>1 DEF AddEntity
    <3>2. ASSUME NEW n \in RawName, NEW m \in RawName, NEW t \in RawType, NEW u \in RawType,
                 NEW w \in RawWeight, AddRelationship(n, t, m, u, w)
          PROVE  stages
      BY <3>2 DEF AddRelationship
    <3>3. ASSUME NextChunk \/ Embed \/ BuildFails PROVE stages
      BY <3>3 DEF NextChunk, Embed, BuildFails
    <3> HIDE DEF stages
    <3>4. stages
      BY <1>2, <3>1, <3>2, <3>3 DEF Build, BuildNext
    <3> QED BY <3>4 DEF stages
  <2>2. UNCHANGED <<communities, summarised>>
    BY <1>2 DEF Build
  <2> QED BY <1>1, <2>1, <2>2
<1>3. CASE SkipDetection
  BY <1>1, <1>3 DEF SkipDetection
<1>4. CASE StartDetection
  <2>1. /\ stage' = "louvain" /\ Nodes' = Nodes
        /\ assignment' = [n \in Nodes |-> n] /\ left' = Nodes
        /\ communities' = {} /\ summarised' = {}
    BY <1>4 DEF StartDetection, ClusterInv, Nodes, Keys
  <2>2. Symmetric'
    <3>1. adjacency' = [p \in Nodes \X Nodes |-> WeightBetween(p[1], p[2])]
      BY <1>4 DEF StartDetection, BuildSparseGraph
    <3>2. \A k, l \in Nodes : /\ adjacency'[<<k, l>>] = WeightBetween(k, l)
                              /\ adjacency'[<<l, k>>] = WeightBetween(l, k)
      BY <3>1
    <3>3. \A k, l \in Nodes : adjacency'[<<k, l>>] = adjacency'[<<l, k>>]
      <4> SUFFICES ASSUME NEW k \in Nodes, NEW l \in Nodes
                   PROVE  adjacency'[<<k, l>>] = adjacency'[<<l, k>>]
        OBVIOUS
      <4>1. WeightBetween(k, l) = WeightBetween(l, k)
        BY WeightSymmetric
      <4> QED BY <3>2, <4>1
    <3> QED BY <2>1, <3>3 DEF Symmetric
  <2>3. \A n \in Nodes : Linked(n, assignment[n])'
    BY <2>1 DEF Linked
  <2> QED BY <2>1, <2>2, <2>3
          DEF ClusterInv, Clustered, Detecting, LinkedNames, CommunitiesPlaceNames, Returned
<1>5. CASE Visit
  <2>1. /\ stage = "louvain" /\ stage' = stage
        /\ UNCHANGED <<entities, adjacency, communities, summarised>>
    BY <1>5 DEF Visit, buildVars
  <2>2. /\ Symmetric /\ assignment \in [Nodes -> Nodes] /\ left \subseteq Nodes
        /\ \A n \in Nodes : Linked(n, assignment[n])
    BY <2>1 DEF ClusterInv, Clustered, Detecting
  <2>3. PICK n \in left :
          /\ left' = left \ {n}
          /\ \E c \in BestCommunities(n) :
               IF c = assignment[n]
               THEN UNCHANGED <<assignment, sizes, degrees, movesMade>>
               ELSE Move(n, c) /\ movesMade' = TRUE
    BY <1>5 DEF Visit
  <2>4. PICK c \in BestCommunities(n) :
          assignment' = assignment \/ assignment' = [assignment EXCEPT ![n] = c]
    BY <2>3 DEF Move
  <2>5. n \in Nodes /\ c \in Nodes /\ Linked(n, c)
    BY <2>2, <2>3, BestIsLinked
  <2>6. assignment' \in [Nodes -> Nodes] /\ \A m \in Nodes : Linked(m, assignment'[m])
    BY <2>2, <2>4, <2>5
  <2>7. /\ Symmetric' /\ Nodes' = Nodes
        /\ \A m \in Nodes : Linked(m, assignment[m])'
    BY <2>1, <2>2, <2>6, SameLinks
  <2> QED BY <2>1, <2>2, <2>3, <2>6, <2>7
          DEF ClusterInv, Clustered, Detecting, LinkedNames, CommunitiesPlaceNames, Returned
<1>6. CASE AnotherPass \/ AnotherIteration
  <2>1. /\ stage = "louvain" /\ stage' = stage /\ left' = Nodes /\ assignment' = assignment
        /\ UNCHANGED <<entities, adjacency, communities, summarised>>
    BY <1>6 DEF AnotherPass, AnotherIteration, buildVars
  <2>2. /\ Symmetric /\ assignment \in [Nodes -> Nodes]
        /\ \A n \in Nodes : Linked(n, assignment[n])
    BY <2>1 DEF ClusterInv, Clustered, Detecting
  <2>3. /\ Symmetric' /\ Nodes' = Nodes
        /\ \A m \in Nodes : Linked(m, assignment[m])'
    BY <2>1, <2>2, SameLinks
  <2> QED BY <2>1, <2>2, <2>3
          DEF ClusterInv, Clustered, Detecting, LinkedNames, CommunitiesPlaceNames, Returned
<1>7. CASE Group
  <2>1. /\ stage = "louvain" /\ stage' = "summaries"
        /\ communities' = {Output(c) : c \in {assignment[n] : n \in Nodes}}
        /\ summarised' = {} /\ UNCHANGED <<entities, adjacency>>
    BY <1>7 DEF Group, ClusterInv
  <2>2. /\ Symmetric /\ assignment \in [Nodes -> Nodes]
        /\ \A n \in Nodes : Linked(n, assignment[n])
    BY <2>1 DEF ClusterInv, Clustered, Detecting
  <2>3. \A n, m \in Nodes : assignment[n] = assignment[m] => Linked(n, m)
    BY <2>2, LinkedSymmetric, LinkedTransitive
  <2>4. Returned' = communities' /\ Nodes' = Nodes
    BY <2>1, SameLinks DEF Returned
  <2>5. \A c \in communities' : \E k \in {assignment[n] : n \in Nodes} : c = Output(k)
    BY <2>1
  <2>6. \A n \in Nodes : Output(assignment[n]) \in communities' /\ n \in Members(assignment[n])
    BY <2>1 DEF Members
  <2>7. \A k : Output(k).id = k /\ Output(k).entity_ids = {n[1] : n \in Members(k)}
    BY DEF Output
  <2>8. \A n, m, k : n \in Members(k) /\ m \in Members(k) => Linked(n, m)
    BY <2>3 DEF Members
  <2>9. LinkedNames'
    <3>1. ASSUME NEW c \in communities', NEW x \in c.entity_ids, NEW y \in c.entity_ids
          PROVE  \E n, m \in Nodes : n[1] = x /\ m[1] = y /\ Linked(n, m)
      <4>1. PICK k : c = Output(k)
        BY <2>5
      <4>2. PICK n \in Members(k) : n[1] = x
        BY <2>7, <4>1
      <4>3. PICK m \in Members(k) : m[1] = y
        BY <2>7, <4>1
      <4>4. n \in Nodes /\ m \in Nodes
        BY DEF Members
      <4> QED BY <2>8, <4>2, <4>3, <4>4
    <3>2. \A n, m : Linked(n, m)' <=> Linked(n, m)
      BY <2>1, SameLinks
    <3> QED BY <2>4, <3>1, <3>2 DEF LinkedNames
  <2>10. UNION {c.entity_ids : c \in communities'} = {n[1] : n \in Nodes}
    <3>1. ASSUME NEW n \in Nodes PROVE n[1] \in UNION {c.entity_ids : c \in communities'}
      <4>1. n[1] \in Output(assignment[n]).entity_ids
        BY <2>6, <2>7
      <4> QED BY <2>6, <4>1
    <3>2. ASSUME NEW c \in communities', NEW x \in c.entity_ids PROVE \E n \in Nodes : x = n[1]
      <4>1. PICK k : c = Output(k)
        BY <2>5
      <4> QED BY <2>7, <4>1 DEF Members
    <3> QED BY <3>1, <3>2
  <2>11. \A c, d \in communities' : c.id = d.id => c = d
    BY <2>5, <2>7
  <2>12. ASSUME NEW c \in communities', NEW d \in communities', c # d,
                NEW x \in c.entity_ids \cap d.entity_ids
         PROVE  Namesakes(x)
    <3>1. PICK k, l : c = Output(k) /\ d = Output(l)
      BY <2>5
    <3>2. PICK n \in Members(k), m \in Members(l) : n[1] = x /\ m[1] = x
      BY <2>7, <3>1
    <3>3. n \in Nodes /\ m \in Nodes /\ n # m
      BY <2>12, <3>1 DEF Members
    <3> QED BY <3>2, <3>3 DEF Namesakes
  <2>13. \A c \in communities' : c.entity_ids # {}
    <3>1. ASSUME NEW c \in communities' PROVE c.entity_ids # {}
      <4>1. PICK n \in Nodes : c = Output(assignment[n])
        BY <2>1
      <4>2. n[1] \in Output(assignment[n]).entity_ids
        BY <2>6, <2>7
      <4> QED BY <4>1, <4>2
    <3> QED BY <3>1
  <2>14. \A x : Namesakes(x)' <=> Namesakes(x)
    BY <2>4 DEF Namesakes
  <2>15. CommunitiesPlaceNames'
    <3>1. communities' \cap summarised' = {}
      BY <2>1
    <3>2. /\ UNION {c.entity_ids : c \in Returned'} = {n[1] : n \in Nodes'}
          /\ \A c, d \in Returned' : c.id = d.id => c = d
          /\ \A c \in Returned' : c.entity_ids # {}
      BY <2>4, <2>10, <2>11, <2>13
    <3>3. \A c, d \in Returned' :
            c = d \/ \A x \in c.entity_ids \cap d.entity_ids : Namesakes(x)'
      BY <2>4, <2>12, <2>14
    <3>4. stage' = "summaries"
      BY <2>1
    <3> QED BY <3>1, <3>2, <3>3, <3>4 DEF CommunitiesPlaceNames
  <2>16. Symmetric'
    BY <2>1, <2>2, SameLinks
  <2> QED BY <2>1, <2>9, <2>15, <2>16 DEF ClusterInv, Detecting
<1>8. CASE SummariseBatch
  <2>1. /\ stage = "summaries" /\ stage' = stage
        /\ UNCHANGED <<entities, adjacency>>
    BY <1>8 DEF SummariseBatch, buildVars
  <2>2. PICK batch \in SUBSET communities :
          communities' = communities \ batch /\ summarised' = summarised \cup batch
    BY <1>8 DEF SummariseBatch
  <2>3. communities \cap summarised = {}
    BY <2>1 DEF ClusterInv, CommunitiesPlaceNames
  <2>4. Returned' = Returned /\ communities' \cap summarised' = {}
    BY <2>2, <2>3 DEF Returned
  <2>5. LinkedNames' /\ CommunitiesPlaceNames'
    BY <2>1, <2>4, SameNames, SamePlaces DEF ClusterInv
  <2>6. Symmetric'
    BY <2>1, SameLinks DEF ClusterInv, Clustered
  <2> QED BY <2>1, <2>5, <2>6 DEF ClusterInv, Detecting
<1>9. CASE Return
  <2>1. /\ stage = "summaries" /\ communities = {} /\ stage' = "analysed"
        /\ UNCHANGED <<entities, adjacency, communities, summarised>>
    BY <1>9 DEF Return
  <2>2. Returned' = Returned /\ communities' \cap summarised' = {}
    BY <2>1 DEF Returned
  <2>3. Symmetric'
    BY <2>1, SameLinks DEF ClusterInv, Clustered
  <2>4. LinkedNames' /\ CommunitiesPlaceNames'
    BY <2>1, <2>2, SameNames, SamePlaces DEF ClusterInv
  <2> QED BY <2>1, <2>3, <2>4 DEF ClusterInv, Detecting
<1>10. CASE SummariesFail
  BY <1>10
  DEF SummariesFail, ClusterInv, Clustered, Detecting, LinkedNames, CommunitiesPlaceNames, Returned
<1>11. CASE UNCHANGED vars
  <2>1. /\ UNCHANGED <<stage, entities, adjacency, assignment, left, communities, summarised>>
        /\ Returned' = Returned
    BY <1>11 DEF vars, buildVars, louvainVars, Returned
  <2>2. /\ Nodes' = Nodes /\ (Symmetric' <=> Symmetric)
        /\ \A n, m : Linked(n, m)' <=> Linked(n, m)
    BY <2>1, SameLinks
  <2>3. LinkedNames'
    BY <2>1, SameNames DEF ClusterInv
  <2>4. CommunitiesPlaceNames'
    <3>1. CASE stage = "summaries" \/ stage = "analysed"
      BY <2>1, <3>1, SamePlaces DEF ClusterInv, CommunitiesPlaceNames
    <3>2. CASE stage \notin {"summaries", "analysed"}
      BY <2>1, <3>2 DEF ClusterInv, CommunitiesPlaceNames
    <3> QED BY <3>1, <3>2
  <2> QED BY <2>1, <2>2, <2>3, <2>4 DEF ClusterInv, Clustered, Detecting
<1> QED
  BY <1>2, <1>3, <1>4, <1>5, <1>6, <1>7, <1>8, <1>9, <1>10, <1>11 DEF Next, AnalyseNext

LEMMA ClusterIsGoal == ClusterInv => CommunitiesAreConnected /\ CommunitiesPlaceNames
<1> SUFFICES ASSUME ClusterInv PROVE CommunitiesAreConnected
  BY DEF ClusterInv
<1>1. ASSUME Detecting, NEW n \in Nodes, NEW m \in Nodes, assignment[n] = assignment[m]
      PROVE  Linked(n, m)
  <2>1. Symmetric /\ assignment \in [Nodes -> Nodes] /\ \A k \in Nodes : Linked(k, assignment[k])
    BY <1>1 DEF ClusterInv, Clustered, Detecting
  <2>2. Linked(assignment[m], m)
    BY <2>1, LinkedSymmetric
  <2> QED BY <1>1, <2>1, <2>2, LinkedTransitive
<1> QED BY <1>1 DEF ClusterInv, LinkedNames, CommunitiesAreConnected
-----------------------------------------------------------------------------
\* The graph is finite, so its weights can be summed, and what is kept while
\* nodes move is what the sums of its partition are.
ExactInv ==
  /\ TypeOK
  /\ IsFiniteSet(Nodes) /\ IsFiniteSet(Edges)
  /\ BookkeepingExact

\* What the analysis leaves alone.
GraphVars == <<chunk, items, entities, mentions, relationships, seen>>

LEMMA ExactInit == Init => ExactInv
<1> SUFFICES ASSUME Init PROVE ExactInv
  OBVIOUS
<1>1. CASE BuildInit
  <2>1. Keys = {} /\ Edges = {} /\ stage = "entities" /\ chunk = 0 /\ items = 0
    BY <1>1 DEF BuildInit, Keys, Edges
  <2>2. BuildTypeOK
    BY <1>1, <2>1 DEF BuildInit, BuildTypeOK
  <2> QED
    BY <2>1, <2>2, FS_EmptySet DEF ExactInv, TypeOK, Stages, Detecting, BookkeepingExact, Nodes
<1>2. CASE GivenInit
  <2>1. PICK g \in Given :
          /\ relationships = g
          /\ stage = "built" /\ chunk = 0 /\ items = 0
          /\ LET named == UNION {{e.source, e.target} : e \in DOMAIN g}
             IN  /\ entities = [k \in named |-> [display |-> 0, description |-> 0]]
                 /\ mentions = {0} \X named
                 /\ seen = named \X {0} \X {0}
    BY <1>2 DEF GivenInit
  <2> DEFINE named == UNION {{e.source, e.target} : e \in DOMAIN g}
  <2>2. /\ IsFiniteSet(DOMAIN g)
        /\ \A e \in DOMAIN g : e \in Edge /\ e.weight # 0 /\ g[e] \in Nat \ {0}
    BY GivenAssumption
  <2>3. \A e \in DOMAIN g : e.source \in EntityKey /\ e.target \in EntityKey
    BY <2>2 DEF Edge
  <2>4. named \subseteq EntityKey
    BY <2>3
  <2>5. IsFiniteSet(named)
    <3> DEFINE ends == {{e.source, e.target} : e \in DOMAIN g}
    <3>1. IsFiniteSet(ends)
      <4>1. [e \in DOMAIN g |-> {e.source, e.target}] \in Surjection(DOMAIN g, ends)
        BY DEF Surjection
      <4> QED
        BY <2>2, <4>1, FS_Surjection DEF ExistsSurjection
    <3>2. \A T \in ends : IsFiniteSet(T)
      <4> SUFFICES ASSUME NEW e \in DOMAIN g PROVE IsFiniteSet({e.source, e.target})
        OBVIOUS
      <4>1. IsFiniteSet({e.source}) /\ {e.source} \cup {e.target} = {e.source, e.target}
        BY FS_Singleton
      <4> QED
        BY <4>1, FS_AddElement
    <3> QED
      BY <3>1, <3>2, FS_UNION
  <2>6. Keys = named /\ Edges = DOMAIN g
    BY <2>1 DEF Keys, Edges
  <2>7. \A k \in named : entities[k] \in [display : Nat, description : Nat]
    BY <2>1
  <2>8. mentions \subseteq Nat \X EntityKey /\ seen \subseteq EntityKey \X Nat \X Nat
    BY <2>1, <2>4
  <2> HIDE DEF named
  <2>9. BuildTypeOK
    BY <2>1, <2>2, <2>4, <2>6, <2>7, <2>8 DEF BuildTypeOK
  <2> QED
    BY <2>1, <2>2, <2>5, <2>6, <2>9 DEF ExactInv, TypeOK, Stages, Detecting, BookkeepingExact, Nodes
<1> QED BY <1>1, <1>2 DEF Init

\* Lengths of display names and descriptions are numbers, and stay so.
Lengths(known) == \A l \in DOMAIN known : known[l] \in [display : Nat, description : Nat]

LEMMA UpsertedIsTyped ==
  ASSUME NEW known, Lengths(known), NEW k, NEW d \in Nat, NEW x \in Nat
  PROVE  DOMAIN Upserted(known, k, d, x) = DOMAIN known \cup {k} /\ Lengths(Upserted(known, k, d, x))
<1>1. DOMAIN Upserted(known, k, d, x) = DOMAIN known \cup {k}
  BY DEF Upserted
<1>2. ASSUME NEW l \in DOMAIN known \cup {k}
      PROVE  Upserted(known, k, d, x)[l] \in [display : Nat, description : Nat]
  <2>1. CASE l # k
    BY <2>1 DEF Upserted, Lengths
  <2>2. CASE l = k /\ k \notin DOMAIN known
    BY <2>2 DEF Upserted
  <2>3. CASE l = k /\ k \in DOMAIN known
    <3>1. known[k].display \in Nat /\ known[k].description \in Nat
      BY <2>3 DEF Lengths
    <3>2. Upserted(known, k, d, x)[l] = [display     |-> Better(d, known[k].display),
                                         description |-> Better(x, known[k].description)]
      BY <2>3 DEF Upserted
    <3> QED BY <3>1, <3>2 DEF Better
  <2> QED BY <2>1, <2>2, <2>3
<1> QED BY <1>1, <1>2 DEF Lengths

\* While the graph grows it stays finite, and nothing is detected yet.
LEMMA BuildKeepsExact == ExactInv /\ Build => ExactInv'
<1> SUFFICES ASSUME ExactInv, Build PROVE ExactInv'
  OBVIOUS
<1> DEFINE Grown == /\ BuildTypeOK' /\ IsFiniteSet(Keys') /\ IsFiniteSet(Edges')
                    /\ stage' \in Stages \ {"louvain"}
<1>0. /\ BuildTypeOK /\ IsFiniteSet(Keys) /\ IsFiniteSet(Edges)
      /\ Lengths(entities)
  BY DEF ExactInv, TypeOK, BuildTypeOK, Nodes, Keys, Lengths
<1>k. \A n \in RawName, t \in RawType : KeyOf(n, t) \in EntityKey
  BY DEF KeyOf, EntityKey
<1>1. ASSUME NEW n \in RawName, NEW t \in RawType, NEW d \in Description, AddEntity(n, t, d)
      PROVE  Grown
  <2>1. Length[n] \in Nat /\ d \in Nat /\ KeyOf(n, t) \in EntityKey
    BY <1>k, DescriptionAssumption
  <2>2. Keys' = Keys \cup {KeyOf(n, t)} /\ Lengths(entities')
    <3>1. entities' = Upserted(entities, KeyOf(n, t), Length[n], d)
      BY <1>1 DEF AddEntity
    <3>2. Lengths(entities)
      BY <1>0
    <3>3. /\ DOMAIN Upserted(entities, KeyOf(n, t), Length[n], d) = DOMAIN entities \cup {KeyOf(n, t)}
          /\ Lengths(Upserted(entities, KeyOf(n, t), Length[n], d))
      BY <2>1, <3>2, UpsertedIsTyped
    <3> QED BY <3>1, <3>3 DEF Keys
  <2>3. /\ chunk' = chunk /\ items' \in Nat /\ Edges' = Edges /\ relationships' = relationships
        /\ mentions' \subseteq Nat \X EntityKey /\ seen' \subseteq EntityKey \X Nat \X Nat
    BY <1>0, <1>1, <2>1 DEF AddEntity, Item, BuildTypeOK, Edges
  <2>4. BuildTypeOK'
    BY <1>0, <2>1, <2>2, <2>3 DEF BuildTypeOK, Keys, Lengths
  <2>5. stage' \in Stages \ {"louvain"}
    BY <1>1 DEF AddEntity, Stages
  <2> QED BY <1>0, <2>2, <2>3, <2>4, <2>5, FS_AddElement
<1>2. ASSUME NEW n \in RawName, NEW m \in RawName, NEW t \in RawType, NEW u \in RawType,
             NEW w \in RawWeight, AddRelationship(n, t, m, u, w)
      PROVE  Grown
  <2> DEFINE source == KeyOf(n, t)
             target == KeyOf(m, u)
             one == Upserted(entities, source, Length[n], 0)
             edge == [source |-> source, target |-> target, weight |-> Weight(w), chunk |-> chunk]
  <2>1. Length[n] \in Nat /\ Length[m] \in Nat /\ source \in EntityKey /\ target \in EntityKey
    BY <1>k
  <2>2. Weight(w) \in Nat \ {0} /\ chunk \in Nat
    BY <1>0, WeightAssumption DEF Weight, BuildTypeOK
  <2>3. edge \in Edge /\ edge.weight # 0
    BY <2>1, <2>2 DEF Edge
  <2>4. entities' = Upserted(one, target, Length[m], 0)
    BY <1>2 DEF AddRelationship
  <2>5. \/ mentions' = mentions /\ relationships' = relationships
        \/ /\ mentions' = mentions \cup {<<chunk, source>>, <<chunk, target>>}
           /\ relationships' = Pushed(relationships, edge)
    BY <1>2 DEF AddRelationship, Mentioned
  <2>6. /\ chunk' = chunk /\ items' \in Nat
        /\ seen' = seen \cup {<<source, Length[n], 0>>, <<target, Length[m], 0>>}
        /\ stage' \in Stages \ {"louvain"}
    BY <1>0, <1>2 DEF AddRelationship, Item, BuildTypeOK, Stages
  <2> HIDE DEF source, target, one, edge
  <2>7. DOMAIN one = Keys \cup {source} /\ Lengths(one)
    <3>1. 0 \in Nat /\ Lengths(entities)
      BY <1>0
    <3>2. /\ DOMAIN Upserted(entities, source, Length[n], 0) = DOMAIN entities \cup {source}
          /\ Lengths(Upserted(entities, source, Length[n], 0))
      BY <2>1, <3>1, UpsertedIsTyped
    <3> QED BY <3>2 DEF one, Keys
  <2>8. Keys' = Keys \cup {source} \cup {target} /\ Lengths(entities')
    <3>1. /\ DOMAIN Upserted(one, target, Length[m], 0) = DOMAIN one \cup {target}
          /\ Lengths(Upserted(one, target, Length[m], 0))
      BY <2>1, <2>7, UpsertedIsTyped
    <3> QED BY <2>4, <2>7, <3>1 DEF Keys
  <2>9. /\ Edges' \in {Edges, Edges \cup {edge}}
        /\ \A e \in Edges' : relationships'[e] \in Nat \ {0} /\ e.weight # 0
    <3>1. \A e \in Edges : relationships[e] \in Nat \ {0} /\ e.weight # 0
      BY <1>0 DEF BuildTypeOK
    <3>2. CASE relationships' = relationships
      BY <3>1, <3>2 DEF Edges
    <3>3. CASE relationships' = Pushed(relationships, edge)
      BY <2>3, <3>1, <3>3 DEF Pushed, Edges
    <3> QED BY <2>5, <3>2, <3>3
  <2>10. /\ mentions' \subseteq Nat \X EntityKey
         /\ seen' \subseteq EntityKey \X Nat \X Nat
    BY <1>0, <2>1, <2>2, <2>5, <2>6 DEF BuildTypeOK
  <2>11. Keys' \subseteq EntityKey /\ Edges' \subseteq Edge
    BY <1>0, <2>1, <2>3, <2>8, <2>9 DEF BuildTypeOK
  <2>12. BuildTypeOK'
    BY <2>2, <2>6, <2>8, <2>9, <2>10, <2>11 DEF BuildTypeOK, Keys, Lengths
  <2>13. IsFiniteSet(Keys')
    <3>1. IsFiniteSet(Keys \cup {source})
      BY <1>0, FS_AddElement
    <3> QED BY <2>8, <3>1, FS_AddElement
  <2>14. IsFiniteSet(Edges')
    <3>1. IsFiniteSet(Edges \cup {edge})
      BY <1>0, FS_AddElement
    <3> QED BY <1>0, <2>9, <3>1
  <2> QED BY <2>6, <2>12, <2>13, <2>14
<1>3. ASSUME NextChunk \/ Embed \/ BuildFails PROVE Grown
  <2>1. /\ chunk' \in Nat /\ stage' \in Stages \ {"louvain"}
        /\ UNCHANGED <<items, entities, mentions, relationships, seen>>
    BY <1>0, <1>3 DEF NextChunk, Embed, BuildFails, BuildTypeOK, Stages
  <2> QED BY <1>0, <2>1 DEF BuildTypeOK, Keys, Edges
<1> HIDE DEF Grown
<1>4. Grown
  BY <1>1, <1>2, <1>3 DEF Build, BuildNext
<1> QED
  BY <1>4 DEF Grown, ExactInv, TypeOK, Detecting, BookkeepingExact, Nodes

\* Weights and their sums are natural numbers.
LEMMA WeightIsNatural ==
  ASSUME ExactInv, NEW k, NEW l
  PROVE  WeightBetween(k, l) \in Nat
<1> DEFINE between == {x \in Edges : Ends(x) = {k, l}}
           weight == [e \in between |-> e.weight * relationships[e]]
<1>1. IsFiniteSet(between)
  BY FS_Subset DEF ExactInv
<1>2. \A e \in between : weight[e] \in Nat
  <2> SUFFICES ASSUME NEW e \in between PROVE e.weight * relationships[e] \in Nat
    OBVIOUS
  <2>1. e \in Edge /\ relationships[e] \in Nat
    BY DEF ExactInv, TypeOK, BuildTypeOK
  <2>2. e.weight \in Nat
    BY <2>1 DEF Edge
  <2> QED BY <2>1, <2>2
<1>3. DOMAIN weight = between
  OBVIOUS
<1> HIDE DEF weight
<1>4. SumFunction(weight) \in Nat
  BY <1>1, <1>2, <1>3, SumIsNatural DEF SumFunction
<1> QED BY <1>4 DEF WeightBetween, weight

LEMMA SumOverNodesIsNatural ==
  ASSUME IsFiniteSet(Nodes), NEW f, DOMAIN f = Nodes, \A n \in Nodes : f[n] \in Nat
  PROVE  SumFunction(f) \in Nat
BY SumIsNatural DEF SumFunction

\* A set and one node more have a sum that is larger by what the node counts.
LEMMA SumAdds ==
  ASSUME IsFiniteSet(Nodes), NEW f, \A n \in Nodes : f[n] \in Nat,
         NEW S \in SUBSET Nodes, NEW n \in Nodes \ S
  PROVE  SumFunctionOnSet(f, S \cup {n}) = f[n] + SumFunctionOnSet(f, S)
<1>1. S \cup {n} \subseteq Nodes /\ (S \cup {n}) \ {n} = S
  OBVIOUS
<1>2. IsFiniteSet(S \cup {n})
  BY <1>1, FS_Subset
<1> QED
  BY <1>1, <1>2, SumSplits

\* The analysis starts with every node alone, and sums that say so.
LEMMA StartIsExact == ExactInv /\ StartDetection => ExactInv'
<1> SUFFICES ASSUME ExactInv, StartDetection PROVE ExactInv'
  OBVIOUS
<1>1. /\ stage' = "louvain"
      /\ adjacency' = [p \in Nodes \X Nodes |-> WeightBetween(p[1], p[2])]
      /\ assignment' = [n \in Nodes |-> n]
      /\ sizes' = [n \in Nodes |-> 1]
      /\ degrees' = [n \in Nodes |-> SumFunction([m \in Nodes |-> WeightBetween(n, m)])]
      /\ left' = Nodes /\ pass' = 1 /\ iteration' = 1
      /\ UNCHANGED GraphVars
  BY DEF StartDetection, BuildSparseGraph, GraphVars
<1>2. /\ Nodes' = Nodes /\ Edges' = Edges /\ IsFiniteSet(Nodes) /\ IsFiniteSet(Edges)
      /\ BuildTypeOK'
  BY <1>1 DEF ExactInv, TypeOK, BuildTypeOK, Nodes, Keys, Edges, GraphVars
<1> DEFINE row(n) == [m \in Nodes |-> WeightBetween(n, m)]
<1>3. \A n \in Nodes : SumFunction(row(n)) \in Nat
  <2> SUFFICES ASSUME NEW n \in Nodes PROVE SumFunction(row(n)) \in Nat
    OBVIOUS
  <2>1. DOMAIN row(n) = Nodes /\ \A m \in Nodes : row(n)[m] \in Nat
    BY WeightIsNatural
  <2> HIDE DEF row
  <2> QED BY <1>2, <2>1, SumOverNodesIsNatural
<1>4. \A n \in Nodes : Degree(n)' = SumFunction(row(n))
  <2> SUFFICES ASSUME NEW n \in Nodes PROVE Degree(n)' = SumFunction(row(n))
    OBVIOUS
  <2>1. [m \in Nodes |-> adjacency'[<<n, m>>]] = row(n)
    BY <1>1
  <2> QED BY <1>2, <2>1 DEF Degree
<1>5. adjacency' \in [Nodes \X Nodes -> Nat]
  BY <1>1, WeightIsNatural
<1>6. degrees' \in [Nodes -> Nat] /\ \A n \in Nodes : degrees'[n] = Degree(n)'
  BY <1>1, <1>3, <1>4
<1>7. Cardinality(Nodes) \in Nat /\ \A n \in Nodes : 1 <= Cardinality(Nodes)
  <2>1. \A n \in Nodes : Cardinality(Nodes) # 0
    BY <1>2, FS_EmptySet
  <2> QED BY <1>2, <2>1, FS_CardinalityType
<1>8. TypeOK'
  BY <1>1, <1>2, <1>5, <1>6, <1>7, LimitsAssumption DEF TypeOK, Stages
<1>9. ASSUME NEW c \in Nodes
      PROVE  /\ sizes'[c] = Cardinality(Members(c)')
             /\ degrees'[c] = SumFunctionOnSet([n \in Nodes |-> Degree(n)'], Members(c)')
  <2> DEFINE D == [n \in Nodes |-> Degree(n)']
  <2>1. Members(c)' = {c}
    BY <1>1, <1>2 DEF Members
  <2>2. sizes'[c] = 1 /\ Cardinality({c}) = 1 /\ IsFiniteSet({c})
    BY <1>1, FS_Singleton
  <2>3. \A n \in Nodes : D[n] = degrees'[n] /\ D[n] \in Nat
    BY <1>6
  <2> HIDE DEF D
  <2>4. SumFunctionOnSet(D, {} \cup {c}) = D[c] + SumFunctionOnSet(D, {})
    BY <1>2, <2>3, SumAdds
  <2>5. SumFunctionOnSet(D, {}) = 0
    BY FS_EmptySet, SumPicks
  <2>6. SumFunctionOnSet(D, {c}) = degrees'[c]
    BY <2>3, <2>4, <2>5
  <2> QED BY <2>1, <2>2, <2>6 DEF D
<1>10. BookkeepingExact'
  BY <1>2, <1>9 DEF BookkeepingExact
<1> QED BY <1>2, <1>8, <1>10 DEF ExactInv

LEMMA DegreeIsNatural ==
  ASSUME ExactInv, Detecting
  PROVE  \A m \in Nodes : Degree(m) \in Nat
<1> SUFFICES ASSUME NEW m \in Nodes PROVE Degree(m) \in Nat
  OBVIOUS
<1> DEFINE row == [l \in Nodes |-> adjacency[<<m, l>>]]
<1>1. DOMAIN row = Nodes /\ \A l \in Nodes : row[l] \in Nat
  BY DEF ExactInv, TypeOK
<1>2. IsFiniteSet(Nodes)
  BY DEF ExactInv
<1> HIDE DEF row
<1>3. SumFunction(row) \in Nat
  BY <1>1, <1>2, SumOverNodesIsNatural
<1> QED BY <1>3 DEF Degree, row

\* The move of a node takes its degree, and one, from one community to another.
LEMMA MoveIsExact ==
  ASSUME ExactInv, Detecting, NEW n \in Nodes, NEW c \in Nodes, c # assignment[n], Move(n, c),
         UNCHANGED <<entities, adjacency>>
  PROVE  /\ assignment' \in [Nodes -> Nodes]
         /\ \A d \in Nodes :
              /\ sizes'[d] = Cardinality(Members(d)')
              /\ degrees'[d] = SumFunctionOnSet([m \in Nodes |-> Degree(m)], Members(d)')
         /\ DOMAIN sizes' = Nodes /\ DOMAIN degrees' = Nodes
<1> DEFINE D == [m \in Nodes |-> Degree(m)]
<1>1. /\ IsFiniteSet(Nodes) /\ adjacency \in [Nodes \X Nodes -> Nat]
      /\ assignment \in [Nodes -> Nodes] /\ DOMAIN sizes = Nodes /\ DOMAIN degrees = Nodes
      /\ \A d \in Nodes : /\ sizes[d] = Cardinality(Members(d))
                          /\ degrees[d] = SumFunctionOnSet(D, Members(d))
      /\ Nodes' = Nodes
  BY DEF ExactInv, TypeOK, BookkeepingExact, Nodes, Keys
<1>2. \A m \in Nodes : D[m] = Degree(m) /\ D[m] \in Nat
  BY DegreeIsNatural
<1> HIDE DEF D
<1>o. PICK old \in Nodes : old = assignment[n]
  BY <1>1
<1>3. /\ old # c
      /\ assignment' = [assignment EXCEPT ![n] = c]
      /\ sizes' = [sizes EXCEPT ![old] = @ - 1, ![c] = @ + 1]
      /\ degrees' = [degrees EXCEPT ![old] = @ - Degree(n), ![c] = @ + Degree(n)]
  BY <1>o DEF Move
<1>4. /\ n \in Members(old) /\ n \notin Members(c)
      /\ Members(old)' = Members(old) \ {n} /\ Members(c)' = Members(c) \cup {n}
      /\ \A d \in Nodes \ {old, c} : Members(d)' = Members(d)
  BY <1>1, <1>o, <1>3 DEF Members
<1>5. \A d \in Nodes : /\ Members(d) \subseteq Nodes /\ IsFiniteSet(Members(d))
                       /\ Cardinality(Members(d)) \in Nat
                       /\ SumFunctionOnSet(D, Members(d)) \in Nat
  <2> SUFFICES ASSUME NEW d \in Nodes
               PROVE  /\ Members(d) \subseteq Nodes /\ IsFiniteSet(Members(d))
                      /\ Cardinality(Members(d)) \in Nat
                      /\ SumFunctionOnSet(D, Members(d)) \in Nat
    OBVIOUS
  <2>1. Members(d) \subseteq Nodes
    BY DEF Members
  <2>2. IsFiniteSet(Members(d))
    BY <1>1, <2>1, FS_Subset
  <2> QED BY <1>2, <2>1, <2>2, FS_CardinalityType, SumIsNatural
<1>6. Cardinality(Members(old) \ {n}) = Cardinality(Members(old)) - 1
  BY <1>3, <1>4, <1>5, FS_RemoveElement
<1>7. Cardinality(Members(c) \cup {n}) = Cardinality(Members(c)) + 1
  BY <1>4, <1>5, FS_AddElement
<1>8. SumFunctionOnSet(D, Members(old)) = D[n] + SumFunctionOnSet(D, Members(old) \ {n})
  <2>1. \A m \in Members(old) : D[m] \in Nat
    BY <1>2, <1>3, <1>5
  <2> QED BY <1>3, <1>4, <1>5, <2>1, SumSplits
<1>9. SumFunctionOnSet(D, Members(c) \cup {n}) = D[n] + SumFunctionOnSet(D, Members(c))
  BY <1>1, <1>2, <1>4, <1>5, SumAdds
<1>10. SumFunctionOnSet(D, Members(old) \ {n}) \in Nat
  <2>1. IsFiniteSet(Members(old) \ {n}) /\ \A m \in Members(old) \ {n} : D[m] \in Nat
    BY <1>2, <1>3, <1>5, FS_Subset
  <2> QED BY <2>1, SumIsNatural
<1>11. /\ sizes'[old] = sizes[old] - 1 /\ sizes'[c] = sizes[c] + 1
       /\ degrees'[old] = degrees[old] - Degree(n) /\ degrees'[c] = degrees[c] + Degree(n)
       /\ \A d \in Nodes \ {old, c} : sizes'[d] = sizes[d] /\ degrees'[d] = degrees[d]
       /\ DOMAIN sizes' = Nodes /\ DOMAIN degrees' = Nodes
  BY <1>1, <1>3
<1>12. ASSUME NEW d \in Nodes
       PROVE  /\ sizes'[d] = Cardinality(Members(d)')
              /\ degrees'[d] = SumFunctionOnSet(D, Members(d)')
  <2>1. CASE d = old
    <3>1. sizes'[old] = Cardinality(Members(old)')
      BY <1>1, <1>4, <1>6, <1>11
    <3>2. degrees'[old] = SumFunctionOnSet(D, Members(old)')
      BY <1>1, <1>2, <1>4, <1>8, <1>10, <1>11
    <3> QED BY <2>1, <3>1, <3>2
  <2>2. CASE d = c
    <3>1. sizes'[c] = Cardinality(Members(c)')
      BY <1>1, <1>4, <1>7, <1>11
    <3>2. degrees'[c] = SumFunctionOnSet(D, Members(c)')
      BY <1>1, <1>2, <1>4, <1>5, <1>9, <1>11
    <3> QED BY <2>2, <3>1, <3>2
  <2>3. CASE d \notin {old, c}
    BY <1>1, <1>4, <1>11, <2>3
  <2> QED BY <2>1, <2>2, <2>3
<1>13. assignment' \in [Nodes -> Nodes]
  BY <1>1, <1>3
<1> QED
  BY <1>11, <1>12, <1>13 DEF D

\* A part of the nodes has a size and a sum of natural numbers.
LEMMA PartsOfNodes ==
  ASSUME IsFiniteSet(Nodes), NEW f, \A n \in Nodes : f[n] \in Nat, NEW S \in SUBSET Nodes
  PROVE  Cardinality(S) \in 0 .. Cardinality(Nodes) /\ SumFunctionOnSet(f, S) \in Nat
<1>1. IsFiniteSet(S) /\ Cardinality(S) <= Cardinality(Nodes)
  BY FS_Subset
<1>2. Cardinality(S) \in Nat /\ Cardinality(Nodes) \in Nat
  BY <1>1, FS_CardinalityType
<1>3. SumFunctionOnSet(f, S) \in Nat
  BY <1>1, SumIsNatural
<1> QED BY <1>1, <1>2, <1>3

\* Once the graph is built it stays, and with it the sums of its weights.
LEMMA GraphStays ==
  ASSUME ExactInv, UNCHANGED GraphVars, stage' \in Stages
  PROVE  /\ Nodes' = Nodes /\ IsFiniteSet(Nodes') /\ IsFiniteSet(Edges') /\ BuildTypeOK'
         /\ ~Detecting' => ExactInv'
<1>1. Nodes' = Nodes /\ Keys' = Keys /\ Edges' = Edges
  BY DEF GraphVars, Nodes, Keys, Edges
<1>2. BuildTypeOK'
  BY <1>1 DEF ExactInv, TypeOK, BuildTypeOK, GraphVars
<1> QED
  BY <1>1, <1>2 DEF ExactInv, TypeOK, BookkeepingExact

LEMMA AnalyseKeepsExact ==
  ASSUME ExactInv, AnalyseNext
  PROVE  ExactInv'
<1>1. CASE SkipDetection \/ Group \/ Return \/ SummariesFail \/ SummariseBatch
  <2>1. UNCHANGED GraphVars /\ stage' \in Stages /\ ~Detecting'
    BY <1>1 DEF SkipDetection, Group, Return, SummariesFail, SummariseBatch, buildVars, GraphVars,
                Stages, Detecting
  <2> QED BY <2>1, GraphStays
<1>2. CASE StartDetection
  BY <1>2, StartIsExact
<1>3. CASE AnotherPass \/ AnotherIteration
  <2>1. /\ UNCHANGED <<GraphVars, stage, adjacency, assignment, sizes, degrees>>
        /\ Detecting /\ left' = Nodes
        /\ \/ pass' = pass + 1 /\ pass < MaxPasses /\ iteration' = iteration
           \/ pass' = 1 /\ iteration < MaxIterations /\ iteration' = iteration + 1
    BY <1>3 DEF AnotherPass, AnotherIteration, buildVars, GraphVars, Detecting
  <2>2. pass' \in 1 .. MaxPasses /\ iteration' \in 1 .. MaxIterations
    BY <2>1, LimitsAssumption DEF ExactInv, TypeOK
  <2>3. Nodes' = Nodes /\ IsFiniteSet(Nodes') /\ IsFiniteSet(Edges') /\ BuildTypeOK'
    BY <2>1, GraphStays DEF ExactInv, TypeOK
  <2>4. TypeOK'
    BY <2>1, <2>2, <2>3 DEF ExactInv, TypeOK, Detecting
  <2>5. /\ \A c : Members(c)' = Members(c)
        /\ [n \in Nodes |-> Degree(n)]' = [n \in Nodes |-> Degree(n)]
    BY <2>1, <2>3 DEF Members, Degree
  <2>6. BookkeepingExact'
    BY <2>1, <2>3, <2>5 DEF ExactInv, BookkeepingExact, Detecting
  <2> QED BY <2>3, <2>4, <2>6 DEF ExactInv
<1>4. CASE Visit
  <2>1. /\ Detecting /\ UNCHANGED <<GraphVars, stage, adjacency, pass, iteration>>
        /\ \E n \in left :
             /\ left' = left \ {n}
             /\ \E c \in BestCommunities(n) :
                  IF c = assignment[n] THEN UNCHANGED <<assignment, sizes, degrees>> ELSE Move(n, c)
    BY <1>4 DEF Visit, buildVars, GraphVars, Detecting
  <2>2. PICK n \in left :
          /\ left' = left \ {n}
          /\ \E c \in BestCommunities(n) :
               IF c = assignment[n] THEN UNCHANGED <<assignment, sizes, degrees>> ELSE Move(n, c)
    BY <2>1
  <2>3. PICK c \in BestCommunities(n) :
          IF c = assignment[n] THEN UNCHANGED <<assignment, sizes, degrees>> ELSE Move(n, c)
    BY <2>2
  <2>4. /\ adjacency \in [Nodes \X Nodes -> Nat] /\ assignment \in [Nodes -> Nodes]
        /\ left \subseteq Nodes /\ pass \in 1 .. MaxPasses /\ iteration \in 1 .. MaxIterations
        /\ sizes \in [Nodes -> 0 .. Cardinality(Nodes)] /\ degrees \in [Nodes -> Nat]
    BY <2>1 DEF ExactInv, TypeOK
  <2>5. n \in Nodes /\ c \in Nodes
    BY <2>2, <2>3, <2>4 DEF BestCommunities, Candidates, Neighbours
  <2>6. /\ Nodes' = Nodes /\ IsFiniteSet(Nodes') /\ IsFiniteSet(Edges') /\ BuildTypeOK'
        /\ entities' = entities /\ adjacency' = adjacency
    BY <2>1, GraphStays DEF ExactInv, TypeOK, GraphVars
  <2> DEFINE D == [m \in Nodes |-> Degree(m)]
  <2>7. /\ assignment' \in [Nodes -> Nodes] /\ DOMAIN sizes' = Nodes /\ DOMAIN degrees' = Nodes
        /\ \A d \in Nodes : /\ sizes'[d] = Cardinality(Members(d)')
                            /\ degrees'[d] = SumFunctionOnSet(D, Members(d)')
    <3>1. CASE c = assignment[n]
      <4>1. assignment' = assignment /\ sizes' = sizes /\ degrees' = degrees
        BY <2>3, <3>1
      <4>2. \A d \in Nodes : Members(d)' = Members(d)
        BY <2>6, <4>1 DEF Members
      <4> QED BY <2>1, <2>4, <4>1, <4>2 DEF ExactInv, BookkeepingExact
    <3>2. CASE c # assignment[n]
      BY <2>1, <2>3, <2>5, <2>6, <3>2, MoveIsExact
    <3> QED BY <3>1, <3>2
  <2>8. \A m \in Nodes : D[m] \in Nat
    BY <2>1, DegreeIsNatural
  <2>9. D' = D
    BY <2>6 DEF Degree
  <2> HIDE DEF D
  <2>10. \A d \in Nodes : sizes'[d] \in 0 .. Cardinality(Nodes) /\ degrees'[d] \in Nat
    <3> SUFFICES ASSUME NEW d \in Nodes
                 PROVE  sizes'[d] \in 0 .. Cardinality(Nodes) /\ degrees'[d] \in Nat
      OBVIOUS
    <3>1. Members(d)' \subseteq Nodes
      BY <2>6 DEF Members
    <3> QED BY <2>6, <2>7, <2>8, <3>1, PartsOfNodes
  <2>11. /\ sizes' \in [Nodes -> 0 .. Cardinality(Nodes)] /\ degrees' \in [Nodes -> Nat]
    <3>1. sizes' = [d \in Nodes |-> sizes'[d]] /\ degrees' = [d \in Nodes |-> degrees'[d]]
      BY <2>1, <2>3, <2>4 DEF Move
    <3> QED BY <2>10, <3>1
  <2>12. TypeOK'
    BY <2>1, <2>2, <2>4, <2>6, <2>7, <2>11 DEF ExactInv, TypeOK, Detecting
  <2>13. BookkeepingExact'
    BY <2>6, <2>7, <2>9 DEF BookkeepingExact, D
  <2> QED BY <2>6, <2>12, <2>13 DEF ExactInv
<1> QED
  BY <1>1, <1>2, <1>3, <1>4 DEF AnalyseNext

LEMMA ExactStep == ExactInv /\ [Next]_vars => ExactInv'
<1> SUFFICES ASSUME ExactInv, [Next]_vars PROVE ExactInv'
  OBVIOUS
<1>1. CASE UNCHANGED vars
  <2>1. UNCHANGED <<GraphVars, stage, adjacency, assignment, sizes, degrees, left, pass, iteration>>
    BY <1>1 DEF vars, buildVars, louvainVars, GraphVars
  <2>2. Nodes' = Nodes /\ IsFiniteSet(Nodes') /\ IsFiniteSet(Edges') /\ BuildTypeOK'
    BY <2>1, GraphStays DEF ExactInv, TypeOK
  <2>3. TypeOK'
    BY <2>1, <2>2 DEF ExactInv, TypeOK, Detecting
  <2>4. /\ \A c : Members(c)' = Members(c)
        /\ [n \in Nodes |-> Degree(n)]' = [n \in Nodes |-> Degree(n)]
    BY <2>1, <2>2 DEF Members, Degree
  <2>5. BookkeepingExact'
    BY <2>1, <2>2, <2>4 DEF ExactInv, BookkeepingExact, Detecting
  <2> QED BY <2>2, <2>3, <2>5 DEF ExactInv
<1> QED
  BY <1>1, BuildKeepsExact, AnalyseKeepsExact DEF Next
-----------------------------------------------------------------------------
\* Whatever the extractor finds, the graph of a document can be stored, and its
\* entities carry the longest name and description found of them.
THEOREM GraphCorrect == Spec => []GraphIsStorable /\ []AggregatesAreLongest
<1>1. GraphInv => GraphIsStorable
  BY DEF GraphInv
<1> QED BY <1>1, GraphInit, GraphStep, LongestInit, LongestStep, LongestIsGoal, PTL DEF Spec

\* For every graph, and whatever ties are taken, the communities are connected,
\* every name is in one, and only a name of several entities is in more.
THEOREM CommunitiesCorrect == Spec => []CommunitiesAreConnected /\ []CommunitiesPlaceNames
  BY ClusterInit, ClusterStep, ClusterIsGoal, PTL DEF Spec

\* Of every graph, however often the clustering moves its nodes, the sizes and
\* degrees of the communities that it keeps step by step are those it would get
\* by counting again, and everything has its type: sizes stay within the number
\* of nodes, degrees do not go below zero.
THEOREM BookkeepingCorrect == Spec => []TypeOK /\ []BookkeepingExact
<1>1. ExactInv => TypeOK /\ BookkeepingExact
  BY DEF ExactInv
<1> QED BY <1>1, ExactInit, ExactStep, PTL DEF Spec
=============================================================================
