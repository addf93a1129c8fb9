--------------------------- MODULE Chunker_proofs ---------------------------
(* Proofs about Chunker, for every document, every size and every similarity*)
(* of its sentences.                                                       *)
EXTENDS Chunker, SequenceTheorems, FiniteSetTheorems, TLAPS

----------------------------------------------------------------------------
(* Induction and recursion over numbers.                                    *)

\* Induction, of a set of numbers: the intervals 0..m are ordered by inclusion,
\* so a number that is not in the set would have a smallest one before it.
LEMMA InductionOnNat ==
  ASSUME NEW S, 0 \in S, \A n \in Nat : n \in S => n + 1 \in S
  PROVE  \A n \in Nat : n \in S
<1> SUFFICES ASSUME NEW n \in Nat, n \notin S PROVE FALSE
  OBVIOUS
<1> DEFINE bad == {I \in SUBSET (0..n) : \E m \in 0..n : I = 0..m /\ m \notin S}
<1>1. 0..n \in bad
  OBVIOUS
<1>2. IsWellFoundedOn(StrictSubsetOrdering(0..n), SUBSET (0..n))
  <2>1. IsFiniteSet(0..n)
    BY FS_Interval
  <2> QED
    BY <2>1, FS_StrictSubsetOrderingWellFounded, FS_FiniteSubsetsOfFinite
<1>3. PICK I \in bad : \A J \in bad : ~(<<J, I>> \in StrictSubsetOrdering(0..n))
  <2>1. bad \subseteq SUBSET (0..n)
    OBVIOUS
  <2> HIDE DEF bad
  <2> QED
    BY <1>1, <1>2, <2>1, WFMin
<1>4. PICK m \in 0..n : I = 0..m /\ m \notin S
  OBVIOUS
<1>5. m # 0 /\ m - 1 \in 0..n /\ m - 1 \notin S
  BY <1>4
<1>6. 0..(m - 1) \in bad
  BY <1>5
<1>7. <<0..(m - 1), I>> \in StrictSubsetOrdering(0..n)
  <2>1. 0..(m - 1) \subseteq I /\ m \in I /\ m \notin 0..(m - 1) /\ I \subseteq 0..n
    BY <1>4
  <2> QED
    BY <2>1 DEF StrictSubsetOrdering
<1> QED
  BY <1>3, <1>6, <1>7

\* A function on 0..n with values in X is defined by its first value and a step.
HasRecursion(X, base, n, step) ==
  \E g \in [0..n -> X] : g[0] = base /\ \A i \in 1..n : g[i] = step[<<i, g[i - 1]>>]

LEMMA Recursion ==
  \A X : \A base \in X : \A n \in Nat : \A step \in [(1..n) \X X -> X] : HasRecursion(X, base, n, step)
<1> SUFFICES ASSUME NEW X, NEW base \in X, NEW n \in Nat, NEW step \in [(1..n) \X X -> X]
             PROVE  \E g \in [0..n -> X] : g[0] = base /\ \A i \in 1..n : g[i] = step[<<i, g[i - 1]>>]
  BY Zenon DEF HasRecursion
<1> DEFINE Recursive(g, k) == g = [i \in 0..k |-> IF i = 0 THEN base ELSE step[<<i, g[i - 1]>>]]
           S == {k \in Nat : k <= n => \E g \in [0..k -> X] : Recursive(g, k)}
<1>1. 0 \in S
  <2>1. Recursive([i \in 0..0 |-> base], 0) /\ [i \in 0..0 |-> base] \in [0..0 -> X]
    OBVIOUS
  <2> HIDE DEF Recursive
  <2> QED
    BY <2>1
<1>2. ASSUME NEW k \in Nat, k \in S PROVE k + 1 \in S
  <2> SUFFICES ASSUME k + 1 <= n PROVE \E g \in [0..(k + 1) -> X] : Recursive(g, k + 1)
    OBVIOUS
  <2>1. PICK g \in [0..k -> X] : Recursive(g, k)
    BY <1>2
  <2> DEFINE h == [i \in 0..(k + 1) |-> IF i <= k THEN g[i] ELSE step[<<k + 1, g[k]>>]]
  <2>2. step[<<k + 1, g[k]>>] \in X
    <3>1. k + 1 \in 1..n /\ g[k] \in X
      OBVIOUS
    <3> QED
      BY <3>1
  <2>3. h \in [0..(k + 1) -> X]
    BY <2>2
  <2>4. ASSUME NEW i \in 0..(k + 1)
        PROVE  h[i] = IF i = 0 THEN base ELSE step[<<i, h[i - 1]>>]
    <3>1. \A j \in 0..k : g[j] = IF j = 0 THEN base ELSE step[<<j, g[j - 1]>>]
      BY <2>1
    <3>2. CASE i = 0
      <4>1. 0 \in 0..k /\ h[0] = g[0]
        OBVIOUS
      <4> HIDE DEF h
      <4> QED
        BY <3>1, <3>2, <4>1
    <3>3. CASE i \in 1..k
      <4>1. i \in 0..k /\ i - 1 \in 0..k /\ i - 1 \in 0..(k + 1) /\ i # 0
        BY <3>3
      <4>2. h[i] = g[i] /\ h[i - 1] = g[i - 1]
        BY <4>1
      <4> HIDE DEF h
      <4> QED
        BY <3>1, <4>1, <4>2
    <3>4. CASE i = k + 1
      <4>1. h[k + 1] = step[<<k + 1, g[k]>>] /\ h[k] = g[k] /\ (k + 1) - 1 = k /\ k + 1 # 0
        OBVIOUS
      <4> HIDE DEF h
      <4> QED
        BY <3>4, <4>1
    <3> QED
      BY <3>2, <3>3, <3>4
  <2>5. h = [i \in 0..(k + 1) |-> h[i]]
    OBVIOUS
  <2> HIDE DEF h
  <2>6. Recursive(h, k + 1)
    BY <2>4, <2>5
  <2> HIDE DEF Recursive
  <2> QED
    BY <2>3, <2>6
<1> HIDE DEF S
<1>3. n \in S
  BY <1>1, <1>2, InductionOnNat
<1>4. PICK g \in [0..n -> X] : Recursive(g, n)
  BY <1>3 DEF S
<1>5. \A i \in 0..n : g[i] = IF i = 0 THEN base ELSE step[<<i, g[i - 1]>>]
  BY <1>4
<1>6. 0 \in 0..n /\ \A i \in 1..n : i \in 0..n /\ i # 0
  OBVIOUS
<1> QED
  BY <1>5, <1>6

----------------------------------------------------------------------------
(* Flattening.                                                              *)

\* FlattenSeq's recursive function, of any length n.
Flattens(g, seqs, n) == g = [i \in 1..n |-> IF i = 1 THEN seqs[i] ELSE g[i - 1] \o seqs[i]]

LEMMA FlattenUnfolds ==
  ASSUME NEW S, NEW seqs \in Seq(Seq(S)), seqs # <<>>
  PROVE  \E g \in [1..Len(seqs) -> Seq(S)] : Flattens(g, seqs, Len(seqs)) /\ FlattenSeq(seqs) = g[Len(seqs)]
<1> DEFINE T == {n \in Nat : n \in 1..Len(seqs) => \E g \in [1..n -> Seq(S)] : Flattens(g, seqs, n)}
<1>0. Len(seqs) \in Nat /\ Len(seqs) # 0 /\ \A i \in 1..Len(seqs) : seqs[i] \in Seq(S)
  BY LenProperties, EmptySeq
<1>1. 0 \in T
  OBVIOUS
<1>2. ASSUME NEW k \in Nat, k \in T PROVE k + 1 \in T
  <2> SUFFICES ASSUME k + 1 \in 1..Len(seqs)
               PROVE  \E g \in [1..(k + 1) -> Seq(S)] : Flattens(g, seqs, k + 1)
    OBVIOUS
  <2>1. CASE k = 0
    <3> DEFINE h == [i \in 1..1 |-> seqs[1]]
    <3>1. h = [i \in 1..1 |-> IF i = 1 THEN seqs[i] ELSE h[i - 1] \o seqs[i]]
      OBVIOUS
    <3>2. h \in [1..1 -> Seq(S)]
      BY <1>0
    <3> HIDE DEF h
    <3>3. Flattens(h, seqs, 1)
      BY <3>1 DEF Flattens
    <3> QED
      BY <2>1, <3>2, <3>3
  <2>2. CASE k # 0
    <3>1. PICK g \in [1..k -> Seq(S)] : Flattens(g, seqs, k)
      BY <1>2, <2>2
    <3> DEFINE h == [i \in 1..(k + 1) |-> IF i <= k THEN g[i] ELSE g[k] \o seqs[k + 1]]
    <3>2. g[k] \o seqs[k + 1] \in Seq(S)
      <4>1. g[k] \in Seq(S) /\ seqs[k + 1] \in Seq(S)
        BY <1>0, <2>2
      <4> QED
        BY <4>1, ConcatProperties
    <3>3. h \in [1..(k + 1) -> Seq(S)]
      BY <3>2
    <3>4. ASSUME NEW i \in 1..(k + 1)
          PROVE  h[i] = IF i = 1 THEN seqs[i] ELSE h[i - 1] \o seqs[i]
      <4>1. \A j \in 1..k : g[j] = IF j = 1 THEN seqs[j] ELSE g[j - 1] \o seqs[j]
        BY <3>1 DEF Flattens
      <4>2. CASE i \in 1..k
        <5>1. h[i] = g[i] /\ (i # 1 => i - 1 \in 1..k /\ i - 1 \in 1..(k + 1) /\ h[i - 1] = g[i - 1])
          BY <4>2
        <5> HIDE DEF h
        <5> QED
          BY <4>1, <4>2, <5>1
      <4>3. CASE i = k + 1
        <5>0. k \in 1..k /\ k \in 1..(k + 1) /\ k + 1 \in 1..(k + 1) /\ ~(k + 1 <= k)
          BY <2>2
        <5>1. h[k + 1] = g[k] \o seqs[k + 1] /\ h[k] = g[k] /\ (k + 1) - 1 = k /\ k + 1 # 1
          BY <2>2, <5>0
        <5> HIDE DEF h
        <5> QED
          BY <4>3, <5>1
      <4> QED
        BY <4>2, <4>3
    <3>5. h = [i \in 1..(k + 1) |-> h[i]]
      OBVIOUS
    <3> HIDE DEF h
    <3>6. Flattens(h, seqs, k + 1)
      BY <3>4, <3>5 DEF Flattens
    <3> QED
      BY <3>3, <3>6
  <2> QED
    BY <2>1, <2>2
<1>3. FlattenSeq(seqs) = (CHOOSE g : Flattens(g, seqs, Len(seqs)))[Len(seqs)]
  BY <1>0 DEF FlattenSeq, Flattens
<1> HIDE DEF T
<1>4. Len(seqs) \in T
  BY <1>0, <1>1, <1>2, InductionOnNat
<1>5. PICK g \in [1..Len(seqs) -> Seq(S)] : Flattens(g, seqs, Len(seqs))
  BY <1>0, <1>4 DEF T
<1>6. Flattens(CHOOSE h : Flattens(h, seqs, Len(seqs)), seqs, Len(seqs))
  BY <1>5
<1>7. \A h : Flattens(h, seqs, Len(seqs)) => h = g
  <2> SUFFICES ASSUME NEW h, Flattens(h, seqs, Len(seqs)) PROVE h = g
    OBVIOUS
  <2> DEFINE Same == {i \in Nat : i \in 1..Len(seqs) => h[i] = g[i]}
  <2>1. \A i \in 1..Len(seqs) : /\ h[i] = IF i = 1 THEN seqs[i] ELSE h[i - 1] \o seqs[i]
                                /\ g[i] = IF i = 1 THEN seqs[i] ELSE g[i - 1] \o seqs[i]
    BY <1>5 DEF Flattens
  <2>2. 0 \in Same
    OBVIOUS
  <2>3. ASSUME NEW k \in Nat, k \in Same PROVE k + 1 \in Same
    <3> SUFFICES ASSUME k + 1 \in 1..Len(seqs) PROVE h[k + 1] = g[k + 1]
      OBVIOUS
    <3> DEFINE i == k + 1
    <3>1. i \in 1..Len(seqs) /\ i - 1 = k /\ (i # 1 => k \in 1..Len(seqs))
      BY <1>0
    <3> HIDE DEF i
    <3>2. i # 1 => h[i - 1] = g[i - 1]
      BY <2>3, <3>1
    <3>3. h[i] = g[i]
      BY <2>1, <3>1, <3>2
    <3> QED
      BY <3>3 DEF i
  <2> HIDE DEF Same
  <2>4. \A i \in Nat : i \in Same
    BY <2>2, <2>3, InductionOnNat
  <2>5. \A i \in 1..Len(seqs) : h[i] = g[i]
    BY <2>4 DEF Same
  <2>6. h = [i \in 1..Len(seqs) |-> h[i]] /\ g = [i \in 1..Len(seqs) |-> g[i]]
    BY DEF Flattens
  <2> QED
    BY <2>5, <2>6
<1> QED
  BY <1>3, <1>5, <1>6, <1>7

\* Flattening goes sequence by sequence.
LEMMA FlattenAppends ==
  ASSUME NEW S, NEW seqs \in Seq(Seq(S)), NEW s \in Seq(S)
  PROVE  FlattenSeq(Append(seqs, s)) = FlattenSeq(seqs) \o s
<1> DEFINE all == Append(seqs, s)
           n == Len(seqs)
<1>1. /\ n \in Nat /\ Len(all) = n + 1 /\ all \in Seq(Seq(S)) /\ all # <<>>
      /\ all[n + 1] = s /\ \A i \in 1..n : all[i] = seqs[i]
  BY AppendProperties, LenProperties, EmptySeq
<1> HIDE DEF all
<1>2. PICK h \in [1..(n + 1) -> Seq(S)] : Flattens(h, all, n + 1) /\ FlattenSeq(all) = h[n + 1]
  BY <1>1, FlattenUnfolds
<1>3. \A i \in 1..(n + 1) : h[i] = IF i = 1 THEN all[i] ELSE h[i - 1] \o all[i]
  BY <1>2 DEF Flattens
<1>4. CASE seqs = <<>>
  <2>1. n = 0 /\ FlattenSeq(seqs) = <<>>
    BY <1>4, EmptySeq DEF FlattenSeq
  <2>2. FlattenSeq(all) = s
    BY <1>1, <1>2, <1>3, <2>1
  <2> QED
    BY <2>1, <2>2, ConcatEmptySeq DEF all
<1>5. CASE seqs # <<>>
  <2>1. PICK g \in [1..n -> Seq(S)] : Flattens(g, seqs, n) /\ FlattenSeq(seqs) = g[n]
    BY <1>5, FlattenUnfolds
  <2>2. \A i \in 1..n : g[i] = IF i = 1 THEN seqs[i] ELSE g[i - 1] \o seqs[i]
    BY <2>1 DEF Flattens
  <2>3. n # 0
    BY <1>5, EmptySeq
  <2> DEFINE Same == {i \in Nat : i \in 1..n => h[i] = g[i]}
  <2>4. 0 \in Same
    OBVIOUS
  <2>5. ASSUME NEW k \in Nat, k \in Same PROVE k + 1 \in Same
    <3> SUFFICES ASSUME k + 1 \in 1..n PROVE h[k + 1] = g[k + 1]
      OBVIOUS
    <3> DEFINE i == k + 1
    <3>1. i \in 1..n /\ i \in 1..(n + 1) /\ i - 1 = k /\ (i # 1 => k \in 1..n)
      BY <1>1
    <3> HIDE DEF i
    <3>2. all[i] = seqs[i] /\ (i # 1 => h[i - 1] = g[i - 1])
      BY <1>1, <2>5, <3>1
    <3>3. h[i] = g[i]
      <4>1. h[i] = IF i = 1 THEN all[i] ELSE h[i - 1] \o all[i]
        BY <1>3, <3>1
      <4>2. g[i] = IF i = 1 THEN seqs[i] ELSE g[i - 1] \o seqs[i]
        BY <2>2, <3>1
      <4> QED
        BY <3>2, <4>1, <4>2, Zenon
    <3> QED
      BY <3>3 DEF i
  <2> HIDE DEF Same
  <2>6. n \in Same
    BY <1>1, <2>4, <2>5, InductionOnNat
  <2>7. h[n] = g[n]
    BY <1>1, <2>3, <2>6 DEF Same
  <2>8. h[n + 1] = h[n] \o all[n + 1]
    <3>1. n + 1 \in 1..(n + 1) /\ n + 1 # 1 /\ (n + 1) - 1 = n
      BY <1>1, <2>3
    <3> QED
      BY <1>3, <3>1
  <2> QED
    BY <1>1, <1>2, <2>1, <2>7, <2>8 DEF all
<1> QED
  BY <1>4, <1>5

\* Induction over sequences: a set of them that has the empty one, and with each
\* all that are longer by one, has all.
LEMMA InductionOnSeq ==
  ASSUME NEW A, NEW T, <<>> \in T,
         \A s \in Seq(A), e \in A : s \in T => Append(s, e) \in T
  PROVE  \A s \in Seq(A) : s \in T
<1> DEFINE S == {n \in Nat : \A s \in Seq(A) : Len(s) = n => s \in T}
<1>1. 0 \in S
  BY EmptySeq
<1>2. ASSUME NEW n \in Nat, n \in S PROVE n + 1 \in S
  <2> SUFFICES ASSUME NEW s \in Seq(A), Len(s) = n + 1 PROVE s \in T
    OBVIOUS
  <2>1. s # <<>>
    BY EmptySeq
  <2>2. PICK r \in Seq(A), e \in A : s = Append(r, e)
    BY <2>1, SequenceEmptyOrAppend
  <2>3. Len(r) = n
    BY <2>2, AppendProperties, LenProperties
  <2> QED
    BY <1>2, <2>2, <2>3
<1> HIDE DEF S
<1>3. \A n \in Nat : n \in S
  BY <1>1, <1>2, InductionOnNat
<1> QED
  BY <1>3, LenProperties DEF S

LEMMA FlattenNothing == FlattenSeq(<<>>) = <<>>
BY DEF FlattenSeq

LEMMA FlattenIsSeq ==
  ASSUME NEW S, NEW seqs \in Seq(Seq(S))
  PROVE  FlattenSeq(seqs) \in Seq(S)
<1> DEFINE T == {x \in Seq(Seq(S)) : FlattenSeq(x) \in Seq(S)}
<1>1. <<>> \in T
  BY FlattenNothing, EmptySeq
<1>2. ASSUME NEW x \in Seq(Seq(S)), NEW s \in Seq(S), x \in T PROVE Append(x, s) \in T
  BY <1>2, FlattenAppends, AppendProperties, ConcatProperties
<1> HIDE DEF T
<1>3. seqs \in T
  BY <1>1, <1>2, InductionOnSeq
<1> QED
  BY <1>3 DEF T

LEMMA FlattenConcat ==
  ASSUME NEW S, NEW a \in Seq(Seq(S)), NEW b \in Seq(Seq(S))
  PROVE  FlattenSeq(a \o b) = FlattenSeq(a) \o FlattenSeq(b)
<1> DEFINE T == {x \in Seq(Seq(S)) : FlattenSeq(a \o x) = FlattenSeq(a) \o FlattenSeq(x)}
<1>0. FlattenSeq(a) \in Seq(S)
  BY FlattenIsSeq
<1>1. <<>> \in T
  <2>1. a \o <<>> = a /\ FlattenSeq(a) \o <<>> = FlattenSeq(a)
    BY <1>0, ConcatEmptySeq
  <2> QED
    BY <2>1, FlattenNothing, EmptySeq
<1>2. ASSUME NEW x \in Seq(Seq(S)), NEW s \in Seq(S), x \in T PROVE Append(x, s) \in T
  <2>0. FlattenSeq(x) \in Seq(S) /\ <<s>> \in Seq(Seq(S)) /\ a \o x \in Seq(Seq(S)) /\ Append(x, s) \in Seq(Seq(S))
    BY FlattenIsSeq, ConcatProperties, AppendProperties
  <2>1. a \o Append(x, s) = Append(a \o x, s)
    <3>1. Append(x, s) = x \o <<s>> /\ Append(a \o x, s) = (a \o x) \o <<s>>
      BY <2>0, AppendIsConcat
    <3> QED
      BY <2>0, <3>1, ConcatAssociative
  <2>2. FlattenSeq(Append(a \o x, s)) = FlattenSeq(a \o x) \o s
    BY <2>0, FlattenAppends
  <2>3. FlattenSeq(a \o x) = FlattenSeq(a) \o FlattenSeq(x)
    BY <1>2
  <2>4. (FlattenSeq(a) \o FlattenSeq(x)) \o s = FlattenSeq(a) \o (FlattenSeq(x) \o s)
    BY <1>0, <2>0, ConcatAssociative
  <2>5. FlattenSeq(Append(x, s)) = FlattenSeq(x) \o s
    BY FlattenAppends
  <2> QED
    BY <2>0, <2>1, <2>2, <2>3, <2>4, <2>5
<1> HIDE DEF T
<1>3. b \in T
  BY <1>1, <1>2, InductionOnSeq
<1> QED
  BY <1>3 DEF T

LEMMA FlattenOne ==
  ASSUME NEW S, NEW s \in Seq(S)
  PROVE  FlattenSeq(<<s>>) = s
<1>1. <<>> \in Seq(Seq(S)) /\ <<s>> = Append(<<>>, s)
  BY EmptySeq
<1>2. FlattenSeq(Append(<<>>, s)) = FlattenSeq(<<>>) \o s
  BY <1>1, FlattenAppends
<1> QED
  BY <1>1, <1>2, FlattenNothing, ConcatEmptySeq

LEMMA HeadAndTail ==
  ASSUME NEW S, NEW s \in Seq(S), s # <<>>
  PROVE  /\ s = <<Head(s)>> \o Tail(s)
         /\ Head(s) = s[1] /\ s[1] \in S /\ Tail(s) \in Seq(S) /\ Len(Tail(s)) = Len(s) - 1
         /\ \A i \in 1..(Len(s) - 1) : Tail(s)[i] = s[i + 1]
<1>1. Head(s) = s[1] /\ Head(s) \in S /\ Len(s) \in Nat \ {0}
  <2>1. Head(s) \in S /\ Len(s) \in Nat \ {0}
    BY HeadTailProperties, EmptySeq
  <2>2. Head(s) = s[1]
    BY <2>1
  <2> QED
    BY <2>1, <2>2
<1>2. /\ Tail(s) \in Seq(S) /\ Len(Tail(s)) = Len(s) - 1
      /\ \A i \in 1..(Len(s) - 1) : Tail(s)[i] = s[i + 1]
  BY HeadTailProperties
<1>3. <<Head(s)>> \in Seq(S) /\ Len(<<Head(s)>>) = 1 /\ <<Head(s)>>[1] = Head(s)
  BY <1>1
<1> DEFINE t == <<Head(s)>> \o Tail(s)
<1>4. /\ t \in Seq(S) /\ Len(t) = 1 + (Len(s) - 1)
      /\ \A i \in 1..(1 + (Len(s) - 1)) : t[i] = IF i <= 1 THEN <<Head(s)>>[i] ELSE Tail(s)[i - 1]
  BY <1>2, <1>3, ConcatProperties
<1>5. ASSUME NEW i \in 1..Len(s) PROVE t[i] = s[i]
  <2> HIDE DEF t
  <2>1. CASE i = 1
    BY <1>1, <1>3, <1>4, <2>1
  <2>2. CASE i # 1
    <3>1. i - 1 \in 1..(Len(s) - 1) /\ (i - 1) + 1 = i /\ ~(i <= 1) /\ i \in 1..(1 + (Len(s) - 1))
      BY <1>1, <2>2
    <3> QED
      BY <1>2, <1>4, <3>1
  <2> QED
    BY <2>1, <2>2
<1>6. t = s
  <2> HIDE DEF t
  <2> QED
    BY <1>1, <1>4, <1>5, SeqEqual
<1> QED
  BY <1>1, <1>2, <1>6

LEMMA FlattenHead ==
  ASSUME NEW S, NEW seqs \in Seq(Seq(S)), seqs # <<>>
  PROVE  FlattenSeq(seqs) = Head(seqs) \o FlattenSeq(Tail(seqs))
<1>1. seqs = <<Head(seqs)>> \o Tail(seqs) /\ Head(seqs) \in Seq(S) /\ Tail(seqs) \in Seq(Seq(S))
  BY HeadAndTail
<1>2. <<Head(seqs)>> \in Seq(Seq(S)) /\ FlattenSeq(<<Head(seqs)>>) = Head(seqs)
  BY <1>1, FlattenOne
<1> QED
  BY <1>1, <1>2, FlattenConcat

\* What is flattened is what is in one of the sequences.
InOneOf(seqs) == UNION {Range(seqs[k]) : k \in DOMAIN seqs}

LEMMA InOneOfAppend ==
  ASSUME NEW S, NEW x \in Seq(Seq(S)), NEW s \in Seq(S)
  PROVE  InOneOf(Append(x, s)) = InOneOf(x) \cup Range(s)
<1> DEFINE y == Append(x, s)
<1>1. /\ DOMAIN y = 1..(Len(x) + 1) /\ DOMAIN x = 1..Len(x) /\ Len(x) \in Nat
      /\ y[Len(x) + 1] = s /\ \A k \in 1..Len(x) : y[k] = x[k]
  BY AppendProperties, LenProperties
<1> HIDE DEF y
<1>2. ASSUME NEW e PROVE e \in InOneOf(y) <=> e \in InOneOf(x) \cup Range(s)
  <2>1. e \in InOneOf(y) <=> \E k \in DOMAIN y : e \in Range(y[k])
    BY DEF InOneOf
  <2>2. e \in InOneOf(x) <=> \E k \in DOMAIN x : e \in Range(x[k])
    BY DEF InOneOf
  <2>3. Len(x) + 1 \in DOMAIN y /\ \A k \in DOMAIN y : k \in DOMAIN x \/ k = Len(x) + 1
    BY <1>1
  <2>4. \A k \in DOMAIN x : k \in DOMAIN y /\ y[k] = x[k]
    BY <1>1
  <2> QED
    BY <1>1, <2>1, <2>2, <2>3, <2>4
<1> QED
  BY <1>2 DEF y

LEMMA FlattenRange ==
  ASSUME NEW S, NEW seqs \in Seq(Seq(S))
  PROVE  Range(FlattenSeq(seqs)) = InOneOf(seqs)
<1> DEFINE T == {x \in Seq(Seq(S)) : Range(FlattenSeq(x)) = InOneOf(x)}
<1>1. <<>> \in T
  BY FlattenNothing, EmptySeq DEF Range, InOneOf
<1>2. ASSUME NEW x \in Seq(Seq(S)), NEW s \in Seq(S), x \in T PROVE Append(x, s) \in T
  <2>1. FlattenSeq(Append(x, s)) = FlattenSeq(x) \o s /\ FlattenSeq(x) \in Seq(S)
    BY FlattenAppends, FlattenIsSeq
  <2>2. Range(FlattenSeq(Append(x, s))) = Range(FlattenSeq(x)) \cup Range(s)
    BY <2>1, RangeConcatenation
  <2> QED
    BY <1>2, <2>2, InOneOfAppend, AppendProperties
<1> HIDE DEF T
<1>3. seqs \in T
  BY <1>1, <1>2, InductionOnSeq
<1> QED
  BY <1>3 DEF T

\* A sequence is empty when nothing is in it.
LEMMA EmptyRange ==
  ASSUME NEW S, NEW s \in Seq(S)
  PROVE  s = <<>> <=> Range(s) = {}
<1>1. s # <<>> => s[1] \in Range(s)
  BY EmptySeq, LenProperties DEF Range
<1>2. s = <<>> => Range(s) = {}
  BY DEF Range
<1> QED
  BY <1>1, <1>2

----------------------------------------------------------------------------
(* Texts.                                                                   *)

\* a holds fragments of b only, and in order if b is.
Thins(a, b) == Range(a) \subseteq Range(b) /\ (InOrder(b) => InOrder(a))

LEMMA NothingThins ==
  ASSUME NEW b PROVE Thins(<<>>, b)
BY DEF Thins, Range, InOrder

\* Two texts after one another are in order if each is and the first ends
\* before the second begins.
LEMMA InOrderConcat ==
  ASSUME NEW a \in Texts, NEW b \in Texts
  PROVE  InOrder(a \o b) <=>
           /\ InOrder(a)
           /\ InOrder(b)
           /\ \A f \in Range(a), g \in Range(b) : f.id < g.id
<1> DEFINE c == a \o b
           m == Len(a)
           n == Len(b)
<1>1. /\ m \in Nat /\ n \in Nat /\ DOMAIN a = 1..m /\ DOMAIN b = 1..n /\ DOMAIN c = 1..(m + n)
      /\ \A i \in 1..(m + n) : c[i] = IF i <= m THEN a[i] ELSE b[i - m]
  BY ConcatProperties, LenProperties DEF Texts
<1> HIDE DEF c, m, n
<1>2. \A i \in 1..m : i \in 1..(m + n) /\ c[i] = a[i]
  BY <1>1
<1>3. \A i \in 1..n : m + i \in 1..(m + n) /\ c[m + i] = b[i]
  <2> SUFFICES ASSUME NEW i \in 1..n PROVE m + i \in 1..(m + n) /\ c[m + i] = b[i]
    OBVIOUS
  <2>1. m + i \in 1..(m + n) /\ ~(m + i <= m) /\ (m + i) - m = i
    BY <1>1
  <2> QED
    BY <1>1, <2>1
<1>4. ASSUME InOrder(c)
      PROVE  InOrder(a) /\ InOrder(b) /\ \A f \in Range(a), g \in Range(b) : f.id < g.id
  <2>1. \A i, j \in 1..(m + n) : i < j => c[i].id < c[j].id
    BY <1>1, <1>4 DEF InOrder
  <2>2. InOrder(a)
    BY <1>1, <1>2, <2>1 DEF InOrder
  <2>3. ASSUME NEW i \in 1..n, NEW j \in 1..n, i < j PROVE b[i].id < b[j].id
    <3>1. m + i < m + j
      BY <1>1, <2>3
    <3>2. c[m + i].id < c[m + j].id
      BY <1>3, <2>1, <3>1
    <3> QED
      BY <1>3, <3>2
  <2>4. ASSUME NEW i \in 1..m, NEW j \in 1..n PROVE a[i].id < b[j].id
    <3>1. i < m + j
      BY <1>1
    <3>2. c[i].id < c[m + j].id
      BY <1>2, <1>3, <2>1, <3>1
    <3> QED
      BY <1>2, <1>3, <3>2
  <2>5. InOrder(b)
    BY <1>1, <2>3 DEF InOrder
  <2>6. \A f \in Range(a), g \in Range(b) : f.id < g.id
    BY <1>1, <2>4 DEF Range
  <2> QED
    BY <2>2, <2>5, <2>6
<1>5. ASSUME InOrder(a), InOrder(b), \A f \in Range(a), g \in Range(b) : f.id < g.id
      PROVE  InOrder(c)
  <2>1. SUFFICES ASSUME NEW i \in 1..(m + n), NEW j \in 1..(m + n), i < j PROVE c[i].id < c[j].id
    BY <1>1 DEF InOrder
  <2>2. CASE j <= m
    <3>1. i \in 1..m /\ j \in 1..m
      BY <1>1, <2>1, <2>2
    <3>2. a[i].id < a[j].id
      BY <1>1, <1>5, <2>1, <3>1 DEF InOrder
    <3> QED
      BY <1>2, <3>1, <3>2
  <2>3. CASE i <= m /\ m < j
    <3>1. i \in 1..m /\ j - m \in 1..n /\ m + (j - m) = j
      BY <1>1, <2>3
    <3>2. a[i] \in Range(a) /\ b[j - m] \in Range(b)
      BY <1>1, <3>1 DEF Range
    <3>3. c[i] = a[i] /\ c[j] = b[j - m]
      BY <1>1, <1>2, <1>3, <3>1
    <3> QED
      BY <1>5, <3>2, <3>3
  <2>4. CASE m < i
    <3> DEFINE k == i - m
               l == j - m
    <3>1. k \in 1..n /\ l \in 1..n /\ k < l /\ i = m + k /\ j = m + l
      BY <1>1, <2>1, <2>4
    <3> HIDE DEF k, l
    <3>2. b[k].id < b[l].id
      BY <1>1, <1>5, <3>1 DEF InOrder
    <3> QED
      BY <1>3, <3>1, <3>2
  <2> QED
    BY <1>1, <2>1, <2>2, <2>3, <2>4
<1> QED
  BY <1>4, <1>5 DEF c

LEMMA ThinsConcat ==
  ASSUME NEW a \in Texts, NEW b \in Texts, NEW c \in Texts, NEW d \in Texts,
         Thins(a, c), Thins(b, d)
  PROVE  Thins(a \o b, c \o d)
<1>1. Range(a \o b) = Range(a) \cup Range(b) /\ Range(c \o d) = Range(c) \cup Range(d)
  BY RangeConcatenation DEF Texts
<1>2. ASSUME InOrder(c \o d) PROVE InOrder(a \o b)
  <2>1. InOrder(c) /\ InOrder(d) /\ \A f \in Range(c), g \in Range(d) : f.id < g.id
    BY <1>2, InOrderConcat
  <2>2. InOrder(a) /\ InOrder(b) /\ \A f \in Range(a), g \in Range(b) : f.id < g.id
    BY <2>1 DEF Thins
  <2> QED
    BY <2>2, InOrderConcat
<1> QED
  BY <1>1, <1>2 DEF Thins

\* Thinning the texts of a sequence thins what they make together.
LEMMA ThinsFlatten ==
  ASSUME NEW a \in Seq(Texts), NEW b \in Seq(Texts), Len(a) = Len(b),
         \A i \in 1..Len(b) : Thins(a[i], b[i])
  PROVE  Thins(FlattenSeq(a), FlattenSeq(b))
<1> DEFINE Thinned(x, y) == Len(x) = Len(y) /\ \A i \in 1..Len(y) : Thins(x[i], y[i])
           T == {y \in Seq(Texts) : \A x \in Seq(Texts) : Thinned(x, y) => Thins(FlattenSeq(x), FlattenSeq(y))}
<1>1. <<>> \in T
  <2> SUFFICES ASSUME NEW x \in Seq(Texts), Len(x) = Len(<<>>) PROVE Thins(FlattenSeq(x), FlattenSeq(<<>>))
    BY EmptySeq
  <2>1. x = <<>>
    BY EmptySeq
  <2> QED
    BY <2>1, FlattenNothing, NothingThins
<1>2. ASSUME NEW y \in Seq(Texts), NEW t \in Texts, y \in T PROVE Append(y, t) \in T
  <2> SUFFICES ASSUME NEW x \in Seq(Texts), Thinned(x, Append(y, t))
               PROVE  Thins(FlattenSeq(x), FlattenSeq(Append(y, t)))
    BY AppendProperties
  <2>1. /\ Len(Append(y, t)) = Len(y) + 1 /\ Append(y, t)[Len(y) + 1] = t
        /\ \A i \in 1..Len(y) : Append(y, t)[i] = y[i]
        /\ Len(y) \in Nat
    BY AppendProperties, LenProperties
  <2>2. x # <<>>
    BY <2>1, EmptySeq
  <2>3. PICK z \in Seq(Texts), s \in Texts : x = Append(z, s)
    BY <2>2, SequenceEmptyOrAppend
  <2>4. /\ Len(x) = Len(z) + 1 /\ x[Len(z) + 1] = s
        /\ \A i \in 1..Len(z) : x[i] = z[i]
        /\ Len(z) \in Nat
    BY <2>3, AppendProperties, LenProperties
  <2>5. Len(z) = Len(y)
    BY <2>1, <2>4
  <2>6. Thinned(z, y) /\ Thins(s, t)
    <3>1. \A i \in 1..Len(y) : i \in 1..(Len(y) + 1)
      BY <2>1
    <3>2. Len(y) + 1 \in 1..(Len(y) + 1)
      BY <2>1
    <3> QED
      BY <2>1, <2>4, <2>5, <3>1, <3>2
  <2>7. Thins(FlattenSeq(z), FlattenSeq(y))
    BY <1>2, <2>6
  <2>8. /\ FlattenSeq(x) = FlattenSeq(z) \o s /\ FlattenSeq(Append(y, t)) = FlattenSeq(y) \o t
        /\ FlattenSeq(z) \in Texts /\ FlattenSeq(y) \in Texts
    BY <2>3, FlattenAppends, FlattenIsSeq DEF Texts
  <2> QED
    BY <2>6, <2>7, <2>8, ThinsConcat
<1> HIDE DEF T
<1>3. b \in T
  BY <1>1, <1>2, InductionOnSeq
<1> QED
  BY <1>3 DEF T

\* A text is as long as its fragments, each of which has a length.
LEMMA LengthIsNatural ==
  ASSUME NEW text \in Texts
  PROVE  Length(text) \in Nat /\ (text = <<>> <=> Length(text) = 0)
<1> DEFINE n == Len(text)
           step == [x \in (1..n) \X Nat |-> x[2] + text[x[1]].size]
           Recursive(g) == g = [i \in 0..n |-> IF i = 0 THEN 0 ELSE g[i - 1] + text[i].size]
<1>1. n \in Nat /\ (text = <<>> <=> n = 0) /\ \A i \in 1..n : text[i].size \in Nat /\ text[i].size > 0
  <2>1. text \in [1..n -> Fragment] /\ n \in Nat /\ (text = <<>> <=> n = 0)
    BY LenProperties, EmptySeq DEF Texts
  <2> HIDE DEF n
  <2> QED
    BY <2>1 DEF Fragment
<1>2. step \in [(1..n) \X Nat -> Nat]
  <2> HIDE DEF n
  <2> QED
    BY <1>1
<1>3. PICK g \in [0..n -> Nat] : g[0] = 0 /\ \A i \in 1..n : g[i] = step[<<i, g[i - 1]>>]
  <2> DEFINE zero == 0
             X == Nat
  <2>1. n \in Nat /\ zero \in X
    BY <1>1
  <2>2. step \in [(1..n) \X X -> X]
    BY <1>2
  <2> HIDE DEF n, step, zero, X
  <2>3. HasRecursion(X, zero, n, step)
    BY <2>1, <2>2, Recursion, Zenon
  <2> QED
    BY <2>3 DEF HasRecursion, zero, X
<1>4. Recursive(g)
  <2> HIDE DEF n
  <2>1. \A i \in 1..n : i - 1 \in 0..n /\ <<i, g[i - 1]>> \in (1..n) \X Nat
    BY <1>1
  <2>2. \A i \in 1..n : step[<<i, g[i - 1]>>] = g[i - 1] + text[i].size
    BY <2>1
  <2>3. \A i \in 0..n : i # 0 => i \in 1..n
    BY <1>1
  <2> HIDE DEF step
  <2>4. \A i \in 0..n : g[i] = IF i = 0 THEN 0 ELSE g[i - 1] + text[i].size
    BY <1>3, <2>2, <2>3
  <2>5. g = [i \in 0..n |-> g[i]]
    OBVIOUS
  <2> QED
    BY <2>4, <2>5
<1>5. Length(text) = (CHOOSE h : Recursive(h))[n]
  BY DEF Length
<1>6. PICK h : Recursive(h) /\ Length(text) = h[n]
  BY <1>4, <1>5
<1> HIDE DEF n
<1>7. \A i \in 0..n : h[i] = IF i = 0 THEN 0 ELSE h[i - 1] + text[i].size
  BY <1>6
<1> DEFINE S == {i \in Nat : i \in 0..n => h[i] \in Nat /\ h[i] >= i}
<1>8. 0 \in S
  BY <1>7
<1>9. ASSUME NEW i \in Nat, i \in S PROVE i + 1 \in S
  <2> SUFFICES ASSUME i + 1 \in 0..n PROVE h[i + 1] \in Nat /\ h[i + 1] >= i + 1
    OBVIOUS
  <2>1. i \in 0..n /\ i + 1 \in 1..n /\ (i + 1) - 1 = i /\ i + 1 # 0
    BY <1>1
  <2>2. h[i + 1] = h[i] + text[i + 1].size
    BY <1>7, <2>1
  <2>3. h[i] \in Nat /\ h[i] >= i
    BY <1>9, <2>1
  <2> QED
    BY <1>1, <2>1, <2>2, <2>3
<1> HIDE DEF S, Recursive
<1>10. n \in S
  BY <1>1, <1>8, <1>9, InductionOnNat
<1>11. h[n] \in Nat /\ h[n] >= n
  BY <1>1, <1>10 DEF S
<1>12. n = 0 => h[n] = 0
  BY <1>7, <1>1
<1> QED
  BY <1>1, <1>6, <1>11, <1>12

----------------------------------------------------------------------------
(* What is chosen, filtered and split.                                      *)

\* A sequence given by its places is one.
LEMMA ByPlaces ==
  ASSUME NEW A, NEW n \in Nat, NEW s \in [1..n -> A]
  PROVE  s \in Seq(A) /\ Len(s) = n
OBVIOUS

LEMMA ChosenNothing ==
  ASSUME NEW I PROVE Chosen(<<>>, I) = <<>>
<1>1. [i \in DOMAIN <<>> |-> IF i \in I THEN <<<<>>[i]>> ELSE <<>>] = <<>>
  OBVIOUS
<1> QED
  BY <1>1, FlattenNothing DEF Chosen

LEMMA ChosenAppend ==
  ASSUME NEW A, NEW seq \in Seq(A), NEW x \in A, NEW I, NEW J,
         \A i \in 1..Len(seq) : i \in I <=> i \in J
  PROVE  Chosen(Append(seq, x), I) =
           Chosen(seq, J) \o (IF Len(seq) + 1 \in I THEN <<x>> ELSE <<>>)
<1> DEFINE n == Len(seq)
           longer == Append(seq, x)
           a == [i \in 1..n |-> IF i \in J THEN <<seq[i]>> ELSE <<>>]
           b == [i \in 1..(n + 1) |-> IF i \in I THEN <<longer[i]>> ELSE <<>>]
           last == IF n + 1 \in I THEN <<x>> ELSE <<>>
<1>1. /\ n \in Nat /\ DOMAIN seq = 1..n /\ DOMAIN longer = 1..(n + 1) /\ longer[n + 1] = x
      /\ \A i \in 1..n : longer[i] = seq[i] /\ seq[i] \in A
  BY AppendProperties, LenProperties
<1>2. Chosen(longer, I) = FlattenSeq(b) /\ Chosen(seq, J) = FlattenSeq(a)
  BY <1>1 DEF Chosen
<1>3. last \in Seq(A) /\ a \in [1..n -> Seq(A)] /\ b \in [1..(n + 1) -> Seq(A)]
  <2>1. <<x>> \in Seq(A) /\ <<>> \in Seq(A) /\ \A i \in 1..n : <<seq[i]>> \in Seq(A)
    BY <1>1
  <2>2. \A i \in 1..(n + 1) : longer[i] \in A
    BY <1>1
  <2>3. \A i \in 1..(n + 1) : <<longer[i]>> \in Seq(A)
    BY <2>2
  <2> HIDE DEF longer, n
  <2> QED
    BY <2>1, <2>3
<1>4. a \in Seq(Seq(A)) /\ Len(a) = n /\ b \in Seq(Seq(A)) /\ Len(b) = n + 1
  <2> HIDE DEF a, b, n
  <2> QED
    BY <1>1, <1>3, ByPlaces
<1>5. b = Append(a, last)
  <2>1. /\ Append(a, last) \in Seq(Seq(A)) /\ Len(Append(a, last)) = n + 1
        /\ \A i \in 1..n : Append(a, last)[i] = a[i]
        /\ Append(a, last)[n + 1] = last
    <3> HIDE DEF a, last, n
    <3> QED
      BY <1>3, <1>4, AppendProperties
  <2>2. \A i \in 1..n : b[i] = a[i]
    <3> HIDE DEF longer, n
    <3> QED
      BY <1>1
  <2>3. b[n + 1] = last
    <3> HIDE DEF longer, n
    <3> QED
      BY <1>1
  <2> HIDE DEF a, b, last, n
  <2>4. \A i \in 1..(n + 1) : b[i] = Append(a, last)[i]
    BY <1>1, <2>1, <2>2, <2>3
  <2> QED
    BY <1>4, <2>1, <2>4, SeqEqual
<1> HIDE DEF a, b, last, n
<1>6. FlattenSeq(b) = FlattenSeq(a) \o last
  BY <1>3, <1>4, <1>5, FlattenAppends
<1> QED
  BY <1>2, <1>6 DEF last, n

\* What is chosen is some of it.
LEMMA ChosenIsPart ==
  ASSUME NEW A, NEW seq \in Seq(A), NEW I
  PROVE  Chosen(seq, I) \in Seq(A) /\ Range(Chosen(seq, I)) \subseteq Range(seq)
<1> DEFINE T == {x \in Seq(A) : Chosen(x, I) \in Seq(A) /\ Range(Chosen(x, I)) \subseteq Range(x)}
<1>1. <<>> \in T
  BY ChosenNothing, EmptySeq
<1>2. ASSUME NEW x \in Seq(A), NEW e \in A, x \in T PROVE Append(x, e) \in T
  <2> DEFINE last == IF Len(x) + 1 \in I THEN <<e>> ELSE <<>>
  <2>1. Chosen(Append(x, e), I) = Chosen(x, I) \o last
    BY ChosenAppend
  <2>2. last \in Seq(A) /\ Range(last) \subseteq {e} /\ <<e>> \in Seq(A) /\ Range(<<e>>) = {e}
    BY DEF Range
  <2>3. Chosen(x, I) \in Seq(A) /\ Range(Chosen(x, I)) \subseteq Range(x)
    BY <1>2
  <2> HIDE DEF last
  <2>4. /\ Chosen(x, I) \o last \in Seq(A)
        /\ Range(Chosen(x, I) \o last) = Range(Chosen(x, I)) \cup Range(last)
    BY <2>2, <2>3, ConcatProperties, RangeConcatenation
  <2>5. Append(x, e) \in Seq(A) /\ Range(Append(x, e)) = Range(x) \cup {e}
    <3>1. Append(x, e) \in Seq(A)
      BY AppendProperties
    <3>2. Append(x, e) = x \o <<e>>
      BY AppendIsConcat
    <3>3. Range(x \o <<e>>) = Range(x) \cup Range(<<e>>)
      <4> DEFINE one == <<e>>
      <4>1. one \in Seq(A)
        BY <2>2
      <4> HIDE DEF one
      <4>2. Range(x \o one) = Range(x) \cup Range(one)
        BY <4>1, RangeConcatenation
      <4> QED
        BY <4>2 DEF one
    <3> QED
      BY <2>2, <3>1, <3>2, <3>3
  <2> QED
    BY <2>1, <2>2, <2>3, <2>4, <2>5
<1> HIDE DEF T
<1>3. seq \in T
  BY <1>1, <1>2, InductionOnSeq
<1> QED
  BY <1>3 DEF T

\* The filter goes fragment by fragment.
Passing(f) == IF call.filter => Content(<<f>>) THEN <<f>> ELSE <<>>

LEMMA PassingThins ==
  ASSUME NEW f \in Fragment
  PROVE  Passing(f) \in Texts /\ Thins(Passing(f), <<f>>) /\ <<f>> \in Texts
<1>1. <<f>> \in Texts /\ <<>> \in Texts
  BY DEF Texts
<1>2. Thins(<<f>>, <<f>>) /\ Thins(<<>>, <<f>>)
  BY NothingThins DEF Thins
<1> QED
  BY <1>1, <1>2 DEF Passing

LEMMA FilteredNothing == Filtered(<<>>) = <<>>
BY ChosenNothing DEF Filtered

LEMMA FilteredAppend ==
  ASSUME NEW t \in Texts, NEW f \in Fragment
  PROVE  Filtered(Append(t, f)) = Filtered(t) \o Passing(f)
<1>1. CASE call.filter
  <2> DEFINE u == Append(t, f)
             I == {i \in DOMAIN u : Content(<<u[i]>>)}
             J == {i \in DOMAIN t : Content(<<t[i]>>)}
  <2>1. /\ DOMAIN u = 1..(Len(t) + 1) /\ DOMAIN t = 1..Len(t) /\ Len(t) \in Nat
        /\ u[Len(t) + 1] = f /\ \A i \in 1..Len(t) : u[i] = t[i]
    BY AppendProperties, LenProperties DEF Texts
  <2>2. Filtered(u) = Chosen(u, I) /\ Filtered(t) = Chosen(t, J)
    BY <1>1 DEF Filtered
  <2> HIDE DEF u
  <2>3. \A i \in 1..Len(t) : i \in I <=> i \in J
    BY <2>1
  <2>4. Len(t) + 1 \in I <=> Content(<<f>>)
    BY <2>1
  <2> HIDE DEF I, J
  <2>5. Chosen(Append(t, f), I) = Chosen(t, J) \o (IF Len(t) + 1 \in I THEN <<f>> ELSE <<>>)
    BY <2>3, ChosenAppend DEF Texts
  <2> QED
    BY <1>1, <2>2, <2>4, <2>5 DEF Passing, u
<1>2. CASE ~call.filter
  BY <1>2, AppendIsConcat DEF Filtered, Passing, Texts
<1> QED
  BY <1>1, <1>2

LEMMA FilteredThins ==
  ASSUME NEW text \in Texts
  PROVE  Filtered(text) \in Texts /\ Thins(Filtered(text), text)
<1> DEFINE T == {x \in Texts : Filtered(x) \in Texts /\ Thins(Filtered(x), x)}
<1>1. <<>> \in T
  BY FilteredNothing, NothingThins, EmptySeq DEF Texts
<1>2. ASSUME NEW x \in Texts, NEW f \in Fragment, x \in T PROVE Append(x, f) \in T
  <2>1. Filtered(Append(x, f)) = Filtered(x) \o Passing(f) /\ Append(x, f) = x \o <<f>>
    BY FilteredAppend, AppendIsConcat DEF Texts
  <2>2. /\ Filtered(x) \in Texts /\ Thins(Filtered(x), x)
        /\ Passing(f) \in Texts /\ Thins(Passing(f), <<f>>) /\ <<f>> \in Texts
    BY <1>2, PassingThins
  <2>3. Filtered(x) \o Passing(f) \in Texts /\ x \o <<f>> \in Texts
    BY <2>2, ConcatProperties DEF Texts
  <2>4. Thins(Filtered(x) \o Passing(f), x \o <<f>>)
    BY <2>2, ThinsConcat
  <2> QED
    BY <2>1, <2>3, <2>4
<1> HIDE DEF T
<1>3. text \in T
  BY <1>1, <1>2, InductionOnSeq DEF Texts
<1> QED
  BY <1>3 DEF T

LEMMA FilteredConcat ==
  ASSUME NEW a \in Texts, NEW b \in Texts
  PROVE  Filtered(a \o b) = Filtered(a) \o Filtered(b)
<1> DEFINE T == {x \in Texts : Filtered(a \o x) = Filtered(a) \o Filtered(x)}
<1>0. Filtered(a) \in Texts
  BY FilteredThins
<1>1. <<>> \in T
  <2>1. a \o <<>> = a /\ Filtered(a) \o <<>> = Filtered(a)
    BY <1>0, ConcatEmptySeq DEF Texts
  <2> QED
    BY <2>1, FilteredNothing, EmptySeq DEF Texts
<1>2. ASSUME NEW x \in Texts, NEW f \in Fragment, x \in T PROVE Append(x, f) \in T
  <2>0. Filtered(x) \in Texts /\ <<f>> \in Texts /\ Passing(f) \in Texts /\ a \o x \in Texts /\ Append(x, f) \in Texts
    BY FilteredThins, PassingThins, ConcatProperties, AppendProperties DEF Texts
  <2>1. a \o Append(x, f) = Append(a \o x, f)
    <3>1. Append(x, f) = x \o <<f>> /\ Append(a \o x, f) = (a \o x) \o <<f>>
      BY <2>0, AppendIsConcat DEF Texts
    <3> QED
      BY <2>0, <3>1, ConcatAssociative DEF Texts
  <2>2. Filtered(Append(a \o x, f)) = Filtered(a \o x) \o Passing(f)
    BY <2>0, FilteredAppend
  <2>3. Filtered(a \o x) = Filtered(a) \o Filtered(x)
    BY <1>2
  <2>4. (Filtered(a) \o Filtered(x)) \o Passing(f) = Filtered(a) \o (Filtered(x) \o Passing(f))
    BY <1>0, <2>0, ConcatAssociative DEF Texts
  <2>5. Filtered(Append(x, f)) = Filtered(x) \o Passing(f)
    BY FilteredAppend
  <2> QED
    BY <2>0, <2>1, <2>2, <2>3, <2>4, <2>5
<1> HIDE DEF T
<1>3. b \in T
  BY <1>1, <1>2, InductionOnSeq DEF Texts
<1> QED
  BY <1>3 DEF T

LEMMA FilteredFlatten ==
  ASSUME NEW seqs \in Seq(Texts)
  PROVE  Filtered(FlattenSeq(seqs)) = FlattenSeq([k \in DOMAIN seqs |-> Filtered(seqs[k])])
<1> DEFINE Each(x) == [k \in DOMAIN x |-> Filtered(x[k])]
           T == {x \in Seq(Texts) : Filtered(FlattenSeq(x)) = FlattenSeq(Each(x))}
<1>1. <<>> \in T
  <2>1. Each(<<>>) = <<>>
    OBVIOUS
  <2> QED
    BY <2>1, FlattenNothing, FilteredNothing, EmptySeq
<1>2. ASSUME NEW x \in Seq(Texts), NEW t \in Texts, x \in T PROVE Append(x, t) \in T
  <2> DEFINE y == Append(x, t)
  <2>1. /\ DOMAIN y = 1..(Len(x) + 1) /\ DOMAIN x = 1..Len(x) /\ Len(x) \in Nat /\ y \in Seq(Texts)
        /\ y[Len(x) + 1] = t /\ \A k \in 1..Len(x) : y[k] = x[k] /\ x[k] \in Texts
    BY AppendProperties, LenProperties
  <2>2. Filtered(t) \in Texts /\ \A k \in 1..Len(x) : Filtered(x[k]) \in Texts
    BY <2>1, FilteredThins
  <2>3. Each(x) \in Seq(Texts) /\ Len(Each(x)) = Len(x)
    <3>1. Each(x) \in [1..Len(x) -> Texts]
      BY <2>1, <2>2
    <3> HIDE DEF Each
    <3> QED
      BY <2>1, <3>1, ByPlaces
  <2>4. Each(y) \in Seq(Texts) /\ Len(Each(y)) = Len(x) + 1
    <3> HIDE DEF y
    <3>1. \A k \in 1..(Len(x) + 1) : Filtered(y[k]) \in Texts
      BY <2>1, <2>2
    <3>2. Each(y) \in [1..(Len(x) + 1) -> Texts]
      BY <2>1, <3>1
    <3> HIDE DEF Each
    <3> QED
      BY <2>1, <3>2, ByPlaces
  <2>5. Each(y) = Append(Each(x), Filtered(t))
    <3>1. /\ Append(Each(x), Filtered(t)) \in Seq(Texts) /\ Len(Append(Each(x), Filtered(t))) = Len(x) + 1
          /\ \A k \in 1..Len(x) : Append(Each(x), Filtered(t))[k] = Each(x)[k]
          /\ Append(Each(x), Filtered(t))[Len(x) + 1] = Filtered(t)
      <4> HIDE DEF Each
      <4> QED
        BY <2>2, <2>3, AppendProperties
    <3> HIDE DEF y
    <3>2. \A k \in 1..Len(x) : Each(y)[k] = Each(x)[k]
      BY <2>1
    <3>3. Each(y)[Len(x) + 1] = Filtered(t)
      BY <2>1
    <3> HIDE DEF Each
    <3>4. \A k \in 1..(Len(x) + 1) : Each(y)[k] = Append(Each(x), Filtered(t))[k]
      BY <2>1, <3>1, <3>2, <3>3
    <3> QED
      BY <2>4, <3>1, <3>4, SeqEqual
  <2> HIDE DEF Each
  <2>6. FlattenSeq(Each(y)) = FlattenSeq(Each(x)) \o Filtered(t)
    BY <2>2, <2>3, <2>5, FlattenAppends DEF Texts
  <2>7. FlattenSeq(y) = FlattenSeq(x) \o t /\ FlattenSeq(x) \in Texts
    BY FlattenAppends, FlattenIsSeq DEF Texts
  <2>8. Filtered(FlattenSeq(x) \o t) = Filtered(FlattenSeq(x)) \o Filtered(t)
    BY <2>7, FilteredConcat
  <2> QED
    BY <1>2, <2>1, <2>6, <2>7, <2>8
<1> HIDE DEF T
<1>3. seqs \in T
  BY <1>1, <1>2, InductionOnSeq
<1> QED
  BY <1>3 DEF T

\* Choosing among texts thins what they make together.
LEMMA ChosenThins ==
  ASSUME NEW all \in Seq(Texts), NEW I
  PROVE  Thins(FlattenSeq(Chosen(all, I)), FlattenSeq(all))
<1> DEFINE T == {x \in Seq(Texts) : Thins(FlattenSeq(Chosen(x, I)), FlattenSeq(x))}
<1>1. <<>> \in T
  BY ChosenNothing, FlattenNothing, NothingThins, EmptySeq
<1>2. ASSUME NEW x \in Seq(Texts), NEW t \in Texts, x \in T PROVE Append(x, t) \in T
  <2> DEFINE last == IF Len(x) + 1 \in I THEN <<t>> ELSE <<>>
  <2>1. Chosen(Append(x, t), I) = Chosen(x, I) \o last
    BY ChosenAppend
  <2>2. Chosen(x, I) \in Seq(Texts)
    BY ChosenIsPart
  <2>3. last \in Seq(Texts)
    OBVIOUS
  <2>4. Thins(FlattenSeq(last), t) /\ FlattenSeq(last) \in Texts
    <3>1. Thins(t, t) /\ Thins(<<>>, t) /\ <<>> \in Texts
      BY NothingThins, EmptySeq DEF Thins, Texts
    <3>2. FlattenSeq(<<t>>) = t /\ FlattenSeq(<<>>) = <<>>
      BY FlattenOne, FlattenNothing DEF Texts
    <3> QED
      BY <3>1, <3>2
  <2> HIDE DEF last
  <2>5. FlattenSeq(Chosen(x, I) \o last) = FlattenSeq(Chosen(x, I)) \o FlattenSeq(last)
    BY <2>2, <2>3, FlattenConcat DEF Texts
  <2>6. FlattenSeq(Append(x, t)) = FlattenSeq(x) \o t
    BY FlattenAppends DEF Texts
  <2>7. FlattenSeq(Chosen(x, I)) \in Texts /\ FlattenSeq(x) \in Texts
    BY <2>2, FlattenIsSeq DEF Texts
  <2>8. Thins(FlattenSeq(Chosen(x, I)), FlattenSeq(x)) /\ Append(x, t) \in Seq(Texts)
    BY <1>2, AppendProperties
  <2> QED
    BY <2>1, <2>4, <2>5, <2>6, <2>7, <2>8, ThinsConcat
<1> HIDE DEF T
<1>3. all \in T
  BY <1>1, <1>2, InductionOnSeq
<1> QED
  BY <1>3 DEF T

LEMMA ContentSentencesThin ==
  ASSUME NEW all \in Seq(Texts)
  PROVE  /\ ContentSentences(all) \in Seq(Texts)
         /\ Range(ContentSentences(all)) \subseteq Range(all)
         /\ Thins(FlattenSeq(ContentSentences(all)), FlattenSeq(all))
         /\ ~call.filter => ContentSentences(all) = all
<1>1. CASE call.filter
  <2> DEFINE I == {k \in DOMAIN all : Content(all[k])}
  <2>1. ContentSentences(all) = Chosen(all, I)
    BY <1>1 DEF ContentSentences
  <2> HIDE DEF I
  <2> QED
    BY <1>1, <2>1, ChosenIsPart, ChosenThins
<1>2. CASE ~call.filter
  BY <1>2 DEF ContentSentences, Thins
<1> QED
  BY <1>1, <1>2

----------------------------------------------------------------------------
(* Sentences.                                                               *)

\* Fragment m is the last before the next start after n.
Ends(text, n, m) ==
  /\ m \in n..Len(text)
  /\ (n + 1)..m \cap Starts(text) = {}
  /\ m < Len(text) => m + 1 \in Starts(text)

LEMMA SentencesEnd ==
  ASSUME NEW text \in Texts, NEW n \in 1..Len(text)
  PROVE  Ends(text, n, EndOfSentence(text, n))
<1> DEFINE l == Len(text)
           S == {d \in Nat : \A k \in 1..l : l - k = d => \E m \in k..l : Ends(text, k, m)}
<1>0. l \in Nat
  BY LenProperties DEF Texts
<1>1. 0 \in S
  <2>1. \A k \in 1..l : l - k = 0 => k = l
    BY <1>0
  <2>2. l \in l..l /\ (l + 1)..l = {} /\ ~(l < l)
    BY <1>0
  <2> QED
    BY <2>1, <2>2 DEF Ends
<1>2. ASSUME NEW d \in Nat, d \in S PROVE d + 1 \in S
  <2> SUFFICES ASSUME NEW k \in 1..l, l - k = d + 1 PROVE \E m \in k..l : Ends(text, k, m)
    OBVIOUS
  <2>1. k + 1 \in 1..l /\ l - (k + 1) = d
    BY <1>0
  <2>2. PICK m \in (k + 1)..l : Ends(text, k + 1, m)
    BY <1>2, <2>1
  <2>3. CASE k + 1 \in Starts(text)
    <3>1. k \in k..l /\ (k + 1)..k = {}
      BY <1>0, <2>1
    <3> QED
      BY <2>3, <3>1 DEF Ends
  <2>4. CASE k + 1 \notin Starts(text)
    <3>1. m \in k..l /\ \A i \in (k + 1)..m : i = k + 1 \/ i \in ((k + 1) + 1)..m
      BY <1>0, <2>1
    <3>2. (k + 1)..m \cap Starts(text) = {}
      BY <2>2, <2>4, <3>1 DEF Ends
    <3> QED
      BY <2>2, <3>1, <3>2 DEF Ends
  <2> QED
    BY <2>3, <2>4
<1> HIDE DEF S
<1>3. \A d \in Nat : d \in S
  BY <1>1, <1>2, InductionOnNat
<1>4. l - n \in Nat
  BY <1>0
<1>5. \E m \in n..l : Ends(text, n, m)
  BY <1>3, <1>4 DEF S
<1>6. EndOfSentence(text, n) = CHOOSE m \in n..Len(text) : (n + 1)..m \cap Starts(text) = {} /\ (m < Len(text) => m + 1 \in Starts(text))
  BY DEF EndOfSentence
<1> QED
  BY <1>5, <1>6 DEF Ends

\* The sentences of a text are the text, cut; none of them is empty.
Runs(text) == [n \in DOMAIN text |-> SubSeq(text, n, EndOfSentence(text, n))]

LEMMA RunsAreTexts ==
  ASSUME NEW text \in Texts
  PROVE  /\ Runs(text) \in Seq(Texts)
         /\ Len(Runs(text)) = Len(text)
         /\ \A n \in 1..Len(text) : Runs(text)[n] = SubSeq(text, n, EndOfSentence(text, n)) /\ Runs(text)[n] # <<>>
<1> DEFINE l == Len(text)
<1>0. l \in Nat /\ DOMAIN text = 1..l /\ \A i \in 1..l : text[i] \in Fragment
  BY LenProperties DEF Texts
<1>1. ASSUME NEW n \in 1..l
      PROVE  SubSeq(text, n, EndOfSentence(text, n)) \in Texts /\ SubSeq(text, n, EndOfSentence(text, n)) # <<>>
  <2>1. EndOfSentence(text, n) \in n..l
    BY SentencesEnd DEF Ends
  <2> DEFINE m == EndOfSentence(text, n)
             s == SubSeq(text, n, m)
  <2> HIDE DEF m, l
  <2>2. m \in Int /\ n \in Int /\ n <= m /\ \A i \in n..m : text[i] \in Fragment
    BY <1>0, <2>1 DEF m
  <2>3. s \in Texts /\ Len(s) = m - n + 1
    <3>1. s \in Seq(Fragment) /\ Len(s) = IF n <= m THEN m - n + 1 ELSE 0
      BY <2>2, SubSeqProperties
    <3> HIDE DEF s
    <3> QED
      BY <2>2, <3>1 DEF Texts
  <2>4. s # <<>>
    <3>1. m - n + 1 # 0
      BY <2>2
    <3> HIDE DEF s
    <3> QED
      BY <2>3, <3>1, EmptySeq
  <2> QED
    BY <2>3, <2>4 DEF m
<1>2. Runs(text) \in [1..l -> Texts] /\ \A n \in 1..l : Runs(text)[n] = SubSeq(text, n, EndOfSentence(text, n))
  <2> HIDE DEF l
  <2> QED
    BY <1>0, <1>1 DEF Runs
<1>3. Runs(text) \in Seq(Texts) /\ Len(Runs(text)) = l
  <2> HIDE DEF l
  <2> QED
    BY <1>0, <1>2, ByPlaces
<1> QED
  BY <1>1, <1>2, <1>3

LEMMA SentencesAreText ==
  ASSUME NEW text \in Texts
  PROVE  /\ Sentences(text) \in Seq(Texts)
         /\ FlattenSeq(Sentences(text)) = text
         /\ <<>> \notin Range(Sentences(text))
<1> DEFINE l == Len(text)
           runs == Runs(text)
           I == Starts(text)
           Made(k, m) == Ends(text, k, m) /\ FlattenSeq(Chosen(SubSeq(runs, 1, k), I)) = SubSeq(text, 1, m)
           S == {k \in Nat : k <= l => \E m \in k..l : Made(k, m)}
<1>0. l \in Nat /\ DOMAIN text = 1..l /\ \A i \in 1..l : text[i] \in Fragment
  BY LenProperties DEF Texts
<1>1. /\ runs \in Seq(Texts) /\ Len(runs) = l
      /\ \A n \in 1..l : runs[n] \in Texts /\ runs[n] = SubSeq(text, n, EndOfSentence(text, n)) /\ runs[n] # <<>>
  BY RunsAreTexts, LenProperties
<1>2. Sentences(text) = Chosen(runs, I)
  BY DEF Sentences, Runs
<1> HIDE DEF runs, I, l
<1>3. 0 \in S
  <2>1. SubSeq(runs, 1, 0) = <<>> /\ SubSeq(text, 1, 0) = <<>>
    BY SubSeqEmpty
  <2>2. Ends(text, 0, 0)
    <3>1. (0 + 1)..0 = {} /\ 0 \in 0..l
      BY <1>0
    <3>2. 0 < l => 1 \in Starts(text)
      BY <1>0 DEF Starts
    <3> QED
      BY <1>0, <3>1, <3>2 DEF Ends, l
  <2>3. Made(0, 0)
    BY <2>1, <2>2, ChosenNothing, FlattenNothing
  <2>4. 0 \in 0..l
    BY <1>0
  <2> HIDE DEF Made
  <2> QED
    BY <2>3, <2>4
<1>4. ASSUME NEW k \in Nat, k \in S PROVE k + 1 \in S
  <2> SUFFICES ASSUME k + 1 <= l PROVE \E m \in (k + 1)..l : Made(k + 1, m)
    OBVIOUS
  <2>1. PICK m \in k..l : Made(k, m)
    BY <1>0, <1>4
  <2> DEFINE before == SubSeq(runs, 1, k)
             last == IF k + 1 \in I THEN <<runs[k + 1]>> ELSE <<>>
  <2>2. before \in Seq(Texts) /\ Len(before) = k
    <3>1. \A i \in 1..k : runs[i] \in Texts
      BY <1>0, <1>1
    <3> QED
      BY <3>1, SubSeqProperties
  <2>3. SubSeq(runs, 1, k + 1) = Append(before, runs[k + 1])
    <3>1. 1 \in 1..l /\ k + 1 \in 1..l /\ (k + 1) - 1 = k
      BY <1>0
    <3>2. SubSeq(runs, 1, k + 1) = before \o <<runs[k + 1]>>
      BY <1>1, <3>1, SubSeqRecursiveSecond
    <3>3. runs[k + 1] \in Texts
      BY <1>1, <3>1
    <3> HIDE DEF before
    <3> QED
      BY <2>2, <3>2, <3>3, AppendIsConcat
  <2>4. Chosen(SubSeq(runs, 1, k + 1), I) = Chosen(before, I) \o last
    <3>1. runs[k + 1] \in Texts
      BY <1>0, <1>1
    <3> HIDE DEF before
    <3>2. Chosen(Append(before, runs[k + 1]), I)
            = Chosen(before, I) \o (IF Len(before) + 1 \in I THEN <<runs[k + 1]>> ELSE <<>>)
      BY <2>2, <3>1, ChosenAppend
    <3> QED
      BY <2>2, <2>3, <3>2
  <2>5. FlattenSeq(Chosen(before, I)) = SubSeq(text, 1, m) /\ Ends(text, k, m)
    BY <2>1
  <2>6. Chosen(before, I) \in Seq(Texts)
    <3> HIDE DEF before
    <3> QED
      BY <2>2, ChosenIsPart
  <2> HIDE DEF before
  <2>7. CASE k + 1 \in I
    <3> DEFINE e == EndOfSentence(text, k + 1)
    <3>1. Ends(text, k + 1, e)
      BY <1>0, SentencesEnd DEF l
    <3> HIDE DEF e
    <3>2. m = k
      <4>1. m # k => k + 1 \in (k + 1)..m
        BY <1>0
      <4>2. k + 1 \notin (k + 1)..m
        BY <2>5, <2>7 DEF Ends, I
      <4> QED
        BY <4>1, <4>2
    <3>3. runs[k + 1] = SubSeq(text, k + 1, e) /\ runs[k + 1] \in Texts
      <4>1. k + 1 \in 1..l
        BY <1>0
      <4> QED
        BY <1>1, <4>1 DEF e
    <3>4. last \in Seq(Texts) /\ FlattenSeq(last) = runs[k + 1]
      <4>1. last = <<runs[k + 1]>>
        BY <2>7
      <4>2. FlattenSeq(<<runs[k + 1]>>) = runs[k + 1]
        BY <3>3, FlattenOne DEF Texts
      <4>3. <<runs[k + 1]>> \in Seq(Texts)
        BY <3>3
      <4> QED
        BY <4>1, <4>2, <4>3
    <3>5. FlattenSeq(Chosen(before, I) \o last) = FlattenSeq(Chosen(before, I)) \o FlattenSeq(last)
      BY <2>6, <3>4, FlattenConcat DEF Texts
    <3>6. SubSeq(text, 1, k) \o SubSeq(text, k + 1, e) = SubSeq(text, 1, e)
      <4>1. 1 \in 1..(l + 1) /\ k \in (1 - 1)..l /\ e \in k..l
        BY <1>0, <3>1 DEF Ends, l
      <4> QED
        BY <4>1, ConcatAdjacentSubSeq DEF Texts, l
    <3>7. e \in (k + 1)..l /\ Made(k + 1, e)
      BY <2>4, <2>5, <3>1, <3>2, <3>3, <3>4, <3>5, <3>6 DEF Ends, l
    <3> QED
      BY <3>7
  <2>8. CASE k + 1 \notin I
    <3>1. m \in (k + 1)..l
      <4>1. m # k
        BY <1>0, <2>5, <2>8 DEF Ends, I, l
      <4> QED
        BY <1>0, <4>1
    <3>2. Ends(text, k + 1, m)
      <4>1. \A i \in ((k + 1) + 1)..m : i \in (k + 1)..m
        OBVIOUS
      <4> QED
        BY <2>5, <3>1, <4>1 DEF Ends, l
    <3>3. Chosen(before, I) \o last = Chosen(before, I)
      BY <2>6, <2>8, ConcatEmptySeq
    <3>4. Made(k + 1, m)
      BY <2>4, <2>5, <3>2, <3>3
    <3> QED
      BY <3>1, <3>4
  <2> QED
    BY <2>7, <2>8
<1> HIDE DEF S
<1>5. l \in S
  BY <1>0, <1>3, <1>4, InductionOnNat
<1>6. PICK m \in l..l : Made(l, m)
  BY <1>0, <1>5 DEF S
<1>7. FlattenSeq(Chosen(SubSeq(runs, 1, l), I)) = SubSeq(text, 1, l)
  BY <1>0, <1>6
<1>8. SubSeq(runs, 1, l) = runs /\ SubSeq(text, 1, l) = text
  BY <1>1, SubSeqFull DEF Texts, l
<1>9. <<>> \notin Range(runs)
  BY <1>0, <1>1, LenProperties DEF Range
<1>10. Chosen(runs, I) \in Seq(Texts) /\ Range(Chosen(runs, I)) \subseteq Range(runs)
  BY <1>1, ChosenIsPart
<1> QED
  BY <1>2, <1>7, <1>8, <1>9, <1>10

----------------------------------------------------------------------------
(* The blocks and their text.                                               *)

\* A sequence is the function of its places.
LEMMA PlacesOfSeq ==
  ASSUME NEW A, NEW s \in Seq(A)
  PROVE  s = [i \in DOMAIN s |-> s[i]]
OBVIOUS

LEMMA CallIsTyped ==
  ASSUME call \in Calls
  PROVE  /\ call.type \in Types
         /\ call.blocks \in Seq(Block)
         /\ InOrder(FlattenSeq([i \in DOMAIN call.blocks |-> call.blocks[i].text]))
         /\ call.strategy \in {"fixed", "semantic"}
         /\ call.filter \in BOOLEAN
         /\ call.provider \in {"openai", "ollama"}
         /\ call.max_sentences \in Nat
BY CallsAssumption

\* The readers lose nothing and change no order.
LEMMA ParagraphsAreText ==
  ASSUME call \in Calls
  PROVE  /\ Paragraphs \in Seq(Texts)
         /\ FlattenSeq(Paragraphs) = FlattenSeq([i \in DOMAIN call.blocks |-> call.blocks[i].text])
<1> DEFINE texts == [i \in DOMAIN call.blocks |-> call.blocks[i].text]
           n == Len(call.blocks)
<1>1. texts \in Seq(Texts)
  <2>1. n \in Nat /\ DOMAIN call.blocks = 1..n /\ \A i \in 1..n : call.blocks[i] \in Block
    BY CallIsTyped, LenProperties
  <2> HIDE DEF n
  <2>2. texts \in [1..n -> Texts]
    BY <2>1 DEF Block, Texts
  <2> HIDE DEF texts
  <2> QED
    BY <2>1, <2>2, ByPlaces
<1>2. Paragraphs = CASE call.type = "docx" -> <<FlattenSeq(texts)>>
                     [] call.type = "csv" /\ texts # <<>> -> <<Head(texts), FlattenSeq(Tail(texts))>>
                     [] OTHER -> texts
  BY DEF Paragraphs
<1> HIDE DEF texts
<1>3. CASE call.type = "docx"
  <2>1. FlattenSeq(texts) \in Texts
    BY <1>1, FlattenIsSeq DEF Texts
  <2>2. Paragraphs = <<FlattenSeq(texts)>>
    BY <1>2, <1>3
  <2>3. FlattenSeq(<<FlattenSeq(texts)>>) = FlattenSeq(texts)
    BY <2>1, FlattenOne DEF Texts
  <2>4. <<FlattenSeq(texts)>> \in Seq(Texts)
    BY <2>1
  <2> QED
    BY <2>2, <2>3, <2>4 DEF texts
<1>4. CASE call.type = "csv" /\ texts # <<>>
  <2> DEFINE first == Head(texts)
             rest == FlattenSeq(Tail(texts))
  <2>1. first \in Texts /\ Tail(texts) \in Seq(Texts)
    BY <1>1, <1>4, HeadTailProperties
  <2>2. rest \in Texts
    BY <2>1, FlattenIsSeq DEF Texts
  <2>3. Paragraphs = <<first, rest>>
    BY <1>2, <1>4
  <2>4. FlattenSeq(texts) = first \o rest
    BY <1>1, <1>4, FlattenHead DEF Texts
  <2> HIDE DEF first, rest
  <2>5. FlattenSeq(<<first, rest>>) = FlattenSeq(<<first>>) \o rest
    <3>1. <<first>> \in Seq(Texts) /\ <<first, rest>> = Append(<<first>>, rest)
      BY <2>1
    <3>2. FlattenSeq(Append(<<first>>, rest)) = FlattenSeq(<<first>>) \o rest
      BY <2>2, <3>1, FlattenAppends DEF Texts
    <3> QED
      BY <3>1, <3>2
  <2>6. FlattenSeq(<<first>>) = first
    BY <2>1, FlattenOne DEF Texts
  <2>7. <<first, rest>> \in Seq(Texts)
    BY <2>1, <2>2
  <2> QED
    BY <2>3, <2>4, <2>5, <2>6, <2>7 DEF texts
<1>5. CASE call.type # "docx" /\ ~(call.type = "csv" /\ texts # <<>>)
  <2>1. Paragraphs = texts
    BY <1>2, <1>5
  <2> QED
    BY <1>1, <2>1 DEF texts
<1> QED
  BY <1>3, <1>4, <1>5

LEMMA BlocksAreTyped ==
  ASSUME call \in Calls
  PROVE  /\ Blocks \in Seq(Block)
         /\ [i \in DOMAIN Blocks |-> Blocks[i].text] \in Seq(Texts)
         /\ FlattenSeq([i \in DOMAIN Blocks |-> Blocks[i].text])
              = FlattenSeq([i \in DOMAIN call.blocks |-> call.blocks[i].text])
<1>0. ASSUME NEW b \in Seq(Block) PROVE [i \in DOMAIN b |-> b[i].text] \in Seq(Texts)
  <2> DEFINE n == Len(b)
             texts == [i \in DOMAIN b |-> b[i].text]
  <2>1. n \in Nat /\ DOMAIN b = 1..n /\ \A i \in 1..n : b[i] \in Block
    BY LenProperties
  <2> HIDE DEF n
  <2>2. texts \in [1..n -> Texts]
    BY <2>1 DEF Block, Texts
  <2> HIDE DEF texts
  <2>3. texts \in Seq(Texts)
    BY <2>1, <2>2, ByPlaces
  <2> QED
    BY <2>3 DEF texts
<1>1. CASE Structured
  <2>1. Blocks = call.blocks /\ call.blocks \in Seq(Block)
    BY <1>1, CallIsTyped DEF Blocks
  <2> QED
    BY <1>0, <2>1
<1>2. CASE ~Structured
  <2> DEFINE n == Len(Paragraphs)
             blocks == [i \in DOMAIN Paragraphs |-> [level |-> 0, text |-> Paragraphs[i]]]
  <2>1. n \in Nat /\ DOMAIN Paragraphs = 1..n /\ \A i \in 1..n : Paragraphs[i] \in Texts
    BY ParagraphsAreText, LenProperties
  <2>2. Blocks = blocks
    BY <1>2 DEF Blocks
  <2> HIDE DEF n
  <2>3. blocks \in [1..n -> Block]
    BY <2>1 DEF Block, Texts
  <2>4. DOMAIN blocks = 1..n /\ \A i \in 1..n : blocks[i].text = Paragraphs[i]
    BY <2>1
  <2> HIDE DEF blocks
  <2>5. blocks \in Seq(Block)
    BY <2>1, <2>3, ByPlaces
  <2>6. [i \in DOMAIN blocks |-> blocks[i].text] = Paragraphs
    <3>1. Paragraphs = [i \in DOMAIN Paragraphs |-> Paragraphs[i]]
      BY ParagraphsAreText, PlacesOfSeq
    <3> QED
      BY <2>1, <2>4, <3>1
  <2> QED
    BY <1>0, <2>2, <2>5, <2>6, ParagraphsAreText
<1> QED
  BY <1>1, <1>2

LEMMA TextIsInOrder ==
  ASSUME call \in Calls
  PROVE  Text \in Texts /\ InOrder(Text)
<1>1. Text \in Texts
  BY BlocksAreTyped, FlattenIsSeq DEF Text, Texts
<1>2. InOrder(Text)
  BY BlocksAreTyped, CallIsTyped DEF Text
<1> QED
  BY <1>1, <1>2

\* The part of each block that is no heading.
Bodies == [i \in DOMAIN Blocks |-> IF Structured /\ Blocks[i].level \in 1..3 THEN <<>> ELSE Blocks[i].text]

LEMMA BodyThinsText ==
  ASSUME call \in Calls
  PROVE  /\ Bodies \in Seq(Texts) /\ Len(Bodies) = Len(Blocks)
         /\ BodyText = FlattenSeq(Bodies) /\ BodyText \in Texts
         /\ Thins(BodyText, Text)
<1> DEFINE n == Len(Blocks)
           texts == [i \in DOMAIN Blocks |-> Blocks[i].text]
<1>1. n \in Nat /\ DOMAIN Blocks = 1..n /\ texts \in Seq(Texts)
  BY BlocksAreTyped, LenProperties
<1> HIDE DEF n
<1>2. \A i \in 1..n : texts[i] = Blocks[i].text
  BY <1>1
<1>3. texts \in [1..n -> Texts] /\ Len(texts) = n
  <2>1. DOMAIN texts = 1..n
    BY <1>1
  <2> HIDE DEF texts
  <2> QED
    BY <1>1, <2>1, LenProperties
<1>4. \A i \in 1..n : texts[i] \in Texts /\ <<>> \in Texts
  BY <1>3, EmptySeq DEF Texts
<1>5. Bodies \in [1..n -> Texts]
  <2>1. \A i \in 1..n : Blocks[i].text \in Texts
    BY <1>2, <1>4
  <2> QED
    BY <1>1, <1>4, <2>1 DEF Bodies
<1>6. Bodies \in Seq(Texts) /\ Len(Bodies) = n
  BY <1>1, <1>5, ByPlaces
<1>7. \A i \in 1..n : Thins(Bodies[i], texts[i])
  <2> SUFFICES ASSUME NEW i \in 1..n PROVE Thins(Bodies[i], texts[i])
    OBVIOUS
  <2>1. Bodies[i] = <<>> \/ Bodies[i] = texts[i]
    BY <1>1, <1>2 DEF Bodies
  <2>2. Thins(<<>>, texts[i]) /\ Thins(texts[i], texts[i])
    BY NothingThins DEF Thins
  <2> QED
    BY <2>1, <2>2
<1>8. BodyText = FlattenSeq(Bodies) /\ Text = FlattenSeq(texts)
  BY DEF BodyText, Bodies, Text
<1> HIDE DEF texts
<1>9. Thins(FlattenSeq(Bodies), FlattenSeq(texts))
  BY <1>1, <1>3, <1>6, <1>7, ThinsFlatten
<1>10. FlattenSeq(Bodies) \in Texts
  BY <1>6, FlattenIsSeq DEF Texts
<1> QED
  BY <1>6, <1>8, <1>9, <1>10 DEF n

----------------------------------------------------------------------------
(* Breakpoints.                                                             *)

\* Forced breaks are spaced one after the other, and are numbers.
LEMMA ForcedAreNumbers ==
  ASSUME NEW found \in SUBSET Nat, NEW similarity, Len(similarity) \in Nat \ {0},
         call.max_sentences \in Nat
  PROVE  Forced(found, similarity) \subseteq Nat
<1> DEFINE n == Len(similarity)
           interval == IF call.max_sentences > GroupSize THEN call.max_sentences - GroupSize ELSE 0
           Spacing(u) == u = [k \in 0..n |-> IF k = 0 THEN found ELSE Spaced(u[k - 1], k * interval)]
           X == SUBSET Nat
           step == [x \in (1..n) \X X |-> Spaced(x[2], x[1] * interval)]
<1>1. interval \in Nat
  BY DEF GroupSize
<1>2. Forced(found, similarity) = IF interval = 0 THEN found ELSE (CHOOSE u : Spacing(u))[(n - 1) \div interval]
  BY DEF Forced
<1> HIDE DEF interval
<1>0. n \in Nat \ {0}
  OBVIOUS
<1> HIDE DEF n
<1> USE <1>0
<1>3. \A f \in X, k \in 1..n : Spaced(f, k * interval) \in X
  <2> SUFFICES ASSUME NEW f \in SUBSET Nat, NEW k \in 1..n PROVE Spaced(f, k * interval) \subseteq Nat
    OBVIOUS
  <2> DEFINE b == k * interval
  <2>1. b \in Nat
    <3>1. k \in Nat
      OBVIOUS
    <3>2. \A i, j \in Nat : i * j \in Nat
      OBVIOUS
    <3> QED
      BY <1>1, <3>1, <3>2
  <2> HIDE DEF b
  <2>2. Spaced(f, b) \subseteq Nat
    BY <2>1 DEF Spaced
  <2> QED
    BY <2>2 DEF b
<1>4. step \in [(1..n) \X X -> X]
  <2> HIDE DEF X
  <2> QED
    BY <1>3
<1>5. HasRecursion(X, found, n, step)
  <2>1. found \in X /\ n \in Nat
    OBVIOUS
  <2> HIDE DEF X, step
  <2> QED
    BY <1>4, <2>1, Recursion, Zenon
<1>6. PICK g \in [0..n -> X] : g[0] = found /\ \A i \in 1..n : g[i] = step[<<i, g[i - 1]>>]
  <2> HIDE DEF X, step
  <2> QED
    BY <1>5 DEF HasRecursion
<1>7. Spacing(g)
  <2> HIDE DEF X
  <2>1. \A i \in 1..n : i - 1 \in 0..n /\ <<i, g[i - 1]>> \in (1..n) \X X
    OBVIOUS
  <2>2. \A i \in 1..n : step[<<i, g[i - 1]>>] = Spaced(g[i - 1], i * interval)
    BY <2>1
  <2>3. \A i \in 0..n : i # 0 => i \in 1..n
    OBVIOUS
  <2> HIDE DEF step
  <2>4. \A i \in 0..n : g[i] = IF i = 0 THEN found ELSE Spaced(g[i - 1], i * interval)
    BY <1>6, <2>2, <2>3
  <2>5. g = [i \in 0..n |-> g[i]]
    OBVIOUS
  <2> QED
    BY <2>4, <2>5
<1>8. PICK h : Spacing(h) /\ h = CHOOSE u : Spacing(u)
  <2> HIDE DEF Spacing
  <2> QED
    BY <1>7
<1>9. \A i \in 0..n : h[i] = IF i = 0 THEN found ELSE Spaced(h[i - 1], i * interval)
  BY <1>8
<1> DEFINE S == {i \in Nat : i \in 0..n => h[i] \in X}
<1>10. 0 \in S
  BY <1>9
<1>11. ASSUME NEW i \in Nat, i \in S PROVE i + 1 \in S
  <2> SUFFICES ASSUME i + 1 \in 0..n PROVE h[i + 1] \in X
    OBVIOUS
  <2>1. i \in 0..n /\ i + 1 \in 1..n /\ (i + 1) - 1 = i /\ i + 1 # 0
    OBVIOUS
  <2>2. h[i] \in X
    BY <1>11, <2>1
  <2> HIDE DEF X
  <2>3. h[i + 1] = Spaced(h[i], (i + 1) * interval)
    BY <1>9, <2>1
  <2> QED
    BY <1>3, <2>1, <2>2, <2>3
<1> HIDE DEF S
<1>12. \A i \in 0..n : h[i] \subseteq Nat
  <2>1. \A i \in Nat : i \in S
    BY <1>10, <1>11, InductionOnNat
  <2> QED
    BY <2>1 DEF S
<1>13. interval # 0 => (n - 1) \div interval \in 0..n
  <2> DEFINE a == n - 1
             q == a \div interval
  <2> SUFFICES ASSUME interval # 0 PROVE q \in 0..n
    OBVIOUS
  <2>0. a \in Nat /\ a <= n /\ interval \in Nat /\ interval >= 1
    BY <1>1
  <2> HIDE DEF a
  <2>1. q \in Int /\ interval * q <= a /\ a < interval * q + interval
    BY <2>0
  <2> HIDE DEF q
  <2>2. q >= 0
    <3>1. q <= -1 => interval * q <= -interval
      BY <2>0, <2>1
    <3> QED
      BY <2>0, <2>1, <3>1
  <2>3. q <= a
    <3>1. interval * q >= q
      BY <2>0, <2>1, <2>2
    <3> QED
      BY <2>0, <2>1, <3>1
  <2> QED
    BY <2>0, <2>1, <2>2, <2>3
<1> HIDE DEF Spacing
<1> QED
  BY <1>2, <1>8, <1>12, <1>13

LEMMA BreakpointsAreNumbers ==
  ASSUME call \in Calls, NEW n \in Nat \ {0}, NEW similarity \in [1..n -> Scores]
  PROVE  Breakpoints(similarity) \subseteq Nat
<1>1. SemanticBreakpoints(similarity) \subseteq Nat
  BY DEF SemanticBreakpoints
<1>2. Len(similarity) = n
  BY ByPlaces
<1> HIDE DEF SemanticBreakpoints
<1> DEFINE found == SemanticBreakpoints(similarity)
<1>3. found \in SUBSET Nat /\ call.max_sentences \in Nat
  BY <1>1, CallIsTyped
<1> HIDE DEF found
<1>4. Forced(found, similarity) \subseteq Nat
  BY <1>2, <1>3, ForcedAreNumbers
<1> QED
  BY <1>4 DEF Breakpoints, found

----------------------------------------------------------------------------
(* Types.                                                                   *)

Section == [title: Nat, text: Texts]
Chunk == [title: Nat, section: Nat, text: Texts, from: Nat, to: Nat]

\* Chunks that hold a part of their text that is not empty.
Fit(cs) ==
  /\ cs \in Seq(Chunk)
  /\ \A k \in DOMAIN cs : cs[k].from < cs[k].to /\ cs[k].to <= Length(cs[k].text)

\* TypeOK with what each phase has at hand, and no sentence empty.
Typed ==
  /\ call \in Calls
  /\ TypeOK
  /\ <<>> \notin Range(sentences)
  /\ phase \notin {"embed", "group", "window", "failed"} => sentences = <<>> /\ breaks = {} /\ pos = 0
  /\ phase = "embed" => /\ Len(sentences) > GroupSize /\ breaks = {} /\ pos = 0
                        /\ call.strategy = "semantic"
  /\ IF phase = "window" THEN offset < Length(window) ELSE window = <<>> /\ offset = 0

\* What the steps leave as it is, the call determines.
LEMMA CallStays ==
  ASSUME call' = call
  PROVE  /\ Structured' = Structured /\ Limit' = Limit /\ Blocks' = Blocks
         /\ Text' = Text /\ BodyText' = BodyText /\ Bodies' = Bodies
         /\ \A t : Filtered(t)' = Filtered(t)
<1>1. Structured' = Structured /\ Paragraphs' = Paragraphs
  BY DEF Structured, Paragraphs
<1>2. Limit' = Limit /\ Blocks' = Blocks
  BY <1>1 DEF Limit, Blocks
<1> QED
  BY <1>1, <1>2 DEF Text, BodyText, Bodies, Filtered, Content

LEMMA LimitIsNatural == Limit \in Nat \ {0}
BY SizesAssumption DEF Limit

LEMMA FitAppend ==
  ASSUME NEW cs, Fit(cs), NEW c \in Chunk, c.from < c.to, c.to <= Length(c.text)
  PROVE  Fit(Append(cs, c))
<1>1. cs \in Seq(Chunk) /\ Len(cs) \in Nat /\ DOMAIN cs = 1..Len(cs)
  BY LenProperties DEF Fit
<1> DEFINE ds == Append(cs, c)
<1>2. /\ ds \in Seq(Chunk) /\ DOMAIN ds = 1..(Len(cs) + 1) /\ ds[Len(cs) + 1] = c
      /\ \A k \in 1..Len(cs) : ds[k] = cs[k]
  <2>1. ds \in Seq(Chunk) /\ Len(ds) = Len(cs) + 1
    BY <1>1, AppendProperties
  <2>2. ds[Len(cs) + 1] = c /\ \A k \in 1..Len(cs) : ds[k] = cs[k]
    BY <1>1, AppendProperties
  <2> HIDE DEF ds
  <2> QED
    BY <2>1, <2>2, LenProperties
<1> HIDE DEF ds
<1>3. \A k \in 1..(Len(cs) + 1) : k \in 1..Len(cs) \/ k = Len(cs) + 1
  BY <1>1
<1>4. \A k \in DOMAIN ds : ds[k].from < ds[k].to /\ ds[k].to <= Length(ds[k].text)
  BY <1>1, <1>2, <1>3 DEF Fit
<1> QED
  BY <1>2, <1>4 DEF Fit, ds

\* A part of a text that is not empty fits.
LEMMA PartFits ==
  ASSUME sections \in Seq(Section), NEW cs, Fit(cs), NEW text \in Texts,
         NEW from \in Nat, NEW to \in Nat, from < to, to <= Length(text)
  PROVE  Fit(Append(cs, Part(text, from, to)))
<1> DEFINE c == Part(text, from, to)
<1>1. (IF sections = <<>> THEN 0 ELSE Head(sections).title) \in Nat
  <2>1. sections # <<>> => Head(sections) \in Section
    BY HeadTailProperties
  <2> QED
    BY <2>1 DEF Section
<1>2. c \in Chunk /\ c.from = from /\ c.to = to /\ c.text = text
  <2>1. Len(sections) \in Nat
    BY LenProperties
  <2> QED
    BY <1>1, <2>1 DEF Part, Chunk
<1> HIDE DEF c
<1> QED
  BY <1>2, FitAppend DEF c

LEMMA WholeFits ==
  ASSUME sections \in Seq(Section), NEW cs, Fit(cs), NEW text \in Texts, text # <<>>
  PROVE  Fit(Append(cs, Whole(text)))
<1>1. Length(text) \in Nat /\ 0 < Length(text)
  BY LengthIsNatural
<1> QED
  BY <1>1, PartFits DEF Whole

\* Sentences, none of them empty, make a text that is not empty.
LEMMA SentencesMakeText ==
  ASSUME NEW all \in Seq(Texts), all # <<>>, <<>> \notin Range(all)
  PROVE  FlattenSeq(all) \in Texts /\ FlattenSeq(all) # <<>>
<1>1. FlattenSeq(all) = Head(all) \o FlattenSeq(Tail(all)) /\ FlattenSeq(all) \in Texts
  BY FlattenHead, FlattenIsSeq DEF Texts
<1>2. Head(all) \in Texts /\ Head(all) = all[1] /\ Tail(all) \in Seq(Texts)
  BY HeadAndTail, HeadTailProperties
<1>3. all[1] \in Range(all)
  BY EmptySeq, LenProperties DEF Range
<1>4. FlattenSeq(Tail(all)) \in Texts
  BY <1>2, FlattenIsSeq DEF Texts
<1> QED
  BY <1>1, <1>2, <1>3, <1>4, ConcatEqualIffEmpty DEF Texts

\* Some sentences in a row are sentences.
LEMMA SomeSentences ==
  ASSUME NEW all \in Seq(Texts), <<>> \notin Range(all),
         NEW m \in 0..Len(all), NEW n \in (m + 1)..Len(all)
  PROVE  /\ SubSeq(all, m + 1, n) \in Seq(Texts)
         /\ FlattenSeq(SubSeq(all, m + 1, n)) \in Texts
         /\ FlattenSeq(SubSeq(all, m + 1, n)) # <<>>
<1> DEFINE some == SubSeq(all, m + 1, n)
<1>1. Len(all) \in Nat /\ DOMAIN all = 1..Len(all) /\ \A i \in 1..Len(all) : all[i] \in Texts
  BY LenProperties
<1>2. m + 1 \in Int /\ n \in Int /\ m + 1 <= n /\ \A i \in (m + 1)..n : i \in 1..Len(all) /\ all[i] \in Texts
  BY <1>1
<1>3. some \in Seq(Texts) /\ Len(some) = n - (m + 1) + 1 /\ \A i \in 1..(n - (m + 1) + 1) : some[i] = all[m + 1 + i - 1]
  <2> DEFINE l == m + 1
  <2>1. l \in Int /\ n \in Int /\ l <= n /\ \A i \in l..n : all[i] \in Texts
    BY <1>2
  <2> HIDE DEF l
  <2>2. /\ SubSeq(all, l, n) \in Seq(Texts)
        /\ Len(SubSeq(all, l, n)) = n - l + 1
        /\ \A i \in 1..(n - l + 1) : SubSeq(all, l, n)[i] = all[l + i - 1]
    BY <2>1, SubSeqProperties
  <2> QED
    BY <2>2 DEF l
<1> HIDE DEF some
<1>4. some # <<>>
  BY <1>2, <1>3, EmptySeq
<1>5. <<>> \notin Range(some)
  <2>1. DOMAIN some = 1..(n - (m + 1) + 1)
    BY <1>3, LenProperties
  <2>2. \A i \in DOMAIN some : some[i] \in Range(all)
    <3> SUFFICES ASSUME NEW i \in 1..(n - (m + 1) + 1) PROVE some[i] \in Range(all)
      BY <2>1
    <3>1. m + 1 + i - 1 \in 1..Len(all)
      BY <1>1
    <3> QED
      BY <1>1, <1>3, <3>1 DEF Range
  <2> QED
    BY <2>2 DEF Range
<1> QED
  BY <1>3, <1>4, <1>5, SentencesMakeText DEF some

LEMMA TypedInit == Init => Typed
<1> SUFFICES ASSUME Init PROVE Typed
  OBVIOUS
<1>1. Blocks \in Seq(Block) /\ Len(Blocks) \in Nat
  BY BlocksAreTyped, LenProperties DEF Init
<1>2. <<>> \in Texts /\ <<>> \in Seq(Section) /\ <<>> \in Seq(Texts) /\ Fit(<<>>)
  BY EmptySeq DEF Texts, Fit
<1>3. Len(<<>>) = 0 /\ Length(<<>>) = 0 /\ Range(<<>>) = {}
  BY <1>2, LengthIsNatural DEF Range
<1>4. phase \in {"file", "robots"}
  BY DEF Init
<1>5. TypeOK
  BY <1>1, <1>2, <1>3, <1>4 DEF Init, TypeOK, Fit, Chunk, Section
<1> QED
  BY <1>3, <1>4, <1>5 DEF Init, Typed

\* Typed, variable by variable.
LEMMA TypedFacts ==
  ASSUME Typed
  PROVE  /\ call \in Calls
         /\ phase \in {"file", "robots", "page", "sections", "cut", "embed", "group", "window", "done", "failed"}
         /\ Blocks \in Seq(Block) /\ Len(Blocks) \in Nat /\ block \in 1..(Len(Blocks) + 1)
         /\ title \in 0..Len(Blocks)
         /\ buffer \in Texts
         /\ sections \in Seq(Section)
         /\ sentences \in Seq(Texts) /\ Len(sentences) \in Nat /\ <<>> \notin Range(sentences)
         /\ breaks \subseteq 1..Len(sentences)
         /\ pos \in 0..Len(sentences)
         /\ window \in Texts /\ Length(window) \in Nat
         /\ offset \in 0..Length(window)
         /\ Fit(chunks)
         /\ phase \in {"embed", "group", "window"} => sections # <<>>
<1>1. Blocks \in Seq(Block) /\ Len(Blocks) \in Nat
  BY BlocksAreTyped, LenProperties DEF Typed
<1>2. sentences \in Seq(Texts) /\ window \in Texts
  BY DEF Typed, TypeOK
<1>3. Len(sentences) \in Nat /\ Length(window) \in Nat
  BY <1>2, LenProperties, LengthIsNatural
<1> QED
  BY <1>1, <1>2, <1>3 DEF Typed, TypeOK, Fit, Chunk, Section

\* Reading: nothing is being cut.
LEMMA ReadingTyped ==
  ASSUME Typed, call' = call, cutting' = cutting, chunks' = chunks,
         phase \notin {"embed", "group", "window", "failed"},
         phase' \in {"file", "robots", "page", "sections", "cut", "done", "failed"},
         block' \in 1..(Len(Blocks) + 1), title' \in 0..Len(Blocks), buffer' \in Texts,
         sections' \in Seq(Section)
  PROVE  Typed'
<1>1. Blocks' = Blocks
  BY CallStays
<1> QED
  BY <1>1 DEF Typed, TypeOK, Section, cutting

\* A section ends, if there is anything to it.
LEMMA EndedIsTyped ==
  ASSUME Typed
  PROVE  (IF Nonblank(buffer) \/ title # 0
          THEN Append(sections, [title |-> title, text |-> buffer]) ELSE sections) \in Seq(Section)
<1>1. [title |-> title, text |-> buffer] \in Section
  BY TypedFacts DEF Section
<1>2. Append(sections, [title |-> title, text |-> buffer]) \in Seq(Section) /\ sections \in Seq(Section)
  BY <1>1, TypedFacts, AppendProperties
<1> QED
  BY <1>2

\* While a section is being cut, no other variable changes.
LEMMA CuttingTyped ==
  ASSUME Typed, call' = call, reading' = reading,
         sections' \in Seq(Section), sentences' \in Seq(Texts), <<>> \notin Range(sentences'),
         breaks' \subseteq 1..Len(sentences'), pos' \in 0..Len(sentences'),
         window' \in Texts, offset' \in 0..Length(window'), Fit(chunks'),
         phase' \in {"cut", "embed", "group", "window", "done"},
         phase' \in {"embed", "group", "window"} => sections' # <<>>,
         phase' \in {"cut", "done"} => sentences' = <<>> /\ breaks' = {} /\ pos' = 0,
         phase' = "embed" => /\ Len(sentences') > GroupSize /\ breaks' = {} /\ pos' = 0
                             /\ call.strategy = "semantic",
         IF phase' = "window" THEN offset' < Length(window') ELSE window' = <<>> /\ offset' = 0
  PROVE  Typed'
<1>1. Blocks' = Blocks
  BY CallStays
<1>2. Range(sentences)' = Range(sentences')
  OBVIOUS
<1>3. TypeOK'
  BY <1>1 DEF Typed, TypeOK, Section, Chunk, Fit, reading
<1> QED
  BY <1>3 DEF Typed

LEMMA BlockIsText ==
  ASSUME call \in Calls, NEW b \in 1..Len(Blocks)
  PROVE  Blocks[b].text \in Texts
<1>1. Blocks[b] \in Block
  BY BlocksAreTyped, ElementOfSeq
<1> QED
  BY <1>1 DEF Block, Texts

\* The section being cut.
LEMMA FirstSection ==
  ASSUME Typed, sections # <<>>
  PROVE  /\ Head(sections).text \in Texts
         /\ Body \in Texts /\ Length(Body) \in Nat
         /\ Tail(sections) \in Seq(Section)
         /\ Thins(Body, Head(sections).text)
<1>1. Head(sections) \in Section /\ Tail(sections) \in Seq(Section)
  BY TypedFacts, HeadTailProperties
<1>2. Head(sections).text \in Texts
  BY <1>1 DEF Section
<1> QED
  BY <1>1, <1>2, FilteredThins, LengthIsNatural DEF Body

\* Of a section longer than the limit, and its sentences.
LEMMA OversizedSection ==
  ASSUME Typed, Oversized, NEW all, NEW kept,
         all = Sentences(Body), kept = ContentSentences(all)
  PROVE  /\ Body # <<>> /\ Length(Body) > 0
         /\ kept \in Seq(Texts) /\ <<>> \notin Range(kept)
         /\ FlattenSeq(kept) \in Texts
         /\ kept # <<>> => FlattenSeq(kept) # <<>>
         /\ Thins(FlattenSeq(kept), Body)
         /\ ~call.filter => FlattenSeq(kept) = Body
<1>1. Body \in Texts /\ Length(Body) \in Nat /\ Length(Body) > Limit
  BY FirstSection DEF Oversized
<1>2. Length(Body) > 0 /\ Body # <<>>
  BY <1>1, LimitIsNatural, LengthIsNatural
<1>3. all \in Seq(Texts) /\ FlattenSeq(all) = Body /\ <<>> \notin Range(all)
  BY <1>1, SentencesAreText
<1>4. /\ kept \in Seq(Texts) /\ <<>> \notin Range(kept)
      /\ Thins(FlattenSeq(kept), Body) /\ (~call.filter => kept = all)
  BY <1>3, ContentSentencesThin
<1>5. FlattenSeq(kept) \in Texts /\ (kept # <<>> => FlattenSeq(kept) # <<>>)
  BY <1>4, SentencesMakeText, FlattenIsSeq DEF Texts
<1> QED
  BY <1>2, <1>3, <1>4, <1>5

\* The group at pos, when it is cut.
LEMMA GroupIsTyped ==
  ASSUME Typed, NEW end, GroupEnd(end)
  PROVE  /\ end \in (pos + 1)..Len(sentences)
         /\ FlattenSeq(SubSeq(sentences, pos + 1, end)) \in Texts
         /\ FlattenSeq(SubSeq(sentences, pos + 1, end)) # <<>>
         /\ end - pos \in Nat
<1>1. end \in (pos + 1)..Len(sentences)
  BY DEF GroupEnd
<1>2. pos \in 0..Len(sentences) /\ Len(sentences) \in Nat
  BY TypedFacts
<1>3. sentences \in Seq(Texts) /\ <<>> \notin Range(sentences)
  BY TypedFacts
<1> QED
  BY <1>1, <1>2, <1>3, SomeSentences

\* The windows advance, and by no more than one's length.
LEMMA StepIsProper == Step \in 1..Limit
BY LimitIsNatural, SizesAssumption DEF Step, Larger

LEMMA TypedStep == Typed /\ [Next]_vars => Typed'
<1> SUFFICES ASSUME Typed, [Next]_vars PROVE Typed'
  OBVIOUS
<1> USE DEF reading, cutting
<1>0. /\ sentences \in Seq(Texts) /\ Len(sentences) \in Nat /\ <<>> \notin Range(sentences)
      /\ breaks \subseteq 1..Len(sentences) /\ pos \in 0..Len(sentences)
      /\ window \in Texts /\ Length(window) \in Nat /\ offset \in 0..Length(window)
      /\ sections \in Seq(Section) /\ Fit(chunks)
      /\ block \in 1..(Len(Blocks) + 1) /\ title \in 0..Len(Blocks) /\ buffer \in Texts
      /\ Blocks \in Seq(Block) /\ Len(Blocks) \in Nat
  BY TypedFacts
<1>1. <<>> \in Seq(Texts) /\ <<>> \in Texts /\ Len(<<>>) = 0 /\ Length(<<>>) = 0 /\ Range(<<>>) = {}
  <2>1. <<>> \in Texts
    BY EmptySeq DEF Texts
  <2> QED
    BY <2>1, EmptySeq, LengthIsNatural DEF Range
<1>2. Limit \in Nat \ {0} /\ GroupSize = 3
  BY LimitIsNatural DEF GroupSize
<1>3. CASE Fails
  <2>1. call' = call /\ Blocks' = Blocks
    BY <1>3, CallStays DEF Fails
  <2> QED
    BY <1>3, <2>1 DEF Fails, Typed, TypeOK
<1>4. CASE EnforceRobots \/ ReadFile \/ ReadPage
  <2>1. /\ call' = call /\ cutting' = cutting /\ chunks' = chunks
        /\ phase \in {"file", "robots", "page"} /\ phase' \in {"page", "sections"}
        /\ block' = block /\ title' = title /\ buffer' = buffer /\ sections' = sections
    BY <1>4 DEF EnforceRobots, ReadFile, ReadPage
  <2> QED
    BY <1>0, <2>1, ReadingTyped
<1>5. CASE ReadHeading
  <2>1. /\ call' = call /\ cutting' = cutting /\ chunks' = chunks /\ phase = "sections" /\ phase' = phase
        /\ block' = block + 1 /\ title' = block /\ buffer' = <<>> /\ block <= Len(Blocks)
        /\ sections' = IF Nonblank(buffer) \/ title # 0
                       THEN Append(sections, [title |-> title, text |-> buffer]) ELSE sections
    BY <1>5 DEF ReadHeading
  <2>2. sections' \in Seq(Section)
    BY <2>1, EndedIsTyped
  <2>3. block' \in 1..(Len(Blocks) + 1) /\ title' \in 0..Len(Blocks)
    BY <1>0, <2>1
  <2> QED
    BY <1>1, <2>1, <2>2, <2>3, ReadingTyped
<1>6. CASE ReadBody
  <2>1. /\ call' = call /\ cutting' = cutting /\ chunks' = chunks /\ phase = "sections" /\ phase' = phase
        /\ block' = block + 1 /\ title' = title /\ sections' = sections
        /\ buffer' = buffer \o Blocks[block].text /\ block \in 1..Len(Blocks)
    BY <1>0, <1>6 DEF ReadBody
  <2>2. Blocks[block].text \in Texts
    BY <2>1, BlockIsText DEF Typed
  <2>3. buffer' \in Texts
    BY <1>0, <2>1, <2>2, ConcatProperties DEF Texts
  <2>4. block' \in 1..(Len(Blocks) + 1)
    BY <1>0, <2>1
  <2> QED
    BY <1>0, <2>1, <2>3, <2>4, ReadingTyped
<1>7. CASE ReadParagraph
  <2> DEFINE text == Blocks[block].text
             full == Nonblank(text) /\ Nonblank(buffer) /\ Length(buffer) + Length(text) > WindowSize
  <2>1. /\ call' = call /\ cutting' = cutting /\ chunks' = chunks /\ phase = "sections" /\ phase' = phase
        /\ block' = block + 1 /\ title' = title /\ block \in 1..Len(Blocks)
        /\ sections' = IF full THEN Append(sections, [title |-> 0, text |-> buffer]) ELSE sections
        /\ buffer' = IF full THEN text ELSE buffer \o text
    BY <1>0, <1>7 DEF ReadParagraph
  <2>2. text \in Texts
    BY <2>1, BlockIsText DEF Typed
  <2> HIDE DEF full, text
  <2>3. buffer' \in Texts
    BY <1>0, <2>1, <2>2, ConcatProperties DEF Texts
  <2>4. sections' \in Seq(Section)
    <3>1. [title |-> 0, text |-> buffer] \in Section
      BY <1>0 DEF Section
    <3> QED
      BY <1>0, <2>1, <3>1, AppendProperties
  <2>5. block' \in 1..(Len(Blocks) + 1)
    BY <1>0, <2>1
  <2> QED
    BY <1>0, <2>1, <2>3, <2>4, <2>5, ReadingTyped
<1>8. CASE EndOfText
  <2>1. /\ call' = call /\ cutting' = cutting /\ chunks' = chunks /\ phase = "sections" /\ phase' = "cut"
        /\ block' = block /\ title' = title /\ buffer' = <<>>
        /\ sections' = IF Nonblank(buffer) \/ title # 0
                       THEN Append(sections, [title |-> title, text |-> buffer]) ELSE sections
    BY <1>8 DEF EndOfText
  <2>2. sections' \in Seq(Section)
    BY <2>1, EndedIsTyped
  <2> QED
    BY <1>0, <1>1, <2>1, <2>2, ReadingTyped
<1>9. CASE SkipSection
  <2>1. /\ call' = call /\ cutting' = cutting /\ chunks' = chunks /\ phase = "cut" /\ phase' = phase
        /\ block' = block /\ title' = title /\ buffer' = buffer
        /\ sections # <<>> /\ sections' = Tail(sections)
    BY <1>9 DEF SkipSection
  <2> QED
    BY <1>0, <2>1, FirstSection, ReadingTyped
<1>10. CASE KeepSection \/ UncutSection
  <2>1. /\ call' = call /\ reading' = reading /\ cutting' = cutting /\ phase = "cut" /\ phase' = phase
        /\ sections # <<>> /\ sections' = Tail(sections)
        /\ chunks' = Append(chunks, Whole(Body))
    BY <1>10 DEF KeepSection, UncutSection, Oversized
  <2>2. Body \in Texts /\ Body # <<>> /\ Tail(sections) \in Seq(Section)
    BY <1>10, <2>1, FirstSection, OversizedSection DEF KeepSection, UncutSection, Nonblank
  <2>3. Fit(chunks')
    BY <1>0, <2>1, <2>2, WholeFits
  <2>4. sentences = <<>> /\ breaks = {} /\ pos = 0 /\ window = <<>> /\ offset = 0
    BY <2>1 DEF Typed
  <2> QED
    BY <1>0, <1>1, <2>1, <2>2, <2>3, <2>4, CuttingTyped
<1>11. CASE WindowSection
  <2>1. /\ call' = call /\ reading' = reading /\ Oversized /\ phase' = "window" /\ sections # <<>>
        /\ sections' = sections /\ chunks' = chunks
        /\ window' = Body /\ offset' = 0 /\ sentences' = <<>> /\ pos' = 0 /\ breaks' = {}
    BY <1>11 DEF WindowSection, Oversized
  <2>2. Body \in Texts /\ Length(Body) \in Nat /\ Length(Body) > 0
    BY <2>1, FirstSection, OversizedSection
  <2> QED
    BY <1>0, <1>1, <2>1, <2>2, CuttingTyped
<1>12. CASE StartEmbedding
  <2>1. PICK all \in {Sentences(Body)} : \E k \in {ContentSentences(all)} :
          /\ k # <<>>
          /\ IF Len(k) <= GroupSize
             THEN /\ chunks' = Append(chunks, Whole(FlattenSeq(k)))
                  /\ sections' = Tail(sections)
                  /\ UNCHANGED <<phase, sentences>>
             ELSE /\ sentences' = k
                  /\ phase' = "embed"
                  /\ UNCHANGED <<sections, chunks>>
    BY <1>12 DEF StartEmbedding
  <2> DEFINE kept == ContentSentences(all)
  <2>2. /\ call' = call /\ reading' = reading /\ Oversized /\ phase = "cut" /\ sections # <<>>
        /\ call.strategy = "semantic"
        /\ UNCHANGED <<breaks, pos, window, offset>>
    BY <1>12 DEF StartEmbedding, Oversized
  <2>3. /\ kept # <<>>
        /\ IF Len(kept) <= GroupSize
           THEN /\ chunks' = Append(chunks, Whole(FlattenSeq(kept)))
                /\ sections' = Tail(sections)
                /\ UNCHANGED <<phase, sentences>>
           ELSE /\ sentences' = kept
                /\ phase' = "embed"
                /\ UNCHANGED <<sections, chunks>>
    BY <2>1
  <2>4. kept \in Seq(Texts) /\ <<>> \notin Range(kept) /\ FlattenSeq(kept) \in Texts /\ FlattenSeq(kept) # <<>>
    BY <2>2, <2>3, OversizedSection
  <2>5. Tail(sections) \in Seq(Section) /\ sentences = <<>> /\ breaks = {} /\ pos = 0 /\ window = <<>> /\ offset = 0
    BY <2>2, FirstSection DEF Typed
  <2> HIDE DEF kept
  <2>6. Len(kept) \in Nat
    BY <2>4, LenProperties
  <2>7. CASE Len(kept) <= GroupSize
    <3>1. Fit(chunks')
      BY <1>0, <2>3, <2>4, <2>6, <2>7, WholeFits
    <3> QED
      BY <1>0, <1>1, <2>2, <2>3, <2>5, <2>7, <3>1, CuttingTyped
  <2>8. CASE ~(Len(kept) <= GroupSize)
    BY <1>0, <1>1, <1>2, <2>2, <2>3, <2>4, <2>5, <2>6, <2>8, CuttingTyped
  <2> QED
    BY <2>7, <2>8
<1>13. CASE EmbedNothing
  <2>1. /\ call' = call /\ reading' = reading /\ phase = "embed" /\ phase' = "cut" /\ sections' = Tail(sections)
        /\ chunks' = Append(chunks, Whole(FlattenSeq(sentences)))
        /\ sentences' = <<>> /\ UNCHANGED <<breaks, pos, window, offset>>
    BY <1>13 DEF EmbedNothing
  <2>2. /\ sections # <<>> /\ Len(sentences) > GroupSize /\ breaks = {} /\ pos = 0
        /\ window = <<>> /\ offset = 0
    BY <2>1, TypedFacts DEF Typed
  <2>3. sentences # <<>>
    BY <1>1, <1>2, <2>2
  <2>4. FlattenSeq(sentences) \in Texts /\ FlattenSeq(sentences) # <<>>
    BY <1>0, <2>3, SentencesMakeText
  <2>5. Fit(chunks')
    BY <1>0, <2>1, <2>4, WholeFits
  <2> QED
    BY <1>0, <1>1, <2>1, <2>2, <2>5, FirstSection, CuttingTyped
<1>14. CASE Embed
  <2>1. PICK n \in Answers \ {0, 1} : \E similarity \in [1..(n - 1) -> Scores] :
          breaks' = {Smaller(b + GroupSize \div 2 + 1, Len(sentences)) : b \in Breakpoints(similarity)}
    BY <1>14 DEF Embed
  <2>2. /\ call' = call /\ reading' = reading /\ phase = "embed" /\ phase' = "group" /\ pos' = 0
        /\ UNCHANGED <<sections, sentences, window, offset, chunks>>
    BY <1>14 DEF Embed
  <2>3. /\ sections # <<>> /\ Len(sentences) > GroupSize /\ window = <<>> /\ offset = 0
    BY <2>2, TypedFacts DEF Typed
  <2>4. n - 1 \in Nat \ {0}
    BY <1>0, <1>2, <2>3 DEF Answers
  <2> DEFINE m == n - 1
  <2>5. PICK similarity \in [1..m -> Scores] :
          breaks' = {Smaller(b + GroupSize \div 2 + 1, Len(sentences)) : b \in Breakpoints(similarity)}
    BY <2>1
  <2> HIDE DEF m
  <2>6. Breakpoints(similarity) \subseteq Nat
    BY <2>4, BreakpointsAreNumbers DEF m, Typed
  <2>7. \A b \in Nat : Smaller(b + GroupSize \div 2 + 1, Len(sentences)) \in 1..Len(sentences)
    BY <1>0, <1>2, <2>3 DEF Smaller
  <2>8. breaks' \subseteq 1..Len(sentences')
    BY <2>2, <2>5, <2>6, <2>7
  <2> QED
    BY <1>0, <1>1, <2>2, <2>3, <2>8, CuttingTyped
<1>15. CASE CutGroup
  <2>1. PICK end \in 0..Len(sentences) :
          LET text == FlattenSeq(SubSeq(sentences, pos + 1, end))
          IN  /\ GroupEnd(end)
              /\ pos' = end
              /\ IF Length(text) <= Limit
                 THEN /\ chunks' = Append(chunks, Whole(text))
                      /\ UNCHANGED <<phase, window, offset>>
                 ELSE /\ window' = text
                      /\ offset' = 0
                      /\ phase' = "window"
                      /\ UNCHANGED chunks
    BY <1>15 DEF CutGroup
  <2> DEFINE text == FlattenSeq(SubSeq(sentences, pos + 1, end))
  <2>2. /\ GroupEnd(end) /\ pos' = end
        /\ IF Length(text) <= Limit
           THEN chunks' = Append(chunks, Whole(text)) /\ UNCHANGED <<phase, window, offset>>
           ELSE window' = text /\ offset' = 0 /\ phase' = "window" /\ UNCHANGED chunks
    BY <2>1
  <2>3. /\ call' = call /\ reading' = reading /\ phase = "group"
        /\ UNCHANGED <<sections, sentences, breaks>>
    BY <1>15 DEF CutGroup
  <2>4. text \in Texts /\ text # <<>> /\ end - pos \in Nat
    BY <2>2, GroupIsTyped
  <2>5. sections # <<>> /\ window = <<>> /\ offset = 0
    BY <2>3, TypedFacts DEF Typed
  <2> HIDE DEF text
  <2>6. Length(text) \in Nat /\ Length(text) > 0
    BY <2>4, LengthIsNatural
  <2>7. CASE Length(text) <= Limit
    <3>1. Fit(chunks')
      BY <1>0, <2>2, <2>4, <2>7, WholeFits
    <3> QED
      BY <1>0, <1>1, <2>2, <2>3, <2>5, <2>7, <3>1, CuttingTyped
  <2>8. CASE ~(Length(text) <= Limit)
    BY <1>0, <1>1, <2>2, <2>3, <2>4, <2>5, <2>6, <2>8, CuttingTyped
  <2> QED
    BY <2>7, <2>8
<1>16. CASE CutWindow
  <2> DEFINE end == Smaller(offset + Limit, Length(window))
  <2>1. /\ call' = call /\ reading' = reading /\ phase = "window"
        /\ UNCHANGED <<sections, sentences, breaks, pos>>
        /\ chunks' = Append(chunks, Part(window, offset, end))
        /\ IF end = Length(window)
           THEN phase' = "group" /\ window' = <<>> /\ offset' = 0
           ELSE offset' = offset + Step /\ UNCHANGED <<phase, window>>
    BY <1>16 DEF CutWindow
  <2>2. sections # <<>> /\ offset < Length(window)
    BY <2>1, TypedFacts DEF Typed
  <2>3. end \in Nat /\ offset < end /\ end <= Length(window) /\ (end # Length(window) => end = offset + Limit /\ end < Length(window))
    BY <1>0, <1>2, <2>2 DEF Smaller
  <2> HIDE DEF end
  <2>4. Fit(chunks')
    <3>1. offset \in Nat
      BY <1>0
    <3> QED
      BY <1>0, <2>1, <2>3, <3>1, PartFits
  <2>5. CASE end = Length(window)
    BY <1>0, <1>1, <2>1, <2>2, <2>4, <2>5, CuttingTyped
  <2>6. CASE end # Length(window)
    <3>1. offset' \in 0..Length(window) /\ offset' < Length(window)
      BY <1>0, <1>2, <2>1, <2>3, <2>6, StepIsProper
    <3> QED
      BY <1>0, <2>1, <2>2, <2>4, <2>6, <3>1, CuttingTyped
  <2> QED
    BY <2>5, <2>6
<1>17. CASE EndGroups
  <2>1. /\ call' = call /\ reading' = reading /\ phase = "group" /\ phase' = "cut" /\ sections' = Tail(sections)
        /\ sentences' = <<>> /\ breaks' = {} /\ pos' = 0 /\ UNCHANGED <<window, offset, chunks>>
    BY <1>17 DEF EndGroups
  <2>2. sections # <<>> /\ window = <<>> /\ offset = 0
    BY <2>1, TypedFacts DEF Typed
  <2> QED
    BY <1>0, <1>1, <2>1, <2>2, FirstSection, CuttingTyped
<1>18. CASE Finish
  <2>1. /\ call' = call /\ reading' = reading /\ cutting' = cutting /\ phase = "cut" /\ phase' = "done"
        /\ sections' = sections
        /\ chunks' = IF chunks = <<>> /\ Nonblank(Text)
                     THEN <<Part(Text, 0, Smaller(Limit, Length(Text)))>> ELSE chunks
    BY <1>18 DEF Finish
  <2>2. sentences = <<>> /\ breaks = {} /\ pos = 0 /\ window = <<>> /\ offset = 0
    BY <2>1 DEF Typed
  <2>3. Text \in Texts /\ Length(Text) \in Nat /\ (Nonblank(Text) => Length(Text) # 0)
    BY TextIsInOrder, LengthIsNatural DEF Nonblank, Typed
  <2>4. CASE chunks = <<>> /\ Nonblank(Text)
    <3> DEFINE n == Smaller(Limit, Length(Text))
    <3>1. n \in Nat /\ 0 < n /\ n <= Length(Text)
      BY <1>2, <2>3, <2>4 DEF Smaller
    <3> HIDE DEF n
    <3>2. chunks' = Append(chunks, Part(Text, 0, n))
      BY <2>1, <2>4 DEF n
    <3>3. Fit(chunks')
      BY <1>0, <2>3, <3>1, <3>2, PartFits
    <3> QED
      BY <1>0, <1>1, <2>1, <2>2, <3>3, CuttingTyped
  <2>5. CASE ~(chunks = <<>> /\ Nonblank(Text))
    BY <1>0, <1>1, <2>1, <2>2, <2>5, CuttingTyped
  <2> QED
    BY <2>4, <2>5
<1>19. CASE UNCHANGED vars
  <2>1. call' = call /\ Blocks' = Blocks
    BY <1>19, CallStays DEF vars
  <2> QED
    BY <1>19, <2>1 DEF vars, Typed, TypeOK
<1> QED
  BY <1>3, <1>4, <1>5, <1>6, <1>7, <1>8, <1>9, <1>10, <1>11, <1>12, <1>13, <1>14, <1>15,
     <1>16, <1>17, <1>18, <1>19 DEF Next

----------------------------------------------------------------------------
(* Pieces.                                                                  *)

LEMMA PartIsChunk ==
  ASSUME Typed, NEW text \in Texts, NEW from \in Nat, NEW to \in Nat
  PROVE  LET c == Part(text, from, to)
         IN  /\ c \in Chunk /\ c.text = text /\ c.from = from /\ c.to = to
             /\ c.section = Len(sections)
<1>1. sections \in Seq(Section) /\ Len(sections) \in Nat
  BY TypedFacts, LenProperties
<1>2. (IF sections = <<>> THEN 0 ELSE Head(sections).title) \in Nat
  <2>1. sections # <<>> => Head(sections) \in Section
    BY <1>1, HeadTailProperties
  <2> QED
    BY <2>1 DEF Section
<1> QED
  BY <1>1, <1>2 DEF Part, Chunk

\* A chunk appended to others comes last.
LEMMA Appended ==
  ASSUME Fit(chunks), NEW c \in Chunk
  PROVE  LET ds == Append(chunks, c)
         IN  /\ Len(chunks) \in Nat /\ DOMAIN chunks = 1..Len(chunks) /\ Len(ds) = Len(chunks) + 1
             /\ DOMAIN ds = 1..(Len(chunks) + 1) /\ ds[Len(chunks) + 1] = c
             /\ \A k \in 1..Len(chunks) : ds[k] = chunks[k]
<1>1. chunks \in Seq(Chunk)
  BY DEF Fit
<1>2. Append(chunks, c) \in Seq(Chunk) /\ Len(Append(chunks, c)) = Len(chunks) + 1
  BY <1>1, AppendProperties
<1>3. DOMAIN Append(chunks, c) = 1..(Len(chunks) + 1)
  <2> DEFINE ds == Append(chunks, c)
  <2> HIDE DEF ds
  <2> QED
    BY <1>2, LenProperties DEF ds
<1>4. /\ Append(chunks, c)[Len(chunks) + 1] = c
      /\ \A k \in 1..Len(chunks) : Append(chunks, c)[k] = chunks[k]
  BY <1>1, AppendProperties
<1> QED
  BY <1>1, <1>2, <1>3, <1>4, LenProperties

\* What a step adds to the chunks.
Adds(c) == c \in Chunk /\ c.section = Len(sections) /\ chunks' = Append(chunks, c)

\* A whole section, or a group of its sentences, becomes a chunk.
AddsWhole(c) ==
  /\ Adds(c)
  /\ IF phase = "group" THEN phase' = "group" /\ sections' = sections /\ c.to <= Limit
     ELSE phase \in {"cut", "embed"} /\ phase' = "cut" /\ sections # <<>> /\ sections' = Tail(sections)
  /\ c.from = 0 /\ c.to = Length(c.text)
  /\ call.strategy = "fixed" => c.to <= Limit

\* A step adds a chunk at most.
LEMMA StepsAdd ==
  ASSUME Typed, [Next]_vars
  PROVE  \/ chunks' = chunks
         \/ \E c : /\ Adds(c)
                   /\ AddsWhole(c) \/ CutWindow \/ Finish
<1>0. sections \in Seq(Section) /\ Fit(chunks) /\ sentences \in Seq(Texts)
  BY TypedFacts
<1>2. CASE KeepSection \/ UncutSection
  <2>1. Body \in Texts /\ Length(Body) \in Nat /\ chunks' = Append(chunks, Whole(Body))
    BY <1>2, FirstSection DEF KeepSection, UncutSection, Oversized
  <2> DEFINE c == Whole(Body)
  <2>2. c \in Chunk /\ c.section = Len(sections) /\ c.from = 0 /\ c.text = Body /\ c.to = Length(Body)
    BY <2>1, PartIsChunk DEF Whole
  <2> HIDE DEF c
  <2>3. /\ phase = "cut" /\ phase' = "cut" /\ (call.strategy = "fixed" => Length(Body) <= Limit)
        /\ sections # <<>> /\ sections' = Tail(sections)
    BY <1>2 DEF KeepSection, UncutSection, Oversized
  <2>4. AddsWhole(c)
    BY <2>1, <2>2, <2>3 DEF AddsWhole, Adds, c
  <2> QED
    BY <2>4 DEF AddsWhole
<1>3. CASE StartEmbedding /\ chunks' # chunks
  <2>1. PICK all \in {Sentences(Body)} : \E k \in {ContentSentences(all)} :
          /\ chunks' = Append(chunks, Whole(FlattenSeq(k)))
          /\ sections' = Tail(sections)
    BY <1>3 DEF StartEmbedding
  <2> DEFINE kept == ContentSentences(all)
             c == Whole(FlattenSeq(kept))
  <2>2. chunks' = Append(chunks, c) /\ sections' = Tail(sections)
    BY <2>1
  <2>3. kept \in Seq(Texts) /\ FlattenSeq(kept) \in Texts
    BY <1>3, OversizedSection DEF StartEmbedding
  <2> HIDE DEF kept
  <2>4. Length(FlattenSeq(kept)) \in Nat
    BY <2>3, LengthIsNatural
  <2>5. c \in Chunk /\ c.section = Len(sections) /\ c.from = 0 /\ c.to = Length(c.text)
    BY <2>3, <2>4, PartIsChunk DEF Whole
  <2> HIDE DEF c
  <2>6. phase = "cut" /\ call.strategy = "semantic" /\ phase' = "cut" /\ sections # <<>>
    <3>1. phase = "cut" /\ call.strategy = "semantic" /\ sections # <<>>
      BY <1>3 DEF StartEmbedding, Oversized
    <3>2. phase' = phase
      BY <1>3 DEF StartEmbedding
    <3> QED
      BY <3>1, <3>2
  <2>7. AddsWhole(c)
    BY <2>2, <2>5, <2>6 DEF AddsWhole, Adds
  <2> QED
    BY <2>7 DEF AddsWhole
<1>4. CASE EmbedNothing
  <2> DEFINE c == Whole(FlattenSeq(sentences))
  <2>1. chunks' = Append(chunks, c) /\ sections' = Tail(sections)
    BY <1>4 DEF EmbedNothing
  <2>2. FlattenSeq(sentences) \in Texts
    BY <1>0, FlattenIsSeq DEF Texts
  <2>3. Length(FlattenSeq(sentences)) \in Nat
    BY <2>2, LengthIsNatural
  <2>4. c \in Chunk /\ c.section = Len(sections) /\ c.from = 0 /\ c.to = Length(c.text)
    BY <2>2, <2>3, PartIsChunk DEF Whole
  <2> HIDE DEF c
  <2>5. phase = "embed" /\ call.strategy = "semantic" /\ phase' = "cut"
    BY <1>4 DEF EmbedNothing, Typed
  <2>6. sections # <<>>
    BY <2>5 DEF Typed, TypeOK
  <2>7. AddsWhole(c)
    BY <2>1, <2>4, <2>5, <2>6 DEF AddsWhole, Adds
  <2> QED
    BY <2>7 DEF AddsWhole
<1>5. CASE CutGroup /\ chunks' # chunks
  <2>1. PICK end \in 0..Len(sentences) :
          /\ GroupEnd(end)
          /\ Length(FlattenSeq(SubSeq(sentences, pos + 1, end))) <= Limit
          /\ phase' = phase
          /\ chunks' = Append(chunks, Whole(FlattenSeq(SubSeq(sentences, pos + 1, end))))
    BY <1>5 DEF CutGroup
  <2> DEFINE text == FlattenSeq(SubSeq(sentences, pos + 1, end))
             c == Whole(text)
  <2>2. text \in Texts
    BY <2>1, GroupIsTyped
  <2> HIDE DEF text
  <2>3. Length(text) \in Nat
    BY <2>2, LengthIsNatural
  <2>4. c \in Chunk /\ c.section = Len(sections) /\ c.from = 0 /\ c.text = text /\ c.to = Length(text)
    BY <2>2, <2>3, PartIsChunk DEF Whole
  <2>5. chunks' = Append(chunks, c) /\ Length(text) <= Limit
    BY <2>1 DEF text
  <2> HIDE DEF c
  <2>6. phase = "group" /\ phase' = "group" /\ sections' = sections
    BY <1>5, <2>1 DEF CutGroup
  <2>7. AddsWhole(c)
    BY <2>4, <2>5, <2>6 DEF AddsWhole, Adds
  <2> QED
    BY <2>7 DEF AddsWhole
<1>6. CASE CutWindow
  <2> DEFINE end == Smaller(offset + Limit, Length(window))
             c == Part(window, offset, end)
  <2>1. window \in Texts /\ offset \in Nat /\ end \in Nat
    BY TypedFacts, LimitIsNatural DEF Smaller
  <2>2. chunks' = Append(chunks, c)
    BY <1>6 DEF CutWindow
  <2> HIDE DEF end
  <2>3. c \in Chunk /\ c.section = Len(sections)
    BY <2>1, PartIsChunk
  <2> HIDE DEF c
  <2> QED
    BY <1>6, <2>2, <2>3 DEF Adds
<1>7. CASE Finish /\ chunks' # chunks
  <2> DEFINE end == Smaller(Limit, Length(Text))
             c == Part(Text, 0, end)
  <2>1. Text \in Texts /\ end \in Nat
    <3>1. Text \in Texts
      BY TextIsInOrder DEF Typed
    <3> QED
      BY <3>1, LengthIsNatural, LimitIsNatural DEF Smaller
  <2>2. chunks = <<>> /\ chunks' = <<c>>
    BY <1>7 DEF Finish
  <2> HIDE DEF end
  <2>3. c \in Chunk /\ c.section = Len(sections)
    BY <2>1, PartIsChunk
  <2> HIDE DEF c
  <2>4. chunks' = Append(chunks, c)
    BY <2>2
  <2> QED
    BY <1>7, <2>3, <2>4 DEF Adds
<1>8. CASE chunks' = chunks
  BY <1>8
<1>9. CASE \/ Fails \/ EnforceRobots \/ ReadFile \/ ReadPage \/ ReadHeading \/ ReadBody \/ ReadParagraph
           \/ EndOfText \/ SkipSection \/ WindowSection \/ Embed \/ EndGroups \/ UNCHANGED vars
  BY <1>9 DEF Fails, EnforceRobots, ReadFile, ReadPage, ReadHeading, ReadBody, ReadParagraph,
              EndOfText, SkipSection, WindowSection, Embed, EndGroups, vars
<1> QED
  BY <1>2, <1>3, <1>4, <1>5, <1>6, <1>7, <1>8, <1>9 DEF Next

LEMMA CallNeverChanges ==
  ASSUME [Next]_vars PROVE call' = call
BY DEF Next, Fails, EnforceRobots, ReadFile, ReadPage, ReadHeading, ReadBody, ReadParagraph,
       EndOfText, SkipSection, KeepSection, WindowSection, UncutSection, StartEmbedding, EmbedNothing,
       Embed, CutGroup, CutWindow, EndGroups, Finish, vars

\* Sections are cut one after the other: the chunks are of sections cut
\* before, and of the one being cut only where it is being cut into pieces,
\* which fit.
Sectioned ==
  /\ phase \in {"file", "robots", "page", "sections"} => chunks = <<>>
  /\ phase \in {"cut", "embed"} => \A k \in DOMAIN chunks : chunks[k].section > Len(sections)
  /\ phase \in {"group", "window"} =>
       \A k \in DOMAIN chunks :
         \/ chunks[k].section > Len(sections)
         \/ chunks[k].section = Len(sections) /\ chunks[k].to - chunks[k].from <= Limit

LEMMA SectionsOfChunks ==
  ASSUME Typed PROVE \A k \in DOMAIN chunks : chunks[k].section \in Nat
<1>1. chunks \in Seq(Chunk)
  BY TypedFacts DEF Fit
<1>2. \A k \in DOMAIN chunks : chunks[k] \in Chunk
  BY <1>1, LenProperties, ElementOfSeq
<1> QED
  BY <1>2 DEF Chunk

\* A section less is to be cut.
LEMMA OneSectionLess ==
  ASSUME Typed, sections # <<>>, sections' = Tail(sections)
  PROVE  Len(sections) \in Nat /\ Len(sections') = Len(sections) - 1
<1>1. sections \in Seq(Section)
  BY TypedFacts
<1> QED
  BY <1>1, LenProperties, HeadTailProperties

\* Without a new chunk, pieces stay what they are.
LEMMA NoPieceMore ==
  ASSUME Typed, Sectioned, PiecesFit, [Next]_vars, chunks' = chunks
  PROVE  Sectioned' /\ PiecesFit'
<1>1. call' = call
  BY CallNeverChanges
<1>2. Limit' = Limit /\ Len(sections) \in Nat
  BY <1>1, CallStays, TypedFacts, LenProperties
<1>3. PiecesFit'
  BY <1>2 DEF PiecesFit, Piece
<1>4. CASE \/ phase' = "failed" \/ phase' = "done"
  BY <1>3, <1>4 DEF Sectioned
<1>5. CASE EnforceRobots \/ ReadFile \/ ReadPage \/ ReadHeading \/ ReadBody \/ ReadParagraph \/ EndOfText
  <2>1. phase \in {"file", "robots", "page", "sections"} /\ DOMAIN chunks = {}
    BY <1>5 DEF EnforceRobots, ReadFile, ReadPage, ReadHeading, ReadBody, ReadParagraph, EndOfText, Sectioned
  <2>2. chunks = <<>>
    BY <2>1 DEF Sectioned
  <2> QED
    BY <1>3, <2>1, <2>2 DEF Sectioned
<1>6. ASSUME sections # <<>>, sections' = Tail(sections), phase \in {"cut", "group", "embed", "window"},
             phase' = "cut"
      PROVE  Sectioned'
  <2>1. Len(sections') = Len(sections) - 1
    BY <1>6, OneSectionLess
  <2>2. \A k \in DOMAIN chunks : chunks[k].section \in Nat /\ chunks[k].section >= Len(sections)
    <3>1. \A k \in DOMAIN chunks : chunks[k].section \in Nat
      BY SectionsOfChunks
    <3> QED
      BY <1>2, <1>6, <3>1 DEF Sectioned
  <2> QED
    BY <1>2, <1>6, <2>1, <2>2 DEF Sectioned
<1>7. CASE SkipSection
  <2>1. sections # <<>> /\ sections' = Tail(sections) /\ phase = "cut" /\ phase' = "cut"
    BY <1>7 DEF SkipSection
  <2> QED
    BY <1>3, <1>6, <2>1
<1>8. CASE EndGroups
  <2>1. sections' = Tail(sections) /\ phase = "group" /\ phase' = "cut"
    BY <1>8 DEF EndGroups
  <2>2. sections # <<>>
    BY <2>1 DEF Typed, TypeOK
  <2> QED
    BY <1>3, <1>6, <2>1, <2>2
<1>9. CASE \/ phase = "cut" /\ phase' \in {"window", "embed"} /\ sections' = sections
           \/ phase = "embed" /\ phase' = "group" /\ sections' = sections
           \/ phase \in {"group", "window"} /\ phase' \in {"group", "window"} /\ sections' = sections
           \/ phase' = phase /\ sections' = sections
  BY <1>2, <1>3, <1>9 DEF Sectioned
<1>10. CASE WindowSection \/ Embed \/ CutGroup \/ CutWindow \/ UNCHANGED vars
  BY <1>9, <1>10 DEF WindowSection, Oversized, Embed, CutGroup, CutWindow, vars
<1>11. CASE StartEmbedding
  <2>1. phase = "cut" /\ sections # <<>>
    BY <1>11 DEF StartEmbedding, Oversized
  <2>2. \/ phase' = "embed" /\ sections' = sections
        \/ phase' = phase /\ sections' = Tail(sections)
    BY <1>11 DEF StartEmbedding
  <2> QED
    BY <1>3, <1>6, <1>9, <2>1, <2>2
<1>12. CASE KeepSection \/ UncutSection
  <2>1. phase = "cut" /\ sections # <<>> /\ sections' = Tail(sections) /\ phase' = "cut"
    BY <1>12 DEF KeepSection, UncutSection, Oversized
  <2> QED
    BY <1>3, <1>6, <2>1
<1>13. CASE EmbedNothing
  <2>1. phase = "embed" /\ sections' = Tail(sections) /\ phase' = "cut"
    BY <1>13 DEF EmbedNothing
  <2>2. sections # <<>>
    BY <2>1 DEF Typed, TypeOK
  <2> QED
    BY <1>3, <1>6, <2>1, <2>2
<1>14. CASE Fails \/ Finish
  BY <1>4, <1>14 DEF Fails, Finish
<1> QED
  BY <1>5, <1>7, <1>8, <1>10, <1>11, <1>12, <1>13, <1>14 DEF Next

\* A chunk more is the whole of its section, or a piece that fits.
LEMMA OnePieceMore ==
  ASSUME Typed, Sectioned, PiecesFit, [Next]_vars, NEW c, Adds(c), AddsWhole(c) \/ CutWindow \/ Finish
  PROVE  Sectioned' /\ PiecesFit'
<1>1. call' = call
  BY CallNeverChanges
<1>2. Limit' = Limit /\ Limit \in Nat /\ Len(sections) \in Nat
  BY <1>1, CallStays, TypedFacts, LenProperties, LimitIsNatural
<1>3. /\ Len(chunks) \in Nat /\ DOMAIN chunks = 1..Len(chunks)
      /\ DOMAIN chunks' = 1..(Len(chunks) + 1) /\ chunks'[Len(chunks) + 1] = c
      /\ \A i \in 1..Len(chunks) : chunks'[i] = chunks[i]
      /\ c.section = Len(sections)
  BY Appended, TypedFacts DEF Adds
<1>4. \A k \in DOMAIN chunks' : k = Len(chunks) + 1 \/ k \in DOMAIN chunks
  BY <1>3
<1>5. \A k \in DOMAIN chunks : chunks[k].section \in Nat
  BY SectionsOfChunks
<1>6. ASSUME phase \in {"cut", "embed"} PROVE PiecesFit'
  <2>1. \A k \in DOMAIN chunks : chunks[k].section > Len(sections)
    BY <1>6 DEF Sectioned
  <2> SUFFICES ASSUME NEW k \in DOMAIN chunks', NEW j \in DOMAIN chunks', j # k,
                      chunks'[j].section = chunks'[k].section
               PROVE  chunks'[k].to - chunks'[k].from <= Limit
    BY <1>2 DEF PiecesFit, Piece
  <2>2. k \in DOMAIN chunks /\ j \in DOMAIN chunks
    BY <1>2, <1>3, <1>4, <1>5, <2>1
  <2> QED
    BY <1>3, <2>2 DEF PiecesFit, Piece
<1>7. ASSUME phase \in {"cut", "embed"}, phase' = "cut", sections # <<>>, sections' = Tail(sections)
      PROVE  Sectioned' /\ PiecesFit'
  <2>1. Len(sections') = Len(sections) - 1
    BY <1>7, OneSectionLess
  <2>2. \A k \in DOMAIN chunks : chunks[k].section > Len(sections)
    BY <1>7 DEF Sectioned
  <2>3. \A k \in DOMAIN chunks' : chunks'[k].section > Len(sections')
    BY <1>2, <1>3, <1>4, <1>5, <2>1, <2>2
  <2> QED
    BY <1>6, <1>7, <2>3 DEF Sectioned
<1>8. ASSUME phase \in {"group", "window"}, phase' \in {"group", "window"}, sections' = sections,
             c.to - c.from <= Limit
      PROVE  Sectioned' /\ PiecesFit'
  <2>1. \A k \in DOMAIN chunks' :
          \/ chunks'[k].section > Len(sections)
          \/ chunks'[k].section = Len(sections) /\ chunks'[k].to - chunks'[k].from <= Limit
    BY <1>3, <1>4, <1>8 DEF Sectioned
  <2>2. Sectioned'
    BY <1>2, <1>8, <2>1 DEF Sectioned
  <2> SUFFICES ASSUME NEW k \in DOMAIN chunks', NEW j \in DOMAIN chunks', j # k,
                      chunks'[j].section = chunks'[k].section
               PROVE  chunks'[k].to - chunks'[k].from <= Limit
    BY <1>2, <2>2 DEF PiecesFit, Piece
  <2>3. CASE chunks'[k].section = Len(sections)
    BY <1>2, <2>1, <2>3
  <2>4. CASE chunks'[k].section # Len(sections)
    <3>1. k \in DOMAIN chunks /\ j \in DOMAIN chunks
      BY <1>3, <1>4, <2>4
    <3> QED
      BY <1>3, <3>1 DEF PiecesFit, Piece
  <2> QED
    BY <2>3, <2>4
<1>9. CASE AddsWhole(c)
  <2>1. c.from = 0 /\ c.to \in Nat
    BY <1>9 DEF AddsWhole, Adds, Chunk
  <2>2. CASE phase = "group"
    BY <1>2, <1>8, <1>9, <2>1, <2>2 DEF AddsWhole
  <2>3. CASE phase # "group"
    BY <1>7, <1>9, <2>3 DEF AddsWhole
  <2> QED
    BY <2>2, <2>3
<1>10. CASE CutWindow
  <2> DEFINE end == Smaller(offset + Limit, Length(window))
             d == Part(window, offset, end)
  <2>1. window \in Texts /\ offset \in Nat /\ Length(window) \in Nat
    BY TypedFacts, LengthIsNatural
  <2>2. end \in Nat /\ end <= offset + Limit
    BY <1>2, <2>1 DEF Smaller
  <2>3. chunks' = Append(chunks, d)
    BY <1>10 DEF CutWindow
  <2> HIDE DEF end
  <2>4. d \in Chunk /\ d.from = offset /\ d.to = end
    BY <2>1, <2>2, PartIsChunk
  <2> HIDE DEF d
  <2>5. d = c
    BY <1>3, <2>3, <2>4, Appended, TypedFacts
  <2>6. phase = "window" /\ phase' \in {"group", "window"} /\ sections' = sections
    BY <1>10 DEF CutWindow
  <2> QED
    BY <1>2, <1>8, <2>1, <2>2, <2>4, <2>5, <2>6
<1>11. CASE Finish
  BY <1>6, <1>11 DEF Finish, Sectioned
<1> QED
  BY <1>9, <1>10, <1>11

LEMMA PiecesStep == Typed /\ Sectioned /\ PiecesFit /\ [Next]_vars => Sectioned' /\ PiecesFit'
BY StepsAdd, NoPieceMore, OnePieceMore

----------------------------------------------------------------------------
(* Windows.                                                                 *)

\* Where the window to come begins, and whether the call has found nothing.
At == IF phase = "window" THEN offset ELSE 0
Over == phase = "done" /\ Filtered(BodyText) = <<>>

\* The first chunk begins its text; the window to come begins inside the last
\* one, of the same text.
WindowsGoOn ==
  /\ chunks # <<>> => chunks[1].from = 0
  /\ At > 0 => /\ chunks # <<>>
               /\ chunks[Len(chunks)].text = window
               /\ At \in (chunks[Len(chunks)].from + 1)..chunks[Len(chunks)].to

\* WindowsCover, of one of the chunks cs.
Covered(cs, at, over, k) ==
  /\ cs[k].from > 0 => /\ cs[k - 1].text = cs[k].text
                       /\ cs[k].from \in (cs[k - 1].from + 1)..cs[k - 1].to
  /\ (cs[k].from > 0 \/ call.strategy = "fixed") => cs[k].to - cs[k].from <= Limit
  /\ \/ cs[k].to = Length(cs[k].text)
     \/ k = Len(cs) /\ at \in 1..cs[k].to
     \/ k < Len(cs) /\ cs[k + 1].from > 0
     \/ k = 1 /\ over

LEMMA CoveredIsGoal == WindowsCover <=> \A k \in DOMAIN chunks : Covered(chunks, At, Over, k)
BY DEF WindowsCover, Covered, At, Over

LEMMA CoveredStaysGoal ==
  ASSUME call' = call, \A k \in DOMAIN chunks' : Covered(chunks', At', Over', k)
  PROVE  WindowsCover'
<1>1. Limit' = Limit
  BY CallStays
<1> QED
  BY <1>1 DEF WindowsCover, Covered, At, Over

\* While no chunk is added, what is being windowed waits.
LEMMA WindowWaits ==
  ASSUME Typed, [Next]_vars, chunks' = chunks
  PROVE  /\ At' # 0 => window' = window
         /\ At' \in {At, 0} /\ (phase = "window" => At' = At)
         /\ phase = "done" => phase' = "done"
<1>0. offset \in Nat
  BY TypedFacts
<1>1. ~CutWindow
  <2> SUFFICES ASSUME CutWindow PROVE FALSE
    OBVIOUS
  <2> DEFINE c == Part(window, offset, Smaller(offset + Limit, Length(window)))
  <2>1. chunks' = Append(chunks, c)
    BY DEF CutWindow
  <2>2. c \in Chunk
    <3>1. window \in Texts /\ offset \in Nat /\ Smaller(offset + Limit, Length(window)) \in Nat
      BY TypedFacts, LimitIsNatural DEF Smaller
    <3> QED
      BY <3>1, PartIsChunk
  <2> HIDE DEF c
  <2>3. Len(chunks') = Len(chunks) + 1 /\ Len(chunks) \in Nat
    BY <2>1, <2>2, Appended, TypedFacts
  <2> QED
    BY <2>3
<1>2. CASE \/ Fails \/ EnforceRobots \/ ReadFile \/ ReadPage \/ ReadHeading \/ ReadBody \/ ReadParagraph
          \/ EndOfText \/ SkipSection \/ KeepSection \/ UncutSection \/ EmbedNothing \/ Embed \/ EndGroups \/ Finish
  BY <1>2 DEF At, Fails, EnforceRobots, ReadFile, ReadPage, ReadHeading, ReadBody, ReadParagraph, EndOfText,
              SkipSection, KeepSection, UncutSection, Oversized, EmbedNothing, Embed, EndGroups, Finish
<1>3. CASE WindowSection
  BY <1>3 DEF At, WindowSection, Oversized
<1>4. CASE StartEmbedding
  <2>1. phase = "cut" /\ phase' \in {"cut", "embed"}
    <3>1. phase = "cut"
      BY <1>4 DEF StartEmbedding, Oversized
    <3>2. phase' = phase \/ phase' = "embed"
      BY <1>4 DEF StartEmbedding
    <3> QED
      BY <3>1, <3>2
  <2> QED
    BY <2>1 DEF At
<1>5. CASE CutGroup
  <2>1. phase = "group" /\ (phase' = phase \/ offset' = 0)
    BY <1>5 DEF CutGroup
  <2> QED
    BY <2>1 DEF At
<1>6. CASE UNCHANGED vars
  BY <1>6 DEF At, vars
<1> QED
  BY <1>1, <1>2, <1>3, <1>4, <1>5, <1>6 DEF Next

\* The places of the chunks before and after c is added.
LEMMA Places ==
  ASSUME Typed, NEW c, Adds(c)
  PROVE  /\ c \in Chunk /\ Len(chunks) \in Nat /\ DOMAIN chunks = 1..Len(chunks)
         /\ Len(chunks') = Len(chunks) + 1 /\ DOMAIN chunks' = 1..(Len(chunks) + 1)
         /\ chunks'[Len(chunks) + 1] = c
         /\ \A k \in 1..Len(chunks) : chunks'[k] = chunks[k] /\ chunks[k] \in Chunk
         /\ \A k \in 1..(Len(chunks) + 1) : k \in 1..Len(chunks) \/ k = Len(chunks) + 1
<1>1. c \in Chunk /\ chunks \in Seq(Chunk) /\ Fit(chunks) /\ chunks' = Append(chunks, c)
  BY TypedFacts DEF Adds, Fit
<1>2. \A k \in 1..Len(chunks) : chunks[k] \in Chunk
  BY <1>1, LenProperties
<1> QED
  BY <1>1, <1>2, Appended


----------------------------------------------------------------------------
(* The text in line: in chunks, then being cut, then in the sections to come. *)

TextsOf(secs) == [k \in DOMAIN secs |-> secs[k].text]
BodiesOf(secs) == [k \in DOMAIN secs |-> Filtered(secs[k].text)]

\* What the chunks hold, one by one.
Held(cs) == [k \in DOMAIN cs |-> IF cs[k].from = 0 THEN cs[k].text ELSE <<>>]

\* Of the section being cut: a window not begun, and the sentences to come.
Ahead(all, n) == FlattenSeq(SubSeq(all, n + 1, Len(all)))
Pending == (IF At = 0 THEN window ELSE <<>>) \o Ahead(sentences, pos)

\* Of the sections after it.
Coming == IF phase = "cut" THEN sections ELSE Tail(sections)
Waiting == FlattenSeq(BodiesOf(Coming))

Line == Chunked \o (Pending \o Waiting)

Faithful == call.strategy = "fixed" \/ ~call.filter

\* While the blocks are read, the sections hold what was read of them.
ReadSoFar ==
  phase \in {"file", "robots", "page", "sections"} =>
    /\ chunks = <<>>
    /\ FlattenSeq(TextsOf(sections)) \o buffer = FlattenSeq(SubSeq(Bodies, 1, block - 1))

\* While they are cut, nothing leaves the line but what is filtered, and
\* without a chunk nothing but sections that were filtered whole.
StaysInLine ==
  phase \in {"cut", "embed", "group", "window"} =>
    /\ Thins(Line, Filtered(BodyText))
    /\ Faithful => Line = Filtered(BodyText)
    /\ chunks = <<>> => /\ phase = "cut" => Line = Filtered(BodyText)
                        /\ phase = "group" => pos < Len(sentences)

Ended == phase \in {"done", "failed"} => ChunksKeepText

Kept == ReadSoFar /\ StaysInLine /\ Ended

\* Thinning is an order.
LEMMA ThinsAgain ==
  ASSUME NEW a, NEW b, NEW c, Thins(a, b), Thins(b, c)
  PROVE  Thins(a, c) /\ Thins(a, a)
BY DEF Thins

\* The beginning of a text thins it.
LEMMA BeginningThins ==
  ASSUME NEW a \in Texts, NEW b \in Texts
  PROVE  Thins(a, a \o b)
<1>1. a \o <<>> = a /\ <<>> \in Texts
  BY ConcatEmptySeq DEF Texts
<1>2. Thins(a, a) /\ Thins(<<>>, b)
  BY NothingThins DEF Thins
<1>3. Thins(a \o <<>>, a \o b)
  BY <1>1, <1>2, ThinsConcat
<1> QED
  BY <1>1, <1>3

\* Texts are joined in any order of joining.
LEMMA JoinedTexts ==
  ASSUME NEW a \in Texts, NEW b \in Texts, NEW c \in Texts
  PROVE  /\ a \o b \in Texts /\ (a \o b) \o c = a \o (b \o c)
         /\ a \o <<>> = a /\ <<>> \o a = a /\ <<>> \in Texts
BY ConcatEmptySeq, ConcatAssociative, ConcatProperties DEF Texts

LEMMA JoinedInTurn ==
  ASSUME NEW a \in Texts, NEW b \in Texts, NEW c \in Texts
  PROVE  (a \o b) \o c = a \o (b \o c)
BY ConcatAssociative DEF Texts

\* The bodies of sections are their texts, filtered.
LEMMA BodiesAreFiltered ==
  ASSUME NEW secs \in Seq(Section)
  PROVE  /\ TextsOf(secs) \in Seq(Texts) /\ Len(TextsOf(secs)) = Len(secs)
         /\ BodiesOf(secs) \in Seq(Texts) /\ Len(BodiesOf(secs)) = Len(secs)
         /\ FlattenSeq(BodiesOf(secs)) = Filtered(FlattenSeq(TextsOf(secs)))
<1>1. Len(secs) \in Nat /\ DOMAIN secs = 1..Len(secs) /\ \A k \in 1..Len(secs) : secs[k].text \in Texts
  <2>1. Len(secs) \in Nat /\ DOMAIN secs = 1..Len(secs) /\ \A k \in 1..Len(secs) : secs[k] \in Section
    BY LenProperties
  <2> QED
    BY <2>1 DEF Section
<1>2. \A k \in 1..Len(secs) : Filtered(secs[k].text) \in Texts
  BY <1>1, FilteredThins
<1>3. TextsOf(secs) \in [1..Len(secs) -> Texts]
  BY <1>1 DEF TextsOf
<1>4. BodiesOf(secs) \in [1..Len(secs) -> Texts]
  BY <1>1, <1>2 DEF BodiesOf
<1>5. /\ TextsOf(secs) \in Seq(Texts) /\ Len(TextsOf(secs)) = Len(secs)
      /\ BodiesOf(secs) \in Seq(Texts) /\ Len(BodiesOf(secs)) = Len(secs)
  BY <1>1, <1>3, <1>4, ByPlaces
<1>6. BodiesOf(secs) = [k \in DOMAIN TextsOf(secs) |-> Filtered(TextsOf(secs)[k])]
  <2>1. DOMAIN TextsOf(secs) = 1..Len(secs) /\ \A k \in 1..Len(secs) : TextsOf(secs)[k] = secs[k].text
    BY <1>1 DEF TextsOf
  <2>2. BodiesOf(secs) = [k \in 1..Len(secs) |-> Filtered(secs[k].text)]
    BY <1>1 DEF BodiesOf
  <2> QED
    BY <2>1, <2>2
<1> QED
  BY <1>5, <1>6, FilteredFlatten

LEMMA FirstBody ==
  ASSUME NEW secs \in Seq(Section), secs # <<>>
  PROVE  /\ Filtered(Head(secs).text) \in Texts
         /\ FlattenSeq(BodiesOf(Tail(secs))) \in Texts
         /\ FlattenSeq(BodiesOf(secs)) = Filtered(Head(secs).text) \o FlattenSeq(BodiesOf(Tail(secs)))
<1> DEFINE b == BodiesOf(secs)
           c == BodiesOf(Tail(secs))
<1>1. /\ Head(secs) = secs[1] /\ secs[1] \in Section /\ Tail(secs) \in Seq(Section)
      /\ Len(Tail(secs)) = Len(secs) - 1
      /\ \A k \in 1..(Len(secs) - 1) : Tail(secs)[k] = secs[k + 1]
  BY HeadAndTail
<1>2. Len(secs) \in Nat /\ DOMAIN secs = 1..Len(secs) /\ Len(secs) # 0 /\ DOMAIN Tail(secs) = 1..(Len(secs) - 1)
  BY <1>1, LenProperties, EmptySeq
<1>3. b \in Seq(Texts) /\ Len(b) = Len(secs) /\ c \in Seq(Texts) /\ Len(c) = Len(secs) - 1
  BY <1>1, BodiesAreFiltered
<1>4. \A k \in 1..Len(secs) : b[k] = Filtered(secs[k].text)
  BY <1>2 DEF BodiesOf
<1>5. \A k \in 1..(Len(secs) - 1) : c[k] = Filtered(secs[k + 1].text)
  BY <1>1, <1>2 DEF BodiesOf
<1> HIDE DEF b, c
<1>6. b # <<>>
  BY <1>2, <1>3, EmptySeq
<1>7. /\ Head(b) = b[1] /\ Tail(b) \in Seq(Texts) /\ Len(Tail(b)) = Len(b) - 1
      /\ \A k \in 1..(Len(b) - 1) : Tail(b)[k] = b[k + 1]
  BY <1>3, <1>6, HeadAndTail
<1>8. \A k \in 1..(Len(secs) - 1) : Tail(b)[k] = c[k]
  <2>1. \A k \in 1..(Len(secs) - 1) : k + 1 \in 1..Len(secs)
    BY <1>2
  <2> QED
    BY <1>3, <1>4, <1>5, <1>7, <2>1
<1>9. Tail(b) = c
  BY <1>3, <1>7, <1>8, SeqEqual
<1>10. Head(b) = Filtered(Head(secs).text)
  BY <1>1, <1>2, <1>4, <1>7
<1>11. Filtered(Head(secs).text) \in Texts
  BY <1>1, FilteredThins DEF Section
<1>12. FlattenSeq(c) \in Texts
  BY <1>3, FlattenIsSeq DEF Texts
<1>13. FlattenSeq(b) = Head(b) \o FlattenSeq(Tail(b))
  BY <1>3, <1>6, FlattenHead DEF Texts
<1> QED
  BY <1>9, <1>10, <1>11, <1>12, <1>13 DEF b, c

\* A section more.
LEMMA OneSectionMore ==
  ASSUME NEW secs \in Seq(Section), NEW s \in Section
  PROVE  FlattenSeq(TextsOf(Append(secs, s))) = FlattenSeq(TextsOf(secs)) \o s.text
<1> DEFINE more == Append(secs, s)
<1>1. Len(secs) \in Nat /\ DOMAIN secs = 1..Len(secs) /\ s.text \in Texts
  BY LenProperties DEF Section
<1>2. /\ more \in Seq(Section) /\ Len(more) = Len(secs) + 1 /\ more[Len(secs) + 1] = s
      /\ \A k \in 1..Len(secs) : more[k] = secs[k]
  BY AppendProperties
<1> HIDE DEF more
<1>3. DOMAIN more = 1..(Len(secs) + 1)
  BY <1>2, LenProperties
<1>4. TextsOf(secs) \in Seq(Texts) /\ Len(TextsOf(secs)) = Len(secs) /\ \A k \in 1..Len(secs) : TextsOf(secs)[k] = secs[k].text
  BY <1>1, BodiesAreFiltered DEF TextsOf
<1>5. /\ TextsOf(more) \in Seq(Texts) /\ Len(TextsOf(more)) = Len(secs) + 1
      /\ \A k \in 1..(Len(secs) + 1) : TextsOf(more)[k] = more[k].text
  BY <1>2, <1>3, BodiesAreFiltered DEF TextsOf
<1> DEFINE longer == Append(TextsOf(secs), s.text)
<1>6. /\ longer \in Seq(Texts) /\ Len(longer) = Len(secs) + 1 /\ longer[Len(secs) + 1] = s.text
      /\ \A k \in 1..Len(secs) : longer[k] = TextsOf(secs)[k]
  BY <1>1, <1>4, AppendProperties
<1> HIDE DEF longer
<1>7. \A k \in 1..(Len(secs) + 1) : TextsOf(more)[k] = longer[k]
  <2>1. \A k \in 1..(Len(secs) + 1) : k \in 1..Len(secs) \/ k = Len(secs) + 1
    BY <1>1
  <2> QED
    BY <1>1, <1>2, <1>4, <1>5, <1>6, <2>1
<1>8. TextsOf(more) = longer
  BY <1>5, <1>6, <1>7, SeqEqual
<1>9. FlattenSeq(Append(TextsOf(secs), s.text)) = FlattenSeq(TextsOf(secs)) \o s.text
  BY <1>1, <1>4, FlattenAppends DEF Texts
<1> QED
  BY <1>8, <1>9 DEF more, longer

\* What the chunks hold is text, each at its place.
LEMMA HeldIsText ==
  ASSUME NEW cs, Fit(cs)
  PROVE  /\ Held(cs) \in Seq(Texts) /\ Len(Held(cs)) = Len(cs)
         /\ \A k \in 1..Len(cs) : Held(cs)[k] = IF cs[k].from = 0 THEN cs[k].text ELSE <<>>
         /\ FlattenSeq(Held(cs)) \in Texts
<1>1. Len(cs) \in Nat /\ DOMAIN cs = 1..Len(cs) /\ \A k \in 1..Len(cs) : cs[k].text \in Texts
  <2>1. cs \in Seq(Chunk)
    BY DEF Fit
  <2>2. Len(cs) \in Nat /\ DOMAIN cs = 1..Len(cs) /\ \A k \in 1..Len(cs) : cs[k] \in Chunk
    BY <2>1, LenProperties
  <2> QED
    BY <2>2 DEF Chunk
<1>2. <<>> \in Texts
  BY EmptySeq DEF Texts
<1>3. /\ Held(cs) \in [1..Len(cs) -> Texts]
      /\ \A k \in 1..Len(cs) : Held(cs)[k] = IF cs[k].from = 0 THEN cs[k].text ELSE <<>>
  BY <1>1, <1>2 DEF Held
<1>4. Held(cs) \in Seq(Texts) /\ Len(Held(cs)) = Len(cs)
  BY <1>1, <1>3, ByPlaces
<1> QED
  BY <1>3, <1>4, FlattenIsSeq DEF Texts

LEMMA HeldGrows ==
  ASSUME Typed, Typed', NEW c, Adds(c)
  PROVE  Chunked' = Chunked \o (IF c.from = 0 THEN c.text ELSE <<>>)
<1> DEFINE t == IF c.from = 0 THEN c.text ELSE <<>>
<1>1. Fit(chunks) /\ Fit(chunks)'
  BY DEF Typed, TypeOK, Fit, Chunk
<1>2. /\ Held(chunks) \in Seq(Texts) /\ Len(Held(chunks)) = Len(chunks) /\ Chunked = FlattenSeq(Held(chunks))
      /\ \A k \in 1..Len(chunks) : Held(chunks)[k] = IF chunks[k].from = 0 THEN chunks[k].text ELSE <<>>
  BY <1>1, HeldIsText DEF Chunked, Held
<1>3. /\ Held(chunks') \in Seq(Texts) /\ Len(Held(chunks')) = Len(chunks') /\ Chunked' = FlattenSeq(Held(chunks'))
      /\ \A k \in 1..Len(chunks') : Held(chunks')[k] = IF chunks'[k].from = 0 THEN chunks'[k].text ELSE <<>>
  BY <1>1, HeldIsText DEF Chunked, Held
<1>4. /\ c \in Chunk /\ Len(chunks) \in Nat /\ Len(chunks') = Len(chunks) + 1 /\ chunks'[Len(chunks) + 1] = c
      /\ \A k \in 1..Len(chunks) : chunks'[k] = chunks[k]
      /\ \A k \in 1..(Len(chunks) + 1) : k \in 1..Len(chunks) \/ k = Len(chunks) + 1
  BY Places
<1>5. t \in Texts
  BY <1>4, EmptySeq DEF Chunk, Texts
<1>6. Len(chunks) + 1 \in 1..Len(chunks') /\ \A k \in 1..Len(chunks) : k \in 1..Len(chunks')
  BY <1>4
<1>7. Held(chunks')[Len(chunks) + 1] = t
  BY <1>3, <1>4, <1>6
<1> HIDE DEF t
<1> DEFINE longer == Append(Held(chunks), t)
<1>8. /\ longer \in Seq(Texts) /\ Len(longer) = Len(Held(chunks)) + 1 /\ longer[Len(Held(chunks)) + 1] = t
      /\ \A k \in 1..Len(Held(chunks)) : longer[k] = Held(chunks)[k]
  BY <1>2, <1>5, AppendProperties
<1> HIDE DEF longer
<1>9. \A k \in 1..Len(chunks) : Held(chunks')[k] = longer[k]
  BY <1>2, <1>3, <1>4, <1>6, <1>8
<1>10. \A k \in 1..(Len(chunks) + 1) : Held(chunks')[k] = longer[k]
  BY <1>2, <1>4, <1>7, <1>8, <1>9
<1>11. Held(chunks') = longer
  BY <1>2, <1>3, <1>4, <1>8, <1>10, SeqEqual
<1>12. FlattenSeq(Append(Held(chunks), t)) = FlattenSeq(Held(chunks)) \o t
  BY <1>2, <1>5, FlattenAppends DEF Texts
<1> QED
  BY <1>2, <1>3, <1>11, <1>12 DEF longer, t

\* The sentences to come, from the first on, from the last on, and group by group.
LEMMA AheadIsText ==
  ASSUME NEW all \in Seq(Texts), NEW n \in 0..Len(all)
  PROVE  /\ Ahead(all, n) \in Texts
         /\ Ahead(all, 0) = FlattenSeq(all) /\ Ahead(all, Len(all)) = <<>>
<1>1. Len(all) \in Nat /\ DOMAIN all = 1..Len(all) /\ \A i \in 1..Len(all) : all[i] \in Texts
  BY LenProperties
<1>2. Ahead(all, n) \in Texts
  <2> DEFINE l == n + 1
  <2>1. l \in Int /\ Len(all) \in Int /\ \A i \in l..Len(all) : all[i] \in Texts
    BY <1>1
  <2> HIDE DEF l
  <2>2. SubSeq(all, l, Len(all)) \in Seq(Texts)
    BY <2>1, SubSeqProperties
  <2>3. FlattenSeq(SubSeq(all, l, Len(all))) \in Texts
    BY <2>2, FlattenIsSeq DEF Texts
  <2> QED
    BY <2>3 DEF Ahead, l
<1>3. 0 + 1 = 1 /\ SubSeq(all, 1, Len(all)) = all
  BY SubSeqFull
<1>4. SubSeq(all, Len(all) + 1, Len(all)) = <<>>
  BY <1>1, SubSeqEmpty
<1> QED
  BY <1>2, <1>3, <1>4, FlattenNothing DEF Ahead

LEMMA AheadInGroups ==
  ASSUME NEW all \in Seq(Texts), NEW m \in 0..Len(all), NEW n \in (m + 1)..Len(all)
  PROVE  Ahead(all, m) = FlattenSeq(SubSeq(all, m + 1, n)) \o Ahead(all, n)
<1>1. Len(all) \in Nat /\ DOMAIN all = 1..Len(all) /\ \A i \in 1..Len(all) : all[i] \in Texts
  BY LenProperties
<1> DEFINE l == m + 1
           k == n + 1
           N == Len(all)
           a == SubSeq(all, l, n)
           b == SubSeq(all, k, N)
<1>2. /\ l \in 1..(N + 1) /\ n \in (l - 1)..N /\ N \in n..N /\ l \in Int /\ k \in Int /\ n \in Int /\ N \in Int
      /\ k = n + 1
      /\ \A i \in l..n : all[i] \in Texts
      /\ \A i \in k..N : all[i] \in Texts
  BY <1>1
<1> HIDE DEF l, k
<1>3. a \in Seq(Texts) /\ b \in Seq(Texts)
  BY <1>2, SubSeqProperties
<1>4. SubSeq(all, l, n) \o SubSeq(all, n + 1, N) = SubSeq(all, l, N)
  BY <1>2, ConcatAdjacentSubSeq
<1>5. a \o b = SubSeq(all, l, N)
  BY <1>2, <1>4
<1> HIDE DEF a, b
<1>6. FlattenSeq(a \o b) = FlattenSeq(a) \o FlattenSeq(b)
  BY <1>3, FlattenConcat DEF Texts
<1> QED
  BY <1>5, <1>6 DEF Ahead, a, b, l, k

\* The sections to come.
LEMMA WaitingIsText ==
  ASSUME Typed, phase \in {"cut", "embed", "group", "window"}
  PROVE  Coming \in Seq(Section) /\ Waiting \in Texts
<1>1. sections \in Seq(Section) /\ (phase # "cut" => sections # <<>>)
  BY TypedFacts
<1>2. Coming \in Seq(Section)
  BY <1>1, HeadTailProperties DEF Coming
<1>3. BodiesOf(Coming) \in Seq(Texts)
  BY <1>2, BodiesAreFiltered
<1> QED
  BY <1>2, <1>3, FlattenIsSeq DEF Texts, Waiting

LEMMA WaitingNext ==
  ASSUME call' = call
  PROVE  Waiting' = FlattenSeq(BodiesOf(Coming'))
BY DEF Waiting, BodiesOf, Filtered, Content

LEMMA LineIsText ==
  ASSUME Typed, phase \in {"cut", "embed", "group", "window"}
  PROVE  Chunked \in Texts /\ Pending \in Texts /\ Ahead(sentences, pos) \in Texts /\ Waiting \in Texts
<1>1. Fit(chunks) /\ sentences \in Seq(Texts) /\ pos \in 0..Len(sentences) /\ window \in Texts
  BY TypedFacts
<1>2. Chunked \in Texts
  BY <1>1, HeldIsText DEF Chunked, Held
<1>3. Ahead(sentences, pos) \in Texts
  BY <1>1, AheadIsText
<1>4. (IF At = 0 THEN window ELSE <<>>) \in Texts
  BY <1>1, EmptySeq DEF Texts
<1> QED
  BY <1>2, <1>3, <1>4, JoinedTexts, WaitingIsText DEF Pending

\* A step that takes y from the line and puts x in its place, z behind it.
Moves(x, y, z) ==
  /\ x \in Texts /\ y \in Texts /\ z \in Texts
  /\ Pending \o Waiting = y \o z
  /\ \/ Chunked' = Chunked \o x /\ Pending' \o Waiting' = z
     \/ Chunked' = Chunked /\ Pending' \o Waiting' = x \o z
  /\ Thins(x, y)
  /\ Faithful => x = y

\* What is in line stays there.
LEMMA LineStays ==
  ASSUME Typed, StaysInLine, phase \in {"cut", "embed", "group", "window"}, call' = call,
         NEW x, NEW y, NEW z, Moves(x, y, z)
  PROVE  /\ Filtered(BodyText)' = Filtered(BodyText)
         /\ Thins(Line', Filtered(BodyText)')
         /\ Faithful' => Line' = Filtered(BodyText)'
         /\ x = y => Line' = Line
<1>1. Chunked \in Texts
  BY LineIsText
<1>2. Line' = Chunked \o (x \o z) /\ Line = Chunked \o (y \o z)
  <2>1. (Chunked \o x) \o z = Chunked \o (x \o z)
    BY <1>1, JoinedInTurn DEF Moves
  <2> QED
    BY <2>1 DEF Line, Moves
<1>3. Thins(x \o z, y \o z) /\ x \o z \in Texts /\ y \o z \in Texts
  <2>1. Thins(z, z)
    BY DEF Thins
  <2> QED
    BY <2>1, ThinsConcat, JoinedTexts DEF Moves
<1>4. Thins(Chunked \o (x \o z), Chunked \o (y \o z))
  <2>1. Thins(Chunked, Chunked)
    BY DEF Thins
  <2> QED
    BY <1>1, <1>3, <2>1, ThinsConcat
<1>5. Filtered(BodyText)' = Filtered(BodyText)
  <2>1. BodyText' = BodyText
    BY CallStays
  <2> QED
    BY <2>1 DEF Filtered, Content
<1>6. Thins(Line, Filtered(BodyText)) /\ (Faithful => Line = Filtered(BodyText))
  BY DEF StaysInLine
<1>7. Thins(Line', Filtered(BodyText))
  BY <1>2, <1>4, <1>6, ThinsAgain
<1>8. Faithful' => Faithful /\ x = y
  BY DEF Faithful, Moves
<1> QED
  BY <1>2, <1>5, <1>6, <1>7, <1>8

\* One more block is read.
LEMMA OneBlockMore ==
  ASSUME call \in Calls, NEW b \in 1..Len(Blocks)
  PROVE  /\ Bodies[b] = IF Structured /\ Blocks[b].level \in 1..3 THEN <<>> ELSE Blocks[b].text
         /\ Bodies[b] \in Texts
         /\ FlattenSeq(SubSeq(Bodies, 1, b - 1)) \in Texts
         /\ FlattenSeq(SubSeq(Bodies, 1, b)) = FlattenSeq(SubSeq(Bodies, 1, b - 1)) \o Bodies[b]
<1>1. Bodies \in Seq(Texts) /\ Len(Bodies) = Len(Blocks) /\ Len(Blocks) \in Nat /\ DOMAIN Blocks = 1..Len(Blocks)
  BY BodyThinsText, BlocksAreTyped, LenProperties
<1>2. DOMAIN Bodies = 1..Len(Blocks) /\ \A i \in 1..Len(Blocks) : Bodies[i] \in Texts
  BY <1>1, LenProperties
<1>3. Bodies[b] = IF Structured /\ Blocks[b].level \in 1..3 THEN <<>> ELSE Blocks[b].text
  BY <1>1 DEF Bodies
<1> HIDE DEF Bodies
<1> DEFINE p == b - 1
           a == SubSeq(Bodies, 1, p)
<1>4. 1 \in 1..Len(Bodies) /\ b \in 1..Len(Bodies) /\ p \in Int /\ \A i \in 1..p : Bodies[i] \in Texts
  BY <1>1, <1>2
<1>5. SubSeq(Bodies, 1, b) = SubSeq(Bodies, 1, b - 1) \o <<Bodies[b]>>
  BY <1>1, <1>4, SubSeqRecursiveSecond
<1> HIDE DEF p
<1>6. a \in Seq(Texts)
  BY <1>4, SubSeqProperties
<1>7. <<Bodies[b]>> \in Seq(Texts) /\ FlattenSeq(<<Bodies[b]>>) = Bodies[b]
  BY <1>2, FlattenOne DEF Texts
<1>8. SubSeq(Bodies, 1, b) = a \o <<Bodies[b]>>
  BY <1>5 DEF p
<1> HIDE DEF a
<1>9. FlattenSeq(a \o <<Bodies[b]>>) = FlattenSeq(a) \o FlattenSeq(<<Bodies[b]>>)
  BY <1>6, <1>7, FlattenConcat DEF Texts
<1>10. FlattenSeq(a) \in Texts
  BY <1>6, FlattenIsSeq DEF Texts
<1> QED
  BY <1>2, <1>3, <1>7, <1>8, <1>9, <1>10 DEF a, p

\* The sections once what is in the buffer is one of them.
Closed == IF Nonblank(buffer) \/ title # 0
          THEN Append(sections, [title |-> title, text |-> buffer]) ELSE sections

LEMMA ClosedKeeps ==
  ASSUME Typed
  PROVE  /\ Closed \in Seq(Section)
         /\ FlattenSeq(TextsOf(Closed)) = FlattenSeq(TextsOf(sections)) \o buffer
         /\ FlattenSeq(TextsOf(sections)) \in Texts
<1>1. sections \in Seq(Section) /\ buffer \in Texts /\ title \in Nat /\ Closed \in Seq(Section)
  BY EndedIsTyped, TypedFacts DEF Closed
<1>2. TextsOf(sections) \in Seq(Texts)
  BY <1>1, BodiesAreFiltered
<1>3. FlattenSeq(TextsOf(sections)) \in Texts
  BY <1>2, FlattenIsSeq DEF Texts
<1>4. CASE Nonblank(buffer) \/ title # 0
  <2> DEFINE s == [title |-> title, text |-> buffer]
  <2>1. s \in Section /\ s.text = buffer /\ Closed = Append(sections, s)
    BY <1>1, <1>4 DEF Section, Closed
  <2> HIDE DEF s
  <2> QED
    BY <1>1, <1>3, <2>1, OneSectionMore
<1>5. CASE ~(Nonblank(buffer) \/ title # 0)
  <2>1. Closed = sections /\ buffer = <<>>
    BY <1>5 DEF Nonblank, Closed
  <2> QED
    BY <1>1, <1>3, <2>1, JoinedTexts
<1> QED
  BY <1>1, <1>3, <1>4, <1>5

LEMMA ReadOn ==
  ASSUME Typed, Typed', ReadSoFar, [Next]_vars
  PROVE  ReadSoFar'
<1> DEFINE early == {"file", "robots", "page", "sections"}
<1> SUFFICES ASSUME phase' \in early
             PROVE  /\ chunks' = <<>>
                    /\ FlattenSeq(TextsOf(sections')) \o buffer' = FlattenSeq(SubSeq(Bodies, 1, block' - 1))
  <2>1. Bodies' = Bodies
    BY CallNeverChanges, CallStays
  <2> QED
    BY <2>1 DEF ReadSoFar, TextsOf
<1> DEFINE read == FlattenSeq(TextsOf(sections))
<1>1. /\ call \in Calls /\ sections \in Seq(Section) /\ buffer \in Texts /\ title \in Nat
      /\ Len(Blocks) \in Nat /\ block \in 1..(Len(Blocks) + 1)
  BY TypedFacts
<1>2. read \in Texts /\ FlattenSeq(TextsOf(Closed)) = read \o buffer
  BY ClosedKeeps
<1>3. phase \in early => chunks = <<>> /\ read \o buffer = FlattenSeq(SubSeq(Bodies, 1, block - 1))
  BY DEF ReadSoFar
<1> HIDE DEF read
<1>4. block <= Len(Blocks) => /\ block \in 1..Len(Blocks) /\ Blocks[block].text \in Texts
                              /\ (block + 1) - 1 = block
  BY <1>1, BlockIsText
<1>5. CASE ReadHeading
  <2>1. /\ phase \in early /\ block <= Len(Blocks) /\ Structured /\ Blocks[block].level \in 1..3
        /\ sections' = Closed /\ buffer' = <<>> /\ block' = block + 1 /\ chunks' = chunks
    BY <1>5 DEF ReadHeading, Closed
  <2>2. FlattenSeq(SubSeq(Bodies, 1, block)) = FlattenSeq(SubSeq(Bodies, 1, block - 1)) \o <<>>
    BY <1>1, <1>4, <2>1, OneBlockMore
  <2>3. (read \o buffer) \o <<>> = read \o buffer
    BY <1>1, <1>2, JoinedTexts
  <2> QED
    BY <1>2, <1>3, <1>4, <2>1, <2>2, <2>3
<1>6. ASSUME ReadBody \/ ReadParagraph
      PROVE  FlattenSeq(SubSeq(Bodies, 1, block)) = FlattenSeq(SubSeq(Bodies, 1, block - 1)) \o Blocks[block].text
  <2>1. block <= Len(Blocks) /\ ~(Structured /\ Blocks[block].level \in 1..3)
    BY <1>6 DEF ReadBody, ReadParagraph
  <2> QED
    BY <1>1, <1>4, <2>1, OneBlockMore
<1>7. CASE ReadBody
  <2>1. /\ phase \in early /\ block <= Len(Blocks) /\ sections' = sections
        /\ buffer' = buffer \o Blocks[block].text /\ block' = block + 1 /\ chunks' = chunks
    BY <1>7 DEF ReadBody
  <2>2. (read \o buffer) \o Blocks[block].text = read \o (buffer \o Blocks[block].text)
    <3>1. read \in Texts /\ buffer \in Texts /\ Blocks[block].text \in Texts
      BY <1>1, <1>2, <1>4, <2>1
    <3> QED
      BY <3>1, JoinedInTurn, Zenon
  <2> QED
    BY <1>3, <1>4, <1>6, <1>7, <2>1, <2>2 DEF read
<1>8. CASE ReadParagraph
  <2> DEFINE text == Blocks[block].text
             full == Nonblank(text) /\ Nonblank(buffer) /\ Length(buffer) + Length(text) > WindowSize
             s == [title |-> 0, text |-> buffer]
  <2>1. /\ phase \in early /\ block <= Len(Blocks) /\ block' = block + 1 /\ chunks' = chunks
        /\ sections' = IF full THEN Append(sections, s) ELSE sections
        /\ buffer' = IF full THEN text ELSE buffer \o text
    BY <1>8 DEF ReadParagraph
  <2>2. s \in Section /\ s.text = buffer /\ text \in Texts
    BY <1>1, <1>4, <2>1 DEF Section
  <2> HIDE DEF full, s, text
  <2>3. (read \o buffer) \o text = read \o (buffer \o text)
    <3>1. read \in Texts /\ buffer \in Texts /\ text \in Texts
      BY <1>1, <1>2, <2>2
    <3> QED
      BY <3>1, JoinedInTurn, Zenon
  <2>4. FlattenSeq(TextsOf(sections')) \o buffer' = (read \o buffer) \o text
    <3>1. full => FlattenSeq(TextsOf(sections')) = read \o buffer
      BY <1>1, <2>1, <2>2, OneSectionMore DEF read
    <3> QED
      BY <2>1, <2>3, <3>1 DEF read
  <2> QED
    BY <1>3, <1>4, <1>6, <1>8, <2>1, <2>4 DEF text
<1>9. CASE EnforceRobots \/ ReadFile \/ ReadPage \/ UNCHANGED vars
  <2>1. phase \in early /\ sections' = sections /\ buffer' = buffer /\ block' = block /\ chunks' = chunks
    BY <1>9 DEF EnforceRobots, ReadFile, ReadPage, vars, reading
  <2> QED
    BY <1>3, <2>1 DEF read
<1>10. CASE \/ Fails \/ EndOfText \/ SkipSection \/ KeepSection \/ WindowSection \/ UncutSection
            \/ EmbedNothing \/ Embed \/ CutWindow \/ EndGroups \/ Finish
  BY <1>10 DEF Fails, EndOfText, SkipSection, KeepSection, WindowSection, UncutSection, Oversized,
               EmbedNothing, Embed, CutWindow, EndGroups, Finish
<1>11. CASE StartEmbedding \/ CutGroup
  <2>1. phase \notin early
    BY <1>11 DEF StartEmbedding, Oversized, CutGroup
  <2>2. phase' = phase \/ phase' \in {"embed", "window"}
    <3>1. StartEmbedding => phase' = phase \/ phase' = "embed"
      BY DEF StartEmbedding
    <3>2. CutGroup => phase' = phase \/ phase' = "window"
      BY DEF CutGroup
    <3> QED
      BY <1>11, <3>1, <3>2
  <2> QED
    BY <2>1, <2>2
<1> QED
  BY <1>5, <1>7, <1>8, <1>9, <1>10, <1>11 DEF Next

\* Nothing is held by no chunks, ahead of no sentences, in no sections.
LEMMA NothingHeld ==
  /\ chunks = <<>> => Chunked = <<>>
  /\ chunks' = <<>> => Chunked' = <<>>
  /\ Ahead(<<>>, 0) = <<>>
  /\ FlattenSeq(BodiesOf(<<>>)) = <<>>
<1>1. Fit(<<>>) /\ <<>> \in Seq(Section) /\ <<>> \in Seq(Texts)
  BY EmptySeq DEF Fit
<1>2. Held(<<>>) = <<>>
  BY <1>1, HeldIsText, EmptySeq
<1>3. FlattenSeq(Held(<<>>)) = <<>> /\ FlattenSeq(<<>>) = <<>>
  BY <1>2, FlattenNothing
<1>4. Ahead(<<>>, 0) = <<>>
  <2>1. Len(<<>>) = 0 /\ 0 \in 0..Len(<<>>)
    BY EmptySeq
  <2> QED
    BY <1>1, <1>3, <2>1, AheadIsText
<1>5. BodiesOf(<<>>) = <<>>
  BY <1>1, BodiesAreFiltered, EmptySeq
<1> QED
  BY <1>3, <1>4, <1>5 DEF Chunked, Held

LEMMA EndOfTextStays ==
  ASSUME Typed, Typed', ReadSoFar, EndOfText
  PROVE  StaysInLine'
<1>1. /\ phase = "sections" /\ phase' = "cut" /\ call' = call /\ block > Len(Blocks)
      /\ sections' = Closed /\ chunks' = chunks
  BY DEF EndOfText, Closed
<1>2. FlattenSeq(TextsOf(Closed)) = FlattenSeq(TextsOf(sections)) \o buffer
  BY ClosedKeeps
<1>3. Closed \in Seq(Section)
  BY ClosedKeeps
<1>4. chunks = <<>> /\ FlattenSeq(TextsOf(sections)) \o buffer = FlattenSeq(SubSeq(Bodies, 1, block - 1))
  BY <1>1 DEF ReadSoFar
<1>5. SubSeq(Bodies, 1, block - 1) = Bodies
  <2>1. call \in Calls /\ Len(Blocks) \in Nat /\ block \in 1..(Len(Blocks) + 1)
    BY TypedFacts
  <2>2. block - 1 = Len(Blocks)
    BY <1>1, <2>1
  <2>3. Bodies \in Seq(Texts) /\ Len(Bodies) = Len(Blocks)
    BY <2>1, BodyThinsText
  <2> QED
    BY <2>2, <2>3, SubSeqFull
<1>6. FlattenSeq(Bodies) = BodyText /\ BodyText \in Texts
  BY BodyThinsText, TypedFacts
<1>7. FlattenSeq(BodiesOf(Closed)) = Filtered(BodyText)
  BY <1>2, <1>3, <1>4, <1>5, <1>6, BodiesAreFiltered
<1>8. Waiting' = Filtered(BodyText) /\ Chunked' = <<>>
  BY <1>1, <1>4, <1>7, WaitingNext, NothingHeld DEF Coming
<1>9. Pending' = <<>>
  <2>1. window' = <<>> /\ sentences' = <<>> /\ pos' = 0
    BY <1>1 DEF Typed
  <2>2. Ahead(sentences, pos)' = <<>>
    BY <2>1, NothingHeld DEF Ahead
  <2>3. <<>> \o <<>> = <<>>
    BY JoinedTexts
  <2> QED
    BY <2>1, <2>2, <2>3 DEF Pending
<1>10. Filtered(BodyText) \in Texts
  BY <1>6, FilteredThins
<1>11. Line' = Filtered(BodyText)
  BY <1>8, <1>9, <1>10, JoinedTexts DEF Line
<1>12. Filtered(BodyText)' = Filtered(BodyText)
  <2>1. BodyText' = BodyText
    BY <1>1, CallStays
  <2> QED
    BY <1>1, <2>1 DEF Filtered, Content
<1> QED
  BY <1>1, <1>11, <1>12 DEF StaysInLine, Thins

\* The sections after the one being cut.
Later == FlattenSeq(BodiesOf(Tail(sections)))

LEMMA LaterIsText ==
  ASSUME Typed, sections # <<>>
  PROVE  Later \in Texts /\ Body \in Texts /\ FlattenSeq(BodiesOf(sections)) = Body \o Later
<1>1. sections \in Seq(Section)
  BY TypedFacts
<1> QED
  BY <1>1, FirstBody DEF Later, Body

\* What is ahead before and after a step from one section to another.
LEMMA CutIsClear ==
  ASSUME Typed, phase = "cut", sections # <<>>
  PROVE  Pending = <<>> /\ Pending \o Waiting = Body \o Later
<1>1. window = <<>> /\ sentences = <<>> /\ pos = 0
  BY DEF Typed
<1>2. Pending = <<>>
  BY <1>1, NothingHeld, JoinedTexts DEF Pending
<1>3. Body \o Later \in Texts /\ Waiting = Body \o Later
  BY LaterIsText, JoinedTexts DEF Waiting, Coming
<1> QED
  BY <1>2, <1>3, JoinedTexts

LEMMA CutIsClearNext ==
  ASSUME Typed, Typed', phase' = "cut", call' = call, sections # <<>>, sections' = Tail(sections)
  PROVE  Pending' \o Waiting' = Later
<1>1. window' = <<>> /\ sentences' = <<>> /\ pos' = 0
  BY DEF Typed
<1>2. Pending' = <<>>
  <2>1. Ahead(sentences, pos)' = <<>>
    BY <1>1, NothingHeld DEF Ahead
  <2> QED
    BY <1>1, <2>1, JoinedTexts DEF Pending
<1>3. Later \in Texts /\ Waiting' = Later
  BY LaterIsText, WaitingNext DEF Coming, Later
<1> QED
  BY <1>2, <1>3, JoinedTexts

LEMMA LaterWaits ==
  ASSUME Typed
  PROVE  /\ phase \in {"embed", "group", "window"} =>
              /\ sections # <<>> /\ Waiting = Later /\ Later \in Texts
              /\ Ahead(sentences, pos) \in Texts
         /\ phase' # "cut" /\ sections' = sections /\ call' = call => Waiting' = Later
<1>1. phase \in {"embed", "group", "window"} => sections # <<>>
  BY TypedFacts
<1>2. sentences \in Seq(Texts) /\ pos \in 0..Len(sentences)
  BY TypedFacts
<1>3. phase' # "cut" /\ sections' = sections /\ call' = call => Waiting' = Later
  BY WaitingNext DEF Coming, Later
<1> QED
  BY <1>1, <1>2, <1>3, LaterIsText, AheadIsText DEF Waiting, Coming, Later

\* A chunk that begins its text.
LEMMA WholeHeld ==
  ASSUME Typed, Typed', NEW text \in Texts, chunks' = Append(chunks, Whole(text))
  PROVE  Chunked' = Chunked \o text /\ chunks' # <<>>
<1> DEFINE c == Whole(text)
<1>1. Length(text) \in Nat
  BY LengthIsNatural
<1>2. c \in Chunk /\ c.from = 0 /\ c.text = text /\ c.section = Len(sections)
  BY <1>1, PartIsChunk DEF Whole
<1>3. Adds(c)
  BY <1>2 DEF Adds
<1> HIDE DEF c
<1>4. chunks' # <<>>
  BY <1>3, Places, EmptySeq
<1> QED
  BY <1>2, <1>3, <1>4, HeldGrows

\* From section to section.
LEMMA SectionMoves ==
  ASSUME Typed, Typed', SkipSection \/ KeepSection \/ UncutSection
  PROVE  Moves(Body, Body, Later) /\ (chunks' = <<>> => chunks = <<>>)
<1>1. /\ phase = "cut" /\ phase' = "cut" /\ sections # <<>> /\ sections' = Tail(sections) /\ call' = call
      /\ (Body = <<>> /\ chunks' = chunks) \/ chunks' = Append(chunks, Whole(Body))
  BY DEF SkipSection, KeepSection, UncutSection, Oversized, Nonblank
<1>2. /\ Pending \o Waiting = Body \o Later /\ Pending' \o Waiting' = Later
      /\ Body \in Texts /\ Later \in Texts
  BY <1>1, CutIsClear, CutIsClearNext, LaterIsText
<1>3. CASE Body = <<>> /\ chunks' = chunks
  <2>1. Chunked' = Chunked
    BY <1>3 DEF Chunked
  <2>2. Body \o Later = Later
    BY <1>2, <1>3, JoinedTexts
  <2> QED
    BY <1>2, <1>3, <2>1, <2>2 DEF Moves, Thins
<1>4. CASE chunks' = Append(chunks, Whole(Body))
  <2>1. Chunked' = Chunked \o Body /\ chunks' # <<>>
    BY <1>2, <1>4, WholeHeld
  <2> QED
    BY <1>2, <2>1 DEF Moves, Thins
<1> QED
  BY <1>1, <1>3, <1>4

LEMMA WindowSectionMoves ==
  ASSUME Typed, Typed', WindowSection
  PROVE  Moves(Body, Body, Later)
<1>1. /\ phase = "cut" /\ phase' = "window" /\ sections # <<>> /\ sections' = sections /\ call' = call
      /\ chunks' = chunks /\ window' = Body /\ offset' = 0 /\ sentences' = <<>> /\ pos' = 0
  BY DEF WindowSection, Oversized
<1>2. Pending \o Waiting = Body \o Later /\ Body \in Texts /\ Later \in Texts /\ Waiting' = Later
  BY <1>1, CutIsClear, LaterIsText, LaterWaits
<1>3. Pending' = Body
  <2>1. Ahead(sentences, pos)' = <<>>
    BY <1>1, NothingHeld DEF Ahead
  <2> QED
    BY <1>1, <1>2, <2>1, JoinedTexts DEF Pending, At
<1>4. Chunked' = Chunked
  BY <1>1 DEF Chunked
<1> QED
  BY <1>2, <1>3, <1>4 DEF Moves, Thins

LEMMA StartEmbeddingMoves ==
  ASSUME Typed, Typed', StartEmbedding
  PROVE  /\ \E x : Moves(x, Body, Later)
         /\ phase' = "cut" => chunks' # <<>>
         /\ phase' \in {"cut", "embed"}
<1>1. PICK all \in {Sentences(Body)} : \E k \in {ContentSentences(all)} :
        IF Len(k) <= GroupSize
        THEN /\ chunks' = Append(chunks, Whole(FlattenSeq(k)))
             /\ sections' = Tail(sections)
             /\ UNCHANGED <<phase, sentences>>
        ELSE /\ sentences' = k
             /\ phase' = "embed"
             /\ UNCHANGED <<sections, chunks>>
  BY DEF StartEmbedding
<1> DEFINE kept == ContentSentences(all)
           x == FlattenSeq(kept)
<1>2. Oversized /\ phase = "cut" /\ sections # <<>> /\ call' = call /\ call.strategy = "semantic"
      /\ window' = window /\ pos' = pos
  BY DEF StartEmbedding, Oversized
<1>3. kept \in Seq(Texts) /\ x \in Texts /\ Thins(x, Body) /\ (~call.filter => x = Body)
  BY <1>2, OversizedSection
<1>4. IF Len(kept) <= GroupSize
      THEN /\ chunks' = Append(chunks, Whole(FlattenSeq(kept)))
           /\ sections' = Tail(sections)
           /\ phase' = phase
      ELSE /\ sentences' = kept
           /\ phase' = "embed"
           /\ sections' = sections
           /\ chunks' = chunks
  BY <1>1
<1> HIDE DEF kept
<1>5. /\ Pending \o Waiting = Body \o Later /\ Body \in Texts /\ Later \in Texts
      /\ window = <<>> /\ pos = 0 /\ Len(kept) \in Nat
  BY <1>2, <1>3, CutIsClear, LaterIsText, LenProperties DEF Typed
<1>6. Faithful => x = Body
  BY <1>2, <1>3 DEF Faithful
<1>7. CASE Len(kept) <= GroupSize
  <2>1. Chunked' = Chunked \o x /\ chunks' # <<>>
    BY <1>3, <1>4, <1>5, <1>7, WholeHeld
  <2>2. Pending' \o Waiting' = Later
    BY <1>2, <1>4, <1>7, CutIsClearNext
  <2>3. Moves(x, Body, Later)
    BY <1>3, <1>5, <1>6, <2>1, <2>2 DEF Moves
  <2> QED
    BY <1>2, <1>4, <1>7, <2>1, <2>3
<1>8. CASE ~(Len(kept) <= GroupSize)
  <2>1. Chunked' = Chunked /\ Waiting' = Later
    BY <1>2, <1>4, <1>8, LaterWaits DEF Chunked
  <2>2. Ahead(kept, 0) = x
    BY <1>3, <1>5, AheadIsText
  <2>3. Pending' = x
    <3>1. Ahead(sentences, pos)' = x
      BY <1>2, <1>4, <1>5, <1>8, <2>2 DEF Ahead
    <3> QED
      BY <1>2, <1>3, <1>5, <3>1, JoinedTexts DEF Pending
  <2>4. Moves(x, Body, Later)
    BY <1>3, <1>5, <1>6, <2>1, <2>3 DEF Moves
  <2> QED
    BY <1>4, <1>8, <2>4
<1> QED
  BY <1>7, <1>8

\* In the section being cut.
LEMMA EmbeddingMoves ==
  ASSUME Typed, Typed', EmbedNothing \/ Embed
  PROVE  \E x, z : Moves(x, x, z)
<1>1. phase = "embed" /\ call' = call /\ sentences \in Seq(Texts) /\ pos = 0 /\ window = <<>> /\ window' = window
  BY TypedFacts DEF EmbedNothing, Embed, Typed
<1>2. sections # <<>> /\ Waiting = Later /\ Later \in Texts
  BY <1>1, LaterWaits
<1> DEFINE x == FlattenSeq(sentences)
<1>3. x \in Texts /\ Ahead(sentences, 0) = x
  <2>1. 0 \in 0..Len(sentences)
    BY <1>1, LenProperties
  <2> QED
    BY <1>1, <2>1, AheadIsText, FlattenIsSeq DEF Texts
<1>4. Pending = x
  BY <1>1, <1>3, JoinedTexts DEF Pending
<1>5. CASE EmbedNothing
  <2>1. /\ phase' = "cut" /\ sections' = Tail(sections)
        /\ chunks' = Append(chunks, Whole(x))
    BY <1>5 DEF EmbedNothing
  <2>2. Len(sentences) \in Nat
    BY <1>1, LenProperties
  <2>3. Chunked' = Chunked \o x
    BY <1>3, <2>1, <2>2, WholeHeld
  <2>4. Pending' \o Waiting' = Later
    BY <1>1, <1>2, <2>1, CutIsClearNext
  <2>5. Moves(x, x, Later)
    BY <1>2, <1>3, <1>4, <2>3, <2>4 DEF Moves, Thins
  <2> QED
    BY <2>5
<1>6. CASE Embed
  <2>1. phase' = "group" /\ sections' = sections /\ sentences' = sentences /\ pos' = 0 /\ chunks' = chunks
    BY <1>6 DEF Embed
  <2>2. Chunked' = Chunked /\ Waiting' = Later
    BY <1>1, <2>1, LaterWaits DEF Chunked
  <2>3. Pending' = x
    <3>1. Ahead(sentences, pos)' = x
      BY <1>3, <2>1 DEF Ahead
    <3> QED
      BY <1>1, <1>3, <3>1, JoinedTexts DEF Pending
  <2>4. Moves(x, x, Later)
    BY <1>2, <1>3, <1>4, <2>2, <2>3 DEF Moves, Thins
  <2> QED
    BY <2>4
<1> QED
  BY <1>5, <1>6

LEMMA CutGroupMoves ==
  ASSUME Typed, Typed', CutGroup
  PROVE  /\ \E x, z : Moves(x, x, z)
         /\ phase' = "group" => chunks' # <<>>
         /\ phase' \in {"group", "window"}
<1>1. PICK end \in 0..Len(sentences) :
        /\ GroupEnd(end)
        /\ pos' = end
        /\ LET text == FlattenSeq(SubSeq(sentences, pos + 1, end))
           IN  IF Length(text) <= Limit
               THEN /\ chunks' = Append(chunks, Whole(text))
                    /\ UNCHANGED <<phase, window, offset>>
               ELSE /\ window' = text
                    /\ offset' = 0
                    /\ phase' = "window"
                    /\ UNCHANGED chunks
  BY DEF CutGroup
<1>2. phase = "group" /\ call' = call /\ sections' = sections /\ sentences' = sentences /\ window = <<>> /\ offset = 0
  BY DEF CutGroup, Typed, reading
<1>3. sections # <<>> /\ Waiting = Later /\ Later \in Texts /\ Ahead(sentences, pos) \in Texts
  BY <1>2, LaterWaits
<1> DEFINE x == FlattenSeq(SubSeq(sentences, pos + 1, end))
           rest == Ahead(sentences, end)
<1>4. x \in Texts /\ end - pos \in Nat /\ end \in (pos + 1)..Len(sentences)
  BY <1>1, GroupIsTyped
<1>5. sentences \in Seq(Texts) /\ pos \in 0..Len(sentences)
  BY TypedFacts
<1>6. Ahead(sentences, pos) = x \o rest /\ rest \in Texts
  BY <1>4, <1>5, AheadInGroups, AheadIsText
<1>7. IF Length(x) <= Limit
      THEN /\ chunks' = Append(chunks, Whole(x))
           /\ phase' = phase /\ window' = window /\ offset' = offset
      ELSE window' = x /\ offset' = 0 /\ phase' = "window" /\ chunks' = chunks
  BY <1>1
<1>8. Ahead(sentences, pos)' = rest /\ Waiting' = Later
  <2>1. phase' # "cut"
    BY <1>2, <1>7
  <2> QED
    BY <1>1, <1>2, <2>1, LaterWaits DEF Ahead
<1> HIDE DEF x, rest
<1> DEFINE z == rest \o Later
<1>9. Pending = x \o rest /\ z \in Texts /\ (x \o rest) \o Later = x \o z
  <2>1. Pending = x \o rest /\ z \in Texts
    BY <1>2, <1>3, <1>4, <1>6, JoinedTexts DEF Pending
  <2>2. (x \o rest) \o Later = x \o (rest \o Later)
    BY <1>3, <1>4, <1>6, JoinedInTurn, Zenon
  <2> QED
    BY <2>1, <2>2
<1>10. CASE Length(x) <= Limit
  <2>1. Chunked' = Chunked \o x /\ chunks' # <<>>
    BY <1>4, <1>7, <1>10, WholeHeld
  <2>2. Pending' = rest
    BY <1>2, <1>6, <1>7, <1>8, <1>10, JoinedTexts DEF Pending
  <2>3. Moves(x, x, z)
    BY <1>3, <1>4, <1>8, <1>9, <2>1, <2>2 DEF Moves, Thins
  <2> QED
    BY <1>2, <1>7, <1>10, <2>1, <2>3
<1>11. CASE ~(Length(x) <= Limit)
  <2>1. Chunked' = Chunked
    BY <1>7, <1>11 DEF Chunked
  <2>2. Pending' = x \o rest
    BY <1>7, <1>8, <1>11 DEF Pending, At
  <2>3. Moves(x, x, z)
    BY <1>3, <1>4, <1>8, <1>9, <2>1, <2>2 DEF Moves, Thins
  <2> QED
    BY <1>7, <1>11, <2>3
<1> QED
  BY <1>10, <1>11

LEMMA CutWindowMoves ==
  ASSUME Typed, Typed', CutWindow
  PROVE  (\E x, z : Moves(x, x, z)) /\ chunks' # <<>> /\ phase' \in {"group", "window"}
<1> DEFINE end == Smaller(offset + Limit, Length(window))
           c == Part(window, offset, end)
           x == IF offset = 0 THEN window ELSE <<>>
           rest == Ahead(sentences, pos)
<1>1. /\ phase = "window" /\ call' = call /\ sections' = sections /\ sentences' = sentences /\ pos' = pos
      /\ chunks' = Append(chunks, c)
      /\ IF end = Length(window)
         THEN phase' = "group" /\ window' = <<>> /\ offset' = 0
         ELSE offset' = offset + Step /\ phase' = phase /\ window' = window
  BY DEF CutWindow
<1>2. window \in Texts /\ offset \in Nat /\ end \in Nat /\ x \in Texts
  BY TypedFacts, LimitIsNatural, EmptySeq DEF Smaller, Texts
<1>3. sections # <<>> /\ Waiting = Later /\ Later \in Texts /\ rest \in Texts
  BY <1>1, LaterWaits
<1>4. Ahead(sentences, pos)' = rest /\ Waiting' = Later
  <2>1. phase' # "cut"
    BY <1>1
  <2> QED
    BY <1>1, <2>1, LaterWaits DEF Ahead
<1>5. Pending = x \o rest
  BY <1>1 DEF Pending, At
<1>6. Pending' = rest
  <2>1. (IF At' = 0 THEN window' ELSE <<>>) = <<>>
    BY <1>1, <1>2, StepIsProper DEF At
  <2>2. <<>> \o rest = rest
    BY <1>3, JoinedTexts
  <2> QED
    BY <1>4, <2>1, <2>2 DEF Pending
<1> HIDE DEF end
<1>7. c \in Chunk /\ c.from = offset /\ c.text = window /\ c.section = Len(sections)
  BY <1>2, PartIsChunk
<1>8. Adds(c)
  BY <1>1, <1>7 DEF Adds
<1>9. chunks' # <<>>
  <2> HIDE DEF c
  <2> QED
    BY <1>8, Places, EmptySeq
<1>10. Chunked' = Chunked \o x
  <2> HIDE DEF c
  <2> QED
    BY <1>7, <1>8, HeldGrows
<1>11. (x \o rest) \o Later = x \o (rest \o Later) /\ rest \o Later \in Texts
  <2> HIDE DEF x, rest
  <2>1. (x \o rest) \o Later = x \o (rest \o Later)
    BY <1>2, <1>3, JoinedInTurn, Zenon
  <2> QED
    BY <1>3, <2>1, JoinedTexts
<1>12. Moves(x, x, rest \o Later)
  <2> HIDE DEF x, rest
  <2> QED
    BY <1>2, <1>3, <1>4, <1>5, <1>6, <1>10, <1>11 DEF Moves, Thins
<1> QED
  BY <1>1, <1>9, <1>12

LEMMA EndGroupsMoves ==
  ASSUME Typed, Typed', EndGroups
  PROVE  (\E x, z : Moves(x, x, z)) /\ phase' = "cut" /\ chunks' = chunks
<1>1. /\ phase = "group" /\ pos = Len(sentences) /\ phase' = "cut" /\ call' = call
      /\ sections' = Tail(sections) /\ chunks' = chunks /\ window = <<>>
  BY DEF EndGroups, Typed
<1>2. sections # <<>> /\ Waiting = Later /\ Later \in Texts
  BY <1>1, LaterWaits
<1>3. sentences \in Seq(Texts) /\ pos \in 0..Len(sentences)
  BY TypedFacts
<1>4. Ahead(sentences, pos) = <<>>
  BY <1>1, <1>3, AheadIsText
<1>5. Pending = <<>> /\ <<>> \in Texts /\ <<>> \o Later = Later
  BY <1>1, <1>2, <1>4, JoinedTexts DEF Pending
<1>6. Pending' \o Waiting' = Later
  BY <1>1, <1>2, CutIsClearNext
<1>7. Chunked' = Chunked
  BY <1>1 DEF Chunked
<1>8. Moves(<<>>, <<>>, Later)
  BY <1>2, <1>5, <1>6, <1>7 DEF Moves, Thins
<1> QED
  BY <1>1, <1>8

LEMMA LineStep ==
  ASSUME Typed, Typed', StaysInLine, [Next]_vars,
         phase \in {"cut", "embed", "group", "window"}
  PROVE  StaysInLine'
<1> SUFFICES ASSUME phase' \in {"cut", "embed", "group", "window"}
             PROVE  /\ Thins(Line', Filtered(BodyText)')
                    /\ Faithful' => Line' = Filtered(BodyText)'
                    /\ chunks' = <<>> => /\ phase' = "cut" => Line' = Filtered(BodyText)'
                                         /\ phase' = "group" => pos' < Len(sentences')
  BY DEF StaysInLine, Thins
<1>0. call' = call
  BY CallNeverChanges
<1>1. ASSUME NEW x, NEW y, NEW z, Moves(x, y, z)
      PROVE  /\ Filtered(BodyText)' = Filtered(BodyText)
             /\ Thins(Line', Filtered(BodyText)')
             /\ Faithful' => Line' = Filtered(BodyText)'
             /\ x = y => Line' = Line
  BY <1>0, <1>1, LineStays
<1>2. chunks = <<>> => /\ phase = "cut" => Line = Filtered(BodyText)
                       /\ phase = "group" => pos < Len(sentences)
  BY DEF StaysInLine
<1>3. CASE SkipSection \/ KeepSection \/ UncutSection
  <2>1. Moves(Body, Body, Later) /\ (chunks' = <<>> => chunks = <<>>)
    BY <1>3, SectionMoves
  <2>2. phase = "cut" /\ phase' = "cut"
    BY <1>3 DEF SkipSection, KeepSection, UncutSection, Oversized
  <2> QED
    BY <1>1, <1>2, <2>1, <2>2
<1>4. CASE WindowSection
  <2>1. Moves(Body, Body, Later) /\ phase' = "window"
    BY <1>4, WindowSectionMoves DEF WindowSection
  <2> QED
    BY <1>1, <2>1
<1>5. CASE StartEmbedding
  <2>1. (\E x : Moves(x, Body, Later)) /\ (phase' = "cut" => chunks' # <<>>) /\ phase' \in {"cut", "embed"}
    BY <1>5, StartEmbeddingMoves
  <2> QED
    BY <1>1, <2>1
<1>6. CASE EmbedNothing \/ Embed
  <2>1. \E x, z : Moves(x, x, z)
    BY <1>6, EmbeddingMoves
  <2>2. phase' = "cut" => chunks' # <<>>
    <3> SUFFICES ASSUME EmbedNothing PROVE chunks' # <<>>
      BY <1>6 DEF Embed
    <3>1. chunks' = Append(chunks, Whole(FlattenSeq(sentences)))
      BY DEF EmbedNothing
    <3>2. FlattenSeq(sentences) \in Texts /\ Len(sentences) \in Nat
      BY TypedFacts, FlattenIsSeq DEF Texts
    <3> QED
      BY <3>1, <3>2, WholeHeld
  <2>3. phase' = "group" => pos' < Len(sentences')
    <3> SUFFICES ASSUME Embed PROVE pos' < Len(sentences')
      BY <1>6 DEF EmbedNothing
    <3>1. pos' = 0 /\ sentences' = sentences /\ phase = "embed"
      BY DEF Embed
    <3>2. Len(sentences) > 3 /\ Len(sentences) \in Nat
      BY <3>1, TypedFacts DEF Typed, GroupSize
    <3> QED
      BY <3>1, <3>2
  <2> QED
    BY <1>1, <2>1, <2>2, <2>3
<1>7. CASE CutGroup
  <2>1. (\E x, z : Moves(x, x, z)) /\ (phase' = "group" => chunks' # <<>>) /\ phase' \in {"group", "window"}
    BY <1>7, CutGroupMoves
  <2> QED
    BY <1>1, <2>1
<1>8. CASE CutWindow
  <2>1. (\E x, z : Moves(x, x, z)) /\ chunks' # <<>> /\ phase' \in {"group", "window"}
    BY <1>8, CutWindowMoves
  <2> QED
    BY <1>1, <2>1
<1>9. CASE EndGroups
  <2>1. (\E x, z : Moves(x, x, z)) /\ phase' = "cut" /\ chunks' = chunks
    BY <1>9, EndGroupsMoves
  <2>2. phase = "group" /\ pos = Len(sentences) /\ Len(sentences) \in Nat
    BY <1>9, TypedFacts DEF EndGroups
  <2>3. chunks' # <<>>
    BY <1>2, <2>1, <2>2
  <2> QED
    BY <1>1, <2>1, <2>3
<1>10. CASE UNCHANGED vars
  <2>1. Pending' = Pending /\ Chunked' = Chunked
    BY <1>10 DEF Pending, At, Ahead, Chunked, vars
  <2>2. Waiting' = Waiting
    <3>1. Coming' = Coming
      BY <1>10 DEF Coming, vars
    <3> QED
      BY <1>0, <3>1, WaitingNext DEF Waiting
  <2>3. Moves(Pending, Pending, Waiting)
    BY <2>1, <2>2, LineIsText DEF Moves, Thins
  <2> QED
    BY <1>1, <1>2, <1>10, <2>3 DEF vars
<1>11. CASE \/ Fails \/ EnforceRobots \/ ReadFile \/ ReadPage \/ ReadHeading \/ ReadBody
            \/ ReadParagraph \/ EndOfText \/ Finish
  BY <1>11 DEF Fails, EnforceRobots, ReadFile, ReadPage, ReadHeading, ReadBody, ReadParagraph, EndOfText, Finish
<1> QED
  BY <1>3, <1>4, <1>5, <1>6, <1>7, <1>8, <1>9, <1>10, <1>11 DEF Next

\* Chunks that are not none hold something.
LEMMA SomethingHeld ==
  ASSUME Typed, WindowsGoOn, chunks # <<>>
  PROVE  Chunked # <<>>
<1>1. Fit(chunks) /\ chunks \in Seq(Chunk)
  BY TypedFacts DEF Fit
<1>2. 1 \in 1..Len(chunks) /\ DOMAIN chunks = 1..Len(chunks) /\ chunks[1] \in Chunk
  <2>1. Len(chunks) \in Nat /\ Len(chunks) # 0 /\ DOMAIN chunks = 1..Len(chunks)
    BY <1>1, EmptySeq, LenProperties
  <2>2. 1 \in 1..Len(chunks)
    BY <2>1
  <2> QED
    BY <1>1, <2>1, <2>2, ElementOfSeq
<1>3. chunks[1].from = 0 /\ chunks[1].from < chunks[1].to /\ chunks[1].to <= Length(chunks[1].text)
  BY <1>1, <1>2 DEF WindowsGoOn, Fit
<1>4. chunks[1].text \in Texts /\ chunks[1].to \in Nat
  BY <1>2 DEF Chunk
<1>5. chunks[1].text # <<>>
  BY <1>3, <1>4, LengthIsNatural
<1>6. /\ Held(chunks) \in Seq(Texts) /\ DOMAIN Held(chunks) = 1..Len(chunks) /\ Held(chunks)[1] = chunks[1].text
      /\ Chunked = FlattenSeq(Held(chunks)) /\ Chunked \in Texts
  <2>1. /\ Held(chunks) \in Seq(Texts) /\ Len(Held(chunks)) = Len(chunks) /\ FlattenSeq(Held(chunks)) \in Texts
        /\ Held(chunks)[1] = chunks[1].text
    BY <1>1, <1>2, <1>3, HeldIsText
  <2>2. DOMAIN Held(chunks) = 1..Len(chunks)
    BY <2>1, LenProperties
  <2> QED
    BY <2>1, <2>2 DEF Chunked, Held
<1>7. Range(Chunked) = InOneOf(Held(chunks))
  BY <1>6, FlattenRange DEF Texts
<1>8. Range(chunks[1].text) \subseteq InOneOf(Held(chunks)) /\ Range(chunks[1].text) # {}
  <2>1. Range(chunks[1].text) # {}
    BY <1>4, <1>5, EmptyRange DEF Texts
  <2> QED
    BY <1>2, <1>6, <2>1 DEF InOneOf
<1> QED
  BY <1>6, <1>7, <1>8, EmptyRange DEF Texts

\* The chunks thin the text.
LEMMA ChunksThin ==
  ASSUME Typed, StaysInLine, phase \in {"cut", "embed", "group", "window"}
  PROVE  Thins(Chunked, Text) /\ InOrder(Chunked)
<1>1. Chunked \in Texts /\ Pending \o Waiting \in Texts
  BY LineIsText, JoinedTexts
<1>2. Thins(Chunked, Line)
  BY <1>1, BeginningThins DEF Line
<1>3. Thins(Line, Filtered(BodyText))
  BY DEF StaysInLine
<1>4. BodyText \in Texts /\ Thins(BodyText, Text) /\ InOrder(Text)
  BY BodyThinsText, TextIsInOrder, TypedFacts
<1>5. Thins(Filtered(BodyText), BodyText)
  BY <1>4, FilteredThins
<1>6. Thins(Chunked, Text)
  BY <1>2, <1>3, <1>4, <1>5, ThinsAgain
<1> QED
  BY <1>4, <1>6 DEF Thins

\* A call that has come to its last section.
LEMMA AllCut ==
  ASSUME Typed, StaysInLine, phase = "cut", sections = <<>>
  PROVE  /\ Line = Chunked
         /\ Faithful => Chunked = Filtered(BodyText)
         /\ chunks = <<>> => Filtered(BodyText) = <<>>
<1>1. window = <<>> /\ sentences = <<>> /\ pos = 0
  BY DEF Typed
<1>2. Pending = <<>> /\ Waiting = <<>> /\ Chunked \in Texts
  BY <1>1, NothingHeld, LineIsText, JoinedTexts DEF Pending, Waiting, Coming
<1>3. Line = Chunked
  BY <1>2, JoinedTexts DEF Line
<1> QED
  BY <1>3, NothingHeld DEF StaysInLine

LEMMA FinishKeeps ==
  ASSUME Typed, Typed', StaysInLine, WindowsGoOn, Finish
  PROVE  ChunksKeepText'
<1>1. /\ phase = "cut" /\ phase' = "done" /\ sections = <<>> /\ call' = call
      /\ chunks' = IF chunks = <<>> /\ Nonblank(Text)
                   THEN <<Part(Text, 0, Smaller(Limit, Length(Text)))>> ELSE chunks
  BY DEF Finish
<1>2. Text' = Text /\ Filtered(BodyText)' = Filtered(BodyText)
  <2>1. BodyText' = BodyText /\ Text' = Text
    BY <1>1, CallStays
  <2> QED
    BY <1>1, <2>1 DEF Filtered, Content
<1>3. Text \in Texts /\ InOrder(Text)
  BY TextIsInOrder, TypedFacts
<1>4. Line = Chunked /\ (Faithful => Chunked = Filtered(BodyText)) /\ (chunks = <<>> => Filtered(BodyText) = <<>>)
  BY <1>1, AllCut
<1>5. Thins(Chunked, Text) /\ InOrder(Chunked) /\ Chunked \in Texts
  BY <1>1, ChunksThin, LineIsText
<1>6. SUFFICES /\ Faithful => Chunked' = IF Filtered(BodyText) = <<>> THEN Text ELSE Filtered(BodyText)
               /\ InOrder(Chunked')
               /\ chunks' = <<>> <=> Text = <<>>
  BY <1>1, <1>2 DEF ChunksKeepText, ContentIsKept, ChunksInOrder, TextGivesChunks, Faithful, InOrder
<1>7. CASE chunks = <<>> /\ Nonblank(Text)
  <2> DEFINE end == Smaller(Limit, Length(Text))
             c == Part(Text, 0, end)
  <2>1. end \in Nat
    BY <1>3, LimitIsNatural, LengthIsNatural DEF Smaller
  <2>2. chunks' = <<c>> /\ Append(<<>>, c) = <<c>>
    BY <1>1, <1>7
  <2> HIDE DEF end
  <2>3. c \in Chunk /\ c.from = 0 /\ c.text = Text /\ c.section = Len(sections)
    BY <1>3, <2>1, PartIsChunk
  <2> HIDE DEF c
  <2>4. Adds(c)
    <3>1. chunks' = Append(chunks, c)
      BY <1>7, <2>2
    <3> QED
      BY <2>3, <3>1 DEF Adds
  <2>5. Chunked' = Chunked \o Text /\ chunks' # <<>>
    <3>1. chunks' # <<>>
      BY <2>2, EmptySeq
    <3>2. Chunked' = Chunked \o (IF c.from = 0 THEN c.text ELSE <<>>)
      BY <2>4, HeldGrows
    <3> QED
      BY <2>3, <3>1, <3>2
  <2>6. Chunked' = Text
    BY <1>3, <1>7, <2>5, NothingHeld, JoinedTexts
  <2> QED
    BY <1>3, <1>4, <1>7, <2>5, <2>6 DEF Nonblank
<1>8. CASE chunks = <<>> /\ ~Nonblank(Text)
  <2>1. chunks' = <<>> /\ Text = <<>> /\ Chunked' = <<>>
    BY <1>1, <1>8, NothingHeld DEF Nonblank
  <2> QED
    BY <1>3, <1>4, <1>8, <2>1
<1>9. CASE chunks # <<>>
  <2>1. chunks' = chunks /\ Chunked' = Chunked
    BY <1>1, <1>9 DEF Chunked
  <2>2. Chunked # <<>>
    BY <1>9, SomethingHeld
  <2>3. Text # <<>>
    <3>1. Range(Chunked) # {} /\ Range(Chunked) \subseteq Range(Text)
      BY <1>5, <2>2, EmptyRange DEF Thins, Texts
    <3> QED
      BY <1>3, <3>1, EmptyRange DEF Texts
  <2> QED
    BY <1>4, <1>5, <1>9, <2>1, <2>2, <2>3
<1> QED
  BY <1>7, <1>8, <1>9

LEMMA KeptStep ==
  ASSUME Typed, Typed', Kept, WindowsGoOn, [Next]_vars
  PROVE  Kept'
<1>1. ReadSoFar /\ StaysInLine /\ Ended /\ ReadSoFar' /\ call' = call
  BY ReadOn, CallNeverChanges DEF Kept
<1>2. phase \in {"file", "robots", "page", "sections", "cut", "embed", "group", "window", "done", "failed"}
  BY TypedFacts
<1>3. StaysInLine'
  <2>1. CASE phase \in {"cut", "embed", "group", "window"}
    BY <1>1, <2>1, LineStep
  <2>2. CASE EndOfText
    BY <1>1, <2>2, EndOfTextStays
  <2>3. CASE phase \notin {"cut", "embed", "group", "window"} /\ ~EndOfText
    <3>1. phase' \notin {"cut", "embed", "group", "window"}
      BY <2>3 DEF Next, Fails, EnforceRobots, ReadFile, ReadPage, ReadHeading, ReadBody, ReadParagraph,
           SkipSection, KeepSection, WindowSection, UncutSection, Oversized, StartEmbedding, EmbedNothing,
           Embed, CutGroup, CutWindow, EndGroups, Finish, vars
    <3> QED
      BY <3>1 DEF StaysInLine
  <2> QED
    BY <2>1, <2>2, <2>3
<1>4. Ended'
  <2> SUFFICES ASSUME phase' \in {"done", "failed"} PROVE ChunksKeepText'
    BY DEF Ended
  <2>1. CASE Finish
    BY <1>1, <2>1, FinishKeeps
  <2>2. CASE Fails
    <3>1. phase' = "failed" /\ chunks' = chunks /\ phase \in {"file", "robots", "page", "embed"}
      BY <2>2 DEF Fails
    <3>2. InOrder(Chunked)
      <4>1. CASE phase = "embed"
        BY <1>1, <4>1, ChunksThin
      <4>2. CASE phase # "embed"
        <5>1. chunks = <<>>
          BY <1>1, <3>1, <4>2 DEF ReadSoFar
        <5>2. Chunked = <<>>
          BY <5>1, NothingHeld
        <5> QED
          BY <5>2 DEF InOrder
      <4> QED
        BY <4>1, <4>2
    <3>3. Chunked' = Chunked
      BY <3>1 DEF Chunked
    <3> QED
      BY <3>1, <3>2, <3>3 DEF ChunksKeepText, ContentIsKept, ChunksInOrder, TextGivesChunks, InOrder
  <2>3. CASE UNCHANGED vars
    <3>1. phase \in {"done", "failed"} /\ ChunksKeepText
      BY <1>1, <2>3 DEF Ended, vars
    <3>2. Text' = Text /\ Filtered(BodyText)' = Filtered(BodyText) /\ Chunked' = Chunked
      <4>1. BodyText' = BodyText /\ Text' = Text
        BY <1>1, CallStays
      <4> QED
        BY <1>1, <2>3, <4>1 DEF Filtered, Content, Chunked, vars
    <3> QED
      BY <1>1, <2>3, <3>1, <3>2 DEF ChunksKeepText, ContentIsKept, ChunksInOrder, TextGivesChunks, InOrder, vars
  <2>4. ASSUME Next PROVE Finish \/ Fails
    <3>1. ~StartEmbedding /\ ~CutGroup
      BY StartEmbeddingMoves, CutGroupMoves
    <3> QED
      BY <1>2, <2>4, <3>1 DEF Next, Fails, EnforceRobots, ReadFile, ReadPage, ReadHeading, ReadBody, ReadParagraph,
           EndOfText, SkipSection, KeepSection, WindowSection, UncutSection, Oversized, EmbedNothing,
           Embed, CutWindow, EndGroups, Finish
  <2> QED
    BY <2>1, <2>2, <2>3, <2>4
<1> QED
  BY <1>1, <1>3, <1>4 DEF Kept
LEMMA WindowsStep == Typed /\ Kept /\ WindowsCover /\ WindowsGoOn /\ [Next]_vars => WindowsCover' /\ WindowsGoOn'
<1> SUFFICES ASSUME Typed, Kept, WindowsCover, WindowsGoOn, [Next]_vars
             PROVE  (\A k \in DOMAIN chunks' : Covered(chunks', At', Over', k)) /\ WindowsGoOn'
  BY CallNeverChanges, CoveredStaysGoal
<1>0. call' = call /\ BodyText' = BodyText /\ (Filtered(BodyText) = <<>> => (Filtered(BodyText) = <<>>)')
  <2>1. call' = call /\ BodyText' = BodyText
    BY CallNeverChanges, CallStays
  <2> QED
    BY <2>1 DEF Filtered, Content
<1>1. \A k \in DOMAIN chunks : Covered(chunks, At, Over, k)
  BY CoveredIsGoal
<1>2. Limit \in Nat \ {0} /\ offset \in Nat /\ window \in Texts /\ Length(window) \in Nat /\ At \in Nat
  BY LimitIsNatural, TypedFacts DEF At
<1>3. CASE chunks' = chunks
  <2>1. Over => Over'
    BY <1>0, <1>3, WindowWaits DEF Over
  <2>2. (At > 0 => At' = At) /\ (At' > 0 => At > 0 /\ At' = At /\ window' = window)
    BY <1>2, <1>3, WindowWaits DEF At
  <2>3. \A k \in DOMAIN chunks' : Covered(chunks', At', Over', k)
    BY <1>1, <1>2, <1>3, <2>1, <2>2 DEF Covered
  <2>4. WindowsGoOn'
    BY <1>3, <2>2 DEF WindowsGoOn
  <2> QED
    BY <2>3, <2>4
<1>4. ASSUME NEW c, Adds(c)
      PROVE  /\ \A k \in 1..Len(chunks) : /\ chunks'[k] = chunks[k]
                                          /\ chunks[k].from > 0 => chunks'[k - 1] = chunks[k - 1]
                                          /\ k < Len(chunks) => chunks'[k + 1] = chunks[k + 1]
             /\ IF chunks = <<>> THEN chunks'[1] = c
                ELSE chunks'[1] = chunks[1] /\ Len(chunks) \in 1..Len(chunks)
  <2>1. Len(chunks) \in Nat /\ IF chunks = <<>> THEN Len(chunks) = 0 ELSE 1 \in 1..Len(chunks) /\ Len(chunks) \in 1..Len(chunks)
    BY TypedFacts, EmptySeq, LenProperties DEF Fit
  <2>2. ASSUME NEW k \in 1..Len(chunks), chunks[k].from > 0
        PROVE  k - 1 \in 1..Len(chunks)
    BY <1>4, <2>1, <2>2 DEF WindowsGoOn
  <2>3. \A k \in 1..Len(chunks) : k < Len(chunks) => k + 1 \in 1..Len(chunks)
    BY <2>1
  <2>4. \A k \in 1..Len(chunks) : chunks'[k] = chunks[k]
    BY <1>4, Places
  <2>5. chunks'[Len(chunks) + 1] = c
    BY <1>4, Places
  <2> QED
    BY <2>1, <2>2, <2>3, <2>4, <2>5
<1>5. ASSUME NEW c, AddsWhole(c)
      PROVE  (\A k \in DOMAIN chunks' : Covered(chunks', At', Over', k)) /\ WindowsGoOn'
  <2>1. Adds(c) /\ c.from = 0 /\ c.to = Length(c.text) /\ (call.strategy = "fixed" => c.to <= Limit) /\ c \in Chunk
    BY <1>5 DEF AddsWhole, Adds
  <2>2. At = 0 /\ At' = 0 /\ ~Over
    BY <1>5 DEF AddsWhole, At, Over
  <2>3. ASSUME NEW k \in 1..Len(chunks) PROVE Covered(chunks', At', Over', k)
    <3>1. /\ k \in DOMAIN chunks /\ chunks'[k] = chunks[k]
          /\ Len(chunks) \in Nat /\ Len(chunks') = Len(chunks) + 1
      BY <2>1, Places
    <3>2. /\ chunks[k].from > 0 => chunks'[k - 1] = chunks[k - 1]
          /\ k < Len(chunks) => chunks'[k + 1] = chunks[k + 1]
      BY <1>4, <2>1
    <3> QED
      BY <1>1, <2>2, <3>1, <3>2 DEF Covered
  <2>4. Covered(chunks', At', Over', Len(chunks) + 1)
    <3>1. chunks'[Len(chunks) + 1] = c
      BY <2>1, Places
    <3>2. c.to - c.from = c.to
      BY <2>1 DEF Chunk
    <3> QED
      BY <2>1, <3>1, <3>2 DEF Covered
  <2>5. WindowsGoOn'
    <3>1. chunks'[1].from = 0
      BY <1>4, <2>1 DEF WindowsGoOn
    <3> QED
      BY <2>2, <3>1 DEF WindowsGoOn
  <2>6. \A k \in DOMAIN chunks' : k \in 1..Len(chunks) \/ k = Len(chunks) + 1
    BY <2>1, Places
  <2> QED
    BY <2>3, <2>4, <2>5, <2>6
<1>6. CASE CutWindow
  <2> DEFINE end == Smaller(offset + Limit, Length(window))
             c == Part(window, offset, end)
  <2>1. /\ phase = "window" /\ chunks' = Append(chunks, c)
        /\ IF end = Length(window)
           THEN phase' = "group" /\ window' = <<>> /\ offset' = 0
           ELSE offset' = offset + Step /\ UNCHANGED <<phase, window>>
    BY <1>6 DEF CutWindow
  <2>2. offset < Length(window) /\ At = offset /\ ~Over
    BY <2>1 DEF Typed, At, Over
  <2>3. /\ end \in Nat /\ offset < end /\ end - offset <= Limit
        /\ end # Length(window) => end = offset + Limit
    BY <1>2, <2>2 DEF Smaller
  <2> HIDE DEF end
  <2>4. c \in Chunk /\ c.text = window /\ c.from = offset /\ c.to = end /\ c.section = Len(sections)
    BY <1>2, <2>3, PartIsChunk
  <2>5. Adds(c)
    BY <2>1, <2>4 DEF Adds
  <2> HIDE DEF c
  <2>6. IF end = Length(window) THEN At' = 0 ELSE At' \in (offset + 1)..end /\ window' = window
    BY <1>2, <2>1, <2>3, StepIsProper DEF At
  <2>7. /\ Len(chunks) \in Nat /\ Len(chunks') = Len(chunks) + 1 /\ DOMAIN chunks = 1..Len(chunks)
        /\ chunks'[Len(chunks) + 1] = c
        /\ \A k \in DOMAIN chunks' : k \in 1..Len(chunks) \/ k = Len(chunks) + 1
    BY <2>5, Places
  <2>8. ASSUME NEW k \in 1..Len(chunks) PROVE Covered(chunks', At', Over', k)
    <3>1. chunks'[k] = chunks[k] /\ k \in DOMAIN chunks
      BY <1>4, <2>5, <2>7
    <3>2. /\ chunks[k].from > 0 => chunks'[k - 1] = chunks[k - 1]
          /\ k < Len(chunks) => chunks'[k + 1] = chunks[k + 1]
      BY <1>4, <2>5
    <3>3. k = Len(chunks) /\ At \in 1..chunks[k].to => k < Len(chunks') /\ chunks'[k + 1].from > 0
      BY <1>2, <2>2, <2>4, <2>7
    <3> QED
      BY <1>1, <2>2, <2>7, <3>1, <3>2, <3>3 DEF Covered
  <2>9. Covered(chunks', At', Over', Len(chunks) + 1)
    <3> DEFINE k == Len(chunks) + 1
    <3>1. chunks'[k] = c /\ k = Len(chunks') /\ k - 1 = Len(chunks)
      BY <2>7
    <3>2. offset > 0 => /\ chunks'[k - 1] = chunks[Len(chunks)] /\ chunks[Len(chunks)].text = window
                        /\ offset \in (chunks[Len(chunks)].from + 1)..chunks[Len(chunks)].to
      BY <1>4, <2>2, <2>5, <3>1 DEF WindowsGoOn
    <3> HIDE DEF k
    <3>3. end = Length(window) \/ At' \in 1..end
      BY <1>2, <2>6
    <3>4. Covered(chunks', At', Over', k)
      BY <2>3, <2>4, <3>1, <3>2, <3>3 DEF Covered
    <3> QED
      BY <3>4 DEF k
  <2>10. WindowsGoOn'
    <3>1. chunks'[1].from = 0
      <4>1. chunks = <<>> => offset = 0
        BY <1>2, <2>2 DEF WindowsGoOn
      <4> QED
        BY <1>4, <2>4, <2>5, <4>1 DEF WindowsGoOn
    <3>2. chunks' # <<>> /\ chunks'[Len(chunks')] = c
      BY <2>7, EmptySeq
    <3>3. At' > 0 => At' \in (c.from + 1)..c.to /\ window' = c.text
      BY <2>4, <2>6
    <3> QED
      BY <3>1, <3>2, <3>3 DEF WindowsGoOn
  <2> QED
    BY <2>7, <2>8, <2>9, <2>10
<1>7. CASE Finish
  <2> SUFFICES ASSUME chunks' # chunks
               PROVE  (\A k \in DOMAIN chunks' : Covered(chunks', At', Over', k)) /\ WindowsGoOn'
    BY <1>3
  <2> DEFINE end == Smaller(Limit, Length(Text))
             c == Part(Text, 0, end)
  <2>1. phase = "cut" /\ phase' = "done" /\ sections = <<>> /\ chunks = <<>> /\ chunks' = <<c>>
    BY <1>7 DEF Finish
  <2>2. Over' /\ At' = 0
    BY <1>0, <2>1, AllCut DEF Over, At, Kept
  <2>3. end \in Nat /\ end <= Limit
    <3>1. Text \in Texts
      BY TextIsInOrder, TypedFacts
    <3> QED
      BY <1>2, <3>1, LengthIsNatural DEF Smaller
  <2>4. Text \in Texts
    BY TextIsInOrder, TypedFacts
  <2> HIDE DEF end
  <2>5. c.from = 0 /\ c.to = end
    BY <2>3, <2>4, PartIsChunk
  <2> HIDE DEF c
  <2>6. DOMAIN chunks' = {1} /\ chunks'[1] = c
    BY <2>1
  <2>7. Covered(chunks', At', Over', 1)
    BY <2>2, <2>3, <2>5, <2>6 DEF Covered
  <2>8. WindowsGoOn'
    BY <2>2, <2>5, <2>6 DEF WindowsGoOn
  <2> QED
    BY <2>6, <2>7, <2>8
<1> QED
  BY <1>3, <1>5, <1>6, <1>7, StepsAdd

\* The inductive invariant: types, the line, and the windows.
Inv == Typed /\ Kept /\ WindowsGoOn /\ WindowsCover /\ Sectioned /\ PiecesFit

LEMMA InvInit == Init => Inv
<1> SUFFICES ASSUME Init PROVE Inv
  OBVIOUS
<1>1. Typed
  BY TypedInit
<1>2. phase \in {"file", "robots"} /\ chunks = <<>> /\ sections = <<>> /\ buffer = <<>> /\ block = 1
  BY DEF Init
<1>3. ReadSoFar
  <2>1. <<>> \in Seq(Section) /\ <<>> \in Texts
    BY EmptySeq DEF Texts
  <2>2. TextsOf(<<>>) = <<>>
    BY <2>1, BodiesAreFiltered, EmptySeq
  <2>3. FlattenSeq(TextsOf(<<>>)) \o <<>> = <<>>
    BY <2>1, <2>2, FlattenNothing, JoinedTexts
  <2>4. block - 1 = 0 /\ SubSeq(Bodies, 1, 0) = <<>>
    BY <1>2, SubSeqEmpty
  <2>5. FlattenSeq(SubSeq(Bodies, 1, block - 1)) = <<>>
    BY <2>4, FlattenNothing
  <2> QED
    BY <1>2, <2>3, <2>5 DEF ReadSoFar
<1>4. Kept
  BY <1>2, <1>3 DEF Kept, StaysInLine, Ended
<1>5. DOMAIN chunks = {}
  BY <1>2
<1>6. WindowsGoOn /\ WindowsCover /\ Sectioned /\ PiecesFit
  BY <1>2, <1>5 DEF WindowsGoOn, At, WindowsCover, Sectioned, PiecesFit
<1> QED
  BY <1>1, <1>4, <1>6 DEF Inv

LEMMA InvStep == Inv /\ [Next]_vars => Inv'
<1> SUFFICES ASSUME Inv, [Next]_vars PROVE Inv'
  OBVIOUS
<1>1. Typed'
  BY TypedStep DEF Inv
<1>2. Kept'
  BY <1>1, KeptStep DEF Inv
<1>3. Sectioned' /\ PiecesFit'
  BY PiecesStep DEF Inv
<1>4. WindowsCover' /\ WindowsGoOn'
  BY WindowsStep DEF Inv
<1> QED
  BY <1>1, <1>2, <1>3, <1>4 DEF Inv

LEMMA Invariance == Spec => []Inv
BY InvInit, InvStep, PTL DEF Spec

\* Whatever the phase, the chunks hold what they ought to.
LEMMA KeptIsGoal == Typed /\ Kept => ChunksKeepText
<1> SUFFICES ASSUME Typed, Kept PROVE ChunksKeepText
  OBVIOUS
<1>1. phase \in {"file", "robots", "page", "sections", "cut", "embed", "group", "window", "done", "failed"}
  BY TypedFacts
<1>2. CASE phase \in {"file", "robots", "page", "sections"}
  <2>1. Chunked = <<>>
    BY <1>2, NothingHeld DEF Kept, ReadSoFar
  <2> QED
    BY <1>2, <2>1 DEF ChunksKeepText, ContentIsKept, ChunksInOrder, TextGivesChunks, InOrder
<1>3. CASE phase \in {"cut", "embed", "group", "window"}
  BY <1>3, ChunksThin DEF Kept, ChunksKeepText, ContentIsKept, ChunksInOrder, TextGivesChunks
<1>4. CASE phase \in {"done", "failed"}
  BY <1>4 DEF Kept, Ended
<1> QED
  BY <1>1, <1>2, <1>3, <1>4

\* Every variable keeps its type through the readers and the cuts: every
\* chunk is a part of its text that is not empty (chunk_document).
THEOREM TypeCorrect == Spec => []TypeOK
<1>1. Inv => TypeOK
  BY DEF Inv, Typed
<1> QED
  BY <1>1, Invariance, PTL

\* For every document and every size: sections, sentences, groups and
\* windows neither lose nor repeat text where nothing may be filtered away,
\* and keep its order where something may (extract_*_sections,
\* semantic_split, group_sentences_at_breaks_maxmin, split_with_overlap).
THEOREM TextIsKept == Spec => []ChunksKeepText
<1>1. Inv => ChunksKeepText
  BY KeptIsGoal DEF Inv
<1> QED
  BY <1>1, Invariance, PTL

\* For every document, limit and answer of the embedder: the pieces a section
\* is cut into, groups of sentences or windows, fit the size limit
\* (semantic_split, split_with_overlap).
THEOREM PiecesFitTheLimit == Spec => []PiecesFit
<1>1. Inv => PiecesFit
  BY DEF Inv
<1> QED
  BY <1>1, Invariance, PTL

\* Windows of every size and overlap, even one as long as the window, fit
\* the limit and leave no gap (split_with_overlap).
THEOREM WindowsLeaveNoGap == Spec => []WindowsCover
<1>1. Inv => WindowsCover
  BY DEF Inv
<1> QED
  BY <1>1, Invariance, PTL
=============================================================================
