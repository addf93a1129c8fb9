------------------------ MODULE MemoryStore_proofs ------------------------
(***************************************************************************)
(* Proofs about MemoryStore, for any number of memories, users and         *)
(* overlapping maintenance cycles.                                         *)
(***************************************************************************)
EXTENDS MemoryStore, SequenceTheorems, TLAPS

\* What is in the table was given out, so a deleted id never comes back.
StoredAreIssued == Stored \subseteq issued

\* A maintenance task holds copies of issued memories that were stored below
\* the threshold; it writes each back at most as strong as it was stored.
CopiesAreFading ==
  \A t \in Maintainer : \A k \in DOMAIN copies[t] :
    LET c == copies[t][k]
    IN  /\ c.id \in issued
        /\ c.id \in Stored =>
             /\ rows[c.id].original < Threshold
             /\ c.importance <= rows[c.id].original

\* A task about to decay has something to decay.
CopiesAwaitDecay == \A t \in Maintainer : pc[t] = "decay" => copies[t] # <<>>

\* Nothing was accessed in the future, so decay never strengthens.
NothingFromTheFuture ==
  /\ \A m \in Stored : rows[m].accessed <= now
  /\ \A t \in Maintainer : \A k \in DOMAIN copies[t] : copies[t][k].accessed <= now

MemoryInv ==
  /\ TypeOK
  /\ StoredAreIssued
  /\ FadingIsBounded
  /\ CopiesAreFading
  /\ CopiesAwaitDecay
  /\ NothingFromTheFuture

----------------------------------------------------------------------------

LEMMA NoneIsNoRow == None \notin Row
BY MemoryAssumption DEF Row

\* Clamp returns an importance for whatever a client asks for.
LEMMA ClampIsImportance == \A i \in Int : Clamp(i) \in Importance
BY MemoryAssumption DEF Clamp, Importance

\* Decay returns an importance, never a greater one, if time has not run
\* backwards.
LEMMA DecayedIsImportance ==
  ASSUME NEW c \in Copy, now \in Day, c.accessed <= now
  PROVE  DecayedCopy(c) \in Importance /\ DecayedCopy(c) <= c.importance
<1>1. c.importance \in Importance /\ now - c.accessed \in Day
  BY MemoryAssumption DEF Copy, Day
<1>2. <<c.importance, now - c.accessed>> \in Importance \X Day
  BY <1>1
<1> QED
  BY <1>1, <1>2, DecayAssumption DEF DecayedCopy

\* Every listing is a sequence of fading memories.
LEMMA ListingsAreFading ==
  ASSUME NEW q \in Listings
  PROVE  q \in Seq(Fading)
<1>1. PICK n \in 0 .. Window : q \in [1 .. n -> Fading]
  BY DEF Listings
<1>2. n \in Nat
  BY <1>1, MemoryAssumption
<1> QED
  BY <1>1, <1>2, IsASeq

\* The initial state satisfies the invariant.
LEMMA MemoryInvInit == Init => MemoryInv
<1> SUFFICES ASSUME Init PROVE MemoryInv
  OBVIOUS
<1> USE DEF Init
<1>1. Stored = {}
  BY DEF Stored
<1>2. TypeOK
  BY MemoryAssumption DEF TypeOK, Day
<1>3. CopiesAreFading /\ CopiesAwaitDecay
  BY DEF CopiesAreFading, CopiesAwaitDecay
<1>4. StoredAreIssued /\ FadingIsBounded /\ NothingFromTheFuture
  BY <1>1 DEF StoredAreIssued, FadingIsBounded, NothingFromTheFuture
<1> QED
  BY <1>2, <1>3, <1>4 DEF MemoryInv

\* What a step of a client does to a row, if it leaves maintenance alone.
LEMMA ClientKeepsInv == MemoryInv /\ Client => MemoryInv'
<1> SUFFICES ASSUME MemoryInv, Client PROVE MemoryInv'
  OBVIOUS
<1> USE DEF MemoryInv
<1>0. PICK m \in Memory :
        (\E u \in User : StoreMemory(m, u)) \/ InvalidateMemory(m) \/ DeleteMemory(m)
  BY DEF Client
<1>1. CASE \E u \in User : StoreMemory(m, u)
  <2>1. PICK u \in User, i \in Requested[m], embedded \in Embedder[m] :
          /\ m \notin issued
          /\ issued' = issued \cup {m}
          /\ rows' = [rows EXCEPT ![m] =
                       [user |-> u, importance |-> Clamp(i), original |-> Clamp(i),
                        accessed |-> now, embedded |-> embedded, invalidated |-> Never]]
          /\ UNCHANGED <<now, pc, copies>>
    BY <1>1 DEF StoreMemory
  <2>2. Clamp(i) \in Importance /\ embedded \in BOOLEAN
    BY ClampIsImportance, MemoryAssumption
  <2>3. TypeOK'
    BY <2>1, <2>2 DEF TypeOK, Row
  <2>4. \A n \in Memory \ {m} : rows'[n] = rows[n]
    BY <2>1 DEF TypeOK
  <2>5. /\ rows'[m].importance = Clamp(i) /\ rows'[m].original = Clamp(i)
        /\ rows'[m].accessed = now
    BY <2>1 DEF TypeOK
  <2>6. StoredAreIssued'
    BY <2>1, <2>4 DEF StoredAreIssued, Stored
  <2>7. FadingIsBounded'
    BY <2>2, <2>4, <2>5 DEF FadingIsBounded, Stored, Importance
  <2>8. CopiesAreFading'
    BY <2>1, <2>4 DEF CopiesAreFading, Stored, TypeOK
  <2>9. CopiesAwaitDecay' /\ NothingFromTheFuture'
    BY <2>1, <2>4, <2>5 DEF CopiesAwaitDecay, NothingFromTheFuture, Stored, TypeOK, Day
  <2> QED
    BY <2>3, <2>6, <2>7, <2>8, <2>9
<1>2. CASE InvalidateMemory(m)
  <2>1. /\ rows[m] \in Row /\ UNCHANGED <<issued, now, pc, copies>>
        /\ rows' = [rows EXCEPT ![m].invalidated = now]
    BY <1>2 DEF InvalidateMemory, TypeOK, Valid, Stored
  <2>2. TypeOK'
    BY <2>1 DEF TypeOK, Row
  <2>3. /\ \A n \in Memory \ {m} : rows'[n] = rows[n]
        /\ rows'[m].importance = rows[m].importance /\ rows'[m].original = rows[m].original
        /\ rows'[m].accessed = rows[m].accessed
    BY <2>1 DEF TypeOK, Row
  <2>4. Stored' = Stored
    <3>1. rows[m] # None
      BY <1>2 DEF InvalidateMemory, Valid, Stored
    <3>2. rows'[m] \in Row
      BY <2>1 DEF TypeOK, Row
    <3> QED
      BY <2>3, <3>1, <3>2, NoneIsNoRow DEF Stored
  <2>5. StoredAreIssued' /\ FadingIsBounded' /\ CopiesAwaitDecay'
    BY <2>1, <2>3, <2>4 DEF StoredAreIssued, FadingIsBounded, CopiesAwaitDecay, Stored
  <2>6. CopiesAreFading' /\ NothingFromTheFuture'
    BY <2>1, <2>3, <2>4 DEF CopiesAreFading, NothingFromTheFuture, Stored, TypeOK
  <2> QED
    BY <2>2, <2>5, <2>6
<1>3. CASE DeleteMemory(m)
  <2>1. rows' = [rows EXCEPT ![m] = None] /\ UNCHANGED <<issued, now, pc, copies>>
    BY <1>3 DEF DeleteMemory
  <2>2. TypeOK'
    BY <2>1 DEF TypeOK
  <2>3. Stored' \subseteq Stored /\ \A n \in Stored' : rows'[n] = rows[n]
    BY <2>1 DEF Stored, TypeOK
  <2>4. StoredAreIssued' /\ FadingIsBounded' /\ CopiesAwaitDecay'
    BY <2>1, <2>3 DEF StoredAreIssued, FadingIsBounded, CopiesAwaitDecay, Stored
  <2>5. CopiesAreFading' /\ NothingFromTheFuture'
    BY <2>1, <2>3 DEF CopiesAreFading, NothingFromTheFuture, Stored, TypeOK
  <2> QED
    BY <2>2, <2>4, <2>5
<1> QED
  BY <1>0, <1>1, <1>2, <1>3

\* A maintenance step keeps the invariant.
LEMMA MaintenanceKeepsInv ==
  ASSUME MemoryInv, NEW t \in Maintainer, Maintain(t)
  PROVE  MemoryInv'
<1> USE DEF MemoryInv
<1>1. CASE Prune(t)
  <2>1. /\ rows' = [m \in Memory |-> IF m \in Stored /\ Outdated(m) THEN None ELSE rows[m]]
        /\ pc' = [pc EXCEPT ![t] = "list"]
        /\ UNCHANGED <<issued, now, copies>>
    BY <1>1 DEF Prune
  <2>2. TypeOK'
    BY <2>1 DEF TypeOK
  <2>3. Stored' \subseteq Stored /\ \A n \in Stored' : rows'[n] = rows[n]
    BY <2>1 DEF Stored, TypeOK
  <2>4. StoredAreIssued' /\ FadingIsBounded' /\ CopiesAwaitDecay'
    BY <2>1, <2>3 DEF StoredAreIssued, FadingIsBounded, CopiesAwaitDecay, Stored, TypeOK
  <2>5. CopiesAreFading' /\ NothingFromTheFuture'
    BY <2>1, <2>3 DEF CopiesAreFading, NothingFromTheFuture, Stored, TypeOK
  <2> QED
    BY <2>2, <2>4, <2>5
<1>2. CASE ListFading(t)
  <2>1. PICK q \in Listings : AfterDecay(t, [i \in DOMAIN q |-> CopyOf(q[i])])
    BY <1>2 DEF ListFading
  <2> DEFINE listed == [i \in DOMAIN q |-> CopyOf(q[i])]
  <2>2. q \in Seq(Fading) /\ UNCHANGED <<rows, issued, now>>
    BY <1>2, ListingsAreFading DEF ListFading
  <2>3. /\ Len(q) \in Nat /\ DOMAIN q = 1 .. Len(q)
        /\ \A i \in DOMAIN q : q[i] \in Fading
    BY <2>2
  <2>4. \A m \in Fading : /\ m \in Memory /\ m \in issued /\ rows[m] \in Row
                          /\ rows[m].importance < Threshold /\ m \in Stored
    BY DEF Fading, Valid, Stored, TypeOK, StoredAreIssued
  <2>5. \A m \in Fading : /\ CopyOf(m) \in Copy /\ CopyOf(m).id = m
                          /\ CopyOf(m).importance = rows[m].importance
                          /\ CopyOf(m).accessed = rows[m].accessed
    BY <2>4 DEF CopyOf, Copy, Row
  <2>6. listed \in Seq(Copy)
    BY <2>3, <2>5, IsASeq
  <2>7. /\ copies' = [copies EXCEPT ![t] = listed]
        /\ pc' = [pc EXCEPT ![t] = IF listed = <<>> THEN "asleep" ELSE "decay"]
    BY <2>1 DEF AfterDecay
  <2>8. TypeOK' /\ CopiesAwaitDecay'
    BY <2>2, <2>6, <2>7 DEF TypeOK, CopiesAwaitDecay
  <2>9. \A m \in Fading : rows[m].original < Threshold /\ rows[m].importance <= rows[m].original
    <3> SUFFICES ASSUME NEW m \in Fading
                 PROVE  rows[m].original < Threshold /\ rows[m].importance <= rows[m].original
      OBVIOUS
    <3> QED
      BY <2>4, MemoryAssumption DEF FadingIsBounded, Row, Importance
  <2>10. CopiesAreFading'
    <3> SUFFICES ASSUME NEW s \in Maintainer, NEW k \in DOMAIN copies'[s]
                 PROVE  LET c == copies'[s][k]
                        IN  /\ c.id \in issued
                            /\ c.id \in Stored => /\ rows[c.id].original < Threshold
                                                  /\ c.importance <= rows[c.id].original
      BY <2>2 DEF CopiesAreFading, Stored
    <3>1. CASE s = t
      <4>1. copies'[s] = listed /\ k \in DOMAIN q /\ copies'[s][k] = CopyOf(q[k])
        BY <3>1, <2>7 DEF TypeOK
      <4> QED
        BY <4>1, <2>3, <2>4, <2>5, <2>9
    <3>2. CASE s # t
      BY <3>2, <2>7 DEF CopiesAreFading, TypeOK
    <3> QED
      BY <3>1, <3>2
  <2>11. NothingFromTheFuture'
    <3>1. \A m \in Stored' : rows'[m].accessed <= now'
      BY <2>2 DEF NothingFromTheFuture, Stored
    <3>2. \A k \in DOMAIN listed : listed[k].accessed <= now
      BY <2>3, <2>4, <2>5 DEF NothingFromTheFuture
    <3> QED
      BY <3>1, <3>2, <2>2, <2>7 DEF NothingFromTheFuture, TypeOK
  <2>12. StoredAreIssued' /\ FadingIsBounded'
    BY <2>2 DEF StoredAreIssued, FadingIsBounded, Stored
  <2> QED
    BY <2>8, <2>10, <2>11, <2>12
<1>3. CASE DecayNext(t)
  <2> DEFINE c == Head(copies[t])
             rest == Tail(copies[t])
  <2>1. /\ copies' = [copies EXCEPT ![t] = rest]
        /\ pc' = [pc EXCEPT ![t] = IF rest = <<>> THEN "asleep" ELSE "decay"]
        /\ UNCHANGED <<issued, now>>
    BY <1>3 DEF DecayNext, AfterDecay
  <2>2. copies[t] \in Seq(Copy) /\ copies[t] # <<>>
    BY <1>3 DEF DecayNext, TypeOK, CopiesAwaitDecay
  <2>3. /\ c \in Copy /\ rest \in Seq(Copy) /\ 1 \in DOMAIN copies[t] /\ c = copies[t][1]
        /\ \A k \in DOMAIN rest : k + 1 \in DOMAIN copies[t] /\ rest[k] = copies[t][k + 1]
    BY <2>2, HeadTailProperties, ElementOfSeq
  <2>4. c.accessed <= now /\ now \in Day
    BY <2>3 DEF NothingFromTheFuture, TypeOK
  <2>5. DecayedCopy(c) \in Importance /\ DecayedCopy(c) <= c.importance
    BY <2>3, <2>4, DecayedIsImportance
  <2>6. c.id \in Stored => rows[c.id].original < Threshold /\ c.importance <= rows[c.id].original
    BY <2>3 DEF CopiesAreFading
  <2>7. \/ rows' = rows
        \/ c.id \in Stored /\ rows' = [rows EXCEPT ![c.id].importance = DecayedCopy(c)]
    BY <1>3 DEF DecayNext, UpdateMemory
  <2>8. rows' \in [Memory -> Row \cup {None}]
    <3>1. CASE rows' = rows
      BY <3>1 DEF TypeOK
    <3>2. CASE c.id \in Stored /\ rows' = [rows EXCEPT ![c.id].importance = DecayedCopy(c)]
      <4>1. rows[c.id] \in Row
        BY <3>2 DEF Stored, TypeOK
      <4>2. [rows[c.id] EXCEPT !.importance = DecayedCopy(c)] \in Row
        BY <4>1, <2>5 DEF Row
      <4> QED
        BY <3>2, <4>2 DEF TypeOK
    <3> QED
      BY <2>7, <3>1, <3>2
  <2>9. TypeOK' /\ CopiesAwaitDecay'
    BY <2>1, <2>3, <2>8 DEF TypeOK, CopiesAwaitDecay
  <2>10. /\ Stored' = Stored
         /\ \A m \in Stored : /\ rows'[m].original = rows[m].original
                              /\ rows'[m].accessed = rows[m].accessed
                              /\ \/ rows'[m].importance = rows[m].importance
                                 \/ m = c.id /\ rows'[m].importance = DecayedCopy(c)
    <3>1. CASE rows' = rows
      BY <3>1 DEF Stored
    <3>2. CASE c.id \in Stored /\ rows' = [rows EXCEPT ![c.id].importance = DecayedCopy(c)]
      <4>1. rows[c.id] \in Row /\ c.id \in Memory
        BY <3>2 DEF Stored, TypeOK
      <4>2. rows'[c.id] = [rows[c.id] EXCEPT !.importance = DecayedCopy(c)]
        BY <3>2, <4>1 DEF TypeOK
      <4>3. rows'[c.id] \in Row
        BY <4>1, <4>2, <2>5 DEF Row
      <4>4. \A m \in Memory \ {c.id} : rows'[m] = rows[m]
        BY <3>2 DEF TypeOK
      <4>5. Stored' = Stored
        BY <3>2, <4>3, <4>4, MemoryAssumption DEF Stored, Row
      <4> QED
        BY <4>1, <4>2, <4>4, <4>5 DEF Stored, Row
    <3> QED
      BY <2>7, <3>1, <3>2
  <2>11. FadingIsBounded'
    <3> SUFFICES ASSUME NEW m \in Stored
                 PROVE  /\ rows'[m].importance <= rows'[m].original
                        /\ rows'[m].original >= Threshold => rows'[m].importance = rows'[m].original
      BY <2>10 DEF FadingIsBounded
    <3>1. rows[m] \in Row
      BY DEF Stored, TypeOK
    <3>2. /\ rows[m].importance \in Int /\ rows[m].original \in Int /\ Threshold \in Int
          /\ c.importance \in Int /\ DecayedCopy(c) \in Int
      BY <2>3, <2>5, <3>1, MemoryAssumption DEF Row, Copy, Importance
    <3>3. CASE rows'[m].importance = rows[m].importance
      BY <2>10, <3>3 DEF FadingIsBounded
    <3>4. CASE m = c.id /\ rows'[m].importance = DecayedCopy(c)
      BY <2>5, <2>6, <2>10, <3>2, <3>4
    <3> QED
      BY <2>10, <3>3, <3>4
  <2>12. CopiesAreFading'
    <3> SUFFICES ASSUME NEW s \in Maintainer, NEW k \in DOMAIN copies'[s]
                 PROVE  LET d == copies'[s][k]
                        IN  /\ d.id \in issued
                            /\ d.id \in Stored => /\ rows[d.id].original < Threshold
                                                  /\ d.importance <= rows[d.id].original
      BY <2>1, <2>10 DEF CopiesAreFading
    <3>1. \E j \in DOMAIN copies[s] : copies'[s][k] = copies[s][j]
      BY <2>1, <2>3 DEF TypeOK
    <3> QED
      BY <3>1 DEF CopiesAreFading
  <2>13. StoredAreIssued' /\ NothingFromTheFuture'
    <3>1. \A s \in Maintainer : \A k \in DOMAIN copies'[s] :
            \E j \in DOMAIN copies[s] : copies'[s][k] = copies[s][j]
      BY <2>1, <2>3 DEF TypeOK
    <3> QED
      BY <2>1, <2>10, <3>1 DEF StoredAreIssued, NothingFromTheFuture
  <2> QED
    BY <2>9, <2>11, <2>12, <2>13
<1>4. CASE CycleFails(t)
  <2>1. /\ copies' = [copies EXCEPT ![t] = <<>>]
        /\ pc' = [pc EXCEPT ![t] = "asleep"]
        /\ UNCHANGED <<rows, issued, now>>
    BY <1>4 DEF CycleFails, AfterDecay
  <2>2. TypeOK' /\ CopiesAwaitDecay'
    BY <2>1 DEF TypeOK, CopiesAwaitDecay
  <2>3. StoredAreIssued' /\ FadingIsBounded'
    BY <2>1 DEF StoredAreIssued, FadingIsBounded, Stored
  <2>4. CopiesAreFading' /\ NothingFromTheFuture'
    BY <2>1 DEF CopiesAreFading, NothingFromTheFuture, Stored, TypeOK
  <2> QED
    BY <2>2, <2>3, <2>4
<1> QED
  BY <1>1, <1>2, <1>3, <1>4 DEF Maintain

\* The clock keeps the invariant.
LEMMA TickKeepsInv == MemoryInv /\ Tick => MemoryInv'
<1> SUFFICES ASSUME MemoryInv, Tick PROVE MemoryInv'
  OBVIOUS
<1>1. now \in Nat /\ now' = now + 1 /\ now' \in Day /\ UNCHANGED <<rows, issued, pc, copies>>
  BY MemoryAssumption DEF MemoryInv, TypeOK, Tick, Day
<1>2. TypeOK' /\ StoredAreIssued' /\ FadingIsBounded' /\ CopiesAreFading' /\ CopiesAwaitDecay'
  BY <1>1 DEF MemoryInv, TypeOK, StoredAreIssued, FadingIsBounded, CopiesAreFading,
              CopiesAwaitDecay, Stored
<1>3. NothingFromTheFuture'
  <2>1. \A m \in Stored : rows[m].accessed \in Nat
    BY DEF MemoryInv, TypeOK, Stored, Row, Day
  <2>2. \A t \in Maintainer : \A k \in DOMAIN copies[t] : copies[t][k].accessed \in Nat
    <3> SUFFICES ASSUME NEW t \in Maintainer, NEW k \in DOMAIN copies[t]
                 PROVE  copies[t][k].accessed \in Nat
      OBVIOUS
    <3>1. copies[t] \in Seq(Copy)
      BY DEF MemoryInv, TypeOK
    <3>2. copies[t][k] \in Copy
      BY <3>1, ElementOfSeq
    <3> QED
      BY <3>2 DEF Copy, Day
  <2>3. Stored' = Stored
    BY <1>1 DEF Stored
  <2>4. \A m \in Stored : rows[m].accessed <= now
    BY DEF MemoryInv, NothingFromTheFuture
  <2>5. \A m \in Stored' : rows'[m].accessed <= now'
    BY <1>1, <2>1, <2>3, <2>4
  <2>6. \A t \in Maintainer : \A k \in DOMAIN copies[t] : copies[t][k].accessed <= now
    BY DEF MemoryInv, NothingFromTheFuture
  <2>7. \A t \in Maintainer : \A k \in DOMAIN copies'[t] : copies'[t][k].accessed <= now'
    BY <1>1, <2>2, <2>6
  <2> QED
    BY <2>5, <2>7 DEF NothingFromTheFuture
<1> QED
  BY <1>2, <1>3 DEF MemoryInv

\* The invariant is inductive.
THEOREM MemoryInvariant == Spec => []MemoryInv
<1>1. MemoryInv /\ [Next]_vars => MemoryInv'
  <2> SUFFICES ASSUME MemoryInv, [Next]_vars PROVE MemoryInv'
    OBVIOUS
  <2>1. CASE Next
    BY <2>1, ClientKeepsInv, TickKeepsInv, MaintenanceKeepsInv DEF Next
  <2>2. CASE UNCHANGED vars
    BY <2>2 DEF vars, MemoryInv, TypeOK, StoredAreIssued, FadingIsBounded, CopiesAreFading,
                CopiesAwaitDecay, NothingFromTheFuture, Stored
  <2> QED
    BY <2>1, <2>2
<1> QED
  BY <1>1, MemoryInvInit, PTL DEF Spec

\* The rows and every copy a maintenance cycle still holds keep their types,
\* importances between 0 and the greatest one among them.
THEOREM MemoriesTyped == Spec => []TypeOK
BY MemoryInvariant, PTL DEF MemoryInv

\* FadingIsBounded, of the maintenance cycles of src/memory/manager.rs, for any
\* number of overlapping cycles.
THEOREM FadingStaysBounded == Spec => []FadingIsBounded
BY MemoryInvariant, PTL DEF MemoryInv

\* ForgottenStaysForgotten, of memory_forget against a concurrent write-back.
THEOREM ForgettingIsFinal == Spec => ForgottenStaysForgotten
<1>1. MemoryInv /\ [Next]_vars => Forgotten \subseteq Forgotten'
  <2> SUFFICES ASSUME MemoryInv, [Next]_vars, NEW f \in Forgotten PROVE f \in Forgotten'
    OBVIOUS
  <2>0. /\ f \in issued /\ f \in Memory /\ rows \in [Memory -> Row \cup {None}]
        /\ rows[f] = None \/ rows[f].invalidated # Never
    BY DEF MemoryInv, TypeOK, Forgotten, Valid, Stored
  <2> SUFFICES f \in issued' /\ (rows'[f] = None \/ rows'[f].invalidated # Never)
    BY DEF Forgotten, Valid, Stored
  <2>1. CASE Client
    <3>1. PICK m \in Memory :
            (\E u \in User : StoreMemory(m, u)) \/ InvalidateMemory(m) \/ DeleteMemory(m)
      BY <2>1 DEF Client
    <3>2. CASE \E u \in User : StoreMemory(m, u)
      BY <2>0, <3>2 DEF StoreMemory
    <3>3. CASE InvalidateMemory(m)
      <4>1. m # f
        BY <2>0, <3>3 DEF InvalidateMemory, Valid, Stored
      <4> QED
        BY <2>0, <3>3, <4>1 DEF InvalidateMemory
    <3>4. CASE DeleteMemory(m)
      BY <2>0, <3>4 DEF DeleteMemory
    <3> QED
      BY <3>1, <3>2, <3>3, <3>4
  <2>2. CASE Tick \/ UNCHANGED vars
    BY <2>0, <2>2 DEF Tick, vars
  <2>3. ASSUME NEW t \in Maintainer, Maintain(t)
        PROVE  f \in issued' /\ (rows'[f] = None \/ rows'[f].invalidated # Never)
    <3>1. CASE Prune(t)
      BY <2>0, <3>1 DEF Prune
    <3>2. CASE ListFading(t) \/ CycleFails(t)
      BY <2>0, <3>2 DEF ListFading, CycleFails
    <3>3. CASE DecayNext(t)
      <4> DEFINE c == Head(copies[t])
      <4>1. issued' = issued
        BY <3>3 DEF DecayNext
      <4>2. \/ rows' = rows
            \/ c.id \in Stored /\ rows' = [rows EXCEPT ![c.id].importance = DecayedCopy(c)]
        BY <3>3 DEF DecayNext, UpdateMemory
      <4> QED
        BY <2>0, <4>1, <4>2 DEF Row, Stored
    <3> QED
      BY <2>3, <3>1, <3>2, <3>3 DEF Maintain
  <2> QED
    BY <2>1, <2>2, <2>3 DEF Next
<1> QED
  BY <1>1, MemoryInvariant, PTL DEF Spec, ForgottenStaysForgotten

----------------------------------------------------------------------------
(* Recall.                                                                 *)

\* A memory that is more important and at least as recent scores more, unless
\* recency alone counts: then it scores no less.
LEMMA StrongerScoresMore ==
  ASSUME TypeOK, NothingFromTheFuture, NEW m \in Stored, NEW n \in Stored, NEW w \in RecencyWeights,
         rows[n].importance > rows[m].importance, rows[n].accessed >= rows[m].accessed,
         Score(m, w) >= Score(n, w)
  PROVE  w = 10 /\ Recency[Days(n)] = Recency[Days(m)]
<1>1. /\ rows[m].importance \in Nat /\ rows[n].importance \in Nat
      /\ Days(m) \in Day /\ Days(n) \in Day /\ Days(n) <= Days(m)
  <2>1. rows[m] \in Row /\ rows[n] \in Row
    BY DEF TypeOK, Stored
  <2>2. rows[m].accessed <= now /\ rows[n].accessed <= now /\ now \in Day
    BY DEF TypeOK, NothingFromTheFuture
  <2>3. MaxDay \in Nat /\ MaxImportance \in Nat
    BY MemoryAssumption
  <2> QED
    BY <2>1, <2>2, <2>3 DEF Row, Day, Importance, Days
<1> DEFINE a == 4 * MaxImportance + rows[m].importance
           b == 4 * MaxImportance + rows[n].importance
           r == Recency[Days(m)]
           s == Recency[Days(n)]
<1>2. w \in 0 .. 10 /\ MaxImportance \in Nat
  BY MemoryAssumption
<1>3. a \in Nat /\ b \in Nat /\ a < b
  BY <1>1, <1>2
<1>4. r \in Nat /\ s \in Nat /\ r <= s
  BY <1>1, DecayAssumption
<1>5. (10 - w) * a + w * r >= (10 - w) * b + w * s
  BY DEF Score
<1> HIDE DEF a, b, r, s
<1>6. CASE w = 10
  <2>1. 0 * a + 10 * r >= 0 * b + 10 * s
    BY <1>5, <1>6
  <2>2. r = s
    BY <1>3, <1>4, <2>1
  <2> QED
    BY <1>6, <2>2 DEF r, s
<1>7. CASE w # 10
  <2> DEFINE v == 10 - w
  <2>1. v \in Nat /\ v > 0 /\ w \in Nat
    BY <1>2, <1>7
  <2>2. v * a + w * r >= v * b + w * s
    BY <1>5
  <2> HIDE DEF v
  <2>3. v * a \in Nat /\ v * b \in Nat /\ v * a < v * b
    BY <1>3, <2>1
  <2>4. w * r \in Nat /\ w * s \in Nat /\ w * r <= w * s
    BY <1>4, <2>1
  <2> QED
    BY <2>2, <2>3, <2>4
<1> QED
  BY <1>6, <1>7

\* What is left out of a fetch of twice the limit, and of the cut of it to the
\* limit, is left out for want of room.
LEMMA CutsLeaveNoRoom ==
  ASSUME NEW S, NEW key, NEW limit \in Nat \ {0}, NEW w,
         NEW answer \in Ranked(TopSets(S, key, 2 * limit), limit, w)
  PROVE  Cardinality(answer) = limit \/ answer = S
<1>1. PICK fetched \in TopSets(S, key, 2 * limit) :
        answer \in TopSets(fetched, [m \in fetched |-> Score(m, w)], limit)
  BY DEF Ranked
<1>2. CASE answer = fetched
  <2>1. Cardinality(fetched) <= limit
    BY <1>1, <1>2 DEF TopSets
  <2>2. CASE fetched = S
    BY <1>2, <2>2
  <2>3. CASE Cardinality(fetched) = 2 * limit
    BY <2>1, <2>3
  <2> QED
    BY <1>1, <2>2, <2>3 DEF TopSets
<1>3. CASE Cardinality(answer) = limit
  BY <1>3
<1> QED
  BY <1>1, <1>2, <1>3 DEF TopSets

LEMMA CompleteRecall == RecallIsComplete
<1> SUFFICES ASSUME NEW users \in Callers, NEW limit \in 1 .. Cardinality(Memory),
                    NEW w \in RecencyWeights
             PROVE  /\ \A answer \in Retrieve(users, limit, w) :
                         Cardinality(answer) = limit \/ answer = VisibleTo(users)
                    /\ \A answer \in RetrieveByEmbedding(users, limit, w) :
                         Cardinality(answer) = limit \/ answer = {m \in VisibleTo(users) : rows[m].embedded}
  BY DEF RecallIsComplete
<1>1. limit \in Nat \ {0}
  OBVIOUS
<1>2. ASSUME NEW answer \in Retrieve(users, limit, w)
      PROVE  Cardinality(answer) = limit \/ answer = VisibleTo(users)
  <2> DEFINE Strength == [m \in Valid |-> rows[m].importance]
  <2>1. answer \in Ranked(TopSets(VisibleTo(users), Strength, 2 * limit), limit, w)
    BY DEF Retrieve, QueryMemories
  <2> HIDE DEF Strength
  <2> QED
    BY <1>1, <2>1, CutsLeaveNoRoom
<1>3. ASSUME NEW answer \in RetrieveByEmbedding(users, limit, w)
      PROVE  Cardinality(answer) = limit \/ answer = {m \in VisibleTo(users) : rows[m].embedded}
  <2> DEFINE Similarity == [m \in Valid |-> 0]
             Embedded == {m \in VisibleTo(users) : rows[m].embedded}
  <2>1. answer \in Ranked(TopSets(Embedded, Similarity, 2 * limit), limit, w)
    BY DEF RetrieveByEmbedding, QueryByEmbedding
  <2> HIDE DEF Similarity, Embedded
  <2>2. Cardinality(answer) = limit \/ answer = Embedded
    BY <1>1, <2>1, CutsLeaveNoRoom
  <2> QED
    BY <2>2 DEF Embedded
<1> QED
  BY <1>2, <1>3

\* Neither cut drops a memory for a weaker one that is no more recent, unless
\* recency alone counts: the query goes by importance, and the score by both.
LEMMA StrongerRecall ==
  ASSUME TypeOK, NothingFromTheFuture
  PROVE  RecallPrefersStronger
<1> SUFFICES ASSUME NEW users \in Callers, NEW limit \in 1 .. Cardinality(Memory),
                    NEW w \in RecencyWeights, NEW answer \in Retrieve(users, limit, w),
                    NEW in \in answer, NEW out \in VisibleTo(users) \ answer,
                    rows[out].importance > rows[in].importance,
                    ~(rows[out].accessed < rows[in].accessed)
             PROVE  w = 10 /\ Recency[Days(out)] = Recency[Days(in)]
  BY DEF RecallPrefersStronger
<1> DEFINE Strength == [m \in Valid |-> rows[m].importance]
<1>1. PICK fetched \in TopSets(VisibleTo(users), Strength, 2 * limit) :
        answer \in TopSets(fetched, [m \in fetched |-> Score(m, w)], limit)
  BY DEF Retrieve, QueryMemories, Ranked
<1>2. answer \subseteq fetched /\ fetched \subseteq VisibleTo(users)
  BY <1>1 DEF TopSets
<1>3. VisibleTo(users) \subseteq Valid /\ Valid \subseteq Stored
  BY DEF VisibleTo, Valid
<1>4. /\ rows[in].importance \in Int /\ rows[out].importance \in Int
      /\ rows[in].accessed \in Int /\ rows[out].accessed \in Int
  <2>1. rows[in] \in Row /\ rows[out] \in Row
    BY <1>2, <1>3 DEF TypeOK, Stored
  <2> QED
    BY <2>1 DEF Row, Importance, Day
<1>5. CASE out \in fetched
  <2> DEFINE score == [m \in fetched |-> Score(m, w)]
  <2>1. score[in] >= score[out]
    BY <1>1, <1>2, <1>5 DEF TopSets
  <2>2. Score(in, w) >= Score(out, w)
    BY <1>2, <1>5, <2>1
  <2>3. /\ rows[out].accessed >= rows[in].accessed
        /\ in \in Stored /\ out \in Stored
    BY <1>2, <1>3, <1>4
  <2> QED
    BY <2>2, <2>3, StrongerScoresMore
<1>6. CASE out \notin fetched
  <2>1. Strength[in] >= Strength[out]
    BY <1>1, <1>2, <1>6 DEF TopSets
  <2>2. rows[in].importance >= rows[out].importance
    BY <1>2, <1>3, <2>1
  <2> QED
    BY <1>4, <2>2
<1> QED
  BY <1>5, <1>6

\* RecallIsFair, of memory_retrieve: what it leaves out, it leaves out for want of
\* room, and never for a weaker memory that is no more recent (or, where recency
\* alone counts, less recent), for any table, limit, caller and weight from 0 to 1.
THEOREM RecallStaysFair == Spec => []RecallIsFair
<1>1. MemoryInv => RecallIsFair
  BY CompleteRecall, StrongerRecall DEF MemoryInv, RecallIsFair
<1> QED
  BY <1>1, MemoryInvariant, PTL

=============================================================================
