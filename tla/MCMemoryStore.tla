--------------------------- MODULE MCMemoryStore ---------------------------
(* Importance in five steps, halved each day a memory is not accessed.     *)
EXTENDS MemoryStore

CONSTANTS none, never, m1, m2, m3, s1, s2

MCMemory == {m1, m2, m3}
MCMaintainer == {s1, s2}

\* Two memories fade, one faster, and one does not, two have an embedding and one has none.
MCRequested == [m \in MCMemory |-> CASE m = m1 -> {2} [] m = m2 -> {1} [] m = m3 -> {5}]
MCEmbedder == [m \in MCMemory |-> {m # m2}]

MCDecayed == [x \in (0 .. MaxImportance) \X (0 .. MaxDay) |-> x[1] \div 2 ^ x[2]]
MCRecency == [d \in 0 .. MaxDay |-> 5 * MaxImportance - 4 * d]
=============================================================================
