------------------------- MODULE SearchableContent -------------------------
(***************************************************************************)
(* What ingestion promises a searcher: at each path the index shows either *)
(* nothing or the leading chunks of one submitted content, as many as the  *)
(* embedding provider answered for; it moves from one to the next in a     *)
(* single step, and only to what some caller is ingesting at that path.    *)
(* Where the provider answers for every chunk the content shows whole.     *)
(* IngestPipeline implements this.                                         *)
(***************************************************************************)
EXTENDS Integers

CONSTANTS
  Path,
  Content,
  Embedded  \* numbers of chunks of a content the provider may answer for

VARIABLES
  index,    \* the pairs <<chunk index, content>> a search can return, by path
  pending   \* the ingests in progress, as triples <<path, content, answered>>

abstractVars == <<index, pending>>

Leading(c, n) == {<<i, c>> : i \in 0 .. n - 1}

Init ==
  /\ index = [p \in Path |-> {}]
  /\ pending = {}

Submit(p, c, n) ==
  /\ pending' = pending \cup {<<p, c, n>>}
  /\ UNCHANGED index

\* An ingest ends, having published or not.
Finish(p, c, n) ==
  /\ pending' = pending \ {<<p, c, n>>}
  /\ UNCHANGED index

\* The embedded chunks of a content appear at its path in place of what was
\* there; its ingest goes on.
Publish(p, c, n) ==
  /\ <<p, c, n>> \in pending
  /\ index' = [index EXCEPT ![p] = Leading(c, n)]
  /\ UNCHANGED pending

Withdraw(p) ==
  /\ index' = [index EXCEPT ![p] = {}]
  /\ UNCHANGED pending

Next ==
  \E p \in Path :
    \/ Withdraw(p)
    \/ \E c \in Content : \E n \in Embedded[c] :
         Submit(p, c, n) \/ Finish(p, c, n) \/ Publish(p, c, n)

Spec == Init /\ [][Next]_abstractVars

----------------------------------------------------------------------------
\* A search never mixes two contents of a path and never finds a gap in one.
ShowsLeadingChunks ==
  \A p \in Path : index[p] = {}
    \/ \E c \in Content : \E n \in Embedded[c] : index[p] = Leading(c, n)

=============================================================================
