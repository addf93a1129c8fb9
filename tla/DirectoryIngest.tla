-------------------------- MODULE DirectoryIngest --------------------------
(***************************************************************************)
(* One call that ingests many documents: ingest_directory                  *)
(* (src/ingest/directory.rs) with its orphan deletion, and its sibling     *)
(* rag_ingest_batch (src/mcp/server.rs), which spawns, joins and counts    *)
(* tasks the same way over documents sent inline.                          *)
(*                                                                         *)
(* A task is ingest_file or ingest_content, here two steps: it takes a     *)
(* version of the text, then compares and stores it (IngestPipeline looks  *)
(* inside).  Meanwhile other programs change the files, and other clients  *)
(* ingest and delete documents.                                            *)
(***************************************************************************)
EXTENDS Integers, Sequences, FiniteSets

CONSTANTS
  Name,           \* file paths, which are also the paths of documents
  Version,        \* distinct texts a file can have
  None,           \* no file, or no document
  Calls,          \* the calls made: "sync", "directory", "batch"
  Under,          \* the paths that start with the directory's
  Batch,          \* the documents of a batch, records [name, version]
  Supported,      \* paths detect_file_type knows
  Matching,       \* paths the glob pattern and the recursion admit
  Unreadable,     \* paths below a subdirectory the walk cannot open
  MaxConcurrent,  \* MAX_CONCURRENT_INGESTS, MAX_CONCURRENT_BATCH_INGESTS
  MaxChanges      \* bound on what others do meanwhile

ASSUME DirectoryAssumption ==
  /\ Calls \subseteq {"sync", "directory", "batch"}
  /\ None \notin Version
  /\ Under \subseteq Name
  /\ IsFiniteSet(Under)
  /\ Batch \in Seq([name : Name, version : Version])
  /\ MaxConcurrent \in Nat \ {0}
  /\ MaxChanges \in Nat

VARIABLES
  call,       \* ingest_directory with delete_removed or without, or a batch
  disk,       \* the version of each file of the directory
  documents,  \* the version of each document in the database
  pc,         \* the step the call is about to take
  queue,      \* what to ingest, in order
  tasks,      \* the tasks spawned, in the order of the queue
  permits,    \* left in the semaphore
  collected,  \* indexes of the tasks joined, as they came
  orphans,    \* documents listed for deletion and not yet looked at
  output,     \* counters and statuses to return
  changes,    \* what others have done so far
  disturbed   \* observed only: paths others have changed during the call

outside == <<call, changes, disturbed>>
vars == <<disk, documents, pc, queue, tasks, permits, collected, orphans, output, outside>>

----------------------------------------------------------------------------
(* Types and state.                                                        *)

Versions == Version \cup {None}

\* Documents of an unknown type do not get into the database.
Contents == {d \in [Name -> Versions] : \A n \in Name \ Supported : d[n] = None}

\* Nothing reads a file of an unknown type: one version stands for all.
Files == {d \in [Under -> Versions] :
            \A n \in Under \ Supported : d[n] \in {None, CHOOSE v \in Version : TRUE}}

Item == [name : Name, version : Versions]
Success == {"created", "updated", "unchanged"}
Status == Success \cup {"error", "deleted"}

\* A task reads its file (or was given its text), stores it, has ended with a
\* status or panicked, and is joined by the call.
Task == [state : {"reading", "storing", "ended", "panicked", "joined", "lost"},
         version : Versions, status : Status]

Entry == [name : Name, status : Status]
Output == [added : Nat, updated : Nat, unchanged : Nat, deleted : Nat, failed : Nat,
           documents : Seq(Entry)]

NoOutput ==
  [added |-> 0, updated |-> 0, unchanged |-> 0, deleted |-> 0, failed |-> 0, documents |-> <<>>]

Holders == {i \in DOMAIN tasks : tasks[i].state \in {"reading", "storing"}}

directory == call # "batch"
DeleteRemoved == call = "sync"

\* A call begins as one of three.  The tool asks for either kind of directory;
\* recursion and pattern are in Matching.
RagIngestDirectory ==
  /\ call \in Calls \cap {"sync", "directory"}
  /\ disk \in Files
  /\ pc = "walk"
  /\ queue = <<>>

\* The command line names a directory and never deletes.  (A file or a URL it
\* ingests alone, which is one call of IngestPipeline.)
IngestPath ==
  /\ call \in Calls \cap {"directory"}
  /\ disk \in Files
  /\ pc = "walk"
  /\ queue = <<>>

\* The documents come with the call, and nothing is read from a disk.
RagIngestBatch ==
  /\ call \in Calls \cap {"batch"}
  /\ disk = [n \in Under |-> None]
  /\ pc = "spawn"
  /\ queue = Batch

Init ==
  /\ RagIngestDirectory \/ IngestPath \/ RagIngestBatch
  /\ documents \in Contents
  /\ tasks = <<>>
  /\ permits = MaxConcurrent
  /\ collected = <<>>
  /\ orphans = {}
  /\ output = NoOutput
  /\ changes = 0
  /\ disturbed = {}

----------------------------------------------------------------------------
(* The call.                                                               *)

\* The ways to put a set in order.  The walk goes by name; nothing depends on it.
Orders(S) == {q \in [1 .. Cardinality(S) -> S] : \A n \in S : \E i \in DOMAIN q : q[i] = n}

\* Files that are there, readable, admitted by the pattern and of a known type.
Visible == {n \in (Under \cap Supported \cap Matching) \ Unreadable : disk[n] # None}

\* They are queued; a subdirectory that cannot be read counts as one failure.
WalkDirectory ==
  /\ pc = "walk"
  /\ pc' = "spawn"
  /\ \E q \in Orders(Visible) :
       queue' = [i \in DOMAIN q |-> [name |-> q[i], version |-> None]]
  /\ output' = [output EXCEPT !.failed = IF Unreadable = {} THEN 0 ELSE 1]
  /\ UNCHANGED <<disk, documents, tasks, permits, collected, orphans, outside>>

NextItem == queue[Len(tasks) + 1]

\* Waits for a permit, unless a batch document is of an unknown type: its task
\* does nothing but fail.
Spawn ==
  /\ pc = "spawn"
  /\ Len(tasks) < Len(queue)
  /\ IF NextItem.name \in Supported
     THEN /\ permits > 0
          /\ permits' = permits - 1
          /\ tasks' = Append(tasks, [state |-> IF directory THEN "reading" ELSE "storing",
                                     version |-> NextItem.version, status |-> "error"])
     ELSE /\ tasks' = Append(tasks, [state |-> "ended", version |-> None, status |-> "error"])
          /\ UNCHANGED permits
  /\ UNCHANGED <<disk, documents, pc, queue, collected, orphans, output, outside>>

SpawnedAll ==
  /\ pc = "spawn"
  /\ Len(tasks) = Len(queue)
  /\ pc' = "join"
  /\ UNCHANGED <<disk, documents, queue, tasks, permits, collected, orphans, output, outside>>

Join(i) ==
  /\ pc = "join"
  /\ tasks[i].state = "ended"
  /\ tasks' = [tasks EXCEPT ![i].state = "joined"]
  /\ collected' = Append(collected, i)
  /\ UNCHANGED <<disk, documents, pc, queue, permits, orphans, output, outside>>

\* Of a panicked task only the directory keeps count.
JoinPanicked(i) ==
  /\ pc = "join"
  /\ tasks[i].state = "panicked"
  /\ tasks' = [tasks EXCEPT ![i].state = "lost"]
  /\ output' = IF directory THEN [output EXCEPT !.failed = @ + 1] ELSE output
  /\ UNCHANGED <<disk, documents, pc, queue, permits, collected, orphans, outside>>

\* Bug variant: the statuses are returned as the tasks ended.
Unsorted == collected

Collected == {collected[k] : k \in DOMAIN collected}

\* indexed_results.sort_by_key: back to the order of the queue.
Sorted == [k \in DOMAIN collected |->
             CHOOSE i \in Collected : Cardinality(Collected \cap 1 .. i) = k]

Ended(status) == Cardinality({k \in DOMAIN collected : tasks[collected[k]].status = status})

\* Bug variant: whatever is not created, updated or failed counts as unchanged,
\* and the panicked, who are not among the collected, count as failed.
ReportUnchangedAsRest ==
  /\ pc = "join"
  /\ \A i \in DOMAIN tasks : tasks[i].state \in {"joined", "lost"}
  /\ output' = [output EXCEPT
       !.added = Ended("created"), !.updated = Ended("updated"),
       !.failed = @ + Ended("error"),
       !.unchanged = Len(collected) - Ended("created") - Ended("updated")
                       - Ended("error") - output.failed]
  /\ pc' = IF DeleteRemoved THEN "list" ELSE "done"
  /\ UNCHANGED <<disk, documents, queue, tasks, permits, collected, orphans, outside>>

Report ==
  /\ pc = "join"
  /\ \A i \in DOMAIN tasks : tasks[i].state \in {"joined", "lost"}
  /\ output' = [output EXCEPT
       !.added = Ended("created"), !.updated = Ended("updated"),
       !.unchanged = Ended("unchanged"), !.failed = @ + Ended("error"),
       !.documents = [k \in DOMAIN Sorted |->
                        [name |-> queue[Sorted[k]].name, status |-> tasks[Sorted[k]].status]]]
  /\ pc' = IF DeleteRemoved THEN "list" ELSE "done"
  /\ UNCHANGED <<disk, documents, queue, tasks, permits, collected, orphans, outside>>

\* Bug variant: paths are compared without normalising their separators.
DiscoveredElsewhere == {}

Discovered == {queue[i].name : i \in DOMAIN queue}

\* Bug variant: files whose ingest did not succeed do not count as discovered.
ListFailedToo ==
  /\ pc = "list"
  /\ orphans' = {n \in Under : documents[n] # None} \
                  {queue[i].name : i \in {j \in DOMAIN tasks : tasks[j].status \in Success}}
  /\ pc' = "delete"
  /\ UNCHANGED <<disk, documents, queue, tasks, permits, collected, output, outside>>

\* The documents below the directory that the walk, by now long past, did not
\* meet.
ListDocuments ==
  /\ pc = "list"
  /\ orphans' = {n \in Under : documents[n] # None} \ Discovered
  /\ pc' = "delete"
  /\ UNCHANGED <<disk, documents, queue, tasks, permits, collected, output, outside>>

\* An error of list_documents ends the call, and the report is lost.
ListFails ==
  /\ pc = "list"
  /\ pc' = "failed"
  /\ UNCHANGED <<disk, documents, queue, tasks, permits, collected, orphans, output, outside>>

\* Bug variant: a failed deletion is only logged.
PushSilently(n, status) ==
  output' = [output EXCEPT
    !.deleted = IF status = "deleted" THEN @ + 1 ELSE @,
    !.documents = Append(@, [name |-> n, status |-> status])]

Push(n, status) ==
  output' = [output EXCEPT
    !.deleted = IF status = "deleted" THEN @ + 1 ELSE @,
    !.failed = IF status = "error" THEN @ + 1 ELSE @,
    !.documents = Append(@, [name |-> n, status |-> status])]

\* One orphan after the other: deleted, gone already, or not deletable.
DeleteOrphan(n) ==
  /\ pc = "delete"
  /\ n \in orphans
  /\ orphans' = orphans \ {n}
  /\ \/ /\ documents[n] # None
        /\ documents' = [documents EXCEPT ![n] = None]
        /\ Push(n, "deleted")
     \/ /\ documents[n] = None
        /\ UNCHANGED <<documents, output>>
     \/ /\ UNCHANGED documents
        /\ Push(n, "error")
  /\ UNCHANGED <<disk, pc, queue, tasks, permits, collected, outside>>

DeletedAll ==
  /\ pc = "delete"
  /\ orphans = {}
  /\ pc' = "done"
  /\ UNCHANGED <<disk, documents, queue, tasks, permits, collected, orphans, output, outside>>

----------------------------------------------------------------------------
(* The tasks.                                                              *)

ReadFile(i) ==
  /\ tasks[i].state = "reading"
  /\ IF disk[queue[i].name] = None
     THEN tasks' = [tasks EXCEPT ![i].state = "ended"] /\ permits' = permits + 1
     ELSE /\ tasks' = [tasks EXCEPT ![i].state = "storing", ![i].version = disk[queue[i].name]]
          /\ UNCHANGED permits
  /\ UNCHANGED <<disk, documents, pc, queue, collected, orphans, output, outside>>

End(i, status) ==
  /\ tasks' = [tasks EXCEPT ![i].state = "ended", ![i].status = status]
  /\ permits' = permits + 1

StoreVersion(i) ==
  LET n == queue[i].name
      v == tasks[i].version
  IN  /\ tasks[i].state = "storing"
      /\ documents' = [documents EXCEPT ![n] = v]
      /\ End(i, CASE documents[n] = None -> "created"
                  [] documents[n] = v -> "unchanged"
                  [] OTHER -> "updated")
      /\ UNCHANGED <<disk, pc, queue, collected, orphans, output, outside>>

\* An ingest can fail after its upsert, which nothing undoes.
Interrupted(i) ==
  \/ UNCHANGED documents
  \/ /\ tasks[i].state = "storing"
     /\ documents' = [documents EXCEPT ![queue[i].name] = tasks[i].version]

\* Any error of reading, embedding or storing.
TaskFails(i) ==
  /\ i \in Holders
  /\ Interrupted(i)
  /\ End(i, "error")
  /\ UNCHANGED <<disk, pc, queue, collected, orphans, output, outside>>

\* Bug variant: a permit is forgotten when a task panics.
TaskPanicsHolding(i) ==
  /\ i \in Holders
  /\ tasks' = [tasks EXCEPT ![i].state = "panicked"]
  /\ UNCHANGED <<disk, documents, pc, queue, permits, collected, orphans, output, outside>>

\* Unwinding drops the permit.
TaskPanics(i) ==
  /\ i \in Holders
  /\ Interrupted(i)
  /\ tasks' = [tasks EXCEPT ![i].state = "panicked"]
  /\ permits' = permits + 1
  /\ UNCHANGED <<disk, pc, queue, collected, orphans, output, outside>>

----------------------------------------------------------------------------
(* Everybody else.                                                         *)

Running == pc \notin {"done", "failed"}

\* A file is written or removed, or a document ingested or deleted.
Disturb(n) ==
  /\ Running
  /\ changes < MaxChanges
  /\ changes' = changes + 1
  /\ disturbed' = disturbed \cup {n}
  /\ \E v \in Versions :
       \/ /\ n \in Under /\ v # disk[n]
          /\ disk' = [disk EXCEPT ![n] = v] /\ UNCHANGED documents
       \/ /\ n \in Supported /\ v # documents[n]
          /\ documents' = [documents EXCEPT ![n] = v] /\ UNCHANGED disk
  /\ UNCHANGED <<call, pc, queue, tasks, permits, collected, orphans, output>>

----------------------------------------------------------------------------
(* Specification.                                                          *)

Caller ==
  \/ WalkDirectory \/ Spawn \/ SpawnedAll
  \/ \E i \in DOMAIN tasks : Join(i) \/ JoinPanicked(i)
  \/ Report
  \/ ListDocuments \/ ListFails
  \/ \E n \in Name : DeleteOrphan(n)
  \/ DeletedAll

TaskStep(i) ==
  /\ i \in DOMAIN tasks
  /\ ReadFile(i) \/ StoreVersion(i) \/ TaskFails(i) \/ TaskPanics(i)

Next ==
  \/ Caller
  \/ \E i \in DOMAIN tasks : TaskStep(i)
  \/ \E n \in Name : Disturb(n)

Spec == Init /\ [][Next]_vars

TaskNumbers == 1 .. Cardinality(Under) + Len(Batch)

\* A task that ingests awaits an embedder, whose client has no timeout.
AwaitsEmbedder(i) == i \in DOMAIN tasks /\ tasks[i].state = "storing"

\* The runtime keeps polling the call and every spawned task, but no answer of
\* an embedder is promised.
FairSpec ==
  /\ Spec
  /\ WF_vars(Caller)
  /\ \A i \in TaskNumbers : WF_vars(~AwaitsEmbedder(i) /\ TaskStep(i))

----------------------------------------------------------------------------
(* Properties.                                                             *)

TypeOK ==
  /\ call \in {"sync", "directory", "batch"}
  /\ disk \in [Under -> Versions]
  /\ documents \in Contents
  /\ pc \in {"walk", "spawn", "join", "list", "delete", "done", "failed"}
  /\ queue \in Seq(Item)
  /\ tasks \in Seq(Task)
  /\ Len(tasks) <= Len(queue)
  /\ permits \in Nat
  /\ collected \in Seq(Nat)
  /\ orphans \subseteq Name
  /\ output \in Output
  /\ changes \in Nat
  /\ disturbed \subseteq Name

\* Every permit is in the semaphore or held by exactly one running task, so at
\* most MaxConcurrent documents are ingested at a time and no panic, failure or
\* unsupported document ever costs a permit.
PermitsBalance == permits + Cardinality(Holders) = MaxConcurrent

Panicked == {i \in DOMAIN tasks : tasks[i].state = "lost"}
Reported(status) ==
  Cardinality({k \in DOMAIN output.documents : output.documents[k].status = status})

\* The counters and the list of statuses tell the same: they differ by the
\* panicked tasks and the unreadable subdirectories, which a directory counts
\* as failed and a batch does not mention at all.
CountsAddUp ==
  pc \in {"list", "delete", "done"} =>
    /\ output.added = Reported("created")
    /\ output.updated = Reported("updated")
    /\ output.unchanged = Reported("unchanged")
    /\ output.deleted = Reported("deleted")
    /\ output.failed = Reported("error")
         + (IF directory THEN Cardinality(Panicked) ELSE 0)
         + (IF directory /\ Unreadable # {} THEN 1 ELSE 0)

\* The statuses of the ingested documents come in the order of the queue, in
\* whatever order the tasks ended, with only panicked ones missing.
ReportedInOrder ==
  pc \in {"list", "delete", "done"} =>
    \A i, j \in DOMAIN queue \ Panicked :
      LET place(k) == k - Cardinality(Panicked \cap 1 .. k)
      IN  /\ output.documents[place(i)] = [name |-> queue[i].name, status |-> tasks[i].status]
          /\ i < j => place(i) < place(j)

\* What the caller is told is what happened, file by file and in numbers.
ReportIsFaithful == CountsAddUp /\ ReportedInOrder

\* At the end, a document reported as ingested is in the database in the
\* version its task took, unless someone else changed it or the batch names
\* it twice: in particular the orphan pass has spared it.
IngestedAreStored ==
  pc = "done" =>
    \A i \in DOMAIN tasks :
      LET n == queue[i].name
      IN  /\ tasks[i].status \in Success
          /\ tasks[i].state = "joined"
          /\ n \notin disturbed
          /\ \A j \in DOMAIN queue \ {i} : queue[j].name # n
          => documents[n] = tasks[i].version

\* A file the call could see and nobody touched is never taken out of the
\* index, not even if its ingest fails.
SeenFilesStayIndexed ==
  [][\A n \in Name :
       /\ directory
       /\ n \in Visible \ disturbed'
       /\ documents[n] # None
       => documents'[n] # None]_vars

\* After a call that reported no failure, the index mirrors the directory, as
\* far as the walk could see it and others left it alone.
IndexMirrorsDirectory ==
  pc = "done" /\ DeleteRemoved /\ output.failed = 0 =>
    \A n \in (Under \cap Supported \cap Matching) \ disturbed : documents[n] = disk[n]

\* The call returns, whichever tasks fail and panic and however few permits
\* there are, unless one of its tasks waits for ever for an embedder.
CallReturns == <>(pc \in {"done", "failed"}) \/ \E i \in TaskNumbers : <>[]AwaitsEmbedder(i)

=============================================================================
