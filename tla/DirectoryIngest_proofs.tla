----------------------- MODULE DirectoryIngest_proofs -----------------------
(* That no permit is lost, that the orphan pass spares what the call could  *)
(* see, that the report is what happened and that the index mirrors the     *)
(* directory, for directories and batches of every size.                   *)
EXTENDS DirectoryIngest, FiniteSetTheorems, TLAPS

----------------------------------------------------------------------------
(* The inductive invariant.                                                *)

WellFormed ==
  /\ disk \in [Under -> Versions]
  /\ documents \in [Name -> Versions]
  /\ queue \in Seq(Item)
  /\ tasks \in Seq(Task)
  /\ Len(tasks) <= Len(queue)
  /\ permits \in Nat
  /\ orphans \subseteq Name

\* A task has a text before it stores it: a batch brings the texts, a
\* directory's tasks read them from the directory.
TextsExist ==
  /\ \A i \in DOMAIN tasks :
       /\ tasks[i].state = "storing" => tasks[i].version \in Version
       /\ tasks[i].state = "reading" => directory
  /\ IF directory
     THEN \A i \in DOMAIN queue : queue[i].name \in Under
     ELSE \A i \in DOMAIN queue : queue[i].version \in Version

\* Nothing happens before the walk.
WalkIsFirst == pc = "walk" => directory /\ tasks = <<>> /\ orphans = {}

\* What the call can see has been queued, and is no orphan.
SeenIsDiscovered ==
  directory /\ pc # "walk" => Visible \ disturbed \subseteq Discovered

OrphansUndiscovered == orphans \cap Discovered = {}

DirectoryInv ==
  /\ WellFormed
  /\ PermitsBalance
  /\ TextsExist
  /\ WalkIsFirst
  /\ SeenIsDiscovered
  /\ OrphansUndiscovered

----------------------------------------------------------------------------
(* The semaphore.                                                          *)

LEMMA HoldersFinite ==
  ASSUME tasks \in Seq(Task)
  PROVE  IsFiniteSet(Holders) /\ Cardinality(Holders) \in Nat
<1>1. DOMAIN tasks = 1 .. Len(tasks) /\ Len(tasks) \in Nat
  OBVIOUS
<1>2. IsFiniteSet(1 .. Len(tasks))
  BY <1>1, FS_Interval
<1> QED BY <1>1, <1>2, FS_Subset, FS_CardinalityType DEF Holders

\* A task that ends, in whatever way, gives its permit back.
LEMMA ReleaseKeepsBalance ==
  ASSUME tasks \in Seq(Task), permits \in Nat, PermitsBalance, NEW i \in Holders,
         tasks' \in Seq(Task), DOMAIN tasks' = DOMAIN tasks,
         tasks'[i].state \notin {"reading", "storing"},
         \A j \in DOMAIN tasks \ {i} : tasks'[j] = tasks[j],
         permits' = permits + 1
  PROVE  PermitsBalance'
<1>1. Holders' = Holders \ {i}
  BY DEF Holders
<1>2. Cardinality(Holders \ {i}) = Cardinality(Holders) - 1
  BY HoldersFinite, FS_RemoveElement
<1> QED BY <1>1, <1>2, HoldersFinite DEF PermitsBalance

\* A step that leaves the holders alone leaves the balance alone.
LEMMA SameHoldersKeepBalance ==
  ASSUME PermitsBalance, permits' = permits,
         DOMAIN tasks' = DOMAIN tasks,
         \A j \in DOMAIN tasks :
           tasks'[j].state \in {"reading", "storing"} <=> tasks[j].state \in {"reading", "storing"}
  PROVE  PermitsBalance'
BY DEF PermitsBalance, Holders

LEMMA SpawnKeepsBalance ==
  ASSUME WellFormed, PermitsBalance, Spawn
  PROVE  PermitsBalance'
<1> USE DEF WellFormed
<1>1. PICK t \in [state : {"reading", "storing", "ended"}, version : Versions, status : Status] :
        /\ tasks' = Append(tasks, t)
        /\ \/ t.state # "ended" /\ permits > 0 /\ permits' = permits - 1
           \/ t.state = "ended" /\ permits' = permits
  <2>1. queue[Len(tasks) + 1] \in Item
    BY DEF Spawn
  <2> QED BY <2>1 DEF Spawn, NextItem, Item, Versions, Status
<1>2. /\ DOMAIN tasks = 1 .. Len(tasks)
      /\ DOMAIN tasks' = 1 .. Len(tasks) + 1
      /\ \A j \in 1 .. Len(tasks) : tasks'[j] = tasks[j]
      /\ tasks'[Len(tasks) + 1] = t
  <2> HIDE DEF WellFormed
  <2>1. tasks \in Seq(Task) /\ t \in Task
    BY <1>1 DEF Task, WellFormed
  <2> QED BY <1>1, <2>1
<1>3. CASE t.state = "ended"
  <2>1. Holders' = Holders
    BY <1>2, <1>3 DEF Holders
  <2> QED BY <1>1, <1>3, <2>1 DEF PermitsBalance
<1>4. CASE t.state # "ended"
  <2>1. Holders' = Holders \cup {Len(tasks) + 1} /\ Len(tasks) + 1 \notin Holders
    BY <1>2, <1>4 DEF Holders
  <2>2. Cardinality(Holders \cup {Len(tasks) + 1}) = Cardinality(Holders) + 1
    BY <2>1, HoldersFinite, FS_AddElement
  <2> QED BY <1>1, <1>4, <2>1, <2>2, HoldersFinite DEF PermitsBalance
<1> QED BY <1>3, <1>4

LEMMA BalanceStep ==
  ASSUME WellFormed, WellFormed', PermitsBalance, [Next]_vars
  PROVE  PermitsBalance'
<1>1. CASE Spawn
  BY <1>1, SpawnKeepsBalance
<1>2. CASE \E i \in DOMAIN tasks : Join(i) \/ JoinPanicked(i)
  <2>1. PICK i \in DOMAIN tasks : Join(i) \/ JoinPanicked(i)
    BY <1>2
  <2>2. /\ permits' = permits
        /\ DOMAIN tasks' = DOMAIN tasks
        /\ tasks[i].state \in {"ended", "panicked"}
        /\ tasks'[i].state \in {"joined", "lost"}
        /\ \A j \in DOMAIN tasks \ {i} : tasks'[j] = tasks[j]
    <3>1. tasks[i] \in Task
      BY DEF WellFormed
    <3>2. CASE Join(i)
      BY <3>1, <3>2 DEF Join, WellFormed, Task
    <3>3. CASE JoinPanicked(i)
      BY <3>1, <3>3 DEF JoinPanicked, WellFormed, Task
    <3> QED BY <2>1, <3>2, <3>3
  <2>3. \A j \in DOMAIN tasks :
          tasks'[j].state \in {"reading", "storing"} <=> tasks[j].state \in {"reading", "storing"}
    <3>1. /\ tasks[i].state \notin {"reading", "storing"}
          /\ tasks'[i].state \notin {"reading", "storing"}
      BY <2>2
    <3> QED BY <2>2, <3>1
  <2> QED BY <2>2, <2>3, SameHoldersKeepBalance
<1>3. CASE \E i \in DOMAIN tasks : TaskStep(i)
  <2>1. PICK i \in DOMAIN tasks : TaskStep(i)
    BY <1>3
  <2>2. CASE permits' = permits + 1
    <3>1. i \in Holders
      BY <2>1 DEF TaskStep, ReadFile, StoreVersion, TaskFails, TaskPanics, Holders
    <3>2. /\ DOMAIN tasks' = DOMAIN tasks
          /\ tasks'[i].state \notin {"reading", "storing"}
          /\ \A j \in DOMAIN tasks \ {i} : tasks'[j] = tasks[j]
      <4>1. tasks[i] \in Task
        BY DEF WellFormed
      <4>2. CASE ReadFile(i)
        BY <4>1, <4>2, <2>2 DEF ReadFile, WellFormed, Task
      <4>3. CASE StoreVersion(i)
        BY <4>1, <4>3 DEF StoreVersion, End, Task
      <4>4. CASE TaskFails(i) \/ TaskPanics(i)
        BY <4>1, <4>4 DEF TaskFails, TaskPanics, End, Task
      <4> QED BY <2>1, <4>2, <4>3, <4>4 DEF TaskStep
    <3> QED BY <3>1, <3>2, <2>2, ReleaseKeepsBalance DEF WellFormed
  <2>3. CASE permits' # permits + 1
    <3>1. /\ permits' = permits
          /\ DOMAIN tasks' = DOMAIN tasks
          /\ tasks[i].state = "reading" /\ tasks'[i].state = "storing"
          /\ \A j \in DOMAIN tasks \ {i} : tasks'[j] = tasks[j]
      <4>1. tasks[i] \in Task
        BY DEF WellFormed
      <4>2. ReadFile(i) /\ permits' = permits
        BY <2>1, <2>3 DEF TaskStep, ReadFile, StoreVersion, TaskFails, TaskPanics, End
      <4> QED BY <4>1, <4>2 DEF ReadFile, WellFormed, Task
    <3>2. \A j \in DOMAIN tasks :
            tasks'[j].state \in {"reading", "storing"} <=> tasks[j].state \in {"reading", "storing"}
      BY <3>1
    <3> QED BY <3>1, <3>2, SameHoldersKeepBalance
  <2> QED BY <2>2, <2>3
<1>4. CASE UNCHANGED <<tasks, permits>>
  BY <1>4 DEF PermitsBalance, Holders
<1> QED
  BY <1>1, <1>2, <1>3, <1>4
     DEF Next, Caller, WalkDirectory, SpawnedAll, Report, ListDocuments, ListFails, DeleteOrphan,
         DeletedAll, Disturb, vars

----------------------------------------------------------------------------
(* The other conjuncts.                                                    *)

LEMMA OrdersAreSequences ==
  ASSUME NEW S, IsFiniteSet(S), NEW q \in Orders(S)
  PROVE  /\ q \in Seq(S)
         /\ DOMAIN q = 1 .. Cardinality(S)
         /\ \A n \in S : \E i \in DOMAIN q : q[i] = n
<1>1. Cardinality(S) \in Nat
  BY FS_CardinalityType
<1> QED BY <1>1 DEF Orders

LEMMA WalkQueues ==
  ASSUME disk \in [Under -> Versions], WalkDirectory
  PROVE  /\ queue' \in Seq(Item)
         /\ Discovered' = Visible
<1>1. PICK q \in Orders(Visible) :
        queue' = [i \in DOMAIN q |-> [name |-> q[i], version |-> None]]
  BY DEF WalkDirectory
<1>2. IsFiniteSet(Visible)
  BY DirectoryAssumption, FS_Subset DEF Visible
<1>3. /\ q \in Seq(Visible)
      /\ DOMAIN q = 1 .. Len(q) /\ Len(q) \in Nat
      /\ \A n \in Visible : \E i \in DOMAIN q : q[i] = n
      /\ \A i \in DOMAIN q : q[i] \in Visible
  BY <1>1, <1>2, OrdersAreSequences
<1>4. \A i \in DOMAIN q : [name |-> q[i], version |-> None] \in Item
  BY <1>3, DirectoryAssumption DEF Item, Versions, Visible
<1>5. queue' \in Seq(Item)
  BY <1>1, <1>3, <1>4
<1>6. Discovered' = {q[i] : i \in DOMAIN q}
  BY <1>1 DEF Discovered
<1> QED BY <1>3, <1>5, <1>6

\* A step that changes one task keeps the tasks well formed.
LEMMA OneTaskChanges ==
  ASSUME tasks \in Seq(Task), NEW i \in DOMAIN tasks, NEW t \in Task,
         tasks' = [tasks EXCEPT ![i] = t]
  PROVE  tasks' \in Seq(Task) /\ Len(tasks') = Len(tasks)
OBVIOUS

LEMMA WellFormedStep ==
  ASSUME WellFormed, TextsExist, WalkIsFirst, [Next]_vars
  PROVE  WellFormed'
<1> USE DEF WellFormed
<1>1. CASE WalkDirectory
  <2>1. tasks = <<>> /\ Len(tasks') = 0
    BY <1>1 DEF WalkDirectory, WalkIsFirst
  <2> QED BY <1>1, <2>1, WalkQueues DEF WalkDirectory
<1>2. CASE Spawn
  <2>1. queue[Len(tasks) + 1] \in Item
    BY <1>2 DEF Spawn
  <2>2. PICK t \in Task : tasks' = Append(tasks, t)
    BY <1>2, <2>1 DEF Spawn, NextItem, Item, Task, Versions, Status
  <2>3. Len(tasks') = Len(tasks) + 1 /\ tasks' \in Seq(Task)
    BY <2>2
  <2> QED BY <1>2, <2>3 DEF Spawn
<1>3. CASE \E i \in DOMAIN tasks : Join(i) \/ JoinPanicked(i)
  <2>1. PICK i \in DOMAIN tasks : Join(i) \/ JoinPanicked(i)
    BY <1>3
  <2>2. tasks[i] \in Task
    OBVIOUS
  <2>3. PICK t \in Task : tasks' = [tasks EXCEPT ![i] = t]
    <3>1. \A state \in {"joined", "lost"} : [tasks[i] EXCEPT !.state = state] \in Task
      BY <2>2 DEF Task
    <3>2. \E state \in {"joined", "lost"} :
            tasks' = [tasks EXCEPT ![i] = [tasks[i] EXCEPT !.state = state]]
      BY <2>1 DEF Join, JoinPanicked
    <3> QED BY <3>1, <3>2
  <2> QED BY <2>1, <2>3, OneTaskChanges DEF Join, JoinPanicked
<1>4. CASE \E i \in DOMAIN tasks : TaskStep(i)
  <2>1. PICK i \in DOMAIN tasks : TaskStep(i)
    BY <1>4
  <2>2. tasks[i] \in Task /\ queue[i] \in Item
    OBVIOUS
  <2>3. /\ [tasks[i] EXCEPT !.state = "ended"] \in Task
        /\ [tasks[i] EXCEPT !.state = "panicked"] \in Task
        /\ \A v \in Versions : [tasks[i] EXCEPT !.state = "storing", !.version = v] \in Task
        /\ \A status \in Status : [tasks[i] EXCEPT !.state = "ended", !.status = status] \in Task
    BY <2>2 DEF Task
  <2>4. tasks[i].version \in Versions
    BY <2>2 DEF Task
  <2>5. CASE ReadFile(i)
    <3>1. PICK t \in Task : tasks' = [tasks EXCEPT ![i] = t]
      <4>1. CASE disk[queue[i].name] = None
        <5>1. tasks' = [tasks EXCEPT ![i] = [tasks[i] EXCEPT !.state = "ended"]]
          BY <2>5, <4>1 DEF ReadFile
        <5> QED BY <2>3, <5>1
      <4>2. CASE disk[queue[i].name] # None
        <5>1. disk[queue[i].name] \in Versions
          BY <2>1, <2>5 DEF TextsExist, ReadFile
        <5>2. tasks' = [tasks EXCEPT ![i] =
                          [tasks[i] EXCEPT !.state = "storing", !.version = disk[queue[i].name]]]
          BY <2>5, <4>2 DEF ReadFile
        <5>3. [tasks[i] EXCEPT !.state = "storing", !.version = disk[queue[i].name]] \in Task
          BY <2>3, <5>1
        <5> QED BY <5>2, <5>3
      <4> QED BY <4>1, <4>2
    <3> QED BY <2>5, <3>1, OneTaskChanges DEF ReadFile
  <2>6. CASE StoreVersion(i)
    <3>1. PICK status \in Status :
            tasks' = [tasks EXCEPT ![i] = [tasks[i] EXCEPT !.state = "ended", !.status = status]]
      <4>1. PICK status \in Status : End(i, status)
        BY <2>6 DEF StoreVersion, Status, Success
      <4> QED BY <4>1 DEF End
    <3>2. documents' \in [Name -> Versions]
      BY <2>2, <2>4, <2>6 DEF StoreVersion, Item
    <3>3. tasks' \in Seq(Task) /\ Len(tasks') = Len(tasks)
      BY <2>3, <3>1, OneTaskChanges
    <3> QED BY <2>6, <3>2, <3>3 DEF StoreVersion, End
  <2>7. CASE TaskFails(i) \/ TaskPanics(i)
    <3>1. PICK t \in Task : tasks' = [tasks EXCEPT ![i] = t]
      <4>1. \/ tasks' = [tasks EXCEPT ![i] = [tasks[i] EXCEPT !.state = "ended", !.status = "error"]]
            \/ tasks' = [tasks EXCEPT ![i] = [tasks[i] EXCEPT !.state = "panicked"]]
        BY <2>7 DEF TaskFails, TaskPanics, End
      <4>2. [tasks[i] EXCEPT !.state = "ended", !.status = "error"] \in Task
        BY <2>3 DEF Status
      <4> QED BY <2>3, <4>1, <4>2
    <3>2. tasks' \in Seq(Task) /\ Len(tasks') = Len(tasks)
      BY <3>1, OneTaskChanges
    <3>3. documents' \in [Name -> Versions]
      BY <2>2, <2>4, <2>7 DEF TaskFails, TaskPanics, Interrupted, Item
    <3> QED BY <2>7, <3>2, <3>3 DEF TaskFails, TaskPanics, End
  <2> QED BY <2>1, <2>5, <2>6, <2>7 DEF TaskStep
<1>5. CASE \E n \in Name : DeleteOrphan(n)
  BY <1>5 DEF DeleteOrphan, Versions
<1>6. CASE \E n \in Name : Disturb(n)
  BY <1>6 DEF Disturb
<1>7. CASE ListDocuments
  BY <1>7, DirectoryAssumption DEF ListDocuments
<1>8. CASE UNCHANGED <<disk, documents, queue, tasks, permits, orphans>>
  BY <1>8
<1> QED
  BY <1>1, <1>2, <1>3, <1>4, <1>5, <1>6, <1>7, <1>8
     DEF Next, Caller, SpawnedAll, Report, ListFails, DeletedAll, vars

\* A call stays the kind of call it is.
LEMMA DirectoryStays ==
  ASSUME [Next]_vars
  PROVE  directory' = directory
<1>1. CASE Caller
  BY <1>1 DEF Caller, WalkDirectory, Spawn, SpawnedAll, Join, JoinPanicked, Report, directory,
              ListDocuments, ListFails, DeleteOrphan, DeletedAll, outside
<1>2. CASE \E i \in DOMAIN tasks : TaskStep(i)
  BY <1>2 DEF TaskStep, ReadFile, StoreVersion, TaskFails, TaskPanics, outside, directory
<1>3. CASE \E n \in Name : Disturb(n)
  BY <1>3 DEF Disturb, directory
<1> QED BY <1>1, <1>2, <1>3 DEF Next, vars, outside, directory

LEMMA TextsExistStep ==
  ASSUME WellFormed, WellFormed', TextsExist, WalkIsFirst, [Next]_vars
  PROVE  TextsExist'
<1> USE DEF TextsExist
<1>0. directory' = directory
  BY DirectoryStays
<1>1. CASE WalkDirectory
  <2>1. directory /\ tasks = <<>> /\ tasks' = tasks
    BY <1>1 DEF WalkDirectory, WalkIsFirst
  <2>2. \A i \in DOMAIN queue' : queue'[i].name \in Under
    <3>1. Discovered' \subseteq Under
      BY <1>1, WalkQueues DEF WellFormed, Visible
    <3> QED BY <3>1 DEF Discovered
  <2> QED BY <1>0, <2>1, <2>2
<1>2. CASE Spawn
  <2>1. /\ DOMAIN tasks = 1 .. Len(tasks) /\ Len(tasks) + 1 \in DOMAIN queue
        /\ DOMAIN tasks' = 1 .. Len(tasks) + 1
        /\ \A j \in 1 .. Len(tasks) : tasks'[j] = tasks[j]
        /\ tasks'[Len(tasks) + 1].state = "reading" => directory
        /\ tasks'[Len(tasks) + 1].state = "storing" =>
             /\ ~directory
             /\ tasks'[Len(tasks) + 1].version = queue[Len(tasks) + 1].version
    <3>1. PICK t :
            /\ tasks' = Append(tasks, t)
            /\ t.state = "reading" => directory
            /\ t.state = "storing" => ~directory /\ t.version = queue[Len(tasks) + 1].version
      BY <1>2 DEF Spawn, NextItem
    <3> QED BY <1>2, <3>1 DEF Spawn, WellFormed
  <2> QED BY <1>0, <1>2, <2>1 DEF Spawn
<1>3. CASE \E i \in DOMAIN tasks : Join(i) \/ JoinPanicked(i)
  <2>1. PICK i \in DOMAIN tasks : Join(i) \/ JoinPanicked(i)
    BY <1>3
  <2>2. tasks[i] \in Task
    BY DEF WellFormed
  <2>3. /\ queue' = queue /\ DOMAIN tasks' = DOMAIN tasks
        /\ tasks'[i].state \in {"joined", "lost"}
        /\ \A j \in DOMAIN tasks \ {i} : tasks'[j] = tasks[j]
    BY <2>1, <2>2 DEF Join, JoinPanicked, WellFormed, Task
  <2>4. tasks'[i].state \notin {"reading", "storing"}
    BY <2>3
  <2> QED BY <1>0, <2>3, <2>4
<1>4. CASE \E i \in DOMAIN tasks : TaskStep(i)
  <2>1. PICK i \in DOMAIN tasks : TaskStep(i)
    BY <1>4
  <2>2. tasks[i] \in Task /\ queue' = queue
    BY <2>1 DEF WellFormed, TaskStep, ReadFile, StoreVersion, TaskFails, TaskPanics
  <2>3. CASE ReadFile(i)
    <3>1. disk[queue[i].name] \in Versions
      BY <2>1, <2>3 DEF WellFormed, ReadFile
    <3>2. CASE disk[queue[i].name] = None
      BY <1>0, <2>2, <2>3, <3>2 DEF ReadFile, WellFormed, Task
    <3>3. CASE disk[queue[i].name] # None
      <4>1. /\ DOMAIN tasks' = DOMAIN tasks
            /\ tasks'[i].state = "storing" /\ tasks'[i].version = disk[queue[i].name]
            /\ \A j \in DOMAIN tasks \ {i} : tasks'[j] = tasks[j]
        BY <2>2, <2>3, <3>3 DEF ReadFile, WellFormed, Task
      <4> QED BY <1>0, <2>2, <3>1, <3>3, <4>1 DEF Versions
    <3> QED BY <3>2, <3>3
  <2>4. CASE StoreVersion(i) \/ TaskFails(i) \/ TaskPanics(i)
    <3>1. /\ DOMAIN tasks' = DOMAIN tasks
          /\ tasks'[i].state \in {"ended", "panicked"}
          /\ \A j \in DOMAIN tasks \ {i} : tasks'[j] = tasks[j]
      BY <2>2, <2>4 DEF StoreVersion, TaskFails, TaskPanics, End, WellFormed, Task
    <3>2. tasks'[i].state \notin {"reading", "storing"}
      BY <3>1
    <3> QED BY <1>0, <2>2, <3>1, <3>2
  <2> QED BY <2>1, <2>3, <2>4 DEF TaskStep
<1>5. CASE UNCHANGED <<queue, tasks>>
  BY <1>0, <1>5
<1> QED
  BY <1>1, <1>2, <1>3, <1>4, <1>5
     DEF Next, Caller, SpawnedAll, Report, ListDocuments, ListFails, DeleteOrphan,
         DeletedAll, Disturb, vars

LEMMA SeenStep ==
  ASSUME WellFormed, WalkIsFirst, SeenIsDiscovered, OrphansUndiscovered, [Next]_vars
  PROVE  WalkIsFirst' /\ SeenIsDiscovered' /\ OrphansUndiscovered'
<1>0. directory' = directory
  BY DirectoryStays
<1>1. CASE WalkDirectory
  <2>1. Discovered' = Visible /\ Visible' = Visible
    BY <1>1, WalkQueues DEF WellFormed, WalkDirectory, Visible
  <2>2. orphans' = {} /\ pc' = "spawn"
    BY <1>1 DEF WalkDirectory, WalkIsFirst
  <2> QED BY <1>0, <2>1, <2>2 DEF WalkIsFirst, SeenIsDiscovered, OrphansUndiscovered
<1>2. CASE ListDocuments
  BY <1>0, <1>2 DEF ListDocuments, WalkIsFirst, SeenIsDiscovered, OrphansUndiscovered,
              Discovered, Visible, outside
<1>3. CASE \E n \in Name : Disturb(n)
  <2>1. PICK n \in Name : Disturb(n)
    BY <1>3
  <2>2. Visible' \ disturbed' \subseteq Visible \ disturbed
    BY <2>1 DEF Disturb, Visible, WellFormed
  <2>3. Discovered' = Discovered /\ UNCHANGED <<pc, tasks, orphans>>
    BY <2>1 DEF Disturb, Discovered
  <2> QED BY <1>0, <2>2, <2>3 DEF WalkIsFirst, SeenIsDiscovered, OrphansUndiscovered
<1>4. CASE /\ UNCHANGED <<disk, queue, disturbed>> /\ orphans' \subseteq orphans
           /\ pc' = pc \/ pc' # "walk"
           /\ pc = "walk" => UNCHANGED vars
  BY <1>0, <1>4 DEF WalkIsFirst, SeenIsDiscovered, OrphansUndiscovered, Discovered, Visible, vars
<1>5. CASE Caller
  <2>1. CASE \E n \in Name : DeleteOrphan(n)
    BY <1>4, <2>1 DEF DeleteOrphan, outside
  <2> QED
    BY <1>1, <1>2, <1>4, <1>5, <2>1
       DEF Caller, Spawn, SpawnedAll, Join, JoinPanicked, Report, ListFails, DeletedAll, outside
<1>6. CASE \E i \in DOMAIN tasks : TaskStep(i)
  <2>1. UNCHANGED <<disk, queue, disturbed, orphans, pc>>
    BY <1>6 DEF TaskStep, ReadFile, StoreVersion, TaskFails, TaskPanics, outside
  <2>2. pc # "walk"
    BY <1>6 DEF WalkIsFirst
  <2> QED BY <1>4, <2>1, <2>2
<1>7. CASE UNCHANGED vars
  BY <1>4, <1>7 DEF vars, outside
<1> QED BY <1>3, <1>5, <1>6, <1>7 DEF Next

----------------------------------------------------------------------------
(* What the report and the mirror rest on.                                 *)

Joining == {"walk", "spawn", "join"}
Reporting == {"list", "delete", "done"}

\* What each task has been doing, and what of it the call knows.
TasksProceed ==
  \A i \in DOMAIN tasks :
    /\ tasks[i].status \in Success \cup {"error"}
    /\ tasks[i].state \in {"reading", "storing"} =>
         tasks[i].status = "error" /\ queue[i].name \in Supported /\ pc \in Joining
    /\ pc \in Reporting => tasks[i].state \in {"joined", "lost"}

AllSpawned == pc \in {"join"} \cup Reporting => Len(tasks) = Len(queue)

\* The call has each joined task once.
CollectedOnce ==
  /\ collected \in Seq(Nat)
  /\ Collected = {i \in DOMAIN tasks : tasks[i].state = "joined"}
  /\ \A k, l \in DOMAIN collected : collected[k] = collected[l] => k = l

Lost == IF directory THEN Cardinality(Panicked) ELSE 0
Unread == IF directory /\ Unreadable # {} THEN 1 ELSE 0

\* Until it reports, the call has counted the panicked tasks and the
\* directories it could not read.
FailuresCounted ==
  pc \in Joining =>
    /\ output.failed = Lost + IF pc = "walk" THEN 0 ELSE Unread
    /\ output.deleted = 0
    /\ output.documents = <<>>

\* The statuses of the tasks are in the report.
Place(i) == i - Cardinality(Panicked \cap 1 .. i)
ReportCoversTasks ==
  pc \in Reporting => \A i \in DOMAIN queue \ Panicked : Place(i) \in DOMAIN output.documents

\* A directory is read as it is: each file once, in the version it has unless
\* someone has touched it.
NamesDiffer ==
  directory => \A i, j \in DOMAIN queue : queue[i].name = queue[j].name => i = j

DiscoveredIsSeen ==
  directory => Discovered \ disturbed \subseteq Visible

ReadAsTheyAre ==
  directory => \A i \in DOMAIN tasks :
    queue[i].name \notin disturbed /\ (tasks[i].state = "storing" \/ tasks[i].status \in Success) =>
      tasks[i].version = disk[queue[i].name]

\* What is stored stays, as long as nobody else writes the same path.
Untouched(i) ==
  queue[i].name \notin disturbed /\ \A j \in DOMAIN queue \ {i} : queue[j].name # queue[i].name

StoredStay ==
  \A i \in DOMAIN tasks :
    tasks[i].status \in Success /\ tasks[i].state \in {"ended", "joined"} /\ Untouched(i) =>
      documents[queue[i].name] = tasks[i].version

\* Whatever the walk did not meet is deleted, listed, or has failed.
OrphansGo ==
  pc \in {"delete", "done"} /\ DeleteRemoved =>
    /\ \A n \in Under \ (Discovered \cup disturbed) :
         documents[n] = None \/ n \in orphans \/ output.failed > 0
    /\ pc = "done" => orphans = {}

\* A report without failures means that every task succeeded.
NoFailures ==
  pc \in Reporting /\ directory /\ output.failed = 0 =>
    /\ Unreadable = {}
    /\ \A i \in DOMAIN tasks : tasks[i].state = "joined" /\ tasks[i].status \in Success

ReportInv ==
  /\ TypeOK
  /\ TasksProceed
  /\ AllSpawned
  /\ CollectedOnce
  /\ FailuresCounted
  /\ ReportCoversTasks
  /\ ReportIsFaithful

MirrorInv ==
  /\ NamesDiffer
  /\ DiscoveredIsSeen
  /\ ReadAsTheyAre
  /\ StoredStay
  /\ OrphansGo
  /\ NoFailures

----------------------------------------------------------------------------
(* What the tasks do, action by action.                                    *)

\* What happens to task i, and to what goes with it.
Joined(i) ==
  /\ pc = "join" /\ tasks[i].state = "ended" /\ tasks'[i].state = "joined"
  /\ tasks'[i].status = tasks[i].status /\ tasks'[i].version = tasks[i].version
  /\ collected' = Append(collected, i) /\ UNCHANGED <<documents, output>>

JoinedPanicked(i) ==
  /\ pc = "join" /\ tasks[i].state = "panicked" /\ tasks'[i].state = "lost"
  /\ tasks'[i].status = tasks[i].status /\ tasks'[i].version = tasks[i].version
  /\ output' = IF directory THEN [output EXCEPT !.failed = @ + 1] ELSE output
  /\ UNCHANGED <<documents, collected>>

FoundNothing(i) ==
  /\ tasks[i].state = "reading" /\ tasks'[i].state = "ended"
  /\ tasks'[i].status = tasks[i].status /\ tasks'[i].version = tasks[i].version
  /\ UNCHANGED <<documents, collected, output>>

HasRead(i) ==
  /\ tasks[i].state = "reading" /\ tasks'[i].state = "storing"
  /\ tasks'[i].status = tasks[i].status /\ tasks'[i].version = disk[queue[i].name]
  /\ UNCHANGED <<documents, collected, output>>

HasStored(i) ==
  /\ tasks[i].state = "storing" /\ tasks'[i].state = "ended"
  /\ tasks'[i].status \in Success /\ tasks'[i].version = tasks[i].version
  /\ documents' = [documents EXCEPT ![queue[i].name] = tasks[i].version]
  /\ UNCHANGED <<collected, output>>

HasFailed(i) ==
  /\ tasks[i].state \in {"reading", "storing"}
  /\ \/ tasks'[i].state = "ended" /\ tasks'[i].status = "error"
     \/ tasks'[i].state = "panicked" /\ tasks'[i].status = tasks[i].status
  /\ tasks'[i].version = tasks[i].version
  /\ \/ UNCHANGED documents
     \/ /\ tasks[i].state = "storing"
        /\ documents' = [documents EXCEPT ![queue[i].name] = tasks[i].version]
  /\ UNCHANGED <<collected, output>>

OneTask(i) ==
  /\ DOMAIN tasks' = DOMAIN tasks /\ Len(tasks') = Len(tasks)
  /\ \A j \in DOMAIN tasks \ {i} : tasks'[j] = tasks[j]
  /\ UNCHANGED <<pc, queue, disk, orphans, outside>>
  /\ Joined(i) \/ JoinedPanicked(i) \/ FoundNothing(i) \/ HasRead(i) \/ HasStored(i) \/ HasFailed(i)

LEMMA TaskEffect ==
  ASSUME WellFormed, NEW i \in DOMAIN tasks, Join(i) \/ JoinPanicked(i) \/ TaskStep(i)
  PROVE  OneTask(i)
<1>1. tasks \in Seq(Task) /\ tasks[i] \in Task
  BY DEF WellFormed
<1>2. CASE Join(i)
  <2>1. Joined(i)
    BY <1>1, <1>2 DEF Join, Joined, Task
  <2> QED BY <1>1, <1>2, <2>1 DEF Join, OneTask
<1>3. CASE JoinPanicked(i)
  <2>1. JoinedPanicked(i)
    BY <1>1, <1>3 DEF JoinPanicked, JoinedPanicked, Task
  <2> QED BY <1>1, <1>3, <2>1 DEF JoinPanicked, OneTask
<1>4. CASE ReadFile(i)
  <2>1. CASE disk[queue[i].name] = None
    <3>1. FoundNothing(i)
      BY <1>1, <1>4, <2>1 DEF ReadFile, FoundNothing, Task
    <3> QED BY <1>1, <1>4, <2>1, <3>1 DEF ReadFile, OneTask
  <2>2. CASE disk[queue[i].name] # None
    <3>0. tasks' = [tasks EXCEPT ![i] =
                      [tasks[i] EXCEPT !.state = "storing", !.version = disk[queue[i].name]]]
      BY <1>4, <2>2 DEF ReadFile
    <3>1. HasRead(i)
      BY <1>1, <1>4, <2>2, <3>0 DEF ReadFile, HasRead, Task
    <3> QED BY <1>1, <1>4, <2>2, <3>1 DEF ReadFile, OneTask
  <2> QED BY <2>1, <2>2
<1>5. CASE StoreVersion(i)
  <2>1. PICK status \in Success : End(i, status)
    BY <1>5 DEF StoreVersion, Success
  <2>0. tasks' = [tasks EXCEPT ![i] = [tasks[i] EXCEPT !.state = "ended", !.status = status]]
    BY <2>1 DEF End
  <2>2. HasStored(i)
    BY <1>1, <1>5, <2>0 DEF StoreVersion, HasStored, Task
  <2> QED BY <1>1, <1>5, <2>1, <2>2 DEF StoreVersion, End, OneTask
<1>6. CASE TaskFails(i)
  <2>1. HasFailed(i)
    BY <1>1, <1>6 DEF TaskFails, Holders, Interrupted, End, HasFailed, Task
  <2> QED BY <1>1, <1>6, <2>1 DEF TaskFails, End, OneTask
<1>7. CASE TaskPanics(i)
  <2>1. HasFailed(i)
    BY <1>1, <1>7 DEF TaskPanics, Holders, Interrupted, HasFailed, Task
  <2> QED BY <1>1, <1>7, <2>1 DEF TaskPanics, OneTask
<1> QED BY <1>2, <1>3, <1>4, <1>5, <1>6, <1>7 DEF TaskStep

\* A task is added, which has done nothing yet.
OneMore(n) ==
  /\ pc = "spawn" /\ n = Len(tasks) + 1 /\ n \in DOMAIN queue /\ n \notin DOMAIN tasks
  /\ DOMAIN tasks' = DOMAIN tasks \cup {n} /\ Len(tasks') = Len(tasks) + 1
  /\ \A j \in DOMAIN tasks : tasks'[j] = tasks[j]
  /\ tasks'[n].state \in {"reading", "storing", "ended"} /\ tasks'[n].status = "error"
  /\ tasks'[n].state \in {"reading", "storing"} => queue[n].name \in Supported
  /\ tasks'[n].state = "storing" => ~directory
  /\ UNCHANGED <<disk, documents, pc, queue, collected, orphans, output, outside>>

LEMMA SpawnEffect ==
  ASSUME WellFormed, Spawn
  PROVE  OneMore(Len(tasks) + 1)
<1>1. PICK t \in Task :
        /\ tasks' = Append(tasks, t) /\ t.status = "error"
        /\ t.state \in {"reading", "storing", "ended"}
        /\ t.state \in {"reading", "storing"} => NextItem.name \in Supported
        /\ t.state = "storing" => ~directory
  <2>1. queue[Len(tasks) + 1] \in Item
    BY DEF Spawn, WellFormed
  <2> QED BY <2>1 DEF Spawn, NextItem, Item, Task, Versions, Status
<1>2. tasks \in Seq(Task) /\ Len(tasks) < Len(queue) /\ queue \in Seq(Item)
  BY DEF Spawn, WellFormed
<1> QED BY <1>1, <1>2 DEF Spawn, OneMore, NextItem

\* The other steps, which leave the tasks and the queue as they are.
Between ==
  \/ SpawnedAll \/ Report \/ ListDocuments \/ ListFails
  \/ (\E n \in Name : DeleteOrphan(n)) \/ DeletedAll
  \/ (\E n \in Name : Disturb(n))
  \/ UNCHANGED vars

LEMMA StepCases ==
  ASSUME WellFormed, WalkIsFirst, [Next]_vars
  PROVE  \/ \E i \in DOMAIN tasks : OneTask(i)
         \/ OneMore(Len(tasks) + 1)
         \/ WalkDirectory /\ tasks = <<>>
         \/ Between /\ UNCHANGED <<tasks, queue>>
<1>1. \A i \in DOMAIN tasks : Join(i) \/ JoinPanicked(i) \/ TaskStep(i) => OneTask(i)
  BY TaskEffect
<1>2. Spawn => OneMore(Len(tasks) + 1)
  BY SpawnEffect
<1>3. WalkDirectory => tasks = <<>>
  BY DEF WalkDirectory, WalkIsFirst
<1>4. Between => UNCHANGED <<tasks, queue>>
  BY DEF Between, SpawnedAll, Report, ListDocuments, ListFails, DeleteOrphan, DeletedAll, Disturb, vars
<1> QED BY <1>1, <1>2, <1>3, <1>4 DEF Next, Caller, Between

----------------------------------------------------------------------------
(* Tasks and what is collected of them.                                    *)

LEMMA TasksProceedStep ==
  ASSUME WellFormed, WalkIsFirst, TasksProceed, AllSpawned, [Next]_vars
  PROVE  TasksProceed' /\ AllSpawned'
<1>1. ASSUME NEW i \in DOMAIN tasks, OneTask(i)
      PROVE  TasksProceed' /\ AllSpawned'
  <2>1. AllSpawned' /\ queue' = queue /\ pc' = pc /\ DOMAIN tasks' = DOMAIN tasks
    BY <1>1 DEF OneTask, AllSpawned
  <2>2. \A j \in DOMAIN tasks \ {i} : tasks'[j] = tasks[j]
    BY <1>1 DEF OneTask
  <2>3. /\ tasks'[i].status \in Success \cup {"error"}
        /\ tasks'[i].state \in {"reading", "storing"} =>
             tasks'[i].status = "error" /\ queue[i].name \in Supported /\ pc \in Joining
        /\ pc \in Reporting => tasks'[i].state \in {"joined", "lost"}
    BY <1>1 DEF OneTask, TasksProceed, Joined, JoinedPanicked, FoundNothing, HasRead, HasStored,
                HasFailed, Joining, Reporting
  <2> QED BY <2>1, <2>2, <2>3 DEF TasksProceed
<1>2. CASE OneMore(Len(tasks) + 1)
  BY <1>2 DEF OneMore, TasksProceed, AllSpawned, Joining, Reporting
<1>3. CASE WalkDirectory /\ tasks = <<>>
  BY <1>3 DEF WalkDirectory, TasksProceed, AllSpawned, Reporting
<1>4. CASE Between /\ UNCHANGED <<tasks, queue>>
  <2>1. CASE SpawnedAll
    BY <1>4, <2>1 DEF SpawnedAll, TasksProceed, AllSpawned, Joining, Reporting
  <2>2. CASE Report
    <3>1. \A i \in DOMAIN tasks : tasks[i].state \notin {"reading", "storing"}
      BY <2>2 DEF Report
    <3> QED BY <1>4, <2>2, <3>1 DEF Report, TasksProceed, AllSpawned, Joining, Reporting
  <2>3. CASE ListDocuments \/ ListFails \/ (\E n \in Name : DeleteOrphan(n)) \/ DeletedAll
    <3>1. pc \in Reporting /\ pc' \in Reporting \cup {"failed"}
      BY <2>3 DEF ListDocuments, ListFails, DeleteOrphan, DeletedAll, Reporting
    <3>2. \A i \in DOMAIN tasks : tasks[i].state \notin {"reading", "storing"}
      BY <3>1 DEF TasksProceed
    <3> QED BY <1>4, <3>1, <3>2 DEF TasksProceed, AllSpawned, Reporting
  <2>4. CASE UNCHANGED pc
    BY <1>4, <2>4 DEF TasksProceed, AllSpawned
  <2>5. (\E n \in Name : Disturb(n)) \/ UNCHANGED vars => UNCHANGED pc
    BY DEF Disturb, vars
  <2> QED BY <1>4, <2>1, <2>2, <2>3, <2>4, <2>5 DEF Between
<1> QED BY <1>1, <1>2, <1>3, <1>4, StepCases

LEMMA CollectedOnceStep ==
  ASSUME WellFormed, WalkIsFirst, CollectedOnce, [Next]_vars
  PROVE  CollectedOnce'
<1>0. DOMAIN tasks = 1 .. Len(tasks) /\ Len(tasks) \in Nat
  BY DEF WellFormed
<1>1. ASSUME NEW i \in DOMAIN tasks, OneTask(i)
      PROVE  CollectedOnce'
  <2>1. /\ DOMAIN tasks' = DOMAIN tasks
        /\ \A j \in DOMAIN tasks \ {i} : tasks'[j] = tasks[j]
    BY <1>1 DEF OneTask
  <2>2. CASE Joined(i)
    <3>1. i \in Nat /\ collected \in Seq(Nat) /\ i \notin Collected
      BY <1>0, <2>2 DEF Joined, CollectedOnce
    <3>2. /\ collected' \in Seq(Nat)
          /\ DOMAIN collected' = DOMAIN collected \cup {Len(collected) + 1}
          /\ Len(collected) + 1 \notin DOMAIN collected
          /\ collected'[Len(collected) + 1] = i
          /\ \A k \in DOMAIN collected : collected'[k] = collected[k]
      BY <2>2, <3>1 DEF Joined
    <3>3. Collected' = Collected \cup {i}
      BY <3>2 DEF Collected
    <3>4. \A k, l \in DOMAIN collected' : collected'[k] = collected'[l] => k = l
      BY <3>1, <3>2 DEF Collected, CollectedOnce
    <3>5. {j \in DOMAIN tasks' : tasks'[j].state = "joined"} =
            {j \in DOMAIN tasks : tasks[j].state = "joined"} \cup {i}
      BY <2>1, <2>2 DEF Joined
    <3> QED BY <3>2, <3>3, <3>4, <3>5 DEF CollectedOnce
  <2>3. CASE ~Joined(i)
    <3>1. collected' = collected /\ tasks[i].state # "joined" /\ tasks'[i].state # "joined"
      BY <1>1, <2>3 DEF OneTask, JoinedPanicked, FoundNothing, HasRead, HasStored, HasFailed
    <3>2. {j \in DOMAIN tasks' : tasks'[j].state = "joined"} =
            {j \in DOMAIN tasks : tasks[j].state = "joined"}
      BY <2>1, <3>1
    <3> QED BY <3>1, <3>2 DEF CollectedOnce, Collected
  <2> QED BY <2>2, <2>3
<1>2. CASE OneMore(Len(tasks) + 1)
  <2>1. collected' = collected /\ {j \in DOMAIN tasks' : tasks'[j].state = "joined"} =
          {j \in DOMAIN tasks : tasks[j].state = "joined"}
    BY <1>2 DEF OneMore
  <2> QED BY <2>1 DEF CollectedOnce, Collected
<1>3. CASE UNCHANGED <<tasks, collected>>
  BY <1>3 DEF CollectedOnce, Collected
<1>4. WalkDirectory \/ Between => UNCHANGED <<tasks, collected>>
  BY DEF WalkDirectory, Between, SpawnedAll, Report, ListDocuments, ListFails, DeleteOrphan,
         DeletedAll, Disturb, vars
<1> QED BY <1>1, <1>2, <1>3, <1>4, StepCases

----------------------------------------------------------------------------
(* Putting in order.                                                       *)

\* In a set of numbers each has a place, and every place is taken.
LEMMA PlacesInOrder ==
  ASSUME NEW n \in Nat, NEW C \in SUBSET (1 .. n)
  PROVE  /\ Cardinality(C) \in Nat
         /\ \A i \in C : Cardinality(C \cap 1 .. i) \in 1 .. Cardinality(C)
         /\ \A i, j \in C : i < j => Cardinality(C \cap 1 .. i) < Cardinality(C \cap 1 .. j)
         /\ \A k \in 1 .. Cardinality(C) : \E i \in C : Cardinality(C \cap 1 .. i) = k
<1>1. IsFiniteSet(C) /\ Cardinality(C) \in Nat
  <2>1. IsFiniteSet(1 .. n)
    BY FS_Interval
  <2> QED BY <2>1, FS_Subset, FS_CardinalityType
<1>2. \A i \in C : IsFiniteSet(C \cap 1 .. i) /\ Cardinality(C \cap 1 .. i) \in 1 .. Cardinality(C)
  <2> SUFFICES ASSUME NEW i \in C
               PROVE  IsFiniteSet(C \cap 1 .. i) /\ Cardinality(C \cap 1 .. i) \in 1 .. Cardinality(C)
    OBVIOUS
  <2>1. C \cap 1 .. i \in SUBSET C /\ i \in C \cap 1 .. i
    OBVIOUS
  <2>2. /\ IsFiniteSet(C \cap 1 .. i) /\ Cardinality(C \cap 1 .. i) <= Cardinality(C)
        /\ Cardinality(C \cap 1 .. i) \in Nat /\ Cardinality(C \cap 1 .. i) # 0
    BY <1>1, <2>1, FS_Subset, FS_CardinalityType, FS_EmptySet
  <2> QED BY <1>1, <2>2
<1>3. \A i, j \in C : i < j => Cardinality(C \cap 1 .. i) < Cardinality(C \cap 1 .. j)
  <2> SUFFICES ASSUME NEW i \in C, NEW j \in C, i < j
               PROVE  Cardinality(C \cap 1 .. i) < Cardinality(C \cap 1 .. j)
    OBVIOUS
  <2>1. C \cap 1 .. i \in SUBSET (C \cap 1 .. j) /\ j \in C \cap 1 .. j /\ j \notin C \cap 1 .. i
    OBVIOUS
  <2>2. /\ Cardinality(C \cap 1 .. i) <= Cardinality(C \cap 1 .. j)
        /\ Cardinality(C \cap 1 .. i) # Cardinality(C \cap 1 .. j)
    BY <1>2, <2>1, FS_Subset
  <2> QED BY <1>2, <2>2
<1>4. \A k \in 1 .. Cardinality(C) : \E i \in C : Cardinality(C \cap 1 .. i) = k
  <2> DEFINE place == [i \in C |-> Cardinality(C \cap 1 .. i)]
  <2>1. place \in [C -> 1 .. Cardinality(C)]
    BY <1>2
  <2>2. \A i, j \in C : place[i] = place[j] => i = j
    <3> SUFFICES ASSUME NEW i \in C, NEW j \in C, i # j PROVE place[i] # place[j]
      OBVIOUS
    <3>1. i < j \/ j < i
      OBVIOUS
    <3> QED BY <1>2, <1>3, <3>1
  <2>3. place \in Injection(C, 1 .. Cardinality(C))
    BY <2>1, <2>2 DEF Injection, IsInjective
  <2>4. IsFiniteSet(1 .. Cardinality(C)) /\ Cardinality(1 .. Cardinality(C)) = Cardinality(C)
    BY <1>1, FS_Interval
  <2>5. place \in Surjection(C, 1 .. Cardinality(C))
    <3> HIDE DEF place
    <3> QED BY <2>3, <2>4, FS_Injection
  <2> QED BY <2>5 DEF Surjection
<1> QED BY <1>1, <1>2, <1>3, <1>4

\* Two sets are as large as each other if one goes one to one onto the other.
LEMMA SameSize ==
  ASSUME NEW S, NEW T, IsFiniteSet(S), NEW f \in [S -> T],
         \A x, y \in S : f[x] = f[y] => x = y,
         \A y \in T : \E x \in S : f[x] = y
  PROVE  Cardinality(T) = Cardinality(S)
<1>1. f \in Bijection(S, T)
  BY DEF Bijection, Injection, Surjection, IsInjective
<1> QED BY <1>1, FS_Bijection DEF ExistsBijection

JoinedWith(status) == {i \in Collected : tasks[i].status = status}

\* Sorted has each joined task once, in the order of the queue.
LEMMA SortedInOrder ==
  ASSUME WellFormed, CollectedOnce
  PROVE  /\ Collected \in SUBSET (1 .. Len(tasks))
         /\ DOMAIN Sorted = 1 .. Cardinality(Collected)
         /\ \A k \in DOMAIN Sorted : Sorted[k] \in Collected
         /\ \A i \in Collected : /\ Cardinality(Collected \cap 1 .. i) \in DOMAIN Sorted
                                /\ Sorted[Cardinality(Collected \cap 1 .. i)] = i
         /\ \A k, l \in DOMAIN Sorted : Sorted[k] = Sorted[l] => k = l
<1>1. Len(tasks) \in Nat /\ Collected \in SUBSET (1 .. Len(tasks))
  BY DEF WellFormed, CollectedOnce
<1>2. DOMAIN collected = 1 .. Len(collected) /\ Len(collected) \in Nat
  BY DEF CollectedOnce
<1>3. Cardinality(Collected) = Len(collected)
  <2>1. IsFiniteSet(DOMAIN collected) /\ Cardinality(DOMAIN collected) = Len(collected)
    <3>1. /\ IsFiniteSet(1 .. Len(collected))
          /\ Cardinality(1 .. Len(collected)) = IF 1 > Len(collected) THEN 0 ELSE Len(collected) - 1 + 1
      BY <1>2, FS_Interval
    <3> QED BY <1>2, <3>1
  <2>2. collected \in [DOMAIN collected -> Collected]
    BY DEF CollectedOnce, Collected
  <2>3. \A i \in Collected : \E k \in DOMAIN collected : collected[k] = i
    BY DEF Collected
  <2>4. \A k, l \in DOMAIN collected : collected[k] = collected[l] => k = l
    BY DEF CollectedOnce
  <2> QED BY <2>1, <2>2, <2>3, <2>4, SameSize
<1>4. DOMAIN Sorted = 1 .. Cardinality(Collected)
  BY <1>2, <1>3 DEF Sorted
<1>5. \A k \in DOMAIN Sorted : Sorted[k] \in Collected /\ Cardinality(Collected \cap 1 .. Sorted[k]) = k
  <2> SUFFICES ASSUME NEW k \in DOMAIN Sorted
               PROVE  Sorted[k] \in Collected /\ Cardinality(Collected \cap 1 .. Sorted[k]) = k
    OBVIOUS
  <2>1. \E i \in Collected : Cardinality(Collected \cap 1 .. i) = k
    BY <1>1, <1>4, PlacesInOrder
  <2>2. Sorted[k] = CHOOSE i \in Collected : Cardinality(Collected \cap 1 .. i) = k
    BY DEF Sorted
  <2> QED BY <2>1, <2>2
<1>6. \A i \in Collected : /\ Cardinality(Collected \cap 1 .. i) \in DOMAIN Sorted
                         /\ Sorted[Cardinality(Collected \cap 1 .. i)] = i
  <2> SUFFICES ASSUME NEW i \in Collected
               PROVE  /\ Cardinality(Collected \cap 1 .. i) \in DOMAIN Sorted
                      /\ Sorted[Cardinality(Collected \cap 1 .. i)] = i
    OBVIOUS
  <2>1. Cardinality(Collected \cap 1 .. i) \in DOMAIN Sorted
    BY <1>1, <1>4, PlacesInOrder
  <2> DEFINE j == Sorted[Cardinality(Collected \cap 1 .. i)]
  <2>2. j \in Collected /\ Cardinality(Collected \cap 1 .. j) = Cardinality(Collected \cap 1 .. i)
    BY <1>5, <2>1
  <2> HIDE DEF j
  <2>3. i \in Int /\ j \in Int
    BY <1>1, <2>2
  <2>4. /\ Cardinality(Collected \cap 1 .. i) \in 1 .. Cardinality(Collected)
        /\ Cardinality(Collected \cap 1 .. j) \in 1 .. Cardinality(Collected)
        /\ i < j => Cardinality(Collected \cap 1 .. i) < Cardinality(Collected \cap 1 .. j)
        /\ j < i => Cardinality(Collected \cap 1 .. j) < Cardinality(Collected \cap 1 .. i)
    BY <1>1, <2>2, PlacesInOrder
  <2> QED BY <2>1, <2>2, <2>3, <2>4 DEF j
<1> QED BY <1>1, <1>4, <1>5, <1>6

\* As many are counted with a status as the sorted statuses have.
LEMMA EndedIsSorted ==
  ASSUME WellFormed, CollectedOnce, NEW status
  PROVE  Ended(status) = Cardinality({k \in DOMAIN Sorted : tasks[Sorted[k]].status = status})
<1> DEFINE S == {k \in DOMAIN collected : tasks[collected[k]].status = status}
           T == {k \in DOMAIN Sorted : tasks[Sorted[k]].status = status}
<1>1. Cardinality(JoinedWith(status)) = Cardinality(S)
  <2> DEFINE f == [k \in S |-> collected[k]]
  <2>1. IsFiniteSet(S)
    <3>1. DOMAIN collected = 1 .. Len(collected) /\ Len(collected) \in Nat
      BY DEF CollectedOnce
    <3>2. IsFiniteSet(DOMAIN collected)
      BY <3>1, FS_Interval
    <3> QED BY <3>2, FS_Subset
  <2>2. f \in [S -> JoinedWith(status)]
    BY DEF JoinedWith, Collected
  <2>3. \A x, y \in S : f[x] = f[y] => x = y
    BY DEF CollectedOnce
  <2>4. \A y \in JoinedWith(status) : \E x \in S : f[x] = y
    BY DEF JoinedWith, Collected
  <2> HIDE DEF S, f
  <2> QED BY <2>1, <2>2, <2>3, <2>4, SameSize
<1>2. Cardinality(JoinedWith(status)) = Cardinality(T)
  <2> DEFINE f == [k \in T |-> Sorted[k]]
  <2>1. IsFiniteSet(T)
    <3>1. IsFiniteSet(DOMAIN Sorted)
      <4>1. Cardinality(Collected) \in Nat
        <5>1. Len(tasks) \in Nat /\ Collected \in SUBSET (1 .. Len(tasks))
          BY SortedInOrder DEF WellFormed
        <5> QED BY <5>1, PlacesInOrder
      <4> QED BY <4>1, SortedInOrder, FS_Interval
    <3> QED BY <3>1, FS_Subset
  <2>2. f \in [T -> JoinedWith(status)]
    BY SortedInOrder DEF JoinedWith
  <2>3. \A x, y \in T : f[x] = f[y] => x = y
    BY SortedInOrder
  <2>4. \A y \in JoinedWith(status) : \E x \in T : f[x] = y
    BY SortedInOrder DEF JoinedWith
  <2> HIDE DEF T, f
  <2> QED BY <2>1, <2>2, <2>3, <2>4, SameSize
<1> QED BY <1>1, <1>2 DEF Ended

----------------------------------------------------------------------------
(* The report.                                                             *)

LEMMA PanickedAreFew ==
  ASSUME WellFormed
  PROVE  IsFiniteSet(Panicked) /\ Cardinality(Panicked) \in Nat
<1>1. DOMAIN tasks = 1 .. Len(tasks) /\ Len(tasks) \in Nat
  BY DEF WellFormed
<1>2. IsFiniteSet(DOMAIN tasks)
  BY <1>1, FS_Interval
<1> QED BY <1>2, FS_Subset, FS_CardinalityType DEF Panicked

\* One more line is one more of its status.
LEMMA PushCounts ==
  ASSUME output \in Output, NEW n \in Name, NEW status \in {"deleted", "error"}, Push(n, status)
  PROVE  /\ output' \in Output
         /\ output'.added = output.added /\ output'.updated = output.updated
         /\ output'.unchanged = output.unchanged
         /\ output'.deleted = IF status = "deleted" THEN output.deleted + 1 ELSE output.deleted
         /\ output'.failed = IF status = "error" THEN output.failed + 1 ELSE output.failed
         /\ \A k \in DOMAIN output.documents :
              k \in DOMAIN output'.documents /\ output'.documents[k] = output.documents[k]
         /\ \A any : /\ Reported(any) \in Nat
                     /\ Reported(any)' = IF any = status THEN Reported(any) + 1 ELSE Reported(any)
<1> DEFINE docs == output.documents
           entry == [name |-> n, status |-> status]
           more == Len(docs) + 1
<1>1. docs \in Seq(Entry) /\ entry \in Entry
  BY DEF Output, Entry, Status
<1>2. /\ output' = [output EXCEPT
            !.deleted = IF status = "deleted" THEN @ + 1 ELSE @,
            !.failed = IF status = "error" THEN @ + 1 ELSE @,
            !.documents = Append(@, entry)]
  BY DEF Push
<1>3. output'.documents = Append(docs, entry)
  BY <1>2 DEF Output
<1>4. /\ output' \in Output
      /\ output'.added = output.added /\ output'.updated = output.updated
      /\ output'.unchanged = output.unchanged
      /\ output'.deleted = IF status = "deleted" THEN output.deleted + 1 ELSE output.deleted
      /\ output'.failed = IF status = "error" THEN output.failed + 1 ELSE output.failed
  <2>1. Append(docs, entry) \in Seq(Entry)
    BY <1>1
  <2> DEFINE deleted == IF status = "deleted" THEN output.deleted + 1 ELSE output.deleted
             failed == IF status = "error" THEN output.failed + 1 ELSE output.failed
             listed == Append(docs, entry)
  <2>2. deleted \in Nat /\ failed \in Nat
    BY DEF Output
  <2>3. output' = [output EXCEPT !.deleted = deleted, !.failed = failed, !.documents = listed]
    BY <1>2
  <2> HIDE DEF deleted, failed, listed
  <2>4. /\ output' \in Output
        /\ output'.added = output.added /\ output'.updated = output.updated
        /\ output'.unchanged = output.unchanged
        /\ output'.deleted = deleted /\ output'.failed = failed
    BY <2>1, <2>2, <2>3 DEF Output, listed
  <2> QED BY <2>4 DEF deleted, failed
<1>5. /\ DOMAIN output'.documents = DOMAIN docs \cup {more} /\ more \notin DOMAIN docs
      /\ output'.documents[more] = entry
      /\ \A k \in DOMAIN docs : output'.documents[k] = docs[k]
  <2> HIDE DEF entry
  <2> QED BY <1>1, <1>3
<1>6. ASSUME NEW any
      PROVE  /\ Reported(any) \in Nat
             /\ Reported(any)' = IF any = status THEN Reported(any) + 1 ELSE Reported(any)
  <2> DEFINE with == {k \in DOMAIN docs : docs[k].status = any}
  <2>1. IsFiniteSet(with) /\ Cardinality(with) \in Nat
    <3>1. DOMAIN docs = 1 .. Len(docs) /\ Len(docs) \in Nat
      BY <1>1
    <3>2. IsFiniteSet(DOMAIN docs)
      BY <3>1, FS_Interval
    <3> QED BY <3>2, FS_Subset, FS_CardinalityType
  <2>2. Reported(any) = Cardinality(with)
    BY DEF Reported
  <2>3. {k \in DOMAIN output'.documents : output'.documents[k].status = any} =
          IF any = status THEN with \cup {more} ELSE with
    BY <1>5
  <2>4. Reported(any)' = Cardinality(IF any = status THEN with \cup {more} ELSE with)
    BY <2>3 DEF Reported
  <2>5. Cardinality(with \cup {more}) = Cardinality(with) + 1
    BY <1>5, <2>1, FS_AddElement
  <2> QED BY <2>1, <2>2, <2>4, <2>5
<1> QED BY <1>4, <1>5, <1>6

\* What Report writes is faithful.
LEMMA ReportWrites ==
  ASSUME WellFormed, TasksProceed, AllSpawned, CollectedOnce, FailuresCounted, output \in Output, Report
  PROVE  output' \in Output /\ ReportCoversTasks' /\ ReportIsFaithful'
<1> DEFINE docs == [k \in DOMAIN Sorted |->
                     [name |-> queue[Sorted[k]].name, status |-> tasks[Sorted[k]].status]]
<1>1. /\ output' = [output EXCEPT
           !.added = Ended("created"), !.updated = Ended("updated"),
           !.unchanged = Ended("unchanged"), !.failed = @ + Ended("error"),
           !.documents = docs]
      /\ pc = "join" /\ pc' \in {"list", "done"}
      /\ UNCHANGED <<queue, tasks, call>>
      /\ \A i \in DOMAIN tasks : tasks[i].state \in {"joined", "lost"}
  BY DEF Report, outside
<1>2. /\ DOMAIN tasks = 1 .. Len(tasks) /\ DOMAIN queue = DOMAIN tasks /\ Len(tasks) \in Nat
      /\ \A i \in DOMAIN tasks : queue[i].name \in Name /\ tasks[i].status \in Success \cup {"error"}
  <2>1. Len(tasks) = Len(queue)
    BY <1>1 DEF AllSpawned
  <2>2. /\ DOMAIN tasks = 1 .. Len(tasks) /\ DOMAIN queue = 1 .. Len(queue) /\ Len(tasks) \in Nat
        /\ \A i \in DOMAIN queue : queue[i] \in Item
    BY DEF WellFormed
  <2> QED BY <2>1, <2>2 DEF TasksProceed, Item
<1>3. Collected \in SUBSET (1 .. Len(tasks)) /\ Collected = DOMAIN queue \ Panicked
  BY <1>1, <1>2 DEF CollectedOnce, Panicked
<1>4. /\ DOMAIN docs = 1 .. Cardinality(Collected) /\ Cardinality(Collected) \in Nat
      /\ \A k \in DOMAIN docs : Sorted[k] \in DOMAIN tasks
  BY <1>2, <1>3, SortedInOrder, PlacesInOrder
<1>5. docs \in Seq(Entry)
  <2>1. \A k \in DOMAIN docs : docs[k] \in Entry
    BY <1>2, <1>4 DEF Entry, Status
  <2> HIDE DEF docs
  <2>2. docs = [k \in 1 .. Cardinality(Collected) |-> docs[k]]
    BY <1>4 DEF docs
  <2> QED BY <1>4, <2>1, <2>2
<1>6. \A status : Ended(status) \in Nat /\ Reported(status)' = Ended(status)
  <2> SUFFICES ASSUME NEW status PROVE Ended(status) \in Nat /\ Reported(status)' = Ended(status)
    OBVIOUS
  <2>1. output'.documents = docs
    BY <1>1 DEF Output
  <2>2. {k \in DOMAIN docs : docs[k].status = status} =
          {k \in DOMAIN Sorted : tasks[Sorted[k]].status = status}
    OBVIOUS
  <2>3. Reported(status)' = Ended(status)
    BY <2>1, <2>2, EndedIsSorted DEF Reported
  <2>4. IsFiniteSet(DOMAIN collected)
    <3>1. DOMAIN collected = 1 .. Len(collected) /\ Len(collected) \in Nat
      BY DEF CollectedOnce
    <3> QED BY <3>1, FS_Interval
  <2>5. Ended(status) \in Nat
    BY <2>4, FS_Subset, FS_CardinalityType DEF Ended
  <2> QED BY <2>3, <2>5
<1>7. Ended("deleted") = 0
  <2>1. {k \in DOMAIN collected : tasks[collected[k]].status = "deleted"} = {}
    BY <1>2, <1>3 DEF Collected, Success
  <2> QED BY <2>1, FS_EmptySet DEF Ended
<1> HIDE DEF docs
<1>8. /\ output' \in Output /\ output'.documents = docs
      /\ output'.added = Ended("created") /\ output'.updated = Ended("updated")
      /\ output'.unchanged = Ended("unchanged") /\ output'.failed = output.failed + Ended("error")
      /\ output'.deleted = output.deleted
  <2> DEFINE failed == output.failed + Ended("error")
  <2>1. failed \in Nat
    BY <1>6 DEF Output
  <2>2. output' = [output EXCEPT
           !.added = Ended("created"), !.updated = Ended("updated"),
           !.unchanged = Ended("unchanged"), !.failed = failed, !.documents = docs]
    BY <1>1
  <2> HIDE DEF failed
  <2>3. /\ output' \in Output /\ output'.documents = docs
        /\ output'.added = Ended("created") /\ output'.updated = Ended("updated")
        /\ output'.unchanged = Ended("unchanged") /\ output'.failed = failed
        /\ output'.deleted = output.deleted
    BY <1>5, <1>6, <2>1, <2>2 DEF Output
  <2> QED BY <2>3 DEF failed
<1>9. CountsAddUp'
  <2>1. Panicked' = Panicked /\ directory' = directory
    BY <1>1 DEF Panicked, directory
  <2>2. output.failed = Lost + Unread /\ output.deleted = 0
    BY <1>1 DEF FailuresCounted, Joining
  <2> QED BY <1>6, <1>7, <1>8, <2>1, <2>2, PanickedAreFew DEF CountsAddUp, Lost, Unread
<1>10. \A i \in DOMAIN queue \ Panicked : Place(i) = Cardinality(Collected \cap 1 .. i)
  <2> SUFFICES ASSUME NEW i \in DOMAIN queue \ Panicked
               PROVE  Place(i) = Cardinality(Collected \cap 1 .. i)
    OBVIOUS
  <2>1. i \in Nat \ {0} /\ 1 .. i \subseteq DOMAIN queue
    BY <1>2
  <2>2. IsFiniteSet(1 .. i) /\ Cardinality(1 .. i) = i
    BY <2>1, FS_Interval
  <2>3. Collected \cap 1 .. i = (1 .. i) \ Panicked
    BY <1>3, <2>1
  <2>4. (1 .. i) \cap Panicked = Panicked \cap 1 .. i
    OBVIOUS
  <2> QED BY <2>2, <2>3, <2>4, FS_Difference DEF Place
<1>11. \A i \in DOMAIN queue \ Panicked :
         /\ Place(i) \in DOMAIN docs
         /\ docs[Place(i)] = [name |-> queue[i].name, status |-> tasks[i].status]
         /\ \A j \in DOMAIN queue \ Panicked : i < j => Place(i) < Place(j)
  <2> SUFFICES ASSUME NEW i \in Collected
               PROVE  /\ Place(i) \in DOMAIN docs
                      /\ docs[Place(i)] = [name |-> queue[i].name, status |-> tasks[i].status]
                      /\ \A j \in Collected : i < j => Place(i) < Place(j)
    BY <1>3
  <2>1. DOMAIN docs = DOMAIN Sorted
    BY DEF docs
  <2>2. Place(i) \in DOMAIN Sorted /\ Sorted[Place(i)] = i
    BY <1>3, <1>10, SortedInOrder
  <2>3. \A j \in Collected : i < j => Place(i) < Place(j)
    <3>1. \A a, b \in Collected : a < b => Cardinality(Collected \cap 1 .. a) < Cardinality(Collected \cap 1 .. b)
      BY <1>2, <1>3, PlacesInOrder
    <3> QED BY <1>3, <1>10, <3>1
  <2> QED BY <2>1, <2>2, <2>3 DEF docs
<1>12. Panicked' = Panicked
  BY <1>1 DEF Panicked
<1>13. ReportCoversTasks'
  BY <1>1, <1>8, <1>11, <1>12 DEF ReportCoversTasks, Place
<1>14. ReportedInOrder'
  BY <1>1, <1>8, <1>11, <1>12 DEF ReportedInOrder, Place
<1> QED BY <1>8, <1>9, <1>13, <1>14 DEF ReportIsFaithful

LEMMA FailuresCountedStep ==
  ASSUME WellFormed, WellFormed', WalkIsFirst, output \in Output, FailuresCounted, [Next]_vars
  PROVE  FailuresCounted'
<1>0. directory' = directory /\ Unread \in Nat /\ Lost \in Nat
  BY DirectoryStays, PanickedAreFew DEF Unread, Lost
<1>1. ASSUME NEW i \in DOMAIN tasks, OneTask(i)
      PROVE  FailuresCounted'
  <2>1. /\ DOMAIN tasks' = DOMAIN tasks /\ pc' = pc
        /\ \A j \in DOMAIN tasks \ {i} : tasks'[j] = tasks[j]
    BY <1>1 DEF OneTask
  <2>2. CASE JoinedPanicked(i)
    <3>1. i \notin Panicked /\ Panicked' = Panicked \cup {i}
      BY <2>1, <2>2 DEF JoinedPanicked, Panicked
    <3>2. Cardinality(Panicked') = Cardinality(Panicked) + 1
      BY <3>1, PanickedAreFew, FS_AddElement
    <3>3. /\ output'.failed = IF directory THEN output.failed + 1 ELSE output.failed
          /\ output'.deleted = output.deleted /\ output'.documents = output.documents
      BY <2>2 DEF JoinedPanicked, Output
    <3> QED BY <1>0, <2>1, <2>2, <3>2, <3>3, PanickedAreFew DEF FailuresCounted, Lost, Unread, JoinedPanicked
  <2>3. CASE ~JoinedPanicked(i)
    <3>1. output' = output /\ (tasks'[i].state = "lost" <=> tasks[i].state = "lost")
      BY <1>1, <2>3 DEF OneTask, Joined, FoundNothing, HasRead, HasStored, HasFailed
    <3>2. Panicked' = Panicked
      BY <2>1, <3>1 DEF Panicked
    <3> QED BY <1>0, <2>1, <3>1, <3>2 DEF FailuresCounted, Lost, Unread
  <2> QED BY <2>2, <2>3
<1>2. CASE OneMore(Len(tasks) + 1)
  <2>1. Panicked' = Panicked
    BY <1>2 DEF OneMore, Panicked
  <2> QED BY <1>0, <1>2, <2>1 DEF OneMore, FailuresCounted, Lost, Unread
<1>3. CASE WalkDirectory /\ tasks = <<>>
  <2>1. /\ output'.failed = IF Unreadable = {} THEN 0 ELSE 1
        /\ output'.deleted = output.deleted /\ output'.documents = output.documents
    BY <1>3 DEF WalkDirectory, Output
  <2>2. pc = "walk" /\ pc' = "spawn" /\ tasks' = tasks /\ directory
    BY <1>3 DEF WalkDirectory, WalkIsFirst
  <2>3. Panicked = {} /\ Panicked' = {}
    BY <1>3, <2>2 DEF Panicked
  <2>4. Lost' = 0
    BY <2>3, FS_EmptySet DEF Lost
  <2>5. Unread' = output'.failed
    BY <1>0, <2>1, <2>2 DEF Unread
  <2>6. output.deleted = 0 /\ output.documents = <<>> /\ Unread' \in Nat
    BY <1>0, <2>1, <2>2, <2>5 DEF FailuresCounted, Joining
  <2> QED BY <2>1, <2>2, <2>4, <2>5, <2>6 DEF FailuresCounted
<1>4. CASE Between /\ UNCHANGED <<tasks, queue>>
  <2>1. \/ pc' \notin Joining
        \/ UNCHANGED <<output, pc>>
        \/ pc = "spawn" /\ pc' = "join" /\ UNCHANGED output
    <3>1. CASE SpawnedAll
      BY <3>1 DEF SpawnedAll
    <3>2. CASE Report
      BY <3>2 DEF Report, Joining
    <3>3. CASE ListDocuments \/ ListFails \/ DeletedAll
      BY <3>3 DEF ListDocuments, ListFails, DeletedAll, Joining
    <3>4. CASE \E n \in Name : DeleteOrphan(n)
      BY <3>4 DEF DeleteOrphan, Joining
    <3>5. CASE \E n \in Name : Disturb(n)
      BY <3>5 DEF Disturb
    <3>6. CASE UNCHANGED vars
      BY <3>6 DEF vars
    <3> QED BY <1>4, <3>1, <3>2, <3>3, <3>4, <3>5, <3>6 DEF Between
  <2>2. Panicked' = Panicked
    BY <1>4 DEF Panicked
  <2> QED BY <1>0, <2>1, <2>2 DEF FailuresCounted, Lost, Unread, Joining
<1> QED BY <1>1, <1>2, <1>3, <1>4, StepCases

LEMMA ReportStep ==
  ASSUME WellFormed, WellFormed', WalkIsFirst, TasksProceed, AllSpawned, CollectedOnce, FailuresCounted,
         output \in Output, ReportCoversTasks, ReportIsFaithful, [Next]_vars
  PROVE  output' \in Output /\ ReportCoversTasks' /\ ReportIsFaithful'
<1>0. directory' = directory
  BY DirectoryStays
<1> USE DEF ReportIsFaithful
<1>1. ASSUME NEW i \in DOMAIN tasks, OneTask(i)
      PROVE  output' \in Output /\ ReportCoversTasks' /\ ReportIsFaithful'
  <2>1. output' \in Output
    BY <1>1 DEF OneTask, Joined, JoinedPanicked, FoundNothing, HasRead, HasStored, HasFailed, Output
  <2>2. pc' = pc /\ pc \notin Reporting
    BY <1>1 DEF OneTask, Joined, JoinedPanicked, FoundNothing, HasRead, HasStored, HasFailed,
                TasksProceed, Joining, Reporting
  <2> QED BY <2>1, <2>2 DEF ReportCoversTasks, CountsAddUp, ReportedInOrder, Reporting
<1>2. CASE OneMore(Len(tasks) + 1)
  BY <1>2 DEF OneMore, ReportCoversTasks, CountsAddUp, ReportedInOrder, Reporting
<1>3. CASE WalkDirectory
  <2>1. output' \in Output
    BY <1>3 DEF WalkDirectory, Output
  <2> QED BY <1>3, <2>1 DEF WalkDirectory, ReportCoversTasks, CountsAddUp, ReportedInOrder, Reporting
<1>4. CASE Report
  BY <1>4, ReportWrites
<1>5. ASSUME NEW n \in Name, DeleteOrphan(n)
      PROVE  output' \in Output /\ ReportCoversTasks' /\ ReportIsFaithful'
  <2>1. pc = "delete" /\ pc' = "delete" /\ Panicked' = Panicked /\ queue' = queue /\ tasks' = tasks
    BY <1>5 DEF DeleteOrphan, Panicked
  <2>2. CASE output' = output
    <3>1. \A any : Reported(any)' = Reported(any)
      BY <2>2 DEF Reported
    <3> QED BY <1>0, <2>1, <2>2, <3>1
            DEF ReportCoversTasks, CountsAddUp, ReportedInOrder, Reporting, Place
  <2>3. ASSUME NEW status \in {"deleted", "error"}, Push(n, status)
        PROVE  output' \in Output /\ ReportCoversTasks' /\ ReportIsFaithful'
    <3>1. CountsAddUp'
      BY <1>0, <2>1, <2>3, PushCounts, PanickedAreFew DEF CountsAddUp
    <3>2. ReportCoversTasks'
      BY <2>1, <2>3, PushCounts DEF ReportCoversTasks, Reporting, Place
    <3>3. ReportedInOrder'
      <4>1. \A i \in DOMAIN queue \ Panicked : output'.documents[Place(i)] = output.documents[Place(i)]
        BY <2>1, <2>3, PushCounts DEF ReportCoversTasks, Reporting
      <4> QED BY <2>1, <4>1 DEF ReportedInOrder, Place
    <3> QED BY <2>3, <3>1, <3>2, <3>3, PushCounts
  <2> QED BY <1>5, <2>2, <2>3 DEF DeleteOrphan
<1>6. CASE /\ UNCHANGED <<tasks, queue, output>>
           /\ pc' \in Reporting => pc \in Reporting
  <2>1. Panicked' = Panicked /\ \A any : Reported(any)' = Reported(any)
    BY <1>6 DEF Panicked, Reported
  <2> QED BY <1>0, <1>6, <2>1 DEF ReportCoversTasks, CountsAddUp, ReportedInOrder, Reporting, Place
<1>7. CASE Between /\ UNCHANGED <<tasks, queue>>
  BY <1>4, <1>5, <1>6, <1>7
     DEF Between, SpawnedAll, ListDocuments, ListFails, DeletedAll, Disturb, vars, Reporting
<1> QED BY <1>1, <1>2, <1>3, <1>7, StepCases

LEMMA TypeStep ==
  ASSUME WellFormed, WellFormed', WalkIsFirst, TasksProceed, TypeOK, output' \in Output, CollectedOnce',
         [Next]_vars
  PROVE  TypeOK'
<1>1. call' \in {"sync", "directory", "batch"} /\ changes' \in Nat /\ disturbed' \subseteq Name
  <2>1. CASE UNCHANGED outside
    BY <2>1 DEF outside, TypeOK
  <2>2. CASE \E n \in Name : Disturb(n)
    BY <2>2 DEF Disturb, TypeOK
  <2>3. (\E i \in DOMAIN tasks : OneTask(i)) \/ OneMore(Len(tasks) + 1) => UNCHANGED outside
    BY DEF OneTask, OneMore
  <2>4. WalkDirectory \/ SpawnedAll \/ Report \/ ListDocuments \/ ListFails \/ DeletedAll
          \/ (\E n \in Name : DeleteOrphan(n)) \/ UNCHANGED vars => UNCHANGED outside
    BY DEF WalkDirectory, SpawnedAll, Report, ListDocuments, ListFails, DeletedAll, DeleteOrphan, vars
  <2> QED BY <2>1, <2>2, <2>3, <2>4, StepCases DEF Between
<1>2. pc' \in {"walk", "spawn", "join", "list", "delete", "done", "failed"}
  <2>1. pc' = pc \/ pc' \in {"spawn", "join", "list", "delete", "done", "failed"}
    BY StepCases DEF OneTask, OneMore, Between, WalkDirectory, SpawnedAll, Report, ListDocuments, ListFails,
                     DeletedAll, DeleteOrphan, Disturb, vars
  <2> QED BY <2>1 DEF TypeOK
<1>3. documents' \in Contents
  <2>1. documents \in [Name -> Versions] /\ \A n \in Name \ Supported : documents[n] = None
    BY DEF TypeOK, Contents
  <2>2. \/ UNCHANGED documents
        \/ \E i \in DOMAIN tasks : /\ queue[i].name \in Supported
                                 /\ documents' = [documents EXCEPT ![queue[i].name] = tasks[i].version]
        \/ \E n \in Name : documents' = [documents EXCEPT ![n] = None]
        \/ \E n \in Supported, v \in Versions : documents' = [documents EXCEPT ![n] = v]
    <3>1. CASE \E i \in DOMAIN tasks : OneTask(i)
      BY <3>1 DEF OneTask, TasksProceed, Joined, JoinedPanicked, FoundNothing, HasRead, HasStored, HasFailed
    <3>2. CASE \E n \in Name : DeleteOrphan(n)
      BY <3>2 DEF DeleteOrphan
    <3>3. CASE \E n \in Name : Disturb(n)
      BY <3>3 DEF Disturb
    <3>4. CASE OneMore(Len(tasks) + 1) \/ WalkDirectory
      BY <3>4 DEF OneMore, WalkDirectory
    <3>5. CASE Between
      BY <3>2, <3>3, <3>5 DEF Between, SpawnedAll, Report, ListDocuments, ListFails, DeletedAll, vars
    <3> QED BY <3>1, <3>4, <3>5, StepCases
  <2>3. documents' \in [Name -> Versions]
    BY DEF WellFormed
  <2>4. \A n \in Name \ Supported : documents'[n] = None
    BY <2>1, <2>2
  <2> QED BY <2>3, <2>4 DEF Contents
<1> QED BY <1>1, <1>2, <1>3 DEF TypeOK, WellFormed, CollectedOnce

----------------------------------------------------------------------------
(* The mirror.                                                             *)

LEMMA CallStays ==
  ASSUME WellFormed, WalkIsFirst, [Next]_vars
  PROVE  call' = call /\ disturbed \subseteq disturbed'
BY StepCases DEF OneTask, OneMore, Between, WalkDirectory, SpawnedAll, Report, ListDocuments, ListFails,
                 DeletedAll, DeleteOrphan, Disturb, vars, outside

\* An order of a set has each element once.
LEMMA OrdersDiffer ==
  ASSUME NEW S, IsFiniteSet(S), NEW q \in Orders(S)
  PROVE  \A i, j \in DOMAIN q : q[i] = q[j] => i = j
<1> DEFINE D == 1 .. Cardinality(S)
<1>1. Cardinality(S) \in Nat
  BY FS_CardinalityType
<1>2. IsFiniteSet(D) /\ Cardinality(D) = Cardinality(S)
  BY <1>1, FS_Interval
<1>3. q \in [D -> S] /\ \A n \in S : \E i \in D : q[i] = n
  BY DEF Orders
<1>4. q \in Surjection(D, S)
  BY <1>3 DEF Surjection
<1> HIDE DEF D
<1>5. q \in Injection(D, S)
  BY <1>2, <1>4, FS_SurjSameCardinalityImpliesInj
<1> QED BY <1>3, <1>5 DEF Injection, IsInjective

LEMMA QueueStep ==
  ASSUME WellFormed, WalkIsFirst, NamesDiffer, DiscoveredIsSeen, [Next]_vars
  PROVE  NamesDiffer' /\ DiscoveredIsSeen'
<1>0. directory' = directory /\ disturbed \subseteq disturbed'
  BY DirectoryStays, CallStays
<1>1. CASE WalkDirectory
  <2>1. PICK q \in Orders(Visible) :
          queue' = [i \in DOMAIN q |-> [name |-> q[i], version |-> None]]
    BY <1>1 DEF WalkDirectory
  <2>2. IsFiniteSet(Visible)
    BY DirectoryAssumption, FS_Subset DEF Visible
  <2>3. NamesDiffer'
    BY <2>1, <2>2, OrdersDiffer DEF NamesDiffer
  <2>4. Discovered' = Visible /\ Visible' = Visible
    BY <1>1, WalkQueues DEF WellFormed, WalkDirectory, Visible
  <2> QED BY <2>3, <2>4 DEF DiscoveredIsSeen
<1>2. CASE \E n \in Name : Disturb(n)
  <2>1. PICK n \in Name : Disturb(n)
    BY <1>2
  <2>2. queue' = queue /\ disturbed' = disturbed \cup {n} /\ \A m \in Under \ {n} : disk'[m] = disk[m]
    BY <2>1 DEF Disturb, WellFormed
  <2> QED BY <1>0, <2>2 DEF NamesDiffer, DiscoveredIsSeen, Discovered, Visible
<1>3. CASE UNCHANGED <<queue, disk>>
  BY <1>0, <1>3 DEF NamesDiffer, DiscoveredIsSeen, Discovered, Visible
<1>4. (\E i \in DOMAIN tasks : OneTask(i)) \/ OneMore(Len(tasks) + 1) => UNCHANGED <<queue, disk>>
  BY DEF OneTask, OneMore
<1>5. SpawnedAll \/ Report \/ ListDocuments \/ ListFails \/ DeletedAll
        \/ (\E n \in Name : DeleteOrphan(n)) \/ UNCHANGED vars => UNCHANGED <<queue, disk>>
  BY DEF SpawnedAll, Report, ListDocuments, ListFails, DeletedAll, DeleteOrphan, vars
<1> QED BY <1>1, <1>2, <1>3, <1>4, <1>5, StepCases DEF Between

LEMMA StoredStep ==
  ASSUME WellFormed, WalkIsFirst, OrphansUndiscovered, TasksProceed, ReadAsTheyAre, StoredStay, [Next]_vars
  PROVE  ReadAsTheyAre' /\ StoredStay'
<1>0. directory' = directory /\ "error" \notin Success
  BY DirectoryStays DEF Success
<1>n. \A i \in DOMAIN tasks : i \in DOMAIN queue /\ queue[i].name \in Name
  <2>1. \A i \in DOMAIN tasks : i \in DOMAIN queue /\ queue[i] \in Item
    BY DEF WellFormed
  <2> QED BY <2>1 DEF Item
<1>1. ASSUME NEW i \in DOMAIN tasks, OneTask(i)
      PROVE  ReadAsTheyAre' /\ StoredStay'
  <2>1. /\ DOMAIN tasks' = DOMAIN tasks
        /\ \A j \in DOMAIN tasks \ {i} : tasks'[j] = tasks[j]
        /\ UNCHANGED <<queue, disk, disturbed>>
    BY <1>1 DEF OneTask, outside
  <2>2. \A j \in DOMAIN tasks : Untouched(j)' <=> Untouched(j)
    BY <2>1 DEF Untouched
  <2>3. tasks[i].state \in {"reading", "storing"} => tasks[i].status = "error"
    BY DEF TasksProceed
  <2>4. ReadAsTheyAre'
    <3>1. tasks'[i].state = "storing" \/ tasks'[i].status \in Success =>
            \/ tasks'[i].version = disk[queue[i].name]
            \/ /\ tasks'[i].version = tasks[i].version
               /\ tasks[i].state = "storing" \/ tasks[i].status \in Success
      BY <1>0, <1>1, <2>3 DEF OneTask, Joined, JoinedPanicked, FoundNothing, HasRead, HasStored, HasFailed
    <3> QED BY <1>0, <2>1, <3>1 DEF ReadAsTheyAre
  <2>5. StoredStay'
    <3> SUFFICES ASSUME NEW j \in DOMAIN tasks, Untouched(j),
                        tasks'[j].status \in Success, tasks'[j].state \in {"ended", "joined"}
                 PROVE  documents'[queue[j].name] = tasks'[j].version
      BY <2>1, <2>2 DEF StoredStay
    <3>1. CASE j = i
      <4>1. CASE HasStored(i)
        BY <1>n, <3>1, <4>1 DEF HasStored, WellFormed
      <4>2. CASE Joined(i)
        BY <3>1, <4>2 DEF Joined, StoredStay
      <4>3. CASE ~HasStored(i) /\ ~Joined(i)
        BY <1>0, <1>1, <2>3, <3>1, <4>3 DEF OneTask, JoinedPanicked, FoundNothing, HasRead, HasFailed
      <4> QED BY <4>1, <4>2, <4>3
    <3>2. CASE j # i
      <4>1. queue[j].name # queue[i].name
        BY <1>n, <3>2 DEF Untouched
      <4>2. documents'[queue[j].name] = documents[queue[j].name]
        BY <1>1, <1>n, <4>1
           DEF OneTask, Joined, JoinedPanicked, FoundNothing, HasRead, HasStored, HasFailed, WellFormed
      <4> QED BY <2>1, <3>2, <4>2 DEF StoredStay
    <3> QED BY <3>1, <3>2
  <2> QED BY <2>4, <2>5
<1>2. CASE OneMore(Len(tasks) + 1)
  BY <1>0, <1>2 DEF OneMore, ReadAsTheyAre, StoredStay, Untouched, outside
<1>3. CASE WalkDirectory /\ tasks = <<>>
  BY <1>3 DEF WalkDirectory, ReadAsTheyAre, StoredStay
<1>4. ASSUME NEW n \in Name, DeleteOrphan(n), UNCHANGED <<tasks, queue>>
      PROVE  ReadAsTheyAre' /\ StoredStay'
  <2>1. UNCHANGED <<disk, disturbed>> /\ n \notin Discovered
    BY <1>4 DEF DeleteOrphan, outside, OrphansUndiscovered
  <2>2. \A i \in DOMAIN tasks : documents'[queue[i].name] = documents[queue[i].name]
    BY <1>n, <1>4, <2>1 DEF DeleteOrphan, Discovered, WellFormed
  <2> QED BY <1>0, <1>4, <2>1, <2>2 DEF ReadAsTheyAre, StoredStay, Untouched
<1>5. ASSUME NEW n \in Name, Disturb(n), UNCHANGED <<tasks, queue>>
      PROVE  ReadAsTheyAre' /\ StoredStay'
  <2>1. /\ disturbed' = disturbed \cup {n}
        /\ \A m \in Under \ {n} : disk'[m] = disk[m]
        /\ \A m \in Name \ {n} : documents'[m] = documents[m]
        /\ n \in Under \/ disk' = disk
    BY <1>5 DEF Disturb, WellFormed
  <2>2. \A i \in DOMAIN tasks : queue[i].name # n => disk'[queue[i].name] = disk[queue[i].name]
    <3>1. CASE disk' = disk
      BY <3>1
    <3>2. CASE disk' # disk
      <4>1. \E v \in Versions : disk' = [disk EXCEPT ![n] = v]
        BY <1>5, <3>2 DEF Disturb
      <4> QED BY <4>1 DEF WellFormed
    <3> QED BY <3>1, <3>2
  <2> QED BY <1>0, <1>n, <1>5, <2>1, <2>2 DEF ReadAsTheyAre, StoredStay, Untouched
<1>6. CASE UNCHANGED <<tasks, queue, disk, documents, disturbed>>
  BY <1>0, <1>6 DEF ReadAsTheyAre, StoredStay, Untouched
<1>7. CASE Between /\ UNCHANGED <<tasks, queue>>
  BY <1>4, <1>5, <1>6, <1>7
     DEF Between, SpawnedAll, Report, ListDocuments, ListFails, DeletedAll, vars, outside
<1> QED BY <1>1, <1>2, <1>3, <1>7, StepCases

LEMMA OrphansStep ==
  ASSUME WellFormed, WalkIsFirst, TasksProceed, output \in Output, OrphansGo, [Next]_vars
  PROVE  OrphansGo'
<1>0. DeleteRemoved' = DeleteRemoved /\ disturbed \subseteq disturbed'
  BY CallStays DEF DeleteRemoved
<1>1. CASE ListDocuments
  BY <1>1 DEF ListDocuments, OrphansGo, Discovered, outside
<1>2. ASSUME NEW n \in Name, DeleteOrphan(n)
      PROVE  OrphansGo'
  <2>1. /\ pc = "delete" /\ pc' = "delete" /\ UNCHANGED <<queue, disturbed>>
        /\ orphans' = orphans \ {n}
        /\ \A m \in Name \ {n} : documents'[m] = documents[m]
    BY <1>2 DEF DeleteOrphan, outside, WellFormed
  <2>2. output'.failed >= output.failed /\ (documents'[n] = None \/ output'.failed > 0)
    <3>1. CASE documents' = [documents EXCEPT ![n] = None] /\ Push(n, "deleted")
      BY <3>1, PushCounts DEF WellFormed, Output
    <3>2. CASE documents[n] = None /\ UNCHANGED <<documents, output>>
      BY <3>2 DEF Output
    <3>3. CASE Push(n, "error")
      BY <3>3, PushCounts DEF Output
    <3> QED BY <1>2, <3>1, <3>2, <3>3 DEF DeleteOrphan
  <2>3. output.failed \in Nat /\ output'.failed \in Int /\ Under \subseteq Name
    <3>1. \A status \in {"deleted", "error"} : Push(n, status) => output' \in Output
      BY PushCounts
    <3> QED BY <1>2, <3>1, DirectoryAssumption DEF DeleteOrphan, Output
  <2> QED BY <1>0, <2>1, <2>2, <2>3 DEF OrphansGo, Discovered
<1>3. ASSUME NEW n \in Name, Disturb(n)
      PROVE  OrphansGo'
  BY <1>0, <1>3, DirectoryAssumption DEF Disturb, OrphansGo, Discovered, WellFormed
<1>4. CASE DeletedAll
  BY <1>0, <1>4 DEF DeletedAll, OrphansGo, Discovered, outside
<1>5. CASE pc' \notin {"delete", "done"} \/ (~DeleteRemoved)
  BY <1>0, <1>5 DEF OrphansGo
<1>6. CASE UNCHANGED vars
  BY <1>0, <1>6 DEF OrphansGo, Discovered, vars, outside
<1>7. CASE Between
  <2>1. SpawnedAll \/ Report \/ ListFails => pc' \notin {"delete", "done"} \/ ~DeleteRemoved
    BY DEF SpawnedAll, Report, ListFails
  <2> QED BY <1>1, <1>2, <1>3, <1>4, <1>5, <1>6, <1>7, <2>1 DEF Between
<1>8. (\E i \in DOMAIN tasks : OneTask(i)) \/ OneMore(Len(tasks) + 1) \/ WalkDirectory =>
        pc' \notin {"delete", "done"}
  BY DEF OneTask, OneMore, WalkDirectory, Joined, JoinedPanicked, FoundNothing, HasRead, HasStored,
         HasFailed, TasksProceed, Joining
<1> QED BY <1>5, <1>7, <1>8, StepCases

LEMMA NoFailuresStep ==
  ASSUME WellFormed, WalkIsFirst, TasksProceed, CollectedOnce, FailuresCounted, output \in Output,
         NoFailures, [Next]_vars
  PROVE  NoFailures'
<1>0. directory' = directory
  BY DirectoryStays
<1>1. CASE Report /\ UNCHANGED <<tasks, queue>>
  <2> SUFFICES ASSUME directory, output'.failed = 0
               PROVE  /\ Unreadable = {}
                      /\ \A i \in DOMAIN tasks : tasks[i].state = "joined" /\ tasks[i].status \in Success
    BY <1>0, <1>1 DEF NoFailures
  <2>1. pc = "join" /\ output.failed = Lost + Unread /\ Lost \in Nat /\ Unread \in Nat
    BY <1>1, PanickedAreFew DEF Report, FailuresCounted, Joining, Lost, Unread
  <2>2. IsFiniteSet(DOMAIN collected)
    <3>1. DOMAIN collected = 1 .. Len(collected) /\ Len(collected) \in Nat
      BY DEF CollectedOnce
    <3> QED BY <3>1, FS_Interval
  <2> DEFINE failed == {k \in DOMAIN collected : tasks[collected[k]].status = "error"}
  <2>3. IsFiniteSet(failed) /\ Cardinality(failed) \in Nat /\ Ended("error") = Cardinality(failed)
    BY <2>2, FS_Subset, FS_CardinalityType DEF Ended
  <2>4. output'.failed = output.failed + Ended("error")
    <3>1. \E a, u, n, d : output' = [output EXCEPT !.added = a, !.updated = u, !.unchanged = n,
                                        !.failed = @ + Ended("error"), !.documents = d]
      BY <1>1 DEF Report
    <3> QED BY <3>1 DEF Output
  <2>5. Lost = 0 /\ Unread = 0 /\ Cardinality(failed) = 0
    <3> HIDE DEF failed
    <3>1. Lost + Unread + Cardinality(failed) = 0
      BY <2>1, <2>3, <2>4
    <3> QED BY <2>1, <2>3, <3>1
  <2>6. Panicked = {} /\ failed = {} /\ Unreadable = {}
    BY <2>3, <2>5, PanickedAreFew, FS_EmptySet DEF Lost, Unread
  <2>7. ASSUME NEW i \in DOMAIN tasks
        PROVE  tasks[i].state = "joined" /\ tasks[i].status \in Success
    <3>1. tasks[i].state = "joined"
      BY <1>1, <2>6 DEF Report, Panicked
    <3>2. PICK k \in DOMAIN collected : collected[k] = i
      BY <3>1 DEF CollectedOnce, Collected
    <3>3. tasks[i].status # "error"
      BY <2>6, <3>2
    <3> QED BY <3>1, <3>3 DEF TasksProceed
  <2> QED BY <2>6, <2>7
<1>2. ASSUME NEW n \in Name, DeleteOrphan(n), UNCHANGED <<tasks, queue>>
      PROVE  NoFailures'
  <2>1. pc = "delete" /\ output.failed \in Nat
    BY <1>2 DEF DeleteOrphan, Output
  <2>2. output' = output \/ output'.failed \in {output.failed, output.failed + 1}
    BY <1>2, PushCounts DEF DeleteOrphan
  <2> QED BY <1>0, <1>2, <2>1, <2>2 DEF NoFailures, Reporting
<1>3. CASE UNCHANGED <<tasks, output>> /\ (pc' \in Reporting => pc \in Reporting)
  BY <1>0, <1>3 DEF NoFailures
<1>4. CASE pc' \notin Reporting
  BY <1>4 DEF NoFailures
<1>5. CASE Between /\ UNCHANGED <<tasks, queue>>
  BY <1>1, <1>2, <1>3, <1>5
     DEF Between, SpawnedAll, ListDocuments, ListFails, DeletedAll, Disturb, vars, Reporting
<1>6. (\E i \in DOMAIN tasks : OneTask(i)) \/ OneMore(Len(tasks) + 1) \/ WalkDirectory => pc' \notin Reporting
  BY DEF OneTask, OneMore, WalkDirectory, Joined, JoinedPanicked, FoundNothing, HasRead, HasStored,
         HasFailed, TasksProceed, Joining, Reporting
<1> QED BY <1>4, <1>5, <1>6, StepCases

----------------------------------------------------------------------------
(* Theorems.                                                               *)

LEMMA BatchItems ==
  /\ Batch \in Seq(Item)
  /\ \A i \in DOMAIN Batch : Batch[i].version \in Version
<1> DEFINE Sent == [name : Name, version : Version]
<1>1. Batch \in Seq(Sent)
  BY DirectoryAssumption
<1>2. /\ \A t \in Sent : t \in Item /\ t.version \in Version
  BY DEF Item, Versions
<1> HIDE DEF Sent
<1>3. \A i \in DOMAIN Batch : Batch[i] \in Sent
  BY <1>1
<1>4. \A i \in DOMAIN Batch : Batch[i] \in Item /\ Batch[i].version \in Version
  BY <1>2, <1>3
<1>5. Batch = [i \in 1 .. Len(Batch) |-> Batch[i]] /\ Len(Batch) \in Nat
  BY <1>1
<1>6. Batch \in Seq(Item)
  BY <1>4, <1>5
<1> QED BY <1>4, <1>6

LEMMA DirectoryInvariant == Spec => []DirectoryInv
<1>1. Init => DirectoryInv
  <2> SUFFICES ASSUME Init
               PROVE  DirectoryInv
    OBVIOUS
  <2>0. /\ call \in Calls
        /\ disk \in [Under -> Versions]
        /\ \/ directory /\ pc = "walk" /\ queue = <<>>
           \/ ~directory /\ pc = "spawn" /\ queue = Batch
    BY DEF Init, RagIngestDirectory, IngestPath, RagIngestBatch, Files, Versions, directory
  <2>1. WellFormed
    <3>1. queue \in Seq(Item) /\ Len(queue) \in Nat
      <4>1. CASE queue = <<>>
        BY <4>1
      <4>2. CASE queue = Batch
        BY <4>2, BatchItems
      <4> QED BY <2>0, <4>1, <4>2
    <3>2. tasks \in Seq(Task) /\ Len(tasks) = 0
      BY DEF Init
    <3> QED BY <2>0, <3>1, <3>2, DirectoryAssumption DEF Init, WellFormed, Contents
  <2>2. PermitsBalance
    <3>1. Holders = {}
      BY DEF Init, Holders
    <3> QED BY <3>1, FS_EmptySet, DirectoryAssumption DEF Init, PermitsBalance
  <2>3. TextsExist
    BY <2>0, BatchItems DEF Init, TextsExist
  <2>4. WalkIsFirst /\ SeenIsDiscovered /\ OrphansUndiscovered
    BY <2>0 DEF Init, WalkIsFirst, SeenIsDiscovered, OrphansUndiscovered
  <2> QED BY <2>1, <2>2, <2>3, <2>4 DEF DirectoryInv
<1>2. DirectoryInv /\ [Next]_vars => DirectoryInv'
  BY WellFormedStep, BalanceStep, TextsExistStep, SeenStep DEF DirectoryInv
<1> QED BY <1>1, <1>2, PTL DEF Spec

\* The semaphore of ingest_directory and rag_ingest_batch: every permit is in
\* it or held by one running task, for any number of documents and permits.
THEOREM PermitsNeverLost == Spec => []PermitsBalance
<1>1. DirectoryInv => PermitsBalance
  BY DEF DirectoryInv
<1> QED BY <1>1, DirectoryInvariant, PTL

\* delete_orphaned_documents and the tasks together: a document whose file the
\* walk of ingest_directory could see is never taken out of the index.
THEOREM SeenFilesAreSpared == Spec => SeenFilesStayIndexed
<1>1. ASSUME DirectoryInv, [Next]_vars, directory,
             NEW n \in Name, n \in Visible \ disturbed', documents[n] # None
      PROVE  documents'[n] # None
  <2> USE <1>1
  <2>1. CASE \E i \in DOMAIN tasks : TaskStep(i)
    <3>1. PICK i \in DOMAIN tasks : TaskStep(i)
      BY <2>1
    <3>2. CASE /\ tasks[i].state = "storing"
               /\ documents' = [documents EXCEPT ![queue[i].name] = tasks[i].version]
      <4>1. /\ tasks[i].version \in Version
            /\ documents \in [Name -> Versions]
        BY <3>1, <3>2 DEF DirectoryInv, TextsExist, WellFormed
      <4>2. tasks[i].version # None
        BY <4>1, DirectoryAssumption
      <4> QED BY <3>2, <4>1, <4>2
    <3>3. CASE UNCHANGED documents
      BY <3>3
    <3>4. \/ UNCHANGED documents
          \/ /\ tasks[i].state = "storing"
             /\ documents' = [documents EXCEPT ![queue[i].name] = tasks[i].version]
      BY <3>1 DEF TaskStep, ReadFile, StoreVersion, TaskFails, TaskPanics, Interrupted
    <3> QED BY <3>2, <3>3, <3>4
  <2>2. CASE \E orphan \in Name : DeleteOrphan(orphan)
    <3>1. PICK orphan \in Name : DeleteOrphan(orphan)
      BY <2>2
    <3>2. disturbed' = disturbed /\ pc # "walk"
      BY <3>1 DEF DeleteOrphan, outside
    <3>3. n # orphan
      BY <3>1, <3>2 DEF DeleteOrphan, DirectoryInv, SeenIsDiscovered, OrphansUndiscovered
    <3> QED BY <3>1, <3>3 DEF DeleteOrphan, DirectoryInv, WellFormed
  <2>3. CASE \E other \in Name : Disturb(other)
    BY <2>3 DEF Disturb, DirectoryInv, WellFormed
  <2>4. CASE UNCHANGED documents
    BY <2>4
  <2> QED
    BY <2>1, <2>2, <2>3, <2>4
       DEF Next, Caller, WalkDirectory, Spawn, SpawnedAll, Join, JoinPanicked, Report,
           ListDocuments, ListFails, DeletedAll, vars
<1>2. DirectoryInv /\ [Next]_vars =>
        [\A n \in Name :
           /\ directory
           /\ n \in Visible \ disturbed'
           /\ documents[n] # None
           => documents'[n] # None]_vars
  BY <1>1
<1> QED BY <1>2, DirectoryInvariant, PTL DEF Spec, SeenFilesStayIndexed

LEMMA ReportInvariant == Spec => []ReportInv
<1>1. Init /\ DirectoryInv => ReportInv
  <2> SUFFICES ASSUME Init, DirectoryInv PROVE ReportInv
    OBVIOUS
  <2>1. /\ call \in {"sync", "directory", "batch"} /\ pc \in {"walk", "spawn"}
        /\ directory => pc = "walk"
    BY DirectoryAssumption DEF Init, RagIngestDirectory, IngestPath, RagIngestBatch, directory
  <2>2. NoOutput \in Output /\ output = NoOutput
    <3>1. <<>> \in Seq(Entry)
      OBVIOUS
    <3> QED BY <3>1 DEF Init, NoOutput, Output
  <2>3. tasks = <<>> /\ collected = <<>> /\ DOMAIN tasks = {} /\ DOMAIN collected = {}
    BY DEF Init
  <2>4. TypeOK
    <3>1. WellFormed /\ documents \in Contents /\ changes = 0 /\ disturbed = {}
      BY DEF DirectoryInv, Init
    <3>2. collected \in Seq(Nat)
      BY <2>3
    <3> QED BY <2>1, <2>2, <3>1, <3>2 DEF TypeOK, WellFormed
  <2>5. TasksProceed /\ AllSpawned
    BY <2>1, <2>3 DEF TasksProceed, AllSpawned, Reporting
  <2>6. CollectedOnce
    BY <2>3 DEF CollectedOnce, Collected
  <2>7. FailuresCounted
    <3>1. Panicked = {}
      BY <2>3 DEF Panicked
    <3>2. Lost = 0
      BY <3>1, FS_EmptySet DEF Lost
    <3> QED BY <2>1, <2>2, <3>2 DEF FailuresCounted, NoOutput, Unread
  <2>8. ReportCoversTasks /\ ReportIsFaithful
    BY <2>1 DEF ReportCoversTasks, ReportIsFaithful, CountsAddUp, ReportedInOrder, Reporting
  <2> QED BY <2>4, <2>5, <2>6, <2>7, <2>8 DEF ReportInv
<1>2. DirectoryInv /\ DirectoryInv' /\ ReportInv /\ [Next]_vars => ReportInv'
  <2> SUFFICES ASSUME DirectoryInv, DirectoryInv', ReportInv, [Next]_vars PROVE ReportInv'
    OBVIOUS
  <2>1. WellFormed /\ WellFormed' /\ WalkIsFirst /\ output \in Output
    BY DEF DirectoryInv, ReportInv, TypeOK
  <2>2. TasksProceed' /\ AllSpawned' /\ CollectedOnce'
    BY <2>1, TasksProceedStep, CollectedOnceStep DEF ReportInv
  <2>3. FailuresCounted'
    BY <2>1, FailuresCountedStep DEF ReportInv
  <2>4. output' \in Output /\ ReportCoversTasks' /\ ReportIsFaithful'
    BY <2>1, ReportStep DEF ReportInv
  <2>5. TypeOK'
    BY <2>1, <2>2, <2>4, TypeStep DEF ReportInv
  <2> QED BY <2>2, <2>3, <2>4, <2>5 DEF ReportInv
<1> QED BY <1>1, <1>2, DirectoryInvariant, PTL DEF Spec

LEMMA MirrorInvariant == Spec => []MirrorInv
<1>1. Init => MirrorInv
  <2> SUFFICES ASSUME Init PROVE MirrorInv
    OBVIOUS
  <2>1. /\ pc \in {"walk", "spawn"} /\ DOMAIN tasks = {}
        /\ directory => queue = <<>>
    BY DEF Init, RagIngestDirectory, IngestPath, RagIngestBatch, directory
  <2>2. directory => DOMAIN queue = {}
    BY <2>1
  <2> QED BY <2>1, <2>2
          DEF MirrorInv, NamesDiffer, DiscoveredIsSeen, Discovered, ReadAsTheyAre, StoredStay,
              OrphansGo, NoFailures, Reporting
<1>2. DirectoryInv /\ ReportInv /\ MirrorInv /\ [Next]_vars => MirrorInv'
  <2> SUFFICES ASSUME DirectoryInv, ReportInv, MirrorInv, [Next]_vars PROVE MirrorInv'
    OBVIOUS
  <2>1. /\ WellFormed /\ WalkIsFirst /\ OrphansUndiscovered /\ TasksProceed /\ CollectedOnce
        /\ FailuresCounted /\ output \in Output
    BY DEF DirectoryInv, ReportInv, TypeOK
  <2> QED BY <2>1, QueueStep, StoredStep, OrphansStep, NoFailuresStep DEF MirrorInv
<1> QED BY <1>1, <1>2, DirectoryInvariant, ReportInvariant, PTL DEF Spec

\* Files, documents, tasks and report have their types, and no document of an
\* unknown type is ever in the database, for any directory or batch.
THEOREM DirectoryTypes == Spec => []TypeOK
<1>1. ReportInv => TypeOK
  BY DEF ReportInv
<1> QED BY <1>1, ReportInvariant, PTL

\* The counters and the list that ingest_directory and rag_ingest_batch return
\* agree with what every task did, and the list is in the order of the queue,
\* in whatever order the tasks end, fail or panic.
THEOREM ReportsAreFaithful == Spec => []ReportIsFaithful
<1>1. ReportInv => ReportIsFaithful
  BY DEF ReportInv
<1> QED BY <1>1, ReportInvariant, PTL

\* A document reported as ingested is in the database when the call ends, in
\* the version its task took, unless someone else has written its path.
THEOREM ReportedIsStored == Spec => []IngestedAreStored
<1>1. MirrorInv => IngestedAreStored
  BY DEF MirrorInv, StoredStay, Untouched, IngestedAreStored
<1> QED BY <1>1, MirrorInvariant, PTL

\* A synchronisation that reports no failure has made the index a mirror of
\* the directory, wherever nobody else has written meanwhile.
THEOREM SyncMirrors == Spec => []IndexMirrorsDirectory
<1>1. DirectoryInv /\ ReportInv /\ MirrorInv => IndexMirrorsDirectory
  <2> SUFFICES ASSUME DirectoryInv, ReportInv, MirrorInv,
                      pc = "done", DeleteRemoved, output.failed = 0,
                      NEW n \in (Under \cap Supported \cap Matching) \ disturbed
               PROVE  documents[n] = disk[n]
    BY DEF IndexMirrorsDirectory
  <2>1. directory /\ pc \in Reporting
    BY DEF DeleteRemoved, directory, Reporting
  <2>2. Unreadable = {} /\ \A i \in DOMAIN tasks : tasks[i].state = "joined" /\ tasks[i].status \in Success
    BY <2>1 DEF MirrorInv, NoFailures
  <2>3. CASE disk[n] # None
    <3>1. n \in Discovered
      BY <2>1, <2>2, <2>3 DEF DirectoryInv, SeenIsDiscovered, Visible
    <3>2. PICK i \in DOMAIN queue : queue[i].name = n
      BY <3>1 DEF Discovered
    <3>3. i \in DOMAIN tasks
      BY <2>1 DEF ReportInv, AllSpawned, DirectoryInv, WellFormed
    <3>4. Untouched(i)
      BY <2>1, <3>2 DEF MirrorInv, NamesDiffer, Untouched
    <3>5. documents[n] = tasks[i].version
      BY <2>2, <3>2, <3>3, <3>4 DEF MirrorInv, StoredStay
    <3>6. tasks[i].version = disk[n]
      BY <2>1, <2>2, <3>2, <3>3 DEF MirrorInv, ReadAsTheyAre
    <3> QED BY <3>5, <3>6
  <2>4. CASE disk[n] = None
    <3>1. n \notin Discovered
      BY <2>1, <2>4 DEF MirrorInv, DiscoveredIsSeen, Visible
    <3> QED BY <2>4, <3>1 DEF MirrorInv, OrphansGo
  <2> QED BY <2>3, <2>4
<1> QED BY <1>1, DirectoryInvariant, ReportInvariant, MirrorInvariant, PTL

=============================================================================
