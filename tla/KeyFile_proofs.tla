-------------------------- MODULE KeyFile_proofs --------------------------
(***************************************************************************)
(* The invariants of KeyFile for every set of commands, names and keys.     *)
(* The name check of add_key is made against the list that was loaded, so   *)
(* unambiguous lists stay unambiguous however commands overlap: all that is *)
(* needed besides is that drawn key material is fresh.  For the ledger the  *)
(* invariant says where the change of the one running command is: in memory*)
(* only, nowhere on disk, or on disk and not yet reported.                  *)
(***************************************************************************)
EXTENDS KeyFile, TLAPS

\* Every stored hash was drawn by a command.
Drawn ==
  /\ Hashes(file.keys) \subseteq generated
  /\ \A c \in Command : Hashes(store[c]) \subseteq generated

\* The one running command, its list and the file.
OneCommand == \A c, d \in Command : Running(c) /\ Running(d) => c = d

Progress(c) ==
  /\ pc[c] = "save" =>
       Loads /\ file.keys = ledger /\ store[c] = Changed(ledger, change[c])
  /\ pc[c] = "write" => file = Blank /\ store[c] = Changed(ledger, change[c])
  /\ pc[c] = "permissions" =>
       file = Parsed(store[c]) /\ store[c] = Changed(ledger, change[c])

LedgerInv ==
  ~disturbed =>
    /\ OneCommand
    /\ Idle => Loads /\ file.keys = ledger
    /\ \A c \in Command : Progress(c)

NamesInv == NamesAreUnique /\ Drawn

LEMMA InitHolds == Init => TypeOK /\ NamesInv /\ LedgerInv
<1> SUFFICES ASSUME Init PROVE TypeOK /\ NamesInv /\ LedgerInv
  OBVIOUS
<1>1. TypeOK
  BY DEF Init, TypeOK, Contents, NoChange, Down
<1>2. NamesInv
  BY DEF Init, NamesInv, NamesAreUnique, Unambiguous, Drawn, Hashes, Missing
<1>3. LedgerInv
  BY DEF Init, LedgerInv, OneCommand, Idle, Running, Loads, Progress, Missing, Garbled
<1> QED BY <1>1, <1>2, <1>3

USE DEF vars, observed, FreshKeys

LEMMA ChangeType ==
  ASSUME NEW keys \in SUBSET StoredKey,
         NEW ch \in [adds : SUBSET StoredKey, drops : SUBSET Name]
  PROVE  Changed(keys, ch) \in SUBSET StoredKey
  BY DEF Changed

LEMMA FileTypes ==
  ASSUME TypeOK
  PROVE  file.keys \in SUBSET StoredKey /\ file \in Contents
  BY DEF TypeOK, Contents, Missing, Blank, Garbled, Parsed

LEMMA OverTypes ==
  ASSUME NEW keys \in SUBSET StoredKey, NEW f \in Over(keys)
  PROVE  f \in Contents /\ (f = Parsed(keys) \/ f = Garbled)
  BY DEF Over, Contents

\* Every step keeps the values of the variables.
LEMMA TypeStep == TypeOK /\ [Next]_vars => TypeOK'
<1> SUFFICES ASSUME TypeOK, [Next]_vars PROVE TypeOK'
  OBVIOUS
<1>0. /\ file.keys \in SUBSET StoredKey /\ file \in Contents
      /\ Blank \in Contents /\ Garbled \in Contents
  BY FileTypes DEF Contents
<1>1. ASSUME NEW c \in Command, NEW a \in Argument, Generate(c, a) PROVE TypeOK'
  <2>1. PICK h \in FreshKeys :
          /\ generated' = generated \cup {h}
          /\ LoadAndChange(c, [adds |-> {[name |-> Trim[a], hash |-> h]}, drops |-> {}])
    BY <1>1 DEF Generate
  <2>2. Trim[a] \in Name
    BY <1>1 DEF Generate, CanAdd, Name
  <2>3. [adds |-> {[name |-> Trim[a], hash |-> h]}, drops |-> {}]
          \in [adds : SUBSET StoredKey, drops : SUBSET Name]
    BY <2>2 DEF StoredKey
  <2> QED BY <1>0, <1>1, <2>1, <2>3, ChangeType DEF Generate, LoadAndChange, TypeOK
<1>2. ASSUME NEW c \in Command, NEW a \in Argument, Revoke(c, a) PROVE TypeOK'
  <2>1. Trim[a] \in Name
    BY <1>0, <1>2 DEF Revoke, CanRevoke, StoredKey
  <2>2. [adds |-> {}, drops |-> {Trim[a]}] \in [adds : SUBSET StoredKey, drops : SUBSET Name]
    BY <2>1
  <2> QED BY <1>0, <1>2, <2>2, ChangeType DEF Revoke, LoadAndChange, TypeOK
<1>3. ASSUME NEW c \in Command, NEW a \in Argument, Refuse(c, a) PROVE TypeOK'
  BY <1>3 DEF Refuse, TypeOK
<1>4. ASSUME NEW c \in Command, Truncate(c) PROVE TypeOK'
  BY <1>0, <1>4 DEF Truncate, TypeOK
<1>5. ASSUME NEW c \in Command, Write(c) PROVE TypeOK'
  <2>1. store[c] \in SUBSET StoredKey
    BY DEF TypeOK
  <2> QED BY <1>5, <2>1, OverTypes DEF Write, TypeOK
<1>6. ASSUME NEW c \in Command, Finish(c) PROVE TypeOK'
  <2>1. change[c] \in [adds : SUBSET StoredKey, drops : SUBSET Name] /\ ledger \in SUBSET StoredKey
    BY DEF TypeOK
  <2> QED BY <1>6, <2>1, ChangeType DEF Finish, TypeOK
<1>7. ASSUME NEW c \in Command, Fail(c) PROVE TypeOK'
  BY <1>0, <1>7 DEF Fail, TypeOK
<1>8. ASSUME StartDaemon PROVE TypeOK'
  <2>1. Hashes(file.keys) \subseteq Key
    BY <1>0 DEF Hashes, StoredKey
  <2> QED BY <1>8, <2>1 DEF StartDaemon, Environments, TypeOK
<1>9. ASSUME StopDaemon PROVE TypeOK'
  BY <1>9 DEF StopDaemon, Down, TypeOK
<1>10. ASSUME UNCHANGED vars PROVE TypeOK'
  BY <1>10 DEF TypeOK
<1> QED BY <1>1, <1>2, <1>3, <1>4, <1>5, <1>6, <1>7, <1>8, <1>9, <1>10 DEF Next, Step, Start

\* A new name with fresh material keeps a list unambiguous, a removal too.
LEMMA ChangedUnambiguous ==
  ASSUME NEW keys \in SUBSET StoredKey, Unambiguous(keys), NEW G, Hashes(keys) \subseteq G,
         NEW ch,
         \/ ch.adds = {}
         \/ /\ ch.drops = {}
            /\ \E n, h : /\ ch.adds = {[name |-> n, hash |-> h]}
                         /\ h \notin G
                         /\ \A k \in keys : k.name # n
  PROVE  Unambiguous(Changed(keys, ch))
  BY DEF Unambiguous, Changed, Hashes

\* The lists stay unambiguous.
LEMMA NamesStep == TypeOK /\ NamesInv /\ [Next]_vars => NamesInv'
<1> SUFFICES ASSUME TypeOK, NamesInv, [Next]_vars PROVE NamesInv'
  OBVIOUS
<1>0. file.keys \in SUBSET StoredKey
  BY FileTypes
<1>1. ASSUME NEW c \in Command, NEW a \in Argument, Generate(c, a) PROVE NamesInv'
  <2>1. PICK h \in FreshKeys :
          /\ generated' = generated \cup {h}
          /\ LoadAndChange(c, [adds |-> {[name |-> Trim[a], hash |-> h]}, drops |-> {}])
    BY <1>1 DEF Generate
  <2> DEFINE ch == [adds |-> {[name |-> Trim[a], hash |-> h]}, drops |-> {}]
  <2>2. \A k \in file.keys : k.name # Trim[a]
    BY <1>1 DEF Generate, CanAdd
  <2>3. Unambiguous(Changed(file.keys, ch))
    BY <1>0, <2>2, ChangedUnambiguous DEF NamesInv, NamesAreUnique, Drawn
  <2>4. Hashes(Changed(file.keys, ch)) \subseteq generated \cup {h}
    BY DEF NamesInv, Drawn, Hashes, Changed
  <2>5. store' = [store EXCEPT ![c] = Changed(file.keys, ch)] /\ file' = file
    BY <1>1, <2>1 DEF Generate, LoadAndChange
  <2> QED BY <2>1, <2>3, <2>4, <2>5 DEF NamesInv, NamesAreUnique, Drawn, TypeOK
<1>2. ASSUME NEW c \in Command, NEW a \in Argument, Revoke(c, a) PROVE NamesInv'
  <2> DEFINE ch == [adds |-> {}, drops |-> {Trim[a]}]
  <2>1. Unambiguous(Changed(file.keys, ch))
    BY <1>0, ChangedUnambiguous DEF NamesInv, NamesAreUnique, Drawn
  <2>2. Hashes(Changed(file.keys, ch)) \subseteq generated
    BY DEF NamesInv, Drawn, Hashes, Changed
  <2>3. store' = [store EXCEPT ![c] = Changed(file.keys, ch)] /\ file' = file /\ generated' = generated
    BY <1>2 DEF Revoke, LoadAndChange
  <2> QED BY <2>1, <2>2, <2>3 DEF NamesInv, NamesAreUnique, Drawn, TypeOK
<1>3. ASSUME NEW c \in Command, Write(c) PROVE NamesInv'
  <2>1. store[c] \in SUBSET StoredKey
    BY DEF TypeOK
  <2>2. file'.keys = store[c] \/ file'.keys = {}
    BY <1>3, <2>1, OverTypes DEF Write, Parsed, Garbled
  <2> QED BY <1>3, <2>2 DEF Write, NamesInv, NamesAreUnique, Drawn, Unambiguous, Hashes
<1>4. ASSUME NEW c \in Command, Truncate(c) \/ Fail(c) PROVE NamesInv'
  <2>1. file'.keys = file.keys \/ file'.keys = {}
    BY <1>4 DEF Truncate, Fail, Blank, Garbled
  <2> QED BY <1>4, <2>1 DEF Truncate, Fail, NamesInv, NamesAreUnique, Drawn, Unambiguous, Hashes
<1>5. ASSUME UNCHANGED <<file, store, generated>> PROVE NamesInv'
  BY <1>5 DEF NamesInv, NamesAreUnique, Drawn
<1> QED
  BY <1>1, <1>2, <1>3, <1>4, <1>5
  DEF Next, Step, Start, Refuse, Finish, StartDaemon, StopDaemon

\* The change of the one running command stays where LedgerInv says it is.
LEMMA LedgerStep == TypeOK /\ LedgerInv /\ [Next]_vars => LedgerInv'
<1> SUFFICES ASSUME TypeOK, LedgerInv, [Next]_vars, ~disturbed' PROVE LedgerInv'
  BY DEF LedgerInv
<1>0. ~disturbed
  BY DEF Next, Step, Start, Generate, Revoke, LoadAndChange, Refuse, Truncate, Write, Finish, Fail,
         StartDaemon, StopDaemon
<1>1. OneCommand /\ (Idle => Loads /\ file.keys = ledger) /\ \A c \in Command : Progress(c)
  BY <1>0 DEF LedgerInv
<1>2. ASSUME NEW c \in Command, NEW ch, LoadAndChange(c, ch), UNCHANGED <<file, ledger>>
      PROVE  LedgerInv'
  <2>1. Idle
    BY <1>2 DEF LoadAndChange
  <2>2. \A d \in Command : d # c => pc'[d] = "idle"
    BY <1>2, <2>1 DEF LoadAndChange, Idle, Running, TypeOK
  <2>3. pc'[c] = "save" /\ store'[c] = Changed(ledger, ch) /\ change'[c] = ch
    BY <1>1, <1>2, <2>1 DEF LoadAndChange, TypeOK
  <2> QED BY <1>1, <1>2, <2>1, <2>2, <2>3
          DEF LedgerInv, OneCommand, Idle, Running, Loads, Progress
<1>3. ASSUME NEW c \in Command, Truncate(c) PROVE LedgerInv'
  <2>1. \A d \in Command : d # c => pc'[d] = "idle"
    BY <1>1, <1>3 DEF Truncate, OneCommand, Running, TypeOK
  <2>2. pc'[c] = "write" /\ file' = Blank /\ store' = store /\ change' = change /\ ledger' = ledger
    BY <1>3 DEF Truncate, TypeOK
  <2> QED BY <1>1, <1>3, <2>1, <2>2 DEF Truncate, LedgerInv, OneCommand, Idle, Running, Progress
<1>4. ASSUME NEW c \in Command, Write(c) PROVE LedgerInv'
  <2>1. \A d \in Command : d # c => pc'[d] = "idle"
    BY <1>1, <1>4 DEF Write, OneCommand, Running, TypeOK
  <2>2. pc'[c] = "permissions" /\ store' = store /\ change' = change /\ ledger' = ledger
    BY <1>4 DEF Write, TypeOK
  <2>3. file' = Parsed(store[c]) /\ store[c] = Changed(ledger, change[c])
    BY <1>1, <1>4 DEF Write, Progress, Over
  <2> QED BY <1>1, <2>1, <2>2, <2>3 DEF LedgerInv, OneCommand, Idle, Running, Progress
<1>5. ASSUME NEW c \in Command, Finish(c) PROVE LedgerInv'
  <2>1. \A d \in Command : pc'[d] = "idle"
    BY <1>1, <1>5 DEF Finish, OneCommand, Running, TypeOK
  <2>2. file' = Parsed(store[c]) /\ ledger' = store[c]
    BY <1>1, <1>5 DEF Finish, Progress
  <2> QED BY <2>1, <2>2
          DEF LedgerInv, OneCommand, Idle, Running, Progress, Loads, Parsed, Garbled
<1>6. ASSUME NEW c \in Command, Fail(c) PROVE LedgerInv'
  <2>1. pc[c] = "save"
    BY <1>6 DEF Fail
  <2>2. \A d \in Command : pc'[d] = "idle"
    BY <1>1, <1>6 DEF Fail, OneCommand, Running, TypeOK
  <2>3. file' = file /\ ledger' = ledger
    BY <1>6, <2>1 DEF Fail
  <2> QED BY <1>1, <2>1, <2>2, <2>3
          DEF LedgerInv, OneCommand, Idle, Running, Progress, Loads
<1>7. ASSUME UNCHANGED <<file, pc, store, change, ledger>> PROVE LedgerInv'
  BY <1>1, <1>7 DEF LedgerInv, OneCommand, Idle, Running, Progress, Loads
<1> QED
  BY <1>2, <1>3, <1>4, <1>5, <1>6, <1>7
  DEF Next, Step, Start, Generate, Revoke, Refuse, StartDaemon, StopDaemon

\* For any commands, names and keys, with overlaps and failures: a name names
\* one key, and undisturbed commands leave on file what they reported.
THEOREM KeyFileCorrect ==
  Spec => []TypeOK /\ []NamesAreUnique /\ []UndisturbedLedger
<1> DEFINE IInv == TypeOK /\ NamesInv /\ LedgerInv
<1>1. Init => IInv
  BY InitHolds
<1>2. IInv /\ [Next]_vars => IInv'
  BY TypeStep, NamesStep, LedgerStep
<1>3. IInv => TypeOK /\ NamesAreUnique /\ UndisturbedLedger
  BY DEF NamesInv, LedgerInv, UndisturbedLedger
<1> QED BY <1>1, <1>2, <1>3, PTL DEF Spec

\* A started daemon admits just the keys it read.
LEMMA StartedAdmits ==
  ASSUME StartDaemon, NEW keys, keys = file.keys PROVE AdmitsJust(keys)'
<1>1. PICK static \in Environments :
        daemon' = [up |-> TRUE, static |-> static, hashes |-> static \cup Hashes(file.keys)]
  BY DEF StartDaemon
<1>2. daemon'.up /\ daemon'.hashes = daemon'.static \cup Hashes(keys)
  BY <1>1
<1> QED BY <1>2 DEF AdmitsJust, Admits, IsAuthRequired, Authorized, Validates, Hashes

\* Whenever a daemon starts while the commands are undisturbed, it admits just
\* what they reported.
THEOREM DaemonStartsWithLedger == Spec => StartsWithLedger
<1> DEFINE Found ==
      \/ /\ \A c \in Command : pc[c] \in {"idle", "save"}
         /\ AdmitsJust(ledger)'
      \/ \E c \in Command : pc[c] = "write" /\ AdmitsJust({})'
      \/ \E c \in Command :
           pc[c] = "permissions" /\ AdmitsJust(Changed(ledger, change[c]))'
<1>1. TypeOK /\ LedgerInv /\ [Next]_vars
        => [~daemon.up /\ daemon'.up /\ ~disturbed => Found]_vars
  <2> SUFFICES ASSUME TypeOK, LedgerInv, Next, ~daemon.up, daemon'.up, ~disturbed
               PROVE  Found
    OBVIOUS
  <2>1. StartDaemon
    BY DEF Next, Step, Start, Generate, Revoke, Refuse, Truncate, Write, Finish, Fail, StopDaemon
  <2>2. (Idle => file.keys = ledger) /\ \A c \in Command : Progress(c)
    BY DEF LedgerInv
  <2>3. file' = file /\ ledger' = ledger /\ change' = change
    BY <2>1 DEF StartDaemon, observed
  <2>4. CASE \A c \in Command : pc[c] \in {"idle", "save"}
    <3>1. ledger' = file.keys
      BY <2>2, <2>3, <2>4 DEF Idle, Running, Progress
    <3> QED BY <2>1, <2>4, <3>1, StartedAdmits
  <2>5. ASSUME NEW c \in Command, pc[c] = "write" PROVE Found
    <3>1. {} = file.keys
      BY <2>2, <2>5 DEF Progress, Blank
    <3> QED BY <2>1, <2>5, <3>1, StartedAdmits
  <2>6. ASSUME NEW c \in Command, pc[c] = "permissions" PROVE Found
    <3>1. Changed(ledger, change[c])' = file.keys
      BY <2>2, <2>3, <2>6 DEF Progress, Parsed, Changed
    <3> QED BY <2>1, <2>6, <3>1, StartedAdmits
  <2> QED BY <2>4, <2>5, <2>6 DEF TypeOK
<1>2. TypeOK /\ LedgerInv /\ [Next]_vars => (TypeOK /\ LedgerInv)'
  BY TypeStep, LedgerStep
<1> QED BY InitHolds, <1>1, <1>2, PTL DEF Spec, StartsWithLedger
=============================================================================
