------------------------------ MODULE KeyFile ------------------------------
(***************************************************************************)
(* The file of API keys (auth.rs), the commands that change it (key:generate*)
(* and key:revoke of main.rs) and the daemon that reads it once when it     *)
(* starts.  Every command loads the whole file, changes the list in memory *)
(* and writes the whole file back; fs::write truncates the file first, and  *)
(* nothing locks it.  The order of the list is left out, and so is what is  *)
(* stored of a key beside its name and its hash.                            *)
(***************************************************************************)
EXTENDS Naturals, FiniteSets

CONSTANTS
  Command,      \* processes running a key command, one command after the other
  Argument,     \* the names operators type
  Trim,         \* Trim[a]: the argument without surrounding blanks, "" if blank
  Key,          \* key material, stored as its hash; the bound on commands
  StaticKey,    \* the values WEND_RAG_API_KEY has where it is set
  Faults        \* whether file operations fail and commands are killed

ASSUME TrimAssumption == Trim \in [Argument -> STRING]

VARIABLES
  file,       \* the key file: whether it parses, and its keys
  pc,         \* pc[c]: what command c does next
  store,      \* store[c]: the KeyStore of command c in memory
  change,     \* change[c]: the keys c adds and the names it removes
  report,     \* report[c]: what c tells its user, "none" while it runs
  generated,  \* key material drawn so far
  daemon      \* the daemon: whether it runs, the key of its environment if
              \* there is one, and the hashes it accepts
VARIABLES     \* what an observer of the commands' output would know
  ledger,     \* keys reported as created and not reported as revoked since
  disturbed   \* whether two commands overlapped or one died half-way

observed == <<ledger, disturbed>>
vars == <<file, pc, store, change, report, generated, daemon, observed>>

Name == {Trim[a] : a \in Argument} \ {""}
StoredKey == [name : Name, hash : Key]
Hashes(keys) == {k.hash : k \in keys}

Parsed(keys) == [is |-> "json", keys |-> keys]
Missing == [is |-> "missing", keys |-> {}]
Blank   == [is |-> "blank",   keys |-> {}]
Garbled == [is |-> "garbled", keys |-> {}]
Contents == {Missing, Blank, Garbled} \cup {Parsed(keys) : keys \in SUBSET StoredKey}

\* KeyStore::load_from: a missing and a blank file are empty stores, any other
\* file must parse.
Loads == file # Garbled

NoChange == [adds |-> {}, drops |-> {}]
Changed(keys, ch) == {k \in keys : k.name \notin ch.drops} \cup ch.adds

Down == [up |-> FALSE, static |-> {}, hashes |-> {}]
Environments == {{}} \cup {{k} : k \in StaticKey}

Running(c) == pc[c] # "idle"
Idle == \A c \in Command : ~Running(c)
-----------------------------------------------------------------------------
Init ==
  /\ file = Missing
  /\ pc = [c \in Command |-> "idle"]
  /\ store = [c \in Command |-> {}]
  /\ change = [c \in Command |-> NoChange]
  /\ report = [c \in Command |-> "none"]
  /\ generated = {}
  /\ daemon = Down
  /\ ledger = {} /\ disturbed = FALSE

\* Mutation of CanAdd: the name is compared before it is trimmed.
CanAddUntrimmed(keys, a) == Trim[a] # "" /\ \A k \in keys : k.name # a

\* KeyStore::add_key: the name is new and not blank, the material fresh.
CanAdd(keys, a) == Trim[a] # "" /\ \A k \in keys : k.name # Trim[a]

\* KeyStore::revoke: some key has the name.
CanRevoke(keys, a) == \E k \in keys : k.name = Trim[a]

\* The list is read from the file and changed in memory; the observer notes
\* whether another command is running.
LoadAndChange(c, ch) ==
  /\ store' = [store EXCEPT ![c] = Changed(file.keys, ch)]
  /\ change' = [change EXCEPT ![c] = ch]
  /\ pc' = [pc EXCEPT ![c] = "save"]
  /\ report' = [report EXCEPT ![c] = "none"]
  /\ disturbed' = (disturbed \/ ~Idle)

\* generate_key_material: the CSPRNG never returns the same bytes twice.
FreshKeys == Key \ generated

\* run_key_generate up to the save: the file is read, the key added in memory.
Generate(c, a) ==
  /\ pc[c] = "idle"
  /\ Loads /\ CanAdd(file.keys, a)
  /\ \E h \in FreshKeys :
       /\ generated' = generated \cup {h}
       /\ LoadAndChange(c, [adds |-> {[name |-> Trim[a], hash |-> h]}, drops |-> {}])
  /\ UNCHANGED <<file, daemon, ledger>>

\* run_key_revoke up to the save.
Revoke(c, a) ==
  /\ pc[c] = "idle"
  /\ Loads /\ CanRevoke(file.keys, a)
  /\ LoadAndChange(c, [adds |-> {}, drops |-> {Trim[a]}])
  /\ UNCHANGED <<file, generated, daemon, ledger>>

\* A command whose file does not parse or whose name add_key or revoke refuses
\* ends before it writes anything.
Refuse(c, a) ==
  /\ pc[c] = "idle"
  /\ ~Loads \/ ~CanAdd(file.keys, a) \/ ~CanRevoke(file.keys, a)
  /\ report' = [report EXCEPT ![c] = "error"]
  /\ UNCHANGED <<file, pc, store, change, generated, daemon, observed>>

\* fs::write opens the file with truncation ...
Truncate(c) ==
  /\ pc[c] = "save"
  /\ file' = Blank
  /\ pc' = [pc EXCEPT ![c] = "write"]
  /\ UNCHANGED <<store, change, report, generated, daemon, ledger, disturbed>>

\* Mutation of Over: the new text is not written.
OverNothing(keys) == {file}

\* ... and writes from the start of it.  What another command wrote since the
\* truncation stays behind the new text when it is longer, and the file does
\* not parse.
Over(keys) ==
  {Parsed(keys)} \cup IF file \in {Blank, Parsed(keys)} THEN {} ELSE {Garbled}

Write(c) ==
  /\ pc[c] = "write"
  /\ file' \in Over(store[c])
  /\ pc' = [pc EXCEPT ![c] = "permissions"]
  /\ UNCHANGED <<store, change, report, generated, daemon, ledger, disturbed>>

\* The permissions are set, the command reports: the user has
\* been told of the change.
Finish(c) ==
  /\ pc[c] = "permissions"
  /\ pc' = [pc EXCEPT ![c] = "idle"]
  /\ report' = [report EXCEPT ![c] = "done"]
  /\ ledger' = Changed(ledger, change[c])
  /\ UNCHANGED <<file, store, change, generated, daemon, disturbed>>

\* A file operation fails or the command is killed.  Before the truncation
\* nothing happened; a write may leave a part of the text; and after the write
\* the change is on disk although the command reports an error.
Fail(c) ==
  /\ Faults
  /\ Running(c)
  /\ pc' = [pc EXCEPT ![c] = "idle"]
  /\ report' = [report EXCEPT ![c] = "error"]
  /\ file' \in IF pc[c] = "write" THEN {file, Garbled} ELSE {file}
  /\ disturbed' = (disturbed \/ pc[c] # "save")
  /\ UNCHANGED <<store, change, generated, daemon, ledger>>
-----------------------------------------------------------------------------
\* Mutation of StartDaemon: the environment's key replaces those of the file.
StartStaticOnly ==
  /\ ~daemon.up /\ Loads
  /\ \E static \in Environments :
       daemon' = [up |-> TRUE, static |-> static,
                  hashes |-> IF static # {} THEN static ELSE Hashes(file.keys)]
  /\ UNCHANGED <<file, pc, store, change, report, generated, observed>>

\* Authenticator::from_environment: the daemon reads its environment and the
\* file once, when it starts.
StartDaemon ==
  /\ ~daemon.up
  /\ Loads
  /\ \E static \in Environments :
       daemon' = [up |-> TRUE, static |-> static, hashes |-> static \cup Hashes(file.keys)]
  /\ UNCHANGED <<file, pc, store, change, report, generated, observed>>

StopDaemon ==
  /\ daemon.up
  /\ daemon' = Down
  /\ UNCHANGED <<file, pc, store, change, report, generated, observed>>

\* Authenticator::is_auth_required and validate, of the hashes read at the start.
IsAuthRequired == daemon.hashes # {}
Validates(h) == h \in daemon.hashes

\* auth_middleware: the request has a bearer token, and it is valid.
Authorized(tokens) == \E h \in tokens : Validates(h)

\* serve_http puts the middleware before /mcp only where a key is required.
Admits(tokens) == daemon.up /\ (IsAuthRequired => Authorized(tokens))

Start(c) == \E a \in Argument : Generate(c, a) \/ Revoke(c, a) \/ Refuse(c, a)
Step(c) == Start(c) \/ Truncate(c) \/ Write(c) \/ Finish(c) \/ Fail(c)
Next == (\E c \in Command : Step(c)) \/ StartDaemon \/ StopDaemon
Spec == Init /\ [][Next]_vars
-----------------------------------------------------------------------------
\* The values of the variables.
TypeOK ==
  /\ file \in Contents
  /\ pc \in [Command -> {"idle", "save", "write", "permissions"}]
  /\ store \in [Command -> SUBSET StoredKey]
  /\ change \in [Command -> [adds : SUBSET StoredKey, drops : SUBSET Name]]
  /\ report \in [Command -> {"none", "done", "error"}]
  /\ generated \subseteq Key
  /\ daemon \in [up : BOOLEAN, static : SUBSET StaticKey, hashes : SUBSET (Key \cup StaticKey)]
  /\ ledger \subseteq StoredKey
  /\ disturbed \in BOOLEAN

Unambiguous(keys) ==
  \A k, l \in keys : k.name = l.name \/ k.hash = l.hash => k = l

\* A name names one key: however commands overlap, fail and die, no list on
\* disk or in memory holds two keys of one name or one key under two names
\* (the check of add_key against the list it was loaded from).
NamesAreUnique ==
  /\ Unambiguous(file.keys)
  /\ \A c \in Command : Unambiguous(store[c])

\* The file is the ledger of what commands reported, as long as no two of them
\* overlap and none dies half-way: between commands it holds the keys reported
\* as created and not revoked, no more and no less (load, change, save of
\* run_key_generate and run_key_revoke).
UndisturbedLedger ==
  Idle /\ ~disturbed => Loads /\ file.keys = ledger

\* The daemon admits the keys of a list and its environment's key, and with
\* neither everybody, also whoever presents no token.
AdmitsJust(keys) ==
  LET valid == daemon.static \cup Hashes(keys)
  IN  /\ Admits({}) <=> valid = {}
      /\ \A h \in Key \cup StaticKey : Admits({h}) <=> h \in valid \/ valid = {}

\* A daemon that starts while no two commands overlap and none died half-way
\* has the keys commands reported: those reported as created open it and those
\* reported as revoked do not, also where a command changed its list in memory
\* only, or has saved and not yet reported; and it is open to everybody only
\* where no key is left, or where it starts between the truncation and the write
\* of a save and its environment has no key
\* (Authenticator::from_environment against KeyStore::save_to).
StartsWithLedger ==
  [][ ~daemon.up /\ daemon'.up /\ ~disturbed =>
        \/ /\ \A c \in Command : pc[c] \in {"idle", "save"}
           /\ AdmitsJust(ledger)'
        \/ \E c \in Command : pc[c] = "write" /\ AdmitsJust({})'
        \/ \E c \in Command :
             pc[c] = "permissions" /\ AdmitsJust(Changed(ledger, change[c]))' ]_vars
=============================================================================
