---------------------------- MODULE WorkspaceView ----------------------------
(***************************************************************************)
(* What the server knows of Drive, and how it comes to know it: the        *)
(* snapshot a plan is validated against, fetched request by request        *)
(* (workspace.py, tools/organize.py), the grant ledger every answer is     *)
(* recorded in (store/grants.py), and the commands that write to it from   *)
(* another process (provision.py, cwops grant).  Meanwhile the owner moves *)
(* files, and gives and withdraws grants.  PlanRun takes all of a snapshot *)
(* for one step; here is what that leaves out.                             *)
(*                                                                         *)
(* A file may have several parents: the snapshot climbs to all of them,    *)
(* the validator looks at the first.                                       *)
(***************************************************************************)
EXTENDS PlanRules

CONSTANTS
  Drives,    \* the Drives a behaviour may start from: file -> its parents, in order
  Asked,     \* the sets of ids a plan may name
  Commands,  \* the provisioning commands
  Quota,     \* command -> how many files it creates
  Into,      \* command -> the folder it creates them in
  Attempts,  \* DEFAULT_ATTEMPTS
  MaxWalks,  \* bound: snapshots taken
  MaxActs    \* bound: acts of the others

(* What the requests of the commands make: Drive never made it before. *)
NewFiles == Commands \X Nat

(* Parents are folders.  init creates the workspace in My Drive, which no   *)
(* request of the app shows, and seed fills the root.                       *)
ASSUME ViewAssumption ==
  /\ \A c \in Commands :
       /\ Quota[c] \in Nat \ {0}
       /\ Into[c] \in Folders \ NewFiles
  /\ {Attempts, MaxWalks, MaxActs} \subseteq Nat
  /\ None \notin NewFiles
  /\ \A d \in Drives :
       /\ d \in [DOMAIN d -> Seq(Folders \ NewFiles)]
       /\ IsFiniteSet(DOMAIN d)
       /\ DOMAIN d \cap (NewFiles \cup {None}) = {}
       /\ \A c \in Commands : Into[c] = Root \/ Into[c] \notin DOMAIN d

VARIABLES
  parents,   \* Drive
  visible,   \* the files the drive.file grant covers
  ledger,    \* table grants: file -> source, for the files that have a row
  pc,        \* the tool call: where its snapshot has got to
  found,     \* the files it was asked for and has
  known,     \* the snapshot: file -> its parents, as they were fetched
  pending,   \* ids still to be fetched
  visited,   \* ids that could not be
  walks,     \* snapshots begun
  command,   \* each provisioning command: its step, requests sent, of them in vain for
             \* the file it is at, files recorded
  created,   \* history: the files the commands' requests made
  mishaps,   \* history: answers lost, commands interrupted
  acts,      \* history: acts of the others
  moves,     \* history: moves since the snapshot was begun
  quiet,     \* history: nothing happened since then that a snapshot may miss
  inside,    \* history: the files that were in the workspace at some time since then
  reachable  \* history: the files that were visible at some time since then

walkVars    == <<pc, found, known, pending, visited, walks>>
commandVars == <<command, created, mishaps>>
drive       == <<parents, visible>>
history     == <<acts, moves, quiet, inside, reachable>>
vars        == <<drive, ledger, walkVars, commandVars, history>>

Files == DOMAIN parents

(* parents[0], the only parent the validator looks at. *)
First(p) == [f \in DOMAIN p |-> IF p[f] = <<>> THEN None ELSE p[f][1]]

Parents(p, f) == {p[f][i] : i \in DOMAIN p[f]}

(* Reference: the files below the root, by their first parents. *)
Workspace(p) == {f \in DOMAIN p : \E n \in 1..Cardinality(DOMAIN p) : Up(f, n, First(p)) = Root}

Granted == DOMAIN ledger

(* GrantLedger.record, for each file: a row is added, or its source         *)
(* overwritten; nothing removes one.                                        *)
Recorded(files, source) ==
  [f \in Granted \cup files |-> IF f \in files THEN source ELSE ledger[f]]

Init ==
  /\ parents \in Drives
  /\ visible = DOMAIN parents
  /\ ledger = <<>>
  /\ pc = "idle"
  /\ found = {} /\ known = <<>> /\ pending = {} /\ visited = {}
  /\ walks = 0
  /\ command = [c \in Commands |-> [pc |-> "none", sent |-> 0, tried |-> 0, recorded |-> 0]]
  /\ created = {}
  /\ mishaps = 0
  /\ acts = 0 /\ moves = 0 /\ quiet = TRUE
  /\ inside = {} /\ reachable = {}

-----------------------------------------------------------------------------
(* What the properties remember of Drive while a snapshot is taken. *)
Meanwhile ==
  /\ quiet' = (quiet /\ (pc = "idle" \/ UNCHANGED drive))
  /\ inside' = IF pc = "idle" \/ UNCHANGED parents THEN inside ELSE inside \cup Workspace(parents')
  /\ reachable' = IF pc = "idle" THEN reachable ELSE reachable \cup visible'

(* A snapshot begins, and with it what the properties remember.             *)
Remember ==
  /\ walks < MaxWalks
  /\ walks' = walks + 1
  /\ moves' = 0
  /\ quiet' = TRUE
  /\ inside' = Workspace(parents)
  /\ reachable' = visible

(* _resolve_targets: the ids a plan names, without its refs. *)
Resolve(ids) ==
  /\ pc = "idle"
  /\ Remember
  /\ pc' = "targets"
  /\ pending' = ids \ Refs
  /\ UNCHANGED <<drive, ledger, found, known, visited, commandVars, acts>>

(* propose_organization: the children of a folder, those Drive returns      *)
(* first, come with one request and are recorded.                           *)
ListFolder(folder) ==
  /\ pc = "idle" /\ folder \in visible /\ IsFolder(folder)
  /\ Remember
  /\ \E listed \in SUBSET {f \in visible : folder \in Parents(parents, f)} :
       /\ found' = listed
       /\ known' = [f \in listed |-> parents[f]]
       /\ ledger' = Recorded(listed, "verified")
  /\ pc' = "root"
  /\ UNCHANGED <<drive, pending, visited, commandVars, acts>>

(* Workspace.get returns a file, which is recorded. *)
Fetched(f) ==
  /\ f \in visible
  /\ known' = [x \in DOMAIN known \cup {f} |-> IF x = f THEN parents[f] ELSE known[x]]
  /\ ledger' = Recorded({f}, "verified")
  /\ UNCHANGED quiet

(* Workspace.get raises a DriveApiError: the app cannot see the file, there *)
(* is none, or Drive fails for a reason of its own.                         *)
Missed(f) ==
  /\ quiet' = (quiet /\ f \notin visible)
  /\ UNCHANGED <<known, ledger>>

(* Mutant: a file the ledger knows is taken to be where it was. *)
FetchTarget_Trusting ==
  /\ pc = "targets"
  /\ \E f \in pending :
       /\ pending' = pending \ {f}
       /\ \/ Fetched(f) /\ found' = found \cup {f}
          \/ /\ f \in Granted
             /\ known' = [x \in DOMAIN known \cup {f} |-> IF x = f THEN parents[f] ELSE known[x]]
             /\ found' = found \cup {f}
             /\ UNCHANGED <<ledger, quiet>>
          \/ Missed(f) /\ UNCHANGED found
  /\ UNCHANGED <<drive, pc, visited, walks, commandVars, acts, moves, inside, reachable>>

(* Mutant: an id that cannot be fetched stays among the files of the plan.  *)
FetchTarget_KeepsMissing ==
  /\ pc = "targets"
  /\ \E f \in pending :
       /\ pending' = pending \ {f}
       /\ found' = found \cup {f}
       /\ Fetched(f) \/ Missed(f)
  /\ UNCHANGED <<drive, pc, visited, walks, commandVars, acts, moves, inside, reachable>>

(* One turn of the loop of _resolve_targets. *)
FetchTarget ==
  /\ pc = "targets"
  /\ \E f \in pending :
       /\ pending' = pending \ {f}
       /\ \/ Fetched(f) /\ found' = found \cup {f}
          \/ Missed(f) /\ UNCHANGED found
  /\ UNCHANGED <<drive, pc, visited, walks, commandVars, acts, moves, inside, reachable>>

(* Ids the climb has not met. *)
Ahead(ids, knownNow, visitedNow) == ids \ (DOMAIN knownNow \cup visitedNow)

(* snapshot: the root, and then the parents of what was found. *)
FetchRoot ==
  /\ pc = "root" \/ (pc = "targets" /\ pending = {})
  /\ Fetched(Root) \/ Missed(Root)
  /\ pc' = "climb"
  /\ pending' = Ahead(UNION {Parents(known, f) : f \in found}, known', {})
  /\ UNCHANGED <<drive, found, visited, walks, commandVars, acts, moves, inside, reachable>>

(* Mutant: the climb stops where it meets a file it cannot see, for all.    *)
FetchParent_GivesUp ==
  /\ pc = "climb"
  /\ \E f \in pending :
       \/ /\ Fetched(f)
          /\ pending' = Ahead(pending \cup Parents(parents, f), known', visited)
          /\ UNCHANGED visited
       \/ /\ Missed(f)
          /\ visited' = visited \cup {f}
          /\ pending' = {}
  /\ UNCHANGED <<drive, pc, found, walks, commandVars, acts, moves, inside, reachable>>

(* One turn of the loop of snapshot, on an id it has not met. *)
FetchParent ==
  /\ pc = "climb"
  /\ \E f \in pending :
       \/ /\ Fetched(f)
          /\ pending' = Ahead(pending \cup Parents(parents, f), known', visited)
          /\ UNCHANGED visited
       \/ /\ Missed(f)
          /\ visited' = visited \cup {f}
          /\ pending' = pending \ {f}
  /\ UNCHANGED <<drive, pc, found, walks, commandVars, acts, moves, inside, reachable>>

(* The loop is over; the ledger is read, and the plan can be validated. *)
Judge ==
  /\ pc = "climb" /\ pending = {}
  /\ pc' = "judged"
  /\ UNCHANGED <<drive, ledger, found, known, pending, visited, walks, commandVars, history>>

(* The call returns; or it is left by an exception, of the organizer        *)
(* between listing and snapshot, or of anything else at any time.  What was *)
(* recorded stays recorded.                                                 *)
Leave ==
  /\ pc # "idle"
  /\ pc' = "idle"
  /\ found' = {} /\ known' = <<>> /\ pending' = {} /\ visited' = {}
  /\ moves' = 0 /\ quiet' = TRUE /\ inside' = {} /\ reachable' = {}
  /\ UNCHANGED <<drive, ledger, walks, commandVars, acts>>

-----------------------------------------------------------------------------
(* The file that the n-th request of a command makes. *)
File(c, n) == <<c, n>>

(* A request of a command is carried out. *)
Made(c) ==
  LET f == File(c, command[c].sent + 1) IN
  /\ Into[c] \in visible \/ Into[c] \notin Files
  /\ parents' = [x \in Files \cup {f} |-> IF x = f THEN <<Into[c]>> ELSE parents[x]]
  /\ visible' = visible \cup {f}
  /\ created' = created \cup {f}

(* Mutant: the next file is created before this one is recorded. *)
Create_All(c) ==
  /\ command[c].pc = "create"
  /\ Made(c)
  /\ command' = [command EXCEPT ![c].sent = @ + 1, ![c].tried = 0,
                                ![c].pc = IF command[c].sent + 1 >= Quota[c] THEN "record" ELSE @]
  /\ Meanwhile
  /\ UNCHANGED <<ledger, walkVars, mishaps, acts, moves>>

(* create_folder or create_text_file returns the new file. *)
Create(c) ==
  /\ command[c].pc = "create"
  /\ Made(c)
  /\ command' = [command EXCEPT ![c].sent = @ + 1, ![c].tried = 0, ![c].pc = "record"]
  /\ Meanwhile
  /\ UNCHANGED <<ledger, walkVars, mishaps, acts, moves>>

(* The answer is lost, whether or not the request was carried out, and      *)
(* call_with_retry, which counts the attempts of this call, sends another   *)
(* or gives up.                                                             *)
Unanswered(c) ==
  /\ command[c].pc = "create"
  /\ Made(c) \/ UNCHANGED <<drive, created>>
  /\ mishaps' = mishaps + 1
  /\ command' = [command EXCEPT ![c].sent = @ + 1, ![c].tried = @ + 1,
                   ![c].pc = IF command[c].tried + 1 < Attempts THEN "create" ELSE "stopped"]
  /\ Meanwhile
  /\ UNCHANGED <<ledger, walkVars, acts, moves>>

(* The file is recorded, with its source, before the next is created. *)
Record(c) ==
  /\ command[c].pc = "record"
  /\ ledger' = Recorded({File(c, command[c].sent)}, "app_created")
  /\ command' = [command EXCEPT ![c].recorded = @ + 1,
                   ![c].pc = IF command[c].recorded + 1 = Quota[c] THEN "audit" ELSE "create"]
  /\ UNCHANGED <<drive, walkVars, created, mishaps, history>>

(* The audit row comes last. *)
Audit(c) ==
  /\ command[c].pc = "audit"
  /\ command' = [command EXCEPT ![c].pc = "ended"]
  /\ UNCHANGED <<drive, ledger, walkVars, created, mishaps, history>>

(* The command is left by an exception or killed: Drive refuses, the        *)
(* database is locked, the operator interrupts it.                          *)
Stop(c) ==
  /\ command[c].pc \in {"create", "record", "audit"}
  /\ command' = [command EXCEPT ![c].pc = "stopped"]
  /\ mishaps' = mishaps + 1
  /\ UNCHANGED <<drive, ledger, walkVars, created, history>>

(* cwops grant: the file is fetched and so recorded. *)
Grant(f) ==
  /\ f \in visible
  /\ ledger' = Recorded({f}, "verified")
  /\ UNCHANGED <<drive, moves>>

(* A tool that only reads, served by another process: search hands on what  *)
(* Drive answered with, two files at most, and records it.                  *)
Search(results) ==
  /\ results \subseteq visible
  /\ ledger' = Recorded(results, "verified")
  /\ UNCHANGED <<drive, moves>>

-----------------------------------------------------------------------------
(* The owner moves a file; Drive never lets it make a cycle. *)
MoveByHand(f, d) ==
  /\ f # Root /\ IsFolder(d)
  /\ f # d /\ \A n \in 1..Cardinality(Files) : Up(d, n, First(parents)) # f
  /\ parents[f] # <<d>>
  /\ parents' = [parents EXCEPT ![f] = <<d>>]
  /\ moves' = IF pc = "idle" THEN 0 ELSE moves + 1
  /\ UNCHANGED visible

(* The app loses its grant on a file, or gets it back. *)
Regrant(f) ==
  /\ visible' = IF f \in visible THEN visible \ {f} ELSE visible \cup {f}
  /\ UNCHANGED <<parents, moves>>

(* The operator starts a provisioning command. *)
Start(c) ==
  /\ command[c].pc = "none"
  /\ command' = [command EXCEPT ![c].pc = "create"]
  /\ UNCHANGED <<drive, ledger, created, mishaps, moves>>

(* An act of the owner, on Drive or at the terminal, or of another tool call. *)
Others ==
  /\ acts < MaxActs
  /\ \/ (\E f, d \in Files : MoveByHand(f, d)) /\ UNCHANGED <<ledger, commandVars>>
     \/ (\E f \in Files : Regrant(f)) /\ UNCHANGED <<ledger, commandVars>>
     \/ (\E f \in Files : Grant(f)) /\ UNCHANGED commandVars
     \/ (\E f, g \in visible : Search({f, g})) /\ UNCHANGED commandVars
     \/ \E c \in Commands : Start(c)
  /\ acts' = acts + 1
  /\ Meanwhile
  /\ UNCHANGED walkVars

Walk ==
  \/ \E ids \in Asked : Resolve(ids)
  \/ \E folder \in Files : ListFolder(folder)
  \/ FetchTarget \/ FetchRoot \/ FetchParent \/ Judge \/ Leave

Provision == \E c \in Commands : Create(c) \/ Unanswered(c) \/ Record(c) \/ Audit(c) \/ Stop(c)

Next == Walk \/ Provision \/ Others

Spec == Init /\ [][Next]_vars

-----------------------------------------------------------------------------
(* The variables have their types; a snapshot holds files as they were.     *)
TypeOK ==
  /\ visible \subseteq Files /\ Granted \subseteq Files /\ DOMAIN known \subseteq Files
  /\ \A f \in Granted : ledger[f] \in {"app_created", "verified"}
  /\ found \subseteq DOMAIN known
  /\ pc \in {"idle", "targets", "root", "climb", "judged"}
  /\ \A c \in Commands :
       /\ command[c].pc \in {"none", "create", "record", "audit", "ended", "stopped"}
       /\ command[c].recorded \in 0..Quota[c] /\ command[c].recorded <= command[c].sent

(* The verdicts of the validator on a file named by a plan. *)
AsSource(f, k)      == CheckSource(f, k, Granted)
AsDestination(f, k) == CheckDestination(f, k, Granted, [r \in Refs |-> None])

(* A snapshot is not taken at one time, and its chains of parents may join  *)
(* links that were never there together.  Yet with one file moved meanwhile *)
(* what it proves to be inside was inside, before the move or after it      *)
(* (workspace.py:111).  With two moves that is no longer so.                *)
OneMoveCannotFoolASnapshot ==
  pc = "judged" /\ moves <= 1 =>
    \A f \in found : CheckContainment(f, First(known)) = "ok" => f \in inside \cup {Root}

(* Left alone, the requests add up to a snapshot taken at once: the extra   *)
(* parents, the order of the climb and what it cannot see change no verdict *)
(* on a file the plan may name (workspace.py:111).                          *)
QuietSnapshotIsAtomic ==
  pc = "judged" /\ quiet =>
    LET once == SnapshotOf(found, First(parents), visible) IN
    \A f \in found :
      /\ AsSource(f, First(known)) = AsSource(f, once)
      /\ AsDestination(f, First(known)) = AsDestination(f, once)

(* The ledger keeps the row of a file whose grant was withdrawn, and        *)
(* nothing takes it out (grants.py:89).  No plan gets through because of    *)
(* it: what is accepted was fetched for this snapshot, so it could be       *)
(* reached since it was begun.                                              *)
StaleRowsAcceptNothing ==
  pc = "judged" =>
    \A f \in Files :
      AsSource(f, First(known)) = "ok" \/ AsDestination(f, First(known)) = "ok" => f \in reachable

(* A file of a plan that the ledger has no row of is refused before Drive   *)
(* is asked for it, so that an id that is stale or made up never becomes a  *)
(* request (docs/safety-model.md:65, docs/architecture.md:136).             *)
(* organize.py:128 asks for every id first, and the answer makes the row.   *)
UngrantedIdsAreNotRequested ==
  [][pc = "targets" /\ pc' = pc => pending \ pending' \subseteq Granted]_vars

(* A file the app made is missing from the ledger only for a mishap: a lost *)
(* answer or an interrupted command costs one file, never two, and all      *)
(* others are recorded or about to be (provision.py:60).                    *)
MishapsCostOneFileEach ==
  LET coming == {File(c, command[c].sent) : c \in {x \in Commands : command[x].pc = "record"}}
  IN Cardinality(created \ (Granted \cup coming)) <= mishaps
=============================================================================
