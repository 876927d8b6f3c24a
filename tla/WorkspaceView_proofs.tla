------------------------ MODULE WorkspaceView_proofs ------------------------
(***************************************************************************)
(* Theorems about WorkspaceView, for any Drive, any plans, any commands    *)
(* and any number of snapshots and of acts of the others.                  *)
(*                                                                         *)
(* The inductive invariant says where the files of a snapshot come from    *)
(* (SnapshotIsReached): all have their row in the ledger, and all could be *)
(* reached since the snapshot was begun; and how far each command has got  *)
(* (CommandsCount).                                                        *)
(*                                                                         *)
(* The second invariant, SnapshotInv, says how a snapshot that takes time   *)
(* relates to Drive: it is of Drive as it is, while nothing happens         *)
(* (QuietIsCurrent), or of one of two Drives that differ in one file        *)
(* (SnapshotIsOfTwo).                                                       *)
(***************************************************************************)
EXTENDS WorkspaceView, PlanRules_proofs

CommandSteps == {"none", "create", "record", "audit", "ended", "stopped"}

(* What a command has sent and recorded when it gets to each step. *)
CommandsCount ==
  /\ command \in [Commands -> [pc : CommandSteps, sent : Nat, tried : Nat, recorded : Nat]]
  /\ \A c \in Commands :
       /\ command[c].recorded <= command[c].sent
       /\ command[c].recorded <= Quota[c]
       /\ command[c].pc \in {"none", "create", "record"} => command[c].recorded < Quota[c]
       /\ command[c].pc = "record" => command[c].recorded < command[c].sent

(* The rows of the ledger and the visible files are files of Drive. *)
LedgerIsOfDrive ==
  /\ visible \subseteq Files /\ Granted \subseteq Files
  /\ \A f \in Granted : ledger[f] \in {"app_created", "verified"}

Coming == {File(c, command[c].sent) : c \in {x \in Commands : command[x].pc = "record"}}

(* The commands made files of Drive, those about to be recorded included. *)
CreatedIsOfDrive == created \subseteq Files /\ Coming \subseteq created

(* A snapshot holds files that have a row, and that could be reached. *)
SnapshotIsReached ==
  /\ pc \in {"idle", "targets", "root", "climb", "judged"}
  /\ found \subseteq DOMAIN known /\ DOMAIN known \subseteq Granted
  /\ pc = "idle" => DOMAIN known = {}
  /\ pc # "idle" => visible \subseteq reachable /\ DOMAIN known \subseteq reachable

(* The created files that no row and no step of a command accounts for. *)
Missing == created \ (Granted \cup Coming)

MissingIsBounded ==
  /\ mishaps \in Nat
  /\ IsFiniteSet(Missing) /\ Cardinality(Missing) <= mishaps

ViewInv == /\ CommandsCount /\ LedgerIsOfDrive /\ CreatedIsOfDrive
           /\ SnapshotIsReached /\ MissingIsBounded

-----------------------------------------------------------------------------
(* Recording adds the rows of the files it is given, and keeps the others. *)
LEMMA RecordedKeeps ==
  ASSUME LedgerIsOfDrive, NEW S, NEW source \in {"app_created", "verified"},
         ledger' = Recorded(S, source)
  PROVE  /\ Granted' = Granted \cup S
         /\ \A f \in Granted' : ledger'[f] \in {"app_created", "verified"}
BY DEF LedgerIsOfDrive, Granted, Recorded

(* A file that was fetched is visible, known and recorded. *)
LEMMA FetchedIsKnown ==
  ASSUME LedgerIsOfDrive, NEW f, Fetched(f)
  PROVE  /\ f \in visible
         /\ DOMAIN known' = DOMAIN known \cup {f}
         /\ Granted' = Granted \cup {f}
         /\ \A g \in Granted' : ledger'[g] \in {"app_created", "verified"}
<1>1. f \in visible /\ DOMAIN known' = DOMAIN known \cup {f} BY DEF Fetched
<1>2. ledger' = Recorded({f}, "verified") BY DEF Fetched
<1> QED BY <1>1, <1>2, RecordedKeeps

(* What a request of a command makes is a new visible file. *)
LEMMA MadeIsVisible ==
  ASSUME NEW c \in Commands, Made(c), LedgerIsOfDrive
  PROVE  /\ Files' = Files \cup {File(c, command[c].sent + 1)}
         /\ visible' = visible \cup {File(c, command[c].sent + 1)}
         /\ created' = created \cup {File(c, command[c].sent + 1)}
BY DEF Made, Files

(* What the history remembers of what could be reached. *)
LEMMA MeanwhileReaches ==
  ASSUME Meanwhile, pc # "idle", visible \subseteq reachable
  PROVE  visible' \subseteq reachable' /\ reachable \subseteq reachable'
BY DEF Meanwhile

-----------------------------------------------------------------------------
(* One command takes a step, and has what it should have there. *)
LEMMA OneCommandSteps ==
  ASSUME CommandsCount, NEW c \in Commands,
         NEW w \in [pc : CommandSteps, sent : Nat, tried : Nat, recorded : Nat],
         command' = [command EXCEPT ![c] = w],
         w.recorded <= w.sent, w.recorded <= Quota[c],
         w.pc \in {"none", "create", "record"} => w.recorded < Quota[c],
         w.pc = "record" => w.recorded < w.sent
  PROVE  CommandsCount'
<1>1. command' \in [Commands -> [pc : CommandSteps, sent : Nat, tried : Nat, recorded : Nat]]
  BY DEF CommandsCount
<1>2. command'[c] = w /\ \A x \in Commands \ {c} : command'[x] = command[x]
  BY DEF CommandsCount
<1> QED BY <1>1, <1>2 DEF CommandsCount

LEMMA CommandsStep == CommandsCount /\ [Next]_vars => CommandsCount'
<1> SUFFICES ASSUME CommandsCount, [Next]_vars PROVE CommandsCount'
  OBVIOUS
<1>1. CASE UNCHANGED command
  BY <1>1 DEF CommandsCount
<1>2. CASE Provision
  <2> PICK c \in Commands : Create(c) \/ Unanswered(c) \/ Record(c) \/ Audit(c) \/ Stop(c)
    BY <1>2 DEF Provision
  <2> PICK b : b = command[c]
    OBVIOUS
  <2>0. /\ b = command[c]
        /\ b \in [pc : CommandSteps, sent : Nat, tried : Nat, recorded : Nat]
        /\ Quota[c] \in Nat /\ b.recorded <= b.sent /\ b.recorded <= Quota[c]
        /\ b.pc \in {"create", "record"} => b.recorded < Quota[c]
        /\ b.pc = "record" => b.recorded < b.sent
    BY ViewAssumption DEF CommandsCount
  <2>1. CASE Create(c)
    <3> PICK w : w = [b EXCEPT !.sent = @ + 1, !.tried = 0, !.pc = "record"]
      OBVIOUS
    <3>1. command' = [command EXCEPT ![c] = w] /\ b.pc = "create"
      BY <2>1, <2>0 DEF Create
    <3> b.sent + 1 \in Nat /\ b.tried + 1 \in Nat /\ b.recorded + 1 \in Nat
      BY <2>0
    <3>2. w \in [pc : CommandSteps, sent : Nat, tried : Nat, recorded : Nat]
      <4> "record" \in CommandSteps /\ {"create", "stopped", "audit"} \subseteq CommandSteps
        BY DEF CommandSteps
      <4> QED BY <2>0
    <3>3. w.sent = b.sent + 1 /\ w.recorded = b.recorded /\ w.pc = "record"
      BY <2>0
    <3>4. /\ w.recorded <= w.sent /\ w.recorded <= Quota[c]
          /\ w.pc \in {"none", "create", "record"} => w.recorded < Quota[c]
          /\ w.pc = "record" => w.recorded < w.sent
      BY <2>0, <3>1, <3>3
    <3> QED BY <3>1, <3>2, <3>4, OneCommandSteps
  <2>2. CASE Unanswered(c)
    <3> PICK l \in {"create", "stopped"} : l = IF b.tried + 1 < Attempts THEN "create" ELSE "stopped"
      OBVIOUS
    <3> PICK w : w = [b EXCEPT !.sent = @ + 1, !.tried = @ + 1, !.pc = l]
      OBVIOUS
    <3>1. command' = [command EXCEPT ![c] = w] /\ b.pc = "create"
      BY <2>2, <2>0 DEF Unanswered
    <3> b.sent + 1 \in Nat /\ b.tried + 1 \in Nat /\ b.recorded + 1 \in Nat
      BY <2>0
    <3>2. w \in [pc : CommandSteps, sent : Nat, tried : Nat, recorded : Nat]
      <4> "record" \in CommandSteps /\ {"create", "stopped", "audit"} \subseteq CommandSteps
        BY DEF CommandSteps
      <4> QED BY <2>0
    <3>3. w.sent = b.sent + 1 /\ w.recorded = b.recorded /\ w.pc = l
      BY <2>0
    <3>4. /\ w.recorded <= w.sent /\ w.recorded <= Quota[c]
          /\ w.pc \in {"none", "create", "record"} => w.recorded < Quota[c]
          /\ w.pc = "record" => w.recorded < w.sent
      BY <2>0, <3>1, <3>3
    <3> QED BY <3>1, <3>2, <3>4, OneCommandSteps
  <2>3. CASE Record(c)
    <3> PICK l \in {"audit", "create"} : l = IF b.recorded + 1 = Quota[c] THEN "audit" ELSE "create"
      OBVIOUS
    <3> PICK w : w = [b EXCEPT !.recorded = @ + 1, !.pc = l]
      OBVIOUS
    <3>1. command' = [command EXCEPT ![c] = w] /\ b.pc = "record"
      BY <2>3, <2>0 DEF Record
    <3> b.sent + 1 \in Nat /\ b.tried + 1 \in Nat /\ b.recorded + 1 \in Nat
      BY <2>0
    <3>2. w \in [pc : CommandSteps, sent : Nat, tried : Nat, recorded : Nat]
      <4> "record" \in CommandSteps /\ {"create", "stopped", "audit"} \subseteq CommandSteps
        BY DEF CommandSteps
      <4> QED BY <2>0
    <3>3. w.sent = b.sent /\ w.recorded = b.recorded + 1 /\ w.pc = l
      BY <2>0
    <3>4. /\ w.recorded <= w.sent /\ w.recorded <= Quota[c]
          /\ w.pc \in {"none", "create", "record"} => w.recorded < Quota[c]
          /\ w.pc = "record" => w.recorded < w.sent
      BY <2>0, <3>1, <3>3
    <3> QED BY <3>1, <3>2, <3>4, OneCommandSteps
  <2>4. CASE Audit(c)
    <3>1. command' = [command EXCEPT ![c] = [b EXCEPT !.pc = "ended"]]
      BY <2>4 DEF Audit
    <3> QED BY <2>0, <3>1, OneCommandSteps DEF CommandSteps
  <2>5. CASE Stop(c)
    <3>1. command' = [command EXCEPT ![c] = [b EXCEPT !.pc = "stopped"]]
      BY <2>5 DEF Stop
    <3> QED BY <2>0, <3>1, OneCommandSteps DEF CommandSteps
  <2> QED BY <2>1, <2>2, <2>3, <2>4, <2>5
<1>3. CASE Others
  <2>1. CASE \E c \in Commands : Start(c)
    BY <2>1 DEF Start, CommandsCount, CommandSteps
  <2> QED BY <1>1, <1>3, <2>1 DEF Others, commandVars
<1>4. CASE Walk
  BY <1>1, <1>4 DEF Walk, Resolve, ListFolder, FetchTarget, FetchRoot, FetchParent, Judge, Leave,
                    commandVars
<1> QED BY <1>1, <1>2, <1>3, <1>4 DEF Next, vars, commandVars

LEMMA LedgerStep == LedgerIsOfDrive /\ CreatedIsOfDrive /\ [Next]_vars => LedgerIsOfDrive'
<1> SUFFICES ASSUME LedgerIsOfDrive, CreatedIsOfDrive, [Next]_vars PROVE LedgerIsOfDrive'
  OBVIOUS
<1>1. CASE UNCHANGED <<drive, ledger>>
  BY <1>1 DEF LedgerIsOfDrive, drive, Files, Granted
<1>2. ASSUME UNCHANGED drive, NEW S \in SUBSET Files, NEW source \in {"app_created", "verified"},
             ledger' = Recorded(S, source)
      PROVE  LedgerIsOfDrive'
  <2>1. Granted' = Granted \cup S /\ \A f \in Granted' : ledger'[f] \in {"app_created", "verified"}
    BY <1>2, RecordedKeeps
  <2> QED BY <1>2, <2>1 DEF LedgerIsOfDrive, drive, Files
<1>3. ASSUME NEW f, Fetched(f) \/ Missed(f), UNCHANGED drive
      PROVE  LedgerIsOfDrive'
  <2>1. CASE Fetched(f)
    BY <1>2, <1>3, <2>1 DEF Fetched, LedgerIsOfDrive
  <2>2. CASE Missed(f)
    BY <1>1, <1>3, <2>2 DEF Missed, drive
  <2> QED BY <1>3, <2>1, <2>2
<1>4. CASE Walk
  <2>1. CASE \E ids \in Asked : Resolve(ids)
    BY <1>1, <2>1 DEF Resolve
  <2>2. CASE \E folder \in Files : ListFolder(folder)
    BY <1>2, <2>2 DEF ListFolder, LedgerIsOfDrive
  <2>3. CASE FetchTarget
    BY <1>3, <2>3 DEF FetchTarget
  <2>4. CASE FetchRoot
    BY <1>3, <2>4 DEF FetchRoot
  <2>5. CASE FetchParent
    BY <1>3, <2>5 DEF FetchParent
  <2>6. CASE Judge \/ Leave
    BY <1>1, <2>6 DEF Judge, Leave
  <2> QED BY <1>4, <2>1, <2>2, <2>3, <2>4, <2>5, <2>6 DEF Walk
<1>5. CASE Provision
  <2> PICK c \in Commands : Create(c) \/ Unanswered(c) \/ Record(c) \/ Audit(c) \/ Stop(c)
    BY <1>5 DEF Provision
  <2>1. ASSUME Made(c), UNCHANGED ledger PROVE LedgerIsOfDrive'
    BY <2>1, MadeIsVisible DEF LedgerIsOfDrive, Granted
  <2>2. CASE Create(c)
    BY <2>1, <2>2 DEF Create
  <2>3. CASE Unanswered(c)
    BY <1>1, <2>1, <2>3 DEF Unanswered
  <2>4. CASE Record(c)
    <3>1. File(c, command[c].sent) \in Files
      BY <2>4 DEF Record, CreatedIsOfDrive, Coming
    <3> QED BY <1>2, <2>4, <3>1 DEF Record
  <2>5. CASE Audit(c) \/ Stop(c)
    BY <1>1, <2>5 DEF Audit, Stop
  <2> QED BY <2>2, <2>3, <2>4, <2>5
<1>6. CASE Others
  <2>1. CASE \E f, d \in Files : MoveByHand(f, d) /\ UNCHANGED ledger
    BY <2>1 DEF MoveByHand, LedgerIsOfDrive, Files, Granted
  <2>2. CASE \E f \in Files : Regrant(f) /\ UNCHANGED ledger
    BY <2>2 DEF Regrant, LedgerIsOfDrive, Files, Granted
  <2>3. CASE \E f \in Files : Grant(f)
    BY <1>2, <2>3 DEF Grant, LedgerIsOfDrive
  <2>4. CASE \E f, g \in visible : Search({f, g})
    BY <1>2, <2>4 DEF Search, LedgerIsOfDrive
  <2>5. CASE \E c \in Commands : Start(c)
    BY <1>1, <2>5 DEF Start
  <2> QED BY <1>6, <2>1, <2>2, <2>3, <2>4, <2>5 DEF Others
<1> QED BY <1>1, <1>4, <1>5, <1>6 DEF Next, vars

(* Every file of a snapshot has its row and could be reached meanwhile:     *)
(* fetching a file adds it to all three, and the ledger loses none.         *)
LEMMA SnapshotStep ==
  LedgerIsOfDrive /\ SnapshotIsReached /\ [Next]_vars => SnapshotIsReached'
<1> SUFFICES ASSUME LedgerIsOfDrive, SnapshotIsReached, [Next]_vars PROVE SnapshotIsReached'
  OBVIOUS
<1>1. CASE Walk
  <2>1. CASE \E ids \in Asked : Resolve(ids)
    BY <2>1 DEF Resolve, Remember, SnapshotIsReached, drive, Granted
  <2>2. CASE \E folder \in Files : ListFolder(folder)
    <3> PICK folder \in Files : ListFolder(folder) BY <2>2
    <3>1. PICK S \in SUBSET visible : /\ found' = S /\ known' = [f \in S |-> parents[f]]
                                     /\ ledger' = Recorded(S, "verified")
      BY DEF ListFolder
    <3>2. Granted' = Granted \cup S BY <3>1, RecordedKeeps
    <3>3. pc' = "root" /\ reachable' = visible /\ UNCHANGED visible
      BY DEF ListFolder, Remember, drive
    <3> QED BY <3>1, <3>2, <3>3 DEF SnapshotIsReached
  <2>3. ASSUME pc # "idle", NEW f, Fetched(f), UNCHANGED <<drive, reachable>>,
               found' \in {found, found \cup {f}}, pc' \in {"targets", "root", "climb"}
        PROVE  SnapshotIsReached'
    BY <2>3, FetchedIsKnown DEF SnapshotIsReached, drive
  <2>4. ASSUME pc # "idle", NEW f, Missed(f), UNCHANGED <<drive, reachable, found>>,
               pc' \in {"targets", "root", "climb"}
        PROVE  SnapshotIsReached'
    BY <2>4 DEF Missed, SnapshotIsReached, drive, Granted
  <2>5. CASE FetchTarget
    BY <2>3, <2>4, <2>5 DEF FetchTarget
  <2>6. CASE FetchRoot
    BY <2>3, <2>4, <2>6 DEF FetchRoot
  <2>7. CASE FetchParent
    BY <2>3, <2>4, <2>7 DEF FetchParent
  <2>8. CASE Judge
    BY <2>8 DEF Judge, SnapshotIsReached, drive, history, Granted
  <2>9. CASE Leave
    BY <2>9 DEF Leave, SnapshotIsReached
  <2> QED BY <1>1, <2>1, <2>2, <2>5, <2>6, <2>7, <2>8, <2>9 DEF Walk
<1>2. ASSUME UNCHANGED walkVars, Granted \subseteq Granted',
             pc # "idle" => visible' \subseteq reachable' /\ reachable \subseteq reachable'
      PROVE  SnapshotIsReached'
  BY <1>2 DEF walkVars, SnapshotIsReached
<1>3. ASSUME Meanwhile
      PROVE  pc # "idle" => visible' \subseteq reachable' /\ reachable \subseteq reachable'
  BY <1>3, MeanwhileReaches DEF SnapshotIsReached
<1>4. UNCHANGED <<visible, reachable>>
        => (pc # "idle" => visible' \subseteq reachable' /\ reachable \subseteq reachable')
  BY DEF SnapshotIsReached
<1>5. CASE Provision
  <2> PICK c \in Commands : Create(c) \/ Unanswered(c) \/ Record(c) \/ Audit(c) \/ Stop(c)
    BY <1>5 DEF Provision
  <2>1. CASE Create(c) \/ Unanswered(c)
    BY <1>2, <1>3, <2>1 DEF Create, Unanswered, Granted
  <2>2. CASE Record(c)
    <3>1. Granted \subseteq Granted' BY <2>2, RecordedKeeps DEF Record
    <3> QED BY <1>2, <1>4, <2>2, <3>1 DEF Record, drive, history
  <2>3. CASE Audit(c) \/ Stop(c)
    BY <1>2, <1>4, <2>3 DEF Audit, Stop, drive, history, Granted
  <2> QED BY <2>1, <2>2, <2>3
<1>6. CASE Others
  <2>1. UNCHANGED walkVars /\ Meanwhile BY <1>6 DEF Others
  <2>2. Granted \subseteq Granted'
    <3>1. CASE UNCHANGED ledger BY <3>1 DEF Granted
    <3>2. CASE \E S : ledger' = Recorded(S, "verified") BY <3>2, RecordedKeeps
    <3> QED BY <1>6, <3>1, <3>2 DEF Others, Start, Grant, Search
  <2> QED BY <1>2, <1>3, <2>1, <2>2
<1>7. CASE UNCHANGED vars
  BY <1>7 DEF vars, walkVars, drive, history, SnapshotIsReached, Granted
<1> QED BY <1>1, <1>5, <1>6, <1>7 DEF Next

LEMMA CreatedStep ==
  CommandsCount /\ LedgerIsOfDrive /\ CreatedIsOfDrive /\ [Next]_vars => CreatedIsOfDrive'
<1> SUFFICES ASSUME CommandsCount, LedgerIsOfDrive, CreatedIsOfDrive, [Next]_vars
             PROVE  CreatedIsOfDrive'
  OBVIOUS
<1>1. ASSUME Files \subseteq Files', created \subseteq created', created' \subseteq Files',
             NEW c \in Commands,
             \A x \in Commands \ {c} : command'[x] = command[x],
             command'[c].pc = "record" => File(c, command'[c].sent) \in created'
      PROVE  CreatedIsOfDrive'
  BY <1>1 DEF CreatedIsOfDrive, Coming
<1>2. CASE UNCHANGED <<parents, commandVars>>
  BY <1>2 DEF commandVars, CreatedIsOfDrive, Coming, Files
<1>3. CASE Provision
  <2> PICK c \in Commands : Create(c) \/ Unanswered(c) \/ Record(c) \/ Audit(c) \/ Stop(c)
    BY <1>3 DEF Provision
  <2>2. CASE Create(c)
    <3>1. /\ \A x \in Commands \ {c} : command'[x] = command[x]
          /\ command'[c].sent = command[c].sent + 1
      BY <2>2 DEF Create, CommandsCount
    <3> QED BY <1>1, <2>2, <3>1, MadeIsVisible DEF Create, CreatedIsOfDrive
  <2>3. CASE Unanswered(c)
    <3> DEFINE l == IF command[c].tried + 1 < Attempts THEN "create" ELSE "stopped"
    <3>1. command' = [command EXCEPT ![c].sent = @ + 1, ![c].tried = @ + 1, ![c].pc = l]
      BY <2>3 DEF Unanswered
    <3>2. l # "record" OBVIOUS
    <3> HIDE DEF l
    <3>3. /\ \A x \in Commands \ {c} : command'[x] = command[x]
          /\ command'[c].pc # "record"
      BY <3>1, <3>2 DEF CommandsCount
    <3>4. CASE Made(c)
      BY <1>1, <3>3, <3>4, MadeIsVisible DEF CreatedIsOfDrive
    <3>5. CASE UNCHANGED <<drive, created>>
      BY <1>1, <3>3, <3>5 DEF CreatedIsOfDrive, drive, Files
    <3> QED BY <2>3, <3>4, <3>5 DEF Unanswered
  <2>4. CASE Record(c) \/ Audit(c) \/ Stop(c)
    <3>1. /\ \A x \in Commands \ {c} : command'[x] = command[x]
          /\ command'[c].pc # "record"
      BY <2>4 DEF Record, Audit, Stop, CommandsCount
    <3> QED BY <1>1, <2>4, <3>1 DEF Record, Audit, Stop, CreatedIsOfDrive, drive, Files
  <2> QED BY <2>2, <2>3, <2>4
<1>4. CASE Others
  <2>1. CASE \E f, d \in Files : MoveByHand(f, d) /\ UNCHANGED commandVars
    BY <2>1 DEF MoveByHand, commandVars, CreatedIsOfDrive, Coming, Files
  <2>2. CASE \E c \in Commands : Start(c)
    <3> PICK c \in Commands : Start(c) BY <2>2
    <3>1. /\ \A x \in Commands \ {c} : command'[x] = command[x]
          /\ command'[c].pc # "record"
      BY DEF Start, CommandsCount
    <3> QED BY <1>1, <3>1 DEF Start, CreatedIsOfDrive, drive, Files
  <2>3. CASE \E f \in Files : Regrant(f) /\ UNCHANGED commandVars
    BY <1>2, <2>3 DEF Regrant
  <2>4. CASE \E f \in Files : Grant(f) /\ UNCHANGED commandVars
    BY <1>2, <2>4 DEF Grant, drive
  <2>5. CASE \E f, g \in visible : Search({f, g}) /\ UNCHANGED commandVars
    BY <1>2, <2>5 DEF Search, drive
  <2> QED BY <1>4, <2>1, <2>2, <2>3, <2>4, <2>5 DEF Others
<1>5. CASE Walk
  BY <1>2, <1>5 DEF Walk, Resolve, ListFolder, FetchTarget, FetchRoot, FetchParent, Judge, Leave,
                    drive
<1> QED BY <1>2, <1>3, <1>4, <1>5 DEF Next, vars, drive

(* The count of missing files bears a smaller set, and with a mishap one    *)
(* file more.                                                               *)
LEMMA MissingMayShrink ==
  ASSUME MissingIsBounded, Missing' \subseteq Missing, mishaps' = mishaps
  PROVE  MissingIsBounded'
<1>1. IsFiniteSet(Missing') /\ Cardinality(Missing') <= Cardinality(Missing)
  BY FS_Subset DEF MissingIsBounded
<1>2. Cardinality(Missing') \in Nat /\ Cardinality(Missing) \in Nat
  BY <1>1, FS_CardinalityType DEF MissingIsBounded
<1> QED BY <1>1, <1>2 DEF MissingIsBounded

LEMMA MishapMayAddOne ==
  ASSUME MissingIsBounded, NEW g, Missing' \subseteq Missing \cup {g}, mishaps' = mishaps + 1
  PROVE  MissingIsBounded'
<1> DEFINE Larger == Missing \cup {g}
<1>1. IsFiniteSet(Larger) /\ Cardinality(Larger) <= Cardinality(Missing) + 1
  <2>1. IsFiniteSet(Missing) /\ Cardinality(Missing) \in Nat
    BY FS_CardinalityType DEF MissingIsBounded
  <2> QED BY <2>1, FS_AddElement
<1>2. IsFiniteSet(Missing') /\ Cardinality(Missing') <= Cardinality(Larger)
  BY <1>1, FS_Subset
<1>3. /\ Cardinality(Missing') \in Nat /\ Cardinality(Larger) \in Nat
      /\ Cardinality(Missing) \in Nat
  BY <1>1, <1>2, FS_CardinalityType DEF MissingIsBounded
<1> QED BY <1>1, <1>2, <1>3 DEF MissingIsBounded

LEMMA MissingStep ==
  CommandsCount /\ LedgerIsOfDrive /\ MissingIsBounded /\ [Next]_vars => MissingIsBounded'
<1> SUFFICES ASSUME CommandsCount, LedgerIsOfDrive, MissingIsBounded, [Next]_vars
             PROVE  MissingIsBounded'
  OBVIOUS
<1>1. ASSUME UNCHANGED commandVars, Granted \subseteq Granted'
      PROVE  MissingIsBounded'
  BY <1>1, MissingMayShrink DEF commandVars, Missing, Coming
<1>2. ASSUME NEW c \in Commands, \A x \in Commands \ {c} : command'[x] = command[x]
      PROVE  Coming \ {File(c, command[c].sent)} \subseteq Coming'
  BY <1>2 DEF Coming
<1>3. CASE Provision
  <2> PICK c \in Commands : Create(c) \/ Unanswered(c) \/ Record(c) \/ Audit(c) \/ Stop(c)
    BY <1>3 DEF Provision
  <2>1. CASE Create(c)
    <3>1. /\ \A x \in Commands \ {c} : command'[x] = command[x]
          /\ command'[c].sent = command[c].sent + 1 /\ command'[c].pc = "record"
          /\ command[c].pc = "create"
      BY <2>1 DEF Create, CommandsCount
    <3>2. Coming \cup {File(c, command[c].sent + 1)} \subseteq Coming'
      BY <3>1 DEF Coming
    <3>3. created' = created \cup {File(c, command[c].sent + 1)}
      BY <2>1, MadeIsVisible DEF Create
    <3> QED BY <2>1, <3>2, <3>3, MissingMayShrink DEF Create, Missing, Granted
  <2>2. CASE Unanswered(c)
    <3> DEFINE g == File(c, command[c].sent + 1)
    <3>1. \A x \in Commands \ {c} : command'[x] = command[x]
      BY <2>2 DEF Unanswered, CommandsCount
    <3>2. command[c].pc # "record"
      BY <2>2 DEF Unanswered
    <3>3. Coming \subseteq Coming'
      BY <3>1, <3>2 DEF Coming
    <3>4. created' \subseteq created \cup {g}
      BY <2>2, MadeIsVisible DEF Unanswered
    <3>5. Missing' \subseteq Missing \cup {g}
      BY <2>2, <3>3, <3>4 DEF Unanswered, Missing, Granted
    <3> QED BY <2>2, <3>5, MishapMayAddOne DEF Unanswered
  <2>3. CASE Record(c)
    <3>1. \A x \in Commands \ {c} : command'[x] = command[x]
      BY <2>3 DEF Record, CommandsCount
    <3>2. Granted' = Granted \cup {File(c, command[c].sent)}
      BY <2>3, RecordedKeeps DEF Record
    <3>3. Missing' \subseteq Missing
      BY <1>2, <2>3, <3>1, <3>2 DEF Record, Missing
    <3> QED BY <2>3, <3>3, MissingMayShrink DEF Record
  <2>4. CASE Audit(c)
    <3>1. /\ \A x \in Commands \ {c} : command'[x] = command[x]
          /\ command[c].pc # "record"
      BY <2>4 DEF Audit, CommandsCount
    <3>2. Coming \subseteq Coming'
      BY <3>1 DEF Coming
    <3> QED BY <2>4, <3>2, MissingMayShrink DEF Audit, Missing, Granted
  <2>5. CASE Stop(c)
    <3>1. \A x \in Commands \ {c} : command'[x] = command[x]
      BY <2>5 DEF Stop, CommandsCount
    <3>2. Missing' \subseteq Missing \cup {File(c, command[c].sent)}
      BY <1>2, <2>5, <3>1 DEF Stop, Missing, Granted
    <3> QED BY <2>5, <3>2, MishapMayAddOne DEF Stop
  <2> QED BY <2>1, <2>2, <2>3, <2>4, <2>5
<1>4. CASE Others
  <2>1. Granted \subseteq Granted'
    <3>1. CASE UNCHANGED ledger BY <3>1 DEF Granted
    <3>2. CASE \E S : ledger' = Recorded(S, "verified") BY <3>2, RecordedKeeps
    <3> QED BY <1>4, <3>1, <3>2 DEF Others, Start, Grant, Search
  <2>2. CASE UNCHANGED commandVars
    BY <1>1, <2>1, <2>2
  <2>3. CASE \E c \in Commands : Start(c)
    <3> PICK c \in Commands : Start(c) BY <2>3
    <3>1. /\ \A x \in Commands \ {c} : command'[x] = command[x]
          /\ command[c].pc # "record"
      BY DEF Start, CommandsCount
    <3>2. Coming \subseteq Coming'
      BY <3>1 DEF Coming
    <3> QED BY <2>1, <3>2, MissingMayShrink DEF Start, Missing
  <2> QED BY <1>4, <2>2, <2>3 DEF Others
<1>5. CASE Walk
  <2>1. UNCHANGED commandVars
    BY <1>5 DEF Walk, Resolve, ListFolder, FetchTarget, FetchRoot, FetchParent, Judge, Leave
  <2>2. Granted \subseteq Granted'
    <3>1. CASE UNCHANGED ledger BY <3>1 DEF Granted
    <3>2. CASE \E S : ledger' = Recorded(S, "verified") BY <3>2, RecordedKeeps
    <3> QED BY <1>5, <3>1, <3>2 DEF Walk, Resolve, ListFolder, FetchTarget, FetchRoot, FetchParent,
                                    Judge, Leave, Fetched, Missed
  <2> QED BY <1>1, <2>1, <2>2
<1>6. CASE UNCHANGED vars
  BY <1>1, <1>6 DEF vars, Granted
<1> QED BY <1>3, <1>4, <1>5, <1>6 DEF Next

-----------------------------------------------------------------------------
LEMMA InitIsView == Init => ViewInv
<1> SUFFICES ASSUME Init PROVE ViewInv
  OBVIOUS
<1>1. CommandsCount
  BY ViewAssumption DEF Init, CommandsCount, CommandSteps
<1>2. LedgerIsOfDrive
  BY DEF Init, LedgerIsOfDrive, Files, Granted
<1>3. CreatedIsOfDrive
  BY DEF Init, CreatedIsOfDrive, Coming
<1>4. SnapshotIsReached
  BY DEF Init, SnapshotIsReached
<1>5. Missing = {}
  BY DEF Init, Missing
<1>6. MissingIsBounded
  BY <1>5, FS_EmptySet DEF Init, MissingIsBounded
<1> QED BY <1>1, <1>2, <1>3, <1>4, <1>6 DEF ViewInv

LEMMA ViewStep == ViewInv /\ [Next]_vars => ViewInv'
BY CommandsStep, LedgerStep, CreatedStep, SnapshotStep, MissingStep DEF ViewInv

(* The inductive invariant of the module holds in every reachable state. *)
THEOREM ViewInductive == Spec => []ViewInv
BY InitIsView, ViewStep, PTL DEF Spec

(* The variables of WorkspaceView have their types, and a snapshot holds    *)
(* only files of Drive.                                                     *)
THEOREM ViewTypeCorrect == Spec => []TypeOK
<1>1. ViewInv => TypeOK
  <2> SUFFICES ASSUME ViewInv PROVE TypeOK
    OBVIOUS
  <2>1. \A c \in Commands : /\ command[c].pc \in CommandSteps
                            /\ command[c].recorded \in 0..Quota[c]
                            /\ command[c].recorded <= command[c].sent
    BY ViewAssumption DEF ViewInv, CommandsCount
  <2> QED BY <2>1 DEF ViewInv, TypeOK, LedgerIsOfDrive, SnapshotIsReached, CommandSteps
<1> QED BY <1>1, ViewInductive, PTL

(* No plan gets through because the ledger keeps the row of a file whose    *)
(* grant was withdrawn: what is accepted was within reach while the         *)
(* snapshot was taken.                                                      *)
THEOREM StaleRowsAreHarmless == Spec => []StaleRowsAcceptNothing
<1>1. ViewInv => StaleRowsAcceptNothing
  <2> SUFFICES ASSUME SnapshotIsReached, pc = "judged", NEW f \in Files,
                      AsSource(f, First(known)) = "ok" \/ AsDestination(f, First(known)) = "ok"
               PROVE  f \in reachable
    BY DEF ViewInv, StaleRowsAcceptNothing
  <2>1. DOMAIN First(known) = DOMAIN known
    BY DEF First
  <2>2. f \in DOMAIN known \/ f \in Refs
    BY <2>1 DEF AsSource, AsDestination, CheckSource, CheckDestination
  <2>3. CASE f \in Refs
    BY <2>1, <2>3 DEF AsSource, AsDestination, CheckSource, CheckDestination, SnapshotIsReached
  <2> QED BY <2>2, <2>3 DEF SnapshotIsReached
<1> QED BY <1>1, ViewInductive, PTL

(* Every lost answer and every interrupted command leaves one created file  *)
(* out of the ledger, at most.                                              *)
THEOREM MishapsAreCounted == Spec => []MishapsCostOneFileEach
<1>1. ViewInv => MishapsCostOneFileEach
  BY DEF ViewInv, MissingIsBounded, MishapsCostOneFileEach, Missing, Coming
<1> QED BY <1>1, ViewInductive, PTL

-----------------------------------------------------------------------------
(* What a snapshot that is not taken at one time has to do with Drive.      *)

Tree == First(parents)

(* Drive is finite, its parents are folders, and a file that a command has  *)
(* yet to ask for is not there, nor is anything in it.                      *)
FilesAreNew ==
  /\ IsFiniteSet(Files) /\ None \notin Files
  /\ parents \in [Files -> Seq(Folders)]
  /\ \A c \in Commands : Into[c] = Root \/ Into[c] \notin Files
  /\ \A c \in Commands, n \in Nat : n > command[c].sent =>
       /\ File(c, n) \notin Files
       /\ \A f \in Files : Tree[f] # File(c, n)

(* While nothing happens that a snapshot may miss, it is of Drive as it is, *)
(* and what it lacks cannot be seen or is still to be fetched.              *)
QuietIsCurrent ==
  /\ pc = "idle" => found = {} /\ DOMAIN known = {} /\ visited = {}
  /\ pc # "idle" /\ quiet =>
       /\ DOMAIN known \subseteq visible
       /\ \A f \in DOMAIN known : known[f] = parents[f]
       /\ visited \cap visible = {}
       /\ pc \in {"targets", "root"} => DOMAIN known = found
       /\ pc \in {"climb", "judged"} =>
            /\ Root \in visible => Root \in DOMAIN known
            /\ \A f \in DOMAIN known \ {Root} :
                 Parents(known, f) \subseteq DOMAIN known \cup visited \cup pending
       /\ pc = "judged" => pending = {}

(* The Drive from before the only move of a file, with the files created    *)
(* since in it, and the one of now: each parent in the snapshot is from the *)
(* one or the other, and they differ in one file.                           *)
IsBefore(before) ==
  /\ DOMAIN before = Files
  /\ \E m : \A f \in Files \ {m} : before[f] = Tree[f]
  /\ \A f \in Files : Beneath(f, Root, before) => f \in inside
  /\ \A f \in DOMAIN known : First(known)[f] \in {before[f], Tree[f]}
  /\ \A c \in Commands, n \in Nat : n > command[c].sent => \A f \in Files : before[f] # File(c, n)
  /\ moves = 0 => \A f \in Files : before[f] = Tree[f]

SnapshotIsOfTwo ==
  /\ moves \in Nat
  /\ pc = "idle" => moves = 0
  /\ pc # "idle" /\ moves <= 1 =>
       /\ \A f \in Files : Beneath(f, Root, Tree) => f \in inside
       /\ \E before : IsBefore(before)

-----------------------------------------------------------------------------
(* The bound of Workspace is enough. *)
LEMMA WorkspaceIsBeneath ==
  ASSUME NEW p, IsFiniteSet(DOMAIN p), None \notin DOMAIN p, NEW f
  PROVE  f \in Workspace(p) <=> f \in DOMAIN p /\ Beneath(f, Root, First(p))
<1>1. DOMAIN First(p) = DOMAIN p
  BY DEF First
<1>2. Root # None
  BY RulesAssumption
<1>3. Beneath(f, Root, First(p)) <=> \E n \in 1..Cardinality(DOMAIN p) : Up(f, n, First(p)) = Root
  BY <1>1, <1>2, BoundedSearch
<1> QED
  BY <1>3 DEF Workspace

(* Nothing is beneath what is nobody's parent. *)
LEMMA NobodysParent ==
  ASSUME NEW t, NEW g, g # None, \A x \in DOMAIN t : t[x] # g, NEW f
  PROVE  ~ Beneath(f, g, t)
<1> SUFFICES ASSUME Beneath(f, g, t) PROVE FALSE
  OBVIOUS
<1>1. PICK n \in Nat : n # 0 /\ Up(f, n, t) = g
  BY DEF Beneath
<1>2. n - 1 \in Nat /\ n = (n - 1) + 1
  BY <1>1
<1>3. g = Above(Up(f, n - 1, t), t)
  BY <1>1, <1>2, UpNext
<1> QED
  BY <1>3 DEF Above

(* A new file in the root, or in what is not on Drive, brings nothing into  *)
(* the workspace but itself, and itself only if it is in the root.          *)
LEMMA NewFileBringsItself ==
  ASSUME NEW t, None \notin DOMAIN t, NEW g, g # None, g \notin DOMAIN t,
         \A x \in DOMAIN t : t[x] # g, NEW d, d # g, d = Root \/ d \notin DOMAIN t,
         NEW u, DOMAIN u = DOMAIN t \cup {g}, u[g] = d, \A x \in DOMAIN t : u[x] = t[x],
         NEW f, Beneath(f, Root, u)
  PROVE  Beneath(f, Root, t) \/ (f = g /\ d = Root)
<1>1. Root # None /\ None \notin DOMAIN u
  BY RulesAssumption
<1>2. CASE f = g
  <2>1. Above(g, u) = d
    BY DEF Above
  <2>2. d = Root \/ Beneath(d, Root, u)
    BY <1>2, <2>1, BeneathStep
  <2>3. Beneath(d, Root, u) => d \in DOMAIN u
    BY <1>1, BeneathIsInside
  <2> QED
    BY <1>2, <2>2, <2>3
<1>3. CASE f # g
  <2>1. \A h : h # g => Above(h, t) = Above(h, u)
    BY DEF Above
  <2>2. \/ Beneath(f, Root, t)
        \/ f = g
        \/ Beneath(f, g, u) /\ Beneath(f, g, t) /\ Beneath(g, Root, u)
    BY <2>1, ChainUpToFile
  <2>3. ~ Beneath(f, g, t)
    BY NobodysParent
  <2> QED
    BY <1>3, <2>2, <2>3
<1> QED
  BY <1>2, <1>3

(* What a request of a command adds to Drive, and nothing else. *)
LEMMA MadeAddsOne ==
  ASSUME NEW c \in Commands, Made(c), CommandsCount, FilesAreNew,
         NEW g, g = File(c, command[c].sent + 1)
  PROVE  /\ g \in NewFiles /\ g # None /\ g \notin Files /\ Into[c] # g
         /\ Files' = Files \cup {g}
         /\ \A f \in Files : parents'[f] = parents[f] /\ Tree'[f] = Tree[f] /\ Tree[f] # g
         /\ parents'[g] = <<Into[c]>> /\ Tree'[g] = Into[c]
         /\ \A e \in Commands, n \in Nat :
              n > command[e].sent /\ g # File(e, n) => File(e, n) \notin Files' /\ Into[c] # File(e, n)
<1>1. command[c].sent \in Nat /\ command[c].sent + 1 > command[c].sent
  BY DEF CommandsCount
<1>2. g \in NewFiles /\ Into[c] \in Folders \ NewFiles /\ None \notin NewFiles
  BY <1>1, ViewAssumption DEF File, NewFiles
<1>3. g \notin Files /\ \A f \in Files : Tree[f] # g
  BY <1>1 DEF FilesAreNew
<1>4. parents' = [x \in Files \cup {g} |-> IF x = g THEN <<Into[c]>> ELSE parents[x]]
  BY DEF Made
<1>5. Files' = Files \cup {g}
  BY <1>4 DEF Files
<1>6. /\ parents'[g] = <<Into[c]>>
      /\ \A f \in Files : parents'[f] = parents[f]
  BY <1>3, <1>4
<1>7. Tree'[g] = Into[c]
  <2>1. <<Into[c]>> # <<>> /\ <<Into[c]>>[1] = Into[c]
    OBVIOUS
  <2>2. g \in DOMAIN parents'
    BY <1>5 DEF Files
  <2>3. Tree'[g] = IF parents'[g] = <<>> THEN None ELSE parents'[g][1]
    BY <2>2 DEF Tree, First
  <2> QED BY <1>6, <2>1, <2>3
<1>8. \A f \in Files : Tree'[f] = Tree[f]
  BY <1>5, <1>6 DEF Tree, First, Files
<1>9. \A e \in Commands, n \in Nat : File(e, n) \in NewFiles
  BY DEF File, NewFiles
<1> QED
  BY <1>2, <1>3, <1>5, <1>6, <1>7, <1>8, <1>9 DEF FilesAreNew

(* A move by hand changes the parent of one file. *)
LEMMA MoveChangesOne ==
  ASSUME FilesAreNew, NEW f \in Files, NEW d \in Files, MoveByHand(f, d)
  PROVE  /\ Files' = Files /\ d \in Folders
         /\ parents'[f] = <<d>> /\ \A x \in Files \ {f} : parents'[x] = parents[x]
         /\ Tree'[f] = d /\ \A x \in Files \ {f} : Tree'[x] = Tree[x]
<1>1. parents' = [parents EXCEPT ![f] = <<d>>] /\ d \in Folders
  BY DEF MoveByHand, IsFolder
<1>2. Files' = Files /\ parents'[f] = <<d>> /\ \A x \in Files \ {f} : parents'[x] = parents[x]
  BY <1>1 DEF Files, FilesAreNew
<1> QED
  BY <1>1, <1>2 DEF Tree, First, Files

(* Requests are only ever added. *)
LEMMA SentGrows ==
  ASSUME CommandsCount, [Next]_vars
  PROVE  \A c \in Commands : command'[c].sent \in Nat /\ command'[c].sent >= command[c].sent
<1> USE DEF CommandsCount
<1>0. CASE UNCHANGED command
  BY <1>0
<1>1. CASE Walk
  BY <1>0, <1>1 DEF Walk, Resolve, ListFolder, FetchTarget, FetchRoot, FetchParent, Judge, Leave,
     commandVars
<1>2. CASE Provision
  <2> PICK c \in Commands : Create(c) \/ Unanswered(c) \/ Record(c) \/ Audit(c) \/ Stop(c)
    BY <1>2 DEF Provision
  <2>1. CASE Create(c) BY <2>1 DEF Create
  <2>2. CASE Unanswered(c)
    <3>1. PICK step : command' = [command EXCEPT ![c].sent = @ + 1, ![c].tried = @ + 1,
                                                 ![c].pc = step]
      BY <2>2 DEF Unanswered
    <3> QED BY <3>1
  <2>3. CASE Record(c)
    <3>1. PICK step : command' = [command EXCEPT ![c].recorded = @ + 1, ![c].pc = step]
      BY <2>3 DEF Record
    <3> QED BY <3>1
  <2>4. CASE Audit(c) BY <2>4 DEF Audit
  <2>5. CASE Stop(c) BY <2>5 DEF Stop
  <2> QED BY <2>1, <2>2, <2>3, <2>4, <2>5
<1>3. CASE Others
  <2>1. CASE \E c \in Commands : Start(c)
    BY <2>1 DEF Start
  <2> QED BY <1>0, <1>3, <2>1 DEF Others, commandVars
<1>4. CASE UNCHANGED vars
  BY <1>0, <1>4 DEF vars, commandVars
<1> QED BY <1>1, <1>2, <1>3, <1>4 DEF Next

(* What a step may do to Drive: nothing, a request of a command, a move. *)
LEMMA DriveSteps ==
  ASSUME [Next]_vars, CommandsCount
  PROVE  \/ UNCHANGED parents
         \/ \E c \in Commands : /\ Made(c) /\ Meanwhile /\ UNCHANGED <<walkVars, moves>>
                                /\ command'[c].sent = command[c].sent + 1
         \/ \E f, d \in Files : MoveByHand(f, d) /\ Meanwhile /\ UNCHANGED <<walkVars, command>>
<1> USE DEF drive
<1>1. CASE Walk
  BY <1>1 DEF Walk, Resolve, ListFolder, FetchTarget, FetchRoot, FetchParent, Judge, Leave
<1>2. CASE Provision
  <2> PICK c \in Commands : Create(c) \/ Unanswered(c) \/ Record(c) \/ Audit(c) \/ Stop(c)
    BY <1>2 DEF Provision
  <2>1. CASE Create(c)
    <3>1. command'[c].sent = command[c].sent + 1
      BY <2>1 DEF Create, CommandsCount
    <3> QED BY <2>1, <3>1 DEF Create
  <2>2. CASE Unanswered(c)
    <3>1. PICK step : command' = [command EXCEPT ![c].sent = @ + 1, ![c].tried = @ + 1,
                                                 ![c].pc = step]
      BY <2>2 DEF Unanswered
    <3>2. command'[c].sent = command[c].sent + 1
      BY <3>1 DEF CommandsCount
    <3> QED BY <2>2, <3>2 DEF Unanswered
  <2>3. CASE Record(c) \/ Audit(c) \/ Stop(c)
    BY <2>3 DEF Record, Audit, Stop
  <2> QED BY <2>1, <2>2, <2>3
<1>3. CASE Others
  BY <1>3 DEF Others, Regrant, Grant, Search, Start, commandVars
<1>4. CASE UNCHANGED vars
  BY <1>4 DEF vars
<1> QED BY <1>1, <1>2, <1>3, <1>4 DEF Next

LEMMA FilesStep == CommandsCount /\ FilesAreNew /\ [Next]_vars => FilesAreNew'
<1> SUFFICES ASSUME CommandsCount, FilesAreNew, [Next]_vars PROVE FilesAreNew'
  OBVIOUS
<1>1. \A e \in Commands : command'[e].sent \in Nat /\ command[e].sent \in Nat
                            /\ command'[e].sent >= command[e].sent
  BY SentGrows DEF CommandsCount
<1>2. \A e \in Commands, n \in Nat : n > command'[e].sent => n > command[e].sent
  BY <1>1
<1>3. CASE UNCHANGED parents
  <2>1. Files' = Files /\ Tree' = Tree
    BY <1>3 DEF Files, Tree
  <2> QED BY <1>2, <1>3, <2>1 DEF FilesAreNew
<1>4. ASSUME NEW c \in Commands, Made(c), command'[c].sent = command[c].sent + 1
      PROVE  FilesAreNew'
  <2>1. PICK g : g = File(c, command[c].sent + 1)
    OBVIOUS
  <2>2. /\ g \in NewFiles /\ g # None /\ g \notin Files /\ Into[c] # g
        /\ Files' = Files \cup {g}
        /\ \A f \in Files : parents'[f] = parents[f] /\ Tree'[f] = Tree[f] /\ Tree[f] # g
        /\ parents'[g] = <<Into[c]>> /\ Tree'[g] = Into[c]
        /\ \A e \in Commands, n \in Nat :
             n > command[e].sent /\ g # File(e, n) => File(e, n) \notin Files' /\ Into[c] # File(e, n)
    BY <1>4, <2>1, MadeAddsOne
  <2>3. IsFiniteSet(Files') /\ None \notin Files'
    BY <2>2, FS_AddElement DEF FilesAreNew
  <2>4. Into[c] \in Folders
    BY ViewAssumption
  <2>5. parents' \in [Files' -> Seq(Folders)]
    <3>1. parents' = [x \in Files' |-> parents'[x]]
      BY <1>4 DEF Made, Files
    <3>2. \A x \in Files : parents'[x] \in Seq(Folders)
      BY <2>2 DEF FilesAreNew
    <3>3. parents'[g] \in Seq(Folders)
      BY <2>2, <2>4
    <3>4. \A x \in Files' : parents'[x] \in Seq(Folders)
      BY <2>2, <3>2, <3>3
    <3> QED BY <3>1, <3>4
  <2>6. \A e \in Commands : Into[e] = Root \/ Into[e] \notin Files'
    BY <2>2, ViewAssumption DEF FilesAreNew
  <2>7. \A e \in Commands, n \in Nat : n > command'[e].sent => g # File(e, n)
    BY <1>1, <1>4, <2>1 DEF File
  <2>8. \A e \in Commands, n \in Nat : n > command'[e].sent =>
          File(e, n) \notin Files' /\ \A f \in Files' : Tree'[f] # File(e, n)
    BY <1>2, <2>2, <2>7 DEF FilesAreNew
  <2> QED BY <2>3, <2>5, <2>6, <2>8 DEF FilesAreNew
<1>5. ASSUME NEW f \in Files, NEW d \in Files, MoveByHand(f, d), UNCHANGED command
      PROVE  FilesAreNew'
  <2>1. /\ Files' = Files /\ d \in Folders
        /\ parents'[f] = <<d>> /\ \A x \in Files \ {f} : parents'[x] = parents[x]
        /\ Tree'[f] = d /\ \A x \in Files \ {f} : Tree'[x] = Tree[x]
    BY <1>5, MoveChangesOne
  <2>2. parents' \in [Files' -> Seq(Folders)]
    BY <1>5, <2>1 DEF MoveByHand, FilesAreNew
  <2>3. \A e \in Commands, n \in Nat : n > command[e].sent =>
          File(e, n) \notin Files' /\ \A x \in Files' : Tree'[x] # File(e, n)
    BY <1>5, <2>1 DEF FilesAreNew
  <2> QED BY <1>5, <2>1, <2>2, <2>3 DEF FilesAreNew
<1> QED BY <1>3, <1>4, <1>5, DriveSteps

-----------------------------------------------------------------------------
(* A request while nothing happens brings the file as it is, or it is not   *)
(* to be seen.                                                              *)
LEMMA QuietFetch ==
  ASSUME QuietIsCurrent, pc # "idle", quiet', NEW f, Fetched(f) \/ Missed(f)
  PROVE  /\ quiet
         /\ DOMAIN known \subseteq DOMAIN known' /\ DOMAIN known' \subseteq DOMAIN known \cup {f}
         /\ DOMAIN known' \subseteq visible /\ (f \in visible <=> f \in DOMAIN known')
         /\ \A x \in DOMAIN known' : known'[x] = parents[x]
<1>1. quiet
  BY DEF Fetched, Missed
<1>2. DOMAIN known \subseteq visible /\ \A x \in DOMAIN known : known[x] = parents[x]
  BY <1>1 DEF QuietIsCurrent
<1>3. CASE Fetched(f)
  BY <1>1, <1>2, <1>3 DEF Fetched
<1>4. CASE Missed(f)
  BY <1>1, <1>2, <1>4 DEF Missed
<1> QED BY <1>3, <1>4

LEMMA QuietStep == QuietIsCurrent /\ [Next]_vars => QuietIsCurrent'
<1> SUFFICES ASSUME QuietIsCurrent, [Next]_vars PROVE QuietIsCurrent'
  OBVIOUS
<1>1. CASE Walk
  <2>1. CASE \E ids \in Asked : Resolve(ids)
    BY <2>1 DEF Resolve, QuietIsCurrent, drive
  <2>2. CASE \E folder \in Files : ListFolder(folder)
    <3>1. PICK S \in SUBSET visible : found' = S /\ known' = [f \in S |-> parents[f]]
      BY <2>2 DEF ListFolder
    <3>2. pc' = "root" /\ pc = "idle" /\ UNCHANGED <<parents, visible, visited>>
      BY <2>2 DEF ListFolder, drive
    <3> QED BY <3>1, <3>2 DEF QuietIsCurrent
  <2>3. CASE FetchTarget
    <3>1. PICK f \in pending : \/ Fetched(f) /\ found' = found \cup {f}
                               \/ Missed(f) /\ UNCHANGED found
      BY <2>3 DEF FetchTarget
    <3>2. pc = "targets" /\ UNCHANGED <<pc, visited, parents, visible>>
      BY <2>3 DEF FetchTarget, drive
    <3> SUFFICES ASSUME quiet' PROVE QuietIsCurrent'
      BY <3>2 DEF QuietIsCurrent
    <3>3. /\ quiet
          /\ DOMAIN known' \subseteq visible
          /\ \A x \in DOMAIN known' : known'[x] = parents[x]
      BY <3>1, <3>2, QuietFetch
    <3>4. DOMAIN known' = found'
      <4>1. DOMAIN known = found
        BY <3>2, <3>3 DEF QuietIsCurrent
      <4> QED BY <3>1, <4>1 DEF Fetched, Missed
    <3> QED BY <3>2, <3>3, <3>4 DEF QuietIsCurrent
  <2>4. CASE FetchRoot
    <3>1. /\ pc \in {"targets", "root"} /\ pc' = "climb"
          /\ Fetched(Root) \/ Missed(Root)
          /\ pending' = (UNION {Parents(known, f) : f \in found}) \ DOMAIN known'
          /\ UNCHANGED <<visited, parents, visible>>
      BY <2>4 DEF FetchRoot, Ahead, drive
    <3> SUFFICES ASSUME quiet' PROVE QuietIsCurrent'
      BY <3>1 DEF QuietIsCurrent
    <3>2. /\ quiet
          /\ DOMAIN known \subseteq DOMAIN known' /\ DOMAIN known' \subseteq DOMAIN known \cup {Root}
          /\ DOMAIN known' \subseteq visible /\ (Root \in visible <=> Root \in DOMAIN known')
          /\ \A x \in DOMAIN known' : known'[x] = parents[x]
      BY <3>1, QuietFetch
    <3>3. DOMAIN known = found /\ visited \cap visible = {}
          /\ \A x \in DOMAIN known : known[x] = parents[x]
      BY <3>1, <3>2 DEF QuietIsCurrent
    <3>4. ASSUME NEW f \in DOMAIN known' \ {Root}
          PROVE  Parents(known', f) \subseteq DOMAIN known' \cup visited' \cup pending'
      <4>1. f \in found
        BY <3>2, <3>3, <3>4
      <4>2. Parents(known', f) = Parents(known, f)
        BY <3>2, <3>3, <3>4, <4>1 DEF Parents
      <4> QED BY <3>1, <4>1, <4>2
    <3> QED BY <3>1, <3>2, <3>3, <3>4 DEF QuietIsCurrent
  <2>5. CASE FetchParent
    <3>1. PICK f \in pending :
            \/ /\ Fetched(f)
               /\ pending' = (pending \cup Parents(parents, f)) \ (DOMAIN known' \cup visited)
               /\ UNCHANGED visited
            \/ /\ Missed(f)
               /\ visited' = visited \cup {f}
               /\ pending' = pending \ {f}
      BY <2>5 DEF FetchParent, Ahead
    <3>2. pc = "climb" /\ UNCHANGED <<pc, parents, visible>>
      BY <2>5 DEF FetchParent, drive
    <3> SUFFICES ASSUME quiet' PROVE QuietIsCurrent'
      BY <3>2 DEF QuietIsCurrent
    <3>3. /\ quiet
          /\ DOMAIN known \subseteq DOMAIN known' /\ DOMAIN known' \subseteq DOMAIN known \cup {f}
          /\ DOMAIN known' \subseteq visible /\ (f \in visible <=> f \in DOMAIN known')
          /\ \A x \in DOMAIN known' : known'[x] = parents[x]
      BY <3>1, <3>2, QuietFetch
    <3>4. /\ visited \cap visible = {}
          /\ \A x \in DOMAIN known : known[x] = parents[x]
          /\ Root \in visible => Root \in DOMAIN known
          /\ \A x \in DOMAIN known \ {Root} :
               Parents(known, x) \subseteq DOMAIN known \cup visited \cup pending
      BY <3>2, <3>3 DEF QuietIsCurrent
    <3>5. visited' \cap visible = {}
      <4>1. CASE UNCHANGED visited BY <3>4, <4>1
      <4>2. CASE Missed(f) /\ visited' = visited \cup {f}
        <5>1. f \notin visible BY <4>2 DEF Missed
        <5> QED BY <3>4, <4>2, <5>1
      <4> QED BY <3>1, <4>1, <4>2
    <3>6. ASSUME NEW x \in DOMAIN known' \ {Root}
          PROVE  Parents(known', x) \subseteq DOMAIN known' \cup visited' \cup pending'
      <4>1. Parents(known', x) = Parents(parents, x)
        BY <3>3, <3>6 DEF Parents
      <4>2. pending \subseteq DOMAIN known' \cup visited' \cup pending' /\ visited \subseteq visited'
        BY <3>1, <3>3
      <4>3. CASE x \in DOMAIN known
        <5>1. Parents(known, x) = Parents(parents, x)
          BY <3>4, <4>3 DEF Parents
        <5> QED BY <3>3, <3>4, <3>6, <4>1, <4>2, <4>3, <5>1
      <4>4. CASE x \notin DOMAIN known
        <5>1. x = f /\ f \in visible
          BY <3>3, <3>6, <4>4
        <5>2. ~ Missed(f)
          BY <5>1 DEF Missed
        <5> QED BY <3>1, <4>1, <5>1, <5>2
      <4> QED BY <4>3, <4>4
    <3> QED BY <3>2, <3>3, <3>4, <3>5, <3>6 DEF QuietIsCurrent
  <2>6. CASE Judge
    BY <2>6 DEF Judge, QuietIsCurrent, drive, history, Parents
  <2>7. CASE Leave
    BY <2>7 DEF Leave, QuietIsCurrent
  <2> QED BY <1>1, <2>1, <2>2, <2>3, <2>4, <2>5, <2>6, <2>7 DEF Walk
<1>2. ASSUME UNCHANGED walkVars, pc # "idle" /\ quiet' => quiet /\ UNCHANGED drive
      PROVE  QuietIsCurrent'
  <2>1. CASE pc = "idle" \/ ~ quiet'
    BY <1>2, <2>1 DEF QuietIsCurrent, walkVars
  <2>2. CASE pc # "idle" /\ quiet'
    BY <1>2, <2>2 DEF QuietIsCurrent, walkVars, drive, Parents
  <2> QED BY <2>1, <2>2
<1>3. CASE Provision
  <2> PICK c \in Commands : Create(c) \/ Unanswered(c) \/ Record(c) \/ Audit(c) \/ Stop(c)
    BY <1>3 DEF Provision
  <2>1. UNCHANGED walkVars /\ (Meanwhile \/ UNCHANGED <<drive, history>>)
    BY DEF Create, Unanswered, Record, Audit, Stop
  <2>2. pc # "idle" /\ quiet' => quiet /\ UNCHANGED drive
    BY <2>1 DEF Meanwhile, history
  <2> QED BY <1>2, <2>1, <2>2
<1>4. CASE Others
  BY <1>2, <1>4 DEF Others, Meanwhile
<1>5. CASE UNCHANGED vars
  BY <1>2, <1>5 DEF vars, history
<1> QED BY <1>1, <1>3, <1>4, <1>5 DEF Next

-----------------------------------------------------------------------------
(* The workspace as it is while a snapshot is taken is remembered. *)
LEMMA InsideIsRemembered ==
  ASSUME FilesAreNew, FilesAreNew', pc # "idle", Meanwhile
  PROVE  /\ inside \subseteq inside'
         /\ \/ UNCHANGED parents
            \/ \A f \in Files' : Beneath(f, Root, Tree') => f \in inside'
<1>1. CASE UNCHANGED parents
  BY <1>1 DEF Meanwhile
<1>2. CASE ~ UNCHANGED parents
  <2>1. inside' = inside \cup Workspace(parents')
    BY <1>2 DEF Meanwhile
  <2>2. PICK p : p = parents'
    OBVIOUS
  <2>3. IsFiniteSet(DOMAIN p) /\ None \notin DOMAIN p /\ Files' = DOMAIN p /\ Tree' = First(p)
    BY <2>2 DEF FilesAreNew, Files, Tree
  <2>4. \A f : f \in Workspace(p) <=> f \in DOMAIN p /\ Beneath(f, Root, First(p))
    BY <2>3, WorkspaceIsBeneath
  <2>5. ASSUME NEW f \in Files', Beneath(f, Root, Tree') PROVE f \in inside'
    BY <2>1, <2>2, <2>3, <2>4, <2>5
  <2> QED BY <2>1, <2>5
<1> QED BY <1>1, <1>2

(* A step that leaves Drive as it is, and fetches what is there. *)
LEMMA DriveStays ==
  ASSUME SnapshotIsOfTwo, pc # "idle", pc' # "idle", UNCHANGED <<parents, moves, inside>>,
         \A c \in Commands : command[c].sent \in Nat /\ command'[c].sent \in Nat
                               /\ command'[c].sent >= command[c].sent,
         \A f \in DOMAIN known' : \/ f \in DOMAIN known /\ known'[f] = known[f]
                                  \/ known'[f] = parents[f] /\ f \in Files
  PROVE  SnapshotIsOfTwo'
<1> SUFFICES ASSUME moves <= 1 PROVE SnapshotIsOfTwo'
  BY DEF SnapshotIsOfTwo
<1>1. Files' = Files /\ Tree' = Tree
  BY DEF Files, Tree
<1>2. PICK before : IsBefore(before)
  BY DEF SnapshotIsOfTwo
<1>3. ASSUME NEW f \in DOMAIN known'
      PROVE  First(known)'[f] \in {before[f], Tree[f]}
  <2>1. First(known)'[f] = IF known'[f] = <<>> THEN None ELSE known'[f][1]
    BY <1>3 DEF First
  <2>2. CASE f \in DOMAIN known /\ known'[f] = known[f]
    <3>1. First(known)[f] = IF known[f] = <<>> THEN None ELSE known[f][1]
      BY <2>2 DEF First
    <3>2. First(known)[f] \in {before[f], Tree[f]}
      BY <1>2, <2>2 DEF IsBefore
    <3> QED BY <2>1, <2>2, <3>1, <3>2
  <2>3. CASE known'[f] = parents[f] /\ f \in Files
    <3>1. Tree[f] = IF parents[f] = <<>> THEN None ELSE parents[f][1]
      BY <2>3 DEF Tree, First, Files
    <3> QED BY <2>1, <2>3, <3>1
  <2> QED BY <1>3, <2>2, <2>3
<1>4. \A c \in Commands, n \in Nat : n > command'[c].sent => n > command[c].sent
  OBVIOUS
<1>5. \A c \in Commands, n \in Nat :
        n > command'[c].sent => \A f \in Files : before[f] # File(c, n)
  BY <1>2, <1>4 DEF IsBefore
<1>6. IsBefore(before)'
  BY <1>1, <1>2, <1>3, <1>5 DEF IsBefore
<1> QED BY <1>1, <1>6 DEF SnapshotIsOfTwo

(* A new file is in both Drives, in the same place. *)
LEMMA FileIsAdded ==
  ASSUME FilesAreNew, FilesAreNew', CommandsCount, SnapshotIsOfTwo, pc # "idle",
         DOMAIN known \subseteq Files, Meanwhile, UNCHANGED <<walkVars, moves>>,
         \A e \in Commands : command'[e].sent \in Nat /\ command'[e].sent >= command[e].sent,
         NEW c \in Commands, Made(c), command'[c].sent = command[c].sent + 1
  PROVE  SnapshotIsOfTwo'
<1> SUFFICES ASSUME moves <= 1 PROVE SnapshotIsOfTwo'
  BY DEF SnapshotIsOfTwo, walkVars
<1>1. PICK g : g = File(c, command[c].sent + 1)
  OBVIOUS
<1>2. /\ g \in NewFiles /\ g # None /\ g \notin Files /\ Into[c] # g
      /\ Files' = Files \cup {g}
      /\ \A f \in Files : parents'[f] = parents[f] /\ Tree'[f] = Tree[f] /\ Tree[f] # g
      /\ parents'[g] = <<Into[c]>> /\ Tree'[g] = Into[c]
      /\ \A e \in Commands, n \in Nat :
           n > command[e].sent /\ g # File(e, n) => File(e, n) \notin Files' /\ Into[c] # File(e, n)
  BY <1>1, MadeAddsOne
<1>3. /\ inside \subseteq inside'
      /\ \A f \in Files' : Beneath(f, Root, Tree') => f \in inside'
  <2>1. DOMAIN parents' # DOMAIN parents
    BY <1>2 DEF Files
  <2>2. ~ UNCHANGED parents
    BY <2>1
  <2> QED BY <2>2, InsideIsRemembered
<1>4. PICK before : IsBefore(before)
  BY DEF SnapshotIsOfTwo
<1>5. PICK m : \A f \in Files \ {m} : before[f] = Tree[f]
  BY <1>4 DEF IsBefore
<1>6. PICK after : after = [x \in Files' |-> IF x = g THEN Into[c] ELSE before[x]]
  OBVIOUS
<1>7. /\ DOMAIN before = Files /\ DOMAIN after = Files \cup {g}
      /\ after[g] = Into[c] /\ \A x \in Files : after[x] = before[x]
  BY <1>2, <1>4, <1>6 DEF IsBefore
<1>8. \A f \in Files' \ {m} : after[f] = Tree'[f]
  BY <1>2, <1>5, <1>7
<1>9. \A x \in Files : before[x] # g
  <2>1. command[c].sent + 1 \in Nat /\ command[c].sent + 1 > command[c].sent
    BY DEF CommandsCount
  <2> QED BY <1>1, <1>4, <2>1 DEF IsBefore
<1>10. ASSUME NEW f \in Files', Beneath(f, Root, after) PROVE f \in inside'
  <2>1. None \notin Files /\ (Into[c] = Root \/ Into[c] \notin Files)
    BY DEF FilesAreNew
  <2>2. Beneath(f, Root, before) \/ (f = g /\ Into[c] = Root)
    BY <1>2, <1>7, <1>9, <1>10, <2>1, NewFileBringsItself
  <2>3. CASE Beneath(f, Root, before)
    <3>1. f \in Files
      BY <1>7, <2>1, <2>3, RulesAssumption, BeneathIsInside
    <3> QED BY <1>3, <1>4, <2>3, <3>1 DEF IsBefore
  <2>4. CASE f = g /\ Into[c] = Root
    <3>1. Above(g, Tree') = Root
      BY <1>2, <2>4 DEF Above, Tree, First, Files
    <3>2. Beneath(g, Root, Tree')
      BY <3>1, BeneathStep
    <3> QED BY <1>2, <1>3, <2>4, <3>2
  <2> QED BY <2>2, <2>3, <2>4
<1>11. ASSUME NEW f \in DOMAIN known' PROVE First(known)'[f] \in {after[f], Tree'[f]}
  <2>1. known' = known /\ f \in DOMAIN known /\ f \in Files
    BY <1>11 DEF walkVars
  <2>2. First(known)[f] \in {before[f], Tree[f]}
    BY <1>4, <2>1 DEF IsBefore
  <2> QED BY <1>2, <1>7, <2>1, <2>2
<1>12. ASSUME NEW e \in Commands, NEW n \in Nat, n > command'[e].sent, NEW f \in Files'
       PROVE  after[f] # File(e, n)
  <2>1. n > command[e].sent
    BY <1>12 DEF CommandsCount
  <2>2. g # File(e, n)
    BY <1>1, <1>12 DEF File, CommandsCount
  <2>3. CASE f = g
    BY <1>2, <1>7, <2>1, <2>2, <2>3
  <2>4. CASE f \in Files
    BY <1>4, <1>7, <2>1, <2>4 DEF IsBefore
  <2> QED BY <1>2, <2>3, <2>4
<1>13. moves' = 0 => \A f \in Files' : after[f] = Tree'[f]
  <2> SUFFICES ASSUME moves = 0, NEW f \in Files' PROVE after[f] = Tree'[f]
    OBVIOUS
  <2>1. CASE f = g BY <1>2, <1>7, <2>1
  <2>2. CASE f \in Files BY <1>2, <1>4, <1>7, <2>2 DEF IsBefore
  <2> QED BY <1>2, <2>1, <2>2
<1>14. IsBefore(after)'
  BY <1>2, <1>7, <1>8, <1>10, <1>11, <1>12, <1>13 DEF IsBefore
<1> QED BY <1>3, <1>14 DEF SnapshotIsOfTwo, walkVars

(* The first move leaves the Drive from before it behind. *)
LEMMA FileIsMoved ==
  ASSUME FilesAreNew, FilesAreNew', SnapshotIsOfTwo, pc # "idle", DOMAIN known \subseteq Files,
         Meanwhile, UNCHANGED <<walkVars, command>>,
         NEW f \in Files, NEW d \in Files, MoveByHand(f, d)
  PROVE  SnapshotIsOfTwo'
<1>1. moves' = moves + 1 /\ moves \in Nat /\ pc' = pc
  BY DEF MoveByHand, SnapshotIsOfTwo, walkVars
<1> SUFFICES ASSUME moves = 0 PROVE SnapshotIsOfTwo'
  BY <1>1 DEF SnapshotIsOfTwo
<1>2. Files' = Files /\ \A x \in Files \ {f} : Tree'[x] = Tree[x]
  BY MoveChangesOne
<1>3. /\ inside \subseteq inside'
      /\ \A x \in Files' : Beneath(x, Root, Tree') => x \in inside'
  <2>1. ~ UNCHANGED parents
    BY DEF MoveByHand, FilesAreNew
  <2> QED BY <2>1, InsideIsRemembered
<1>4. PICK old : IsBefore(old)
  BY DEF SnapshotIsOfTwo
<1>5. DOMAIN old = Files /\ \A x \in Files : old[x] = Tree[x]
  BY <1>4 DEF IsBefore
<1>6. \A x \in Files' \ {f} : old[x] = Tree'[x]
  BY <1>2, <1>5
<1>7. \A x \in Files' : Beneath(x, Root, old) => x \in inside'
  BY <1>2, <1>3, <1>4 DEF IsBefore
<1>8. ASSUME NEW x \in DOMAIN known' PROVE First(known)'[x] \in {old[x], Tree'[x]}
  <2>1. known' = known /\ x \in DOMAIN known /\ x \in Files
    BY <1>8 DEF walkVars
  <2>2. First(known)[x] \in {old[x], Tree[x]}
    BY <1>4, <2>1 DEF IsBefore
  <2> QED BY <1>5, <2>1, <2>2
<1>9. \A c \in Commands, n \in Nat : n > command'[c].sent => \A x \in Files' : old[x] # File(c, n)
  BY <1>2, <1>4 DEF IsBefore
<1>10. IsBefore(old)'
  BY <1>1, <1>2, <1>5, <1>6, <1>7, <1>8, <1>9 DEF IsBefore
<1> QED BY <1>1, <1>3, <1>10 DEF SnapshotIsOfTwo

(* A snapshot begins with what is there. *)
LEMMA SnapshotBegins ==
  ASSUME FilesAreNew, Remember, UNCHANGED <<parents, command>>,
         \A f \in DOMAIN known' : f \in Files /\ known'[f] = parents[f]
  PROVE  SnapshotIsOfTwo'
<1>1. moves' = 0 /\ inside' = Workspace(parents)
  BY DEF Remember
<1>2. Files' = Files /\ Tree' = Tree /\ DOMAIN Tree = Files
  BY DEF Files, Tree, First
<1>3. \A f \in Files : Beneath(f, Root, Tree) => f \in inside'
  <2>1. PICK p : p = parents
    OBVIOUS
  <2>2. IsFiniteSet(DOMAIN p) /\ None \notin DOMAIN p /\ Files = DOMAIN p /\ Tree = First(p)
    BY <2>1 DEF FilesAreNew, Files, Tree
  <2>3. \A f : f \in Workspace(p) <=> f \in DOMAIN p /\ Beneath(f, Root, First(p))
    BY <2>2, WorkspaceIsBeneath
  <2> QED BY <1>1, <2>1, <2>2, <2>3
<1>4. PICK now : now = Tree
  OBVIOUS
<1>5. \A f \in DOMAIN known' : First(known)'[f] = Tree[f]
  <2> SUFFICES ASSUME NEW f \in DOMAIN known' PROVE First(known)'[f] = Tree[f]
    OBVIOUS
  <2>1. First(known)'[f] = IF known'[f] = <<>> THEN None ELSE known'[f][1]
    BY DEF First
  <2>2. Tree[f] = IF parents[f] = <<>> THEN None ELSE parents[f][1]
    BY DEF Tree, First, Files
  <2> QED BY <2>1, <2>2
<1>6. \A c \in Commands, n \in Nat : n > command[c].sent => \A f \in Files : now[f] # File(c, n)
  BY <1>4 DEF FilesAreNew
<1>7. IsBefore(now)'
  BY <1>1, <1>2, <1>3, <1>4, <1>5, <1>6 DEF IsBefore
<1> QED BY <1>1, <1>2, <1>3, <1>7 DEF SnapshotIsOfTwo

LEMMA TwoStep ==
  /\ CommandsCount /\ LedgerIsOfDrive /\ SnapshotIsReached /\ FilesAreNew /\ SnapshotIsOfTwo
  /\ [Next]_vars
  => SnapshotIsOfTwo'
<1> SUFFICES ASSUME CommandsCount, LedgerIsOfDrive, SnapshotIsReached, FilesAreNew, SnapshotIsOfTwo,
                    [Next]_vars
             PROVE  SnapshotIsOfTwo'
  OBVIOUS
<1>1. FilesAreNew'
  BY FilesStep
<1>2. \A e \in Commands : /\ command[e].sent \in Nat /\ command'[e].sent \in Nat
                          /\ command'[e].sent >= command[e].sent
  BY SentGrows DEF CommandsCount
<1>3. DOMAIN known \subseteq Files /\ visible \subseteq Files
  BY DEF SnapshotIsReached, LedgerIsOfDrive
<1>4. CASE \E ids \in Asked : Resolve(ids)
  <2>1. Remember /\ UNCHANGED <<parents, command, known>> /\ pc = "idle"
    BY <1>4 DEF Resolve, drive, commandVars
  <2>2. DOMAIN known' = {}
    BY <2>1 DEF SnapshotIsReached
  <2> QED BY <2>1, <2>2, SnapshotBegins
<1>5. CASE \E folder \in Files : ListFolder(folder)
  <2>1. PICK S \in SUBSET visible : known' = [f \in S |-> parents[f]]
    BY <1>5 DEF ListFolder
  <2>2. Remember /\ UNCHANGED <<parents, command>>
    BY <1>5 DEF ListFolder, drive, commandVars
  <2> QED BY <1>3, <2>1, <2>2, SnapshotBegins
<1>6. CASE Leave
  BY <1>6 DEF Leave, SnapshotIsOfTwo
<1>7. ASSUME pc # "idle", pc' # "idle", UNCHANGED <<drive, moves, inside>>,
             \E f : Fetched(f) \/ Missed(f)
      PROVE  SnapshotIsOfTwo'
  <2>1. PICK f : Fetched(f) \/ Missed(f)
    BY <1>7
  <2>2. \A x \in DOMAIN known' : \/ x \in DOMAIN known /\ known'[x] = known[x]
                                 \/ known'[x] = parents[x] /\ x \in Files
    BY <1>3, <2>1 DEF Fetched, Missed
  <2> QED BY <1>2, <1>7, <2>2, DriveStays DEF drive
<1>8. CASE FetchTarget \/ FetchRoot \/ FetchParent
  BY <1>7, <1>8 DEF FetchTarget, FetchRoot, FetchParent
<1>9. ASSUME UNCHANGED <<pc, known, parents, moves>>, pc # "idle" => UNCHANGED inside
      PROVE  SnapshotIsOfTwo'
  <2>1. CASE pc = "idle"
    BY <1>9, <2>1 DEF SnapshotIsOfTwo
  <2>2. CASE pc # "idle"
    <3>1. \A x \in DOMAIN known' : x \in DOMAIN known /\ known'[x] = known[x]
      BY <1>9
    <3> QED BY <1>2, <1>9, <2>2, <3>1, DriveStays
  <2> QED BY <2>1, <2>2
<1>10. CASE Judge
  <2>1. pc # "idle" /\ pc' # "idle" /\ UNCHANGED <<parents, moves, inside, known>>
    BY <1>10 DEF Judge, drive, history
  <2>2. \A x \in DOMAIN known' : x \in DOMAIN known /\ known'[x] = known[x]
    BY <2>1
  <2> QED BY <1>2, <2>1, <2>2, DriveStays
<1>11. CASE pc # "idle" /\ \E c \in Commands :
              /\ Made(c) /\ Meanwhile /\ UNCHANGED <<walkVars, moves>>
              /\ command'[c].sent = command[c].sent + 1
  BY <1>1, <1>2, <1>3, <1>11, FileIsAdded
<1>12. CASE pc # "idle" /\ \E f, d \in Files :
              MoveByHand(f, d) /\ Meanwhile /\ UNCHANGED <<walkVars, command>>
  BY <1>1, <1>3, <1>12, FileIsMoved
<1>13. CASE Provision \/ Others \/ UNCHANGED vars
  <2>1. UNCHANGED <<pc, known>>
    BY <1>13 DEF Provision, Create, Unanswered, Record, Audit, Stop, Others, vars, walkVars
  <2>2. CASE pc = "idle"
    <3>1. moves' = 0
      BY <1>13, <2>2 DEF Provision, Create, Unanswered, Record, Audit, Stop, Others, vars, history,
         MoveByHand, Regrant, Grant, Search, Start, SnapshotIsOfTwo
    <3> QED BY <2>1, <2>2, <3>1 DEF SnapshotIsOfTwo
  <2>3. CASE pc # "idle" /\ UNCHANGED parents
    <3>1. UNCHANGED inside
      BY <1>13, <2>3 DEF Provision, Create, Unanswered, Record, Audit, Stop, Others, Meanwhile, vars, history
    <3>2. UNCHANGED moves
      <4>1. \A f, d \in Files : ~ MoveByHand(f, d)
        BY <2>3, MoveChangesOne DEF MoveByHand, FilesAreNew
      <4> QED BY <1>13, <4>1 DEF Provision, Create, Unanswered, Record, Audit, Stop, Others, vars,
              history, Regrant, Grant, Search, Start
    <3> QED BY <1>9, <2>1, <2>3, <3>1, <3>2
  <2> QED BY <1>11, <1>12, <2>2, <2>3, DriveSteps
<1> QED BY <1>4, <1>5, <1>6, <1>8, <1>10, <1>13 DEF Next, Walk

-----------------------------------------------------------------------------
(* u has what is above f in t as far as it can be seen, the root at most.   *)
Shows(u, f, t, seen) ==
  \A n \in Nat :
    /\ \A k \in 0 .. n : Up(f, k, t) \in seen
    /\ \A k \in 0 .. n - 1 : Up(f, k, t) # Root
    => Up(f, n, t) \in DOMAIN u

(* What one such part of a Drive proves of f, every other one does. *)
LEMMA SameProof ==
  ASSUME NEW t, NEW seen, NEW u, PartOf(u, t), DOMAIN u \subseteq seen,
         IsFiniteSet(DOMAIN u), None \notin DOMAIN u,
         NEW w, PartOf(w, t), NEW f, f # Root, Shows(w, f, t, seen), Beneath(f, Root, u)
  PROVE  Beneath(f, Root, w)
<1>1. Root # None
  BY RulesAssumption
<1>2. PICK m \in 1 .. Cardinality(DOMAIN u) :
        /\ Up(f, m, u) = Root
        /\ \A k \in 0 .. m - 1 : Up(f, k, u) \in DOMAIN u
        /\ \A k \in 1 .. m - 1 : Up(f, k, u) # Root
  BY <1>1, ShortestChain
<1>3. m \in Nat /\ m # 0
  BY <1>2, CardinalityIsNat
<1>4. \A i \in 0 .. m : Up(f, i, t) = Up(f, i, u)
  BY <1>1, <1>2, <1>3, PartKeepsChain
<1>5. ASSUME NEW k \in 0 .. m - 1 PROVE Up(f, k, t) \in seen /\ Up(f, k, t) # Root
  <2>1. k \in 0 .. m /\ (k = 0 \/ k \in 1 .. m - 1)
    BY <1>3
  <2>2. Up(f, k, t) \in DOMAIN u
    BY <1>2, <1>4, <2>1
  <2>3. k = 0 => Up(f, k, t) = f
    BY UpZero
  <2> QED BY <1>2, <1>4, <2>1, <2>2, <2>3
<1>6. ASSUME NEW k \in 0 .. m - 1 PROVE Up(f, k, t) \in DOMAIN w
  <2>1. k \in Nat /\ \A i \in 0 .. k : i \in 0 .. m - 1
    BY <1>3
  <2>2. \A i \in 0 .. k - 1 : i \in 0 .. m - 1
    BY <1>3
  <2> QED BY <1>5, <2>1, <2>2 DEF Shows
<1>7. m \in 0 .. m
  BY <1>3
<1>8. Up(f, m, t) = Root
  BY <1>2, <1>4, <1>7
<1>9. Beneath(f, Up(f, m, t), w)
  BY <1>3, <1>6, PartHasChain
<1> QED BY <1>8, <1>9

(* A chain that ends passes no file twice, so it is no longer than the      *)
(* forest is large.                                                         *)
LEMMA EndedChainIsShort ==
  ASSUME NEW w, IsFiniteSet(DOMAIN w), None \notin DOMAIN w, NEW f, NEW n \in Nat,
         \A k \in 0 .. n : Up(f, k, w) \in DOMAIN w, w[Up(f, n, w)] = None
  PROVE  n <= Cardinality(DOMAIN w)
<1>1. n \in 0 .. n /\ n + 1 \in Nat
  OBVIOUS
<1>2. Up(f, n + 1, w) = None
  BY <1>1, UpNext DEF Above
<1>3. ASSUME NEW i \in 0 .. n, NEW j \in 0 .. n, i < j, Up(f, i, w) = Up(f, j, w)
      PROVE  FALSE
  <2>1. i \in Nat /\ j \in Nat /\ n + 1 - j \in Nat
    OBVIOUS
  <2>2. j + (n + 1 - j) = n + 1 /\ i + (n + 1 - j) \in 0 .. n
    BY <1>3, <2>1
  <2>3. Up(f, j + (n + 1 - j), w) = Up(Up(f, j, w), n + 1 - j, w)
    BY <2>1, UpSum
  <2>4. Up(f, i + (n + 1 - j), w) = Up(Up(f, i, w), n + 1 - j, w)
    BY <2>1, UpSum
  <2>5. Up(f, i + (n + 1 - j), w) = None
    BY <1>2, <1>3, <2>2, <2>3, <2>4
  <2> QED BY <2>2, <2>5
<1>4. \A i, j \in 0 .. n : Up(f, i, w) = Up(f, j, w) => i = j
  <2> SUFFICES ASSUME NEW i \in 0 .. n, NEW j \in 0 .. n, Up(f, i, w) = Up(f, j, w), i # j PROVE FALSE
    OBVIOUS
  <2>1. i < j \/ j < i
    OBVIOUS
  <2> QED BY <1>3, <2>1
<1>5. PICK g : g = [k \in 0 .. n |-> Up(f, k, w)]
  OBVIOUS
<1>6. n = (n + 1) - 1
  OBVIOUS
<1>7. g \in [0 .. (n + 1) - 1 -> DOMAIN w]
  BY <1>5, <1>6
<1>8. \A i, j \in 0 .. (n + 1) - 1 : g[i] = g[j] => i = j
  BY <1>4, <1>5, <1>6
<1>9. n + 1 <= Cardinality(DOMAIN w)
  BY <1>1, <1>7, <1>8, Pigeonhole
<1> QED BY <1>9, CardinalityIsNat

(* Where no chain meets the root, both see its end or neither does. *)
LEMMA SameEnd ==
  ASSUME NEW t, NEW seen, NEW u, PartOf(u, t), DOMAIN u \subseteq seen,
         IsFiniteSet(DOMAIN u), None \notin DOMAIN u,
         NEW w, PartOf(w, t), IsFiniteSet(DOMAIN w), None \notin DOMAIN w,
         NEW f, f # Root, Shows(w, f, t, seen), ~ Beneath(f, Root, u), ChainComplete(f, u)
  PROVE  ChainComplete(f, w)
<1>1. PICK n \in 0 .. Cardinality(DOMAIN u) : Up(f, n, u) \in DOMAIN u /\ u[Up(f, n, u)] = None
  BY DEF ChainComplete
<1>2. n \in Nat /\ n \in 0 .. n
  BY <1>1, CardinalityIsNat
<1>3. Up(f, n, u) # None
  BY <1>1
<1>4. \A i \in 0 .. n : Up(f, i, t) = Up(f, i, u)
  BY <1>2, <1>3, PartKeepsChain
<1>5. ASSUME NEW k \in 0 .. n PROVE Up(f, k, t) \in DOMAIN u /\ Up(f, k, t) # Root
  <2>1. k \in Nat /\ (k < n \/ k = n)
    BY <1>2
  <2>2. Up(f, k, u) \in DOMAIN u
    BY <1>1, <1>2, <1>3, <2>1, ChainStaysInside
  <2>3. k = 0 => Up(f, k, u) = f
    BY UpZero
  <2>4. k # 0 => Up(f, k, u) # Root
    BY <2>1 DEF Beneath
  <2> QED BY <1>4, <2>2, <2>3, <2>4
<1>6. ASSUME NEW k \in 0 .. n PROVE Up(f, k, t) \in DOMAIN w
  <2>1. k \in Nat /\ \A i \in 0 .. k : i \in 0 .. n
    BY <1>2
  <2>2. \A i \in 0 .. k - 1 : i \in 0 .. n
    BY <1>2
  <2> QED BY <1>5, <2>1, <2>2 DEF Shows
<1>7. \A k \in Nat : k < n => Above(Up(f, k, t), w) = Above(Up(f, k, t), t)
  <2> SUFFICES ASSUME NEW k \in Nat, k < n PROVE Above(Up(f, k, t), w) = Above(Up(f, k, t), t)
    OBVIOUS
  <2>1. k \in 0 .. n
    BY <1>2
  <2> QED BY <1>6, <2>1 DEF Above, PartOf
<1>8. \A i \in 0 .. n : Up(f, i, w) = Up(f, i, t)
  BY <1>2, <1>7, SameChain
<1>9. w[Up(f, n, w)] = None
  <2>1. Up(f, n, t) \in DOMAIN u /\ Up(f, n, t) \in DOMAIN w
    BY <1>2, <1>5, <1>6
  <2>2. u[Up(f, n, t)] = t[Up(f, n, t)] /\ w[Up(f, n, t)] = t[Up(f, n, t)]
    BY <2>1 DEF PartOf
  <2> QED BY <1>1, <1>2, <1>4, <1>8, <2>2
<1>10. \A k \in 0 .. n : Up(f, k, w) \in DOMAIN w
  BY <1>6, <1>8
<1>11. n <= Cardinality(DOMAIN w)
  BY <1>2, <1>9, <1>10, EndedChainIsShort
<1>12. n \in 0 .. Cardinality(DOMAIN w)
  BY <1>2, <1>11, CardinalityIsNat
<1> QED BY <1>2, <1>9, <1>10, <1>12 DEF ChainComplete

(* So both give one verdict. *)
LEMMA SameVerdict ==
  ASSUME NEW t, NEW seen,
         NEW u, PartOf(u, t), DOMAIN u \subseteq seen, IsFiniteSet(DOMAIN u), None \notin DOMAIN u,
         NEW w, PartOf(w, t), DOMAIN w \subseteq seen, IsFiniteSet(DOMAIN w), None \notin DOMAIN w,
         NEW f, Shows(u, f, t, seen), Shows(w, f, t, seen)
  PROVE  CheckContainment(f, u) = CheckContainment(f, w)
<1>1. CASE f = Root
  BY <1>1 DEF CheckContainment
<1>2. CASE f # Root
  <2>1. Beneath(f, Root, u) <=> Beneath(f, Root, w)
    <3>1. Beneath(f, Root, u) => Beneath(f, Root, w)
      BY <1>2, SameProof
    <3>2. Beneath(f, Root, w) => Beneath(f, Root, u)
      BY <1>2, SameProof
    <3> QED BY <3>1, <3>2
  <2>2. ASSUME ~ Beneath(f, Root, u) PROVE ChainComplete(f, u) <=> ChainComplete(f, w)
    <3>1. ~ Beneath(f, Root, w)
      BY <2>1, <2>2
    <3>2. ChainComplete(f, u) => ChainComplete(f, w)
      BY <1>2, <2>2, SameEnd
    <3>3. ChainComplete(f, w) => ChainComplete(f, u)
      BY <1>2, <3>1, SameEnd
    <3> QED BY <3>2, <3>3
  <2>3. Root # None
    BY RulesAssumption
  <2>4. Root \in Ancestors(f, u) <=> Beneath(f, Root, u)
    BY <1>2, <2>3, AncestorsAreAbove
  <2>5. Root \in Ancestors(f, w) <=> Beneath(f, Root, w)
    BY <1>2, <2>3, AncestorsAreAbove
  <2> QED BY <2>1, <2>2, <2>4, <2>5 DEF CheckContainment
<1> QED BY <1>1, <1>2

(* A snapshot taken at once shows what there is to see. *)
LEMMA OnceShows ==
  ASSUME NEW t, IsFiniteSet(DOMAIN t), None \notin DOMAIN t,
         NEW seen, seen \subseteq DOMAIN t, NEW asked, NEW f \in asked, asked \subseteq seen
  PROVE  Shows(SnapshotOf(asked, t, seen), f, t, seen)
<1> SUFFICES ASSUME NEW n \in Nat,
                    \A k \in 0 .. n : Up(f, k, t) \in seen,
                    \A k \in 0 .. n - 1 : Up(f, k, t) # Root
             PROVE  Up(f, n, t) \in DOMAIN SnapshotOf(asked, t, seen)
  BY DEF Shows
<1>1. CASE n = 0
  <2>1. Up(f, n, t) = f
    BY <1>1, UpZero
  <2> QED BY <2>1, SnapshotIsPart
<1>2. CASE n # 0
  <2>1. n \in 0 .. n /\ n \in Nat
    OBVIOUS
  <2>2. PICK g : g = Up(f, n, t)
    OBVIOUS
  <2>3. g # None /\ Beneath(f, g, t)
    BY <1>2, <2>1, <2>2 DEF Beneath
  <2>4. PICK m \in 1 .. Cardinality(DOMAIN t) :
          Up(f, m, t) = g /\ \A k \in 1 .. m - 1 : Up(f, k, t) # g
    BY <2>3, ShortestChain
  <2>5. m \in Nat /\ m <= n
    <3>1. m \in Nat
      BY <2>4, CardinalityIsNat
    <3>2. n < m => n \in 1 .. m - 1
      BY <1>2, <3>1
    <3> QED BY <2>2, <2>4, <3>1, <3>2
  <2>6. \A k \in 1 .. m : k \in 0 .. n
    BY <2>5
  <2>7. \A k \in 1 .. m - 1 : k \in 0 .. n - 1
    BY <2>5
  <2>8. Up(f, m, t) \in DOMAIN SnapshotOf(asked, t, seen)
    BY <2>4, <2>6, <2>7, SnapshotClimbs
  <2> QED BY <2>2, <2>4, <2>8
<1> QED BY <1>1, <1>2

(* A quiet snapshot shows the same. *)
LEMMA QuietShows ==
  ASSUME FilesAreNew, LedgerIsOfDrive, SnapshotIsReached, QuietIsCurrent, pc = "judged", quiet,
         NEW f \in found
  PROVE  Shows(First(known), f, Tree, visible)
<1>1. /\ \A x \in DOMAIN known : known[x] = parents[x]
      /\ visited \cap visible = {} /\ pending = {}
      /\ \A x \in DOMAIN known \ {Root} : Parents(known, x) \subseteq DOMAIN known \cup visited \cup pending
  BY DEF QuietIsCurrent
<1>2. f \in DOMAIN known /\ DOMAIN known \subseteq Files /\ visible \subseteq Files /\ None \notin visible
  BY DEF SnapshotIsReached, LedgerIsOfDrive, FilesAreNew
<1>3. DOMAIN First(known) = DOMAIN known
  BY DEF First
<1>4. ASSUME NEW x \in DOMAIN known, x # Root, Above(x, Tree) \in visible
      PROVE  Above(x, Tree) \in DOMAIN known
  <2>1. x \in Files /\ known[x] = parents[x] /\ parents[x] \in Seq(Folders)
    BY <1>1, <1>2 DEF FilesAreNew
  <2>2. Above(x, Tree) = IF parents[x] = <<>> THEN None ELSE parents[x][1]
    BY <2>1 DEF Above, Tree, First, Files
  <2>3. parents[x] # <<>>
    BY <1>2, <1>4, <2>2
  <2>4. 1 \in DOMAIN parents[x]
    BY <2>1, <2>3
  <2>5. Above(x, Tree) \in Parents(known, x)
    BY <2>1, <2>2, <2>3, <2>4 DEF Parents
  <2> QED BY <1>1, <1>4, <2>5
<1>5. PICK t, seen, w : t = Tree /\ seen = visible /\ w = First(known)
  OBVIOUS
<1> DEFINE Good(n) == /\ \A k \in 0 .. n : Up(f, k, t) \in seen
                      /\ \A k \in 0 .. n - 1 : Up(f, k, t) # Root
           S == {n \in Nat : Good(n) => Up(f, n, t) \in DOMAIN w}
<1>6. 0 \in S
  BY <1>2, <1>3, <1>5, UpZero
<1>7. ASSUME NEW n \in Nat, n \in S PROVE n + 1 \in S
  <2> SUFFICES ASSUME Good(n + 1) PROVE Up(f, n + 1, t) \in DOMAIN w
    OBVIOUS
  <2>1. /\ \A k \in 0 .. n : k \in 0 .. n + 1
        /\ \A k \in 0 .. n - 1 : k \in 0 .. (n + 1) - 1
        /\ n \in 0 .. (n + 1) - 1 /\ n + 1 \in 0 .. n + 1
    OBVIOUS
  <2>2. Good(n)
    BY <2>1
  <2>3. Up(f, n, t) \in DOMAIN known /\ Up(f, n, t) # Root /\ Up(f, n + 1, t) \in seen
    BY <1>3, <1>5, <1>7, <2>1, <2>2
  <2>4. Up(f, n + 1, t) = Above(Up(f, n, t), t)
    BY UpNext
  <2> QED BY <1>3, <1>4, <1>5, <2>3, <2>4
<1>8. Nat \subseteq S
  <2> HIDE DEF S
  <2> QED BY <1>6, <1>7, Induction
<1>9. Shows(w, f, t, seen)
  BY <1>8 DEF Shows
<1> QED BY <1>5, <1>9

-----------------------------------------------------------------------------
SnapshotInv ==
  ViewInv /\ FilesAreNew /\ QuietIsCurrent /\ SnapshotIsOfTwo

THEOREM SnapshotInductive == Spec => []SnapshotInv
<1>1. Init => SnapshotInv
  <2> SUFFICES ASSUME Init PROVE SnapshotInv
    OBVIOUS
  <2>1. ViewInv
    BY InitIsView
  <2>2. PICK d \in Drives : parents = d
    BY DEF Init
  <2>3. /\ d \in [DOMAIN d -> Seq(Folders \ NewFiles)]
        /\ IsFiniteSet(DOMAIN d)
        /\ DOMAIN d \cap (NewFiles \cup {None}) = {}
        /\ \A c \in Commands : Into[c] = Root \/ Into[c] \notin DOMAIN d
    BY ViewAssumption
  <2>4. ASSUME NEW f \in DOMAIN d
        PROVE  /\ d[f] \in Seq(Folders)
               /\ Tree[f] \notin NewFiles
    <3>1. d[f] \in Seq(Folders \ NewFiles)
      BY <2>3
    <3>2. Tree[f] = IF d[f] = <<>> THEN None ELSE d[f][1]
      BY <2>2 DEF Tree, First
    <3>3. d[f] # <<>> => d[f][1] \in Folders \ NewFiles
      BY <3>1
    <3>4. d[f] \in Seq(Folders)
      BY <3>1
    <3> QED BY <3>2, <3>3, <3>4, ViewAssumption
  <2>5. parents \in [Files -> Seq(Folders)]
    BY <2>2, <2>3, <2>4 DEF Files
  <2>6. \A c \in Commands, n \in Nat : File(c, n) \in NewFiles
    BY DEF File, NewFiles
  <2>7. FilesAreNew
    BY <2>2, <2>3, <2>4, <2>5, <2>6 DEF FilesAreNew, Files
  <2>8. QuietIsCurrent /\ SnapshotIsOfTwo
    BY DEF Init, QuietIsCurrent, SnapshotIsOfTwo
  <2> QED BY <2>1, <2>7, <2>8 DEF SnapshotInv
<1>2. SnapshotInv /\ [Next]_vars => SnapshotInv'
  BY ViewStep, FilesStep, QuietStep, TwoStep DEF SnapshotInv, ViewInv
<1> QED BY <1>1, <1>2, PTL DEF Spec

(* While nothing happens that it may miss, a snapshot of many requests      *)
(* gives the verdicts of one taken at once.                                 *)
THEOREM QuietSnapshotsHold == Spec => []QuietSnapshotIsAtomic
<1>1. SnapshotInv => QuietSnapshotIsAtomic
  <2> SUFFICES ASSUME SnapshotInv, pc = "judged", quiet, NEW f \in found
               PROVE  LET once == SnapshotOf(found, First(parents), visible) IN
                      /\ AsSource(f, First(known)) = AsSource(f, once)
                      /\ AsDestination(f, First(known)) = AsDestination(f, once)
    BY DEF QuietSnapshotIsAtomic
  <2>1. /\ FilesAreNew /\ LedgerIsOfDrive /\ SnapshotIsReached /\ QuietIsCurrent
    BY DEF SnapshotInv, ViewInv
  <2>2. DOMAIN known \subseteq visible /\ \A x \in DOMAIN known : known[x] = parents[x]
    BY <2>1 DEF QuietIsCurrent
  <2>3. found \subseteq DOMAIN known /\ visible \subseteq Files
    BY <2>1 DEF SnapshotIsReached, LedgerIsOfDrive
  <2>4. DOMAIN First(known) = DOMAIN known /\ DOMAIN Tree = Files
    BY DEF First, Tree, Files
  <2>5. PartOf(First(known), Tree)
    <3>1. \A x \in DOMAIN known : First(known)[x] = Tree[x]
      BY <2>2, <2>3 DEF First, Tree, Files
    <3> QED BY <2>2, <2>3, <2>4, <3>1 DEF PartOf
  <2>6. Shows(First(known), f, Tree, visible)
    BY <2>1, QuietShows
  <2>7. PICK t, seen, asked, now : t = Tree /\ seen = visible /\ asked = found /\ now = First(known)
    OBVIOUS
  <2>8. IsFiniteSet(DOMAIN t) /\ None \notin DOMAIN t /\ seen \subseteq DOMAIN t
    BY <2>1, <2>3, <2>4, <2>7 DEF FilesAreNew
  <2>9. asked \subseteq seen /\ f \in asked
    BY <2>2, <2>3, <2>7
  <2>10. PICK once : once = SnapshotOf(asked, t, seen)
    OBVIOUS
  <2>11. /\ PartOf(once, t) /\ DOMAIN once \subseteq seen /\ asked \subseteq DOMAIN once
    BY <2>8, <2>9, <2>10, SnapshotIsPart
  <2>12. Shows(once, f, t, seen)
    BY <2>8, <2>9, <2>10, OnceShows
  <2>13. IsFiniteSet(DOMAIN once) /\ None \notin DOMAIN once
    BY <2>8, <2>11, FS_Subset
  <2>14. /\ PartOf(now, t) /\ DOMAIN now \subseteq seen /\ Shows(now, f, t, seen)
         /\ IsFiniteSet(DOMAIN now) /\ None \notin DOMAIN now
    BY <2>2, <2>4, <2>5, <2>6, <2>7, <2>8, FS_Subset
  <2>15. CheckContainment(f, now) = CheckContainment(f, once)
    BY <2>11, <2>12, <2>13, <2>14, SameVerdict
  <2>16. f \in DOMAIN now /\ f \in DOMAIN once
    BY <2>3, <2>4, <2>7, <2>9, <2>11
  <2>17. /\ AsSource(f, now) = AsSource(f, once)
         /\ AsDestination(f, now) = AsDestination(f, once)
    BY <2>15, <2>16 DEF AsSource, AsDestination, CheckSource, CheckDestination
  <2> QED BY <2>7, <2>10, <2>17 DEF Tree
<1> QED BY <1>1, SnapshotInductive, PTL

(* With one file moved while it is taken, what a snapshot proves to be      *)
(* inside was inside before the move or after it.                           *)
THEOREM OneMoveSnapshotsHold == Spec => []OneMoveCannotFoolASnapshot
<1>1. SnapshotInv => OneMoveCannotFoolASnapshot
  <2> SUFFICES ASSUME SnapshotInv, pc = "judged", moves <= 1, NEW f \in found,
                      CheckContainment(f, First(known)) = "ok", f # Root
               PROVE  f \in inside
    BY DEF OneMoveCannotFoolASnapshot
  <2>1. FilesAreNew /\ LedgerIsOfDrive /\ SnapshotIsReached /\ SnapshotIsOfTwo
    BY DEF SnapshotInv, ViewInv
  <2>2. DOMAIN known \subseteq Files /\ f \in Files
    BY <2>1 DEF SnapshotIsReached, LedgerIsOfDrive
  <2>3. /\ \A x \in Files : Beneath(x, Root, Tree) => x \in inside
        /\ \E b : IsBefore(b)
    BY <2>1 DEF SnapshotIsOfTwo
  <2>4. PICK before : IsBefore(before)
    BY <2>3
  <2>5. PICK m : \A x \in Files \ {m} : before[x] = Tree[x]
    BY <2>4 DEF IsBefore
  <2>6. PICK now, seen : now = Tree /\ seen = First(known)
    OBVIOUS
  <2>7. DOMAIN seen = DOMAIN known /\ DOMAIN now = Files /\ DOMAIN before = Files
    BY <2>4, <2>6 DEF First, Tree, Files, IsBefore
  <2>8. IsFiniteSet(DOMAIN seen) /\ None \notin DOMAIN seen
    BY <2>1, <2>2, <2>7, FS_Subset DEF FilesAreNew
  <2>9. Beneath(f, Root, seen)
    BY <2>6, <2>8, ContainmentIsProved DEF InWorkspace
  <2>10. \A x \in DOMAIN seen : seen[x] \in {before[x], now[x]}
    BY <2>4, <2>6, <2>7 DEF IsBefore
  <2>11. PartOf(seen, before) \/ PartOf(seen, now)
    <3>1. CASE m \in DOMAIN seen /\ seen[m] = before[m]
      <4>1. \A x \in DOMAIN seen : seen[x] = before[x]
        BY <2>2, <2>5, <2>6, <2>7, <2>10, <3>1
      <4> QED BY <2>2, <2>7, <4>1 DEF PartOf
    <3>2. CASE ~ (m \in DOMAIN seen /\ seen[m] = before[m])
      <4>1. \A x \in DOMAIN seen : seen[x] = now[x]
        BY <2>2, <2>5, <2>6, <2>7, <2>10, <3>2
      <4> QED BY <2>2, <2>7, <4>1 DEF PartOf
    <3> QED BY <3>1, <3>2
  <2>12. Root # None
    BY RulesAssumption
  <2>13. Beneath(f, Root, before) \/ Beneath(f, Root, now)
    BY <2>8, <2>9, <2>11, <2>12, PartKeepsBeneath
  <2> QED BY <2>2, <2>3, <2>4, <2>6, <2>13 DEF IsBefore
<1> QED BY <1>1, SnapshotInductive, PTL
=============================================================================
