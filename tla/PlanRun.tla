------------------------------- MODULE PlanRun -------------------------------
(***************************************************************************)
(* The life of one plan on a Drive that its owner uses at the same time:   *)
(* it is proposed against a snapshot (tools/organize.py, workspace.py),    *)
(* approved, revalidated against a fresh snapshot and executed operation   *)
(* by operation (tools/apply.py).  Drive answers as drive/fake.py does.    *)
(* ApplyGate has what surrounds this (the approval's rules, errors and     *)
(* exceptions, concurrent calls, crashes); here a request fails for what   *)
(* the state of Drive says and for nothing else.                           *)
(*                                                                         *)
(* A snapshot is taken in one step; the owner acts between any two steps   *)
(* from the proposal to the end of the run.                                *)
(***************************************************************************)
EXTENDS PlanRules

CONSTANTS
  Ids,          \* what a client or the model may call a file, refs included
  Trees,        \* the Drives a behaviour may start from: file -> parent
  Plans,        \* the plans a client may submit
  Drafts,       \* the DraftPlans the model may answer with
  MaxMeddling   \* bound: how many times the owner acts

(* CreateFolder, Rename and Move: what a client may submit. *)
Operation ==
  [op : {"create_folder"}, ref : Refs, parent_id : Ids, safe : BOOLEAN]
    \cup [op : {"rename"}, file_id : Ids, safe : BOOLEAN]
    \cup [op : {"move"}, file_id : Ids, new_parent_id : Ids, expected : Ids \cup {None}]

(* DraftFolder, DraftAssignment: files go into folders named by a ref. *)
DraftPlan ==
  [folders     : Seq([ref : Refs, safe : BOOLEAN]),
   assignments : Seq([file_id : Ids, folder_ref : Refs])]

(* Drive numbers the folders it creates, so nothing has a number yet.  A     *)
(* parent is a folder, and no file is above itself: Drive sees to that.      *)
ASSUME PlanAssumption ==
  /\ Refs \subseteq Ids
  /\ \A r \in Refs \cup {None} : r \notin Nat
  /\ Plans \subseteq Seq(Operation)
  /\ Drafts \subseteq DraftPlan
  /\ \A t \in Trees :
       /\ t \in [DOMAIN t -> (DOMAIN t \cap Folders) \cup {None}]
       /\ IsFiniteSet(DOMAIN t)
       /\ Root \in DOMAIN t
       /\ DOMAIN t \subseteq Ids \ (Refs \cup {None})
       /\ \A f \in DOMAIN t : f \notin Nat
       /\ \A f \in DOMAIN t, n \in 1..Cardinality(DOMAIN t) : Up(f, n, t) # f

VARIABLES
  tree,      \* the parent of every file on Drive
  visible,   \* the files the drive.file grant covers
  renamed,   \* the files that got another name from the plan
  nextId,    \* fake.py numbers the folders it creates
  granted,   \* the grant ledger
  phase,     \* how far the plan has come
  kind,      \* who made the plan: "manual" or "organization"
  ops,       \* the accepted operations: the stored plan
  cursor,    \* how many of them are executed
  bound,     \* ref_to_id
  atApproval, atRun,   \* history: tree when it was approved and revalidated
  meddled    \* history: the phases in which the owner acted, in order

driveVars == <<tree, visible, renamed, nextId>>
planVars  == <<granted, phase, kind, ops, cursor, bound, atApproval, atRun>>
vars      == <<driveVars, planVars, meddled>>

Files == DOMAIN tree

(* The reference definition: the root is somewhere above f in this tree. *)
Inside(f, t) == \E n \in 1..Cardinality(DOMAIN t) : Up(f, n, t) = Root

(* Every file is visible to the app but possibly one. *)
Init ==
  /\ tree \in Trees
  /\ visible \in {v \in SUBSET DOMAIN tree : Cardinality(DOMAIN tree \ v) <= 1}
  /\ renamed = {}
  /\ nextId = 1
  /\ granted = {}
  /\ phase = "start"
  /\ kind = "none"
  /\ ops = <<>>
  /\ cursor = 0
  /\ bound = [r \in Refs |-> None]
  /\ atApproval = tree
  /\ atRun = tree
  /\ meddled = <<>>

(* The files an operation names; _resolve_targets fetches the real ones. *)
Named(op) ==
  CASE op.op = "create_folder" -> {op.parent_id}
    [] op.op = "rename"        -> {op.file_id}
    [] op.op = "move"          -> {op.file_id, op.new_parent_id}

Wanted(plan) == (UNION {Named(plan[i]) : i \in DOMAIN plan}) \ Refs

(* The snapshot is taken at once: WorkspaceView has what that leaves out.   *)
Snapshot(found) == SnapshotOf(found, tree, visible)

(* The ledger with these files in it: GrantLedger.record only ever adds. *)
Recorded(files) == granted \cup files

(* What the validator may know: the snapshot, and the ledger, in which      *)
(* every file that Drive returned on the way is recorded by now.            *)
Context(found) ==
  LET known == Snapshot(found)
  IN [known |-> known, granted |-> Recorded(DOMAIN known)]

(* _resolve_targets: a file that cannot be fetched is left out. *)
Resolved(plan) == Context(Wanted(plan) \cap visible)

(* _build_proposal: the accepted operations are the plan from here on.       *)
(* LimitExceeded is raised after the files have been fetched and recorded.   *)
Build(k, plan, ctx) ==
  /\ granted' = ctx.granted
  /\ \/ /\ Len(plan) <= MaxOps
        /\ ops' = Accepted(plan, ctx)
        /\ kind' = k
        /\ phase' = "proposed"
     \/ /\ Len(plan) > MaxOps
        /\ UNCHANGED <<ops, kind, phase>>
  /\ UNCHANGED <<driveVars, cursor, bound, atApproval, atRun, meddled>>

(* propose_operations *)
Propose(plan) == phase = "start" /\ Build("manual", plan, Resolved(plan))

(* Mutant: each new folder goes into the one before it. *)
Compile_Nested(draft, candidates) ==
  [i \in DOMAIN draft.folders |->
     [op |-> "create_folder", ref |-> draft.folders[i].ref, safe |-> draft.folders[i].safe,
      parent_id |-> IF i = 1 THEN Root ELSE draft.folders[i - 1].ref]]
  \o [i \in DOMAIN draft.assignments |->
     [op |-> "move", file_id |-> draft.assignments[i].file_id,
      new_parent_id |-> draft.assignments[i].folder_ref, expected |-> None]]

(* _compile_draft: folders go below the root, then files into the folders.  *)
(* What the model assigns that it was not shown is compiled all the same.   *)
Compile(draft, candidates) ==
  [i \in DOMAIN draft.folders |->
     [op |-> "create_folder", ref |-> draft.folders[i].ref, safe |-> draft.folders[i].safe,
      parent_id |-> Root]]
  \o [i \in DOMAIN draft.assignments |->
     LET f == draft.assignments[i].file_id IN
     [op |-> "move", file_id |-> f, new_parent_id |-> draft.assignments[i].folder_ref,
      expected |-> IF f \in candidates THEN tree[f] ELSE None]]

(* propose_organization: at most max_files children are listed, whichever   *)
(* Drive returns first; the model is shown those that are not folders and   *)
(* answers with any draft its schema admits.                                *)
Organize(folder, draft) ==
  /\ phase = "start"
  /\ folder \in visible /\ IsFolder(folder)
  /\ \E listed \in SUBSET {f \in visible : tree[f] = folder} :
       /\ Cardinality(listed) <= MaxOps
       /\ Build("organization", Compile(draft, listed \ Folders), Context(listed))

(* ProposalStore.approve: a plan with nothing left cannot be approved. *)
Approve ==
  /\ phase = "proposed"
  /\ ops # <<>>
  /\ phase' = "approved"
  /\ atApproval' = tree
  /\ UNCHANGED <<driveVars, granted, kind, ops, cursor, bound, atRun, meddled>>

(* Mutant: the snapshot is fetched again, its verdict is not asked for. *)
Revalidate_Unasked ==
  /\ phase = "approved"
  /\ phase' = "running"
  /\ granted' = Resolved(ops).granted
  /\ atRun' = tree
  /\ UNCHANGED <<driveVars, kind, ops, cursor, bound, atApproval, meddled>>

(* _revalidate: every operation must validate again. *)
Revalidate ==
  /\ phase = "approved"
  /\ LET ctx == Resolved(ops) IN
       /\ phase' = IF Len(Accepted(ops, ctx)) = Len(ops) THEN "running" ELSE "rejected"
       /\ granted' = ctx.granted
  /\ atRun' = tree
  /\ UNCHANGED <<driveVars, kind, ops, cursor, bound, atApproval, meddled>>

(* ref_to_id.get(target, target) *)
Target(d) == IF d \in Refs /\ bound[d] # None THEN bound[d] ELSE d

(* Mutant: a move does not say where it expects the file to be. *)
Possible_AnyParent(op) ==
  CASE op.op = "create_folder" -> Target(op.parent_id) \in visible
    [] op.op = "rename"        -> op.file_id \in visible
    [] op.op = "move"          ->
         op.file_id \in visible /\ Target(op.new_parent_id) \in visible

(* What drive/fake.py checks before it carries an operation out. *)
Possible(op) ==
  CASE op.op = "create_folder" -> Target(op.parent_id) \in visible
    [] op.op = "rename"        -> op.file_id \in visible
    [] op.op = "move"          ->
         /\ op.file_id \in visible
         /\ Target(op.new_parent_id) \in visible
         /\ op.expected # None => tree[op.file_id] = op.expected

CreateFolder(op) ==
  /\ op.op = "create_folder"
  /\ tree' = [f \in Files \cup {nextId} |->
                IF f = nextId THEN Target(op.parent_id) ELSE tree[f]]
  /\ visible' = visible \cup {nextId}
  /\ nextId' = nextId + 1
  /\ bound' = [bound EXCEPT ![op.ref] = nextId]
  /\ granted' = granted \cup {nextId}
  /\ UNCHANGED renamed

Rename(op) ==
  /\ op.op = "rename"
  /\ renamed' = renamed \cup {op.file_id}
  /\ UNCHANGED <<tree, visible, nextId, bound, granted>>

(* One step, as in drive/fake.py.  The real client looks at the parents and  *)
(* writes in two requests: DriveCalls has what happens between them.         *)
Move(op) ==
  /\ op.op = "move"
  /\ tree' = [tree EXCEPT ![op.file_id] = Target(op.new_parent_id)]
  /\ UNCHANGED <<visible, renamed, nextId, bound, granted>>

(* One turn of the loop in _execute.  A failure ends it: the rest is skipped. *)
Execute ==
  /\ phase = "running"
  /\ LET op == ops[cursor + 1] IN
     \/ /\ Possible(op)
        /\ CreateFolder(op) \/ Rename(op) \/ Move(op)
        /\ cursor' = cursor + 1
        /\ phase' = IF cursor + 1 = Len(ops) THEN "applied" ELSE "running"
     \/ /\ ~Possible(op)
        /\ phase' = "failed"
        /\ UNCHANGED <<driveVars, bound, granted, cursor>>
  /\ UNCHANGED <<kind, ops, atApproval, atRun, meddled>>

(* The owner moves a file; Drive never lets it make a cycle. *)
MoveByHand(f, d) ==
  /\ f \in Files \ {Root} /\ d \in Files \cap Folders
  /\ f # d /\ \A n \in 1..Cardinality(Files) : Up(d, n, tree) # f
  /\ tree[f] # d
  /\ tree' = [tree EXCEPT ![f] = d]
  /\ UNCHANGED visible

(* The app loses its grant on a file, or gets it back. *)
Regrant(f) ==
  /\ visible' = IF f \in visible THEN visible \ {f} ELSE visible \cup {f}
  /\ UNCHANGED tree

Meddle ==
  /\ phase \in {"proposed", "approved", "running"}
  /\ Len(meddled) < MaxMeddling
  /\ (\E f, d \in Files : MoveByHand(f, d)) \/ (\E f \in Files : Regrant(f))
  /\ meddled' = Append(meddled, phase)
  /\ UNCHANGED <<renamed, nextId, planVars>>

Next ==
  \/ \E plan \in Plans : Propose(plan)
  \/ \E folder \in Files, draft \in Drafts : Organize(folder, draft)
  \/ Approve
  \/ Revalidate
  \/ Execute
  \/ Meddle

Spec == Init /\ [][Next]_vars

-----------------------------------------------------------------------------
Started         == phase \in {"running", "applied", "failed"}
Undisturbed     == meddled = <<>>
UndisturbedRun  == \A i \in DOMAIN meddled : meddled[i] # "running"
OpsOf(k)        == {ops[i] : i \in {j \in DOMAIN ops : ops[j].op = k}}
MovedFiles      == {op.file_id : op \in OpsOf("move")}
Sources         == MovedFiles \cup {op.file_id : op \in OpsOf("rename")}
Destinations    == {op.new_parent_id : op \in OpsOf("move")}
                     \cup {op.parent_id : op \in OpsOf("create_folder")}

(* What was accepted is accepted again when nobody touched Drive: dropping  *)
(* the rejected operations, and fetching only what the others name, takes   *)
(* nothing away that they rested on (apply.py:48).                          *)
UnchangedWorldRevalidates == phase = "rejected" => ~Undisturbed

(* Left alone, an accepted plan runs to its end, unless a move was          *)
(* submitted with a parent the file never had (apply.py:97).  A plan the    *)
(* model drafted always does: the parents it expects come from the listing  *)
(* it was compiled from (organize.py:70).                                   *)
UndisturbedRunSucceeds ==
  phase = "failed" /\ Undisturbed =>
    LET op == ops[cursor + 1] IN
    /\ kind = "manual"
    /\ op.op = "move" /\ op.expected # None /\ op.expected # atApproval[op.file_id]

(* Whatever was done to Drive since the proposal, a plan that passes        *)
(* revalidation changes only files below the root and puts them only there, *)
(* as Drive is then (validate.py:206): containment is proved, not assumed.  *)
RevalidatedPlansAreInside ==
  Started =>
    /\ \A f \in Sources : f # Root /\ Inside(f, atRun)
    /\ \A d \in Destinations \ Refs : d = Root \/ Inside(d, atRun)

(* A run that nobody disturbs leaves the root and every file outside as     *)
(* they were, and adds nothing to a folder outside: refs, renames and       *)
(* earlier operations of the plan open no way out.                          *)
OutsideUntouched ==
  Started /\ UndisturbedRun =>
    LET outside == {f \in DOMAIN atRun : ~Inside(f, atRun) /\ f # Root} IN
    /\ \A f \in outside \cup {Root} : tree[f] = atRun[f] /\ f \notin renamed
    /\ \A f \in Files : tree[f] \in outside => f \in DOMAIN atRun /\ tree[f] = atRun[f]

(* A plan that moves at most one folder loses no file: all that was below   *)
(* the root still is, and so is every folder created (validate.py:255).     *)
OneFolderMoveKeepsTheTree ==
  Started /\ UndisturbedRun /\ Cardinality(MovedFiles \cap Folders) <= 1 =>
    \A f \in Files : f \notin DOMAIN atRun \/ Inside(f, atRun) => Inside(f, tree)

(* An applied plan did what its preview says and nothing else: every        *)
(* operation's effect is there at the end, none undone by a later one.      *)
AppliedPlanHolds ==
  phase = "applied" /\ UndisturbedRun =>
    /\ \A op \in OpsOf("move") : tree[op.file_id] = Target(op.new_parent_id)
    /\ \A op \in OpsOf("create_folder") :
         bound[op.ref] # None /\ tree[bound[op.ref]] = Target(op.parent_id)
    /\ renamed = {op.file_id : op \in OpsOf("rename")}
    /\ \A f \in DOMAIN atRun \ MovedFiles : tree[f] = atRun[f]

(* Whatever the model answers, the worst a drafted plan does is to put      *)
(* something from the workspace into a new folder directly below the root:  *)
(* nothing is renamed, nothing lost, nothing nested, and the tree stays a    *)
(* tree, since no two of its moves can close a cycle (organize.py:60).      *)
DraftsOnlyFileAway ==
  kind = "organization" /\ Started /\ UndisturbedRun =>
    /\ renamed = {}
    /\ \A f \in Files \ DOMAIN atRun : tree[f] = Root
    /\ \A f \in DOMAIN atRun :
         tree[f] # atRun[f] => tree[f] \notin DOMAIN atRun /\ Inside(f, atRun)

(* A file is taken from a folder only if the plan named that folder or      *)
(* named none: whoever moves it between the proposal and its turn keeps it  *)
(* where he put it (fake.py:207).                                           *)
ExpectedParentIsHonoured ==
  [][\A f \in Files : tree'[f] # tree[f] /\ cursor' # cursor =>
       \E op \in OpsOf("move") : op.file_id = f /\ op.expected \in {None, tree[f]}]_vars

-----------------------------------------------------------------------------
(* docs/safety-model.md:108: the validator rejects cycles.  An accepted     *)
(* plan that nobody disturbs puts no folder below itself.                   *)
AcceptedPlansMakeNoCycle ==
  Started /\ UndisturbedRun =>
    \A f \in DOMAIN atRun : Inside(f, atRun) => Inside(f, tree)
=============================================================================
