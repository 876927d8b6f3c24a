---------------------------- MODULE PlanRun_proofs ----------------------------
(***************************************************************************)
(* Theorems about PlanRun, for any Drive, any plans and drafts and any      *)
(* interference of the owner.  PlanInv is the inductive invariant: what a   *)
(* run has done is a function of the operations executed so far, because    *)
(* refs are declared once and before their use and nothing is renamed or    *)
(* moved twice; and what the operations are rests on what the validator     *)
(* proves of them (AcceptedPlanIsSound in PlanRules_proofs).                *)
(***************************************************************************)
EXTENDS PlanRun, PlanRules_proofs

Phases == {"start", "proposed", "approved", "rejected", "running", "applied", "failed"}

(* Folders that a parent may be: those there are, and those Drive numbers. *)
ParentsAreFolders(t) ==
  \A f \in DOMAIN t : t[f] # None => t[f] \in DOMAIN t /\ t[f] \in Folders \cup Nat

IsDrive(t) ==
  /\ IsKnown(t)
  /\ Root \in DOMAIN t
  /\ ParentsAreFolders(t)

(* Drive is a forest of files, and the numbers in it are those given out. *)
DriveIsSound ==
  /\ IsDrive(tree)
  /\ visible \subseteq DOMAIN tree
  /\ nextId \in Nat /\ nextId # 0
  /\ \A n \in Nat : n \in DOMAIN tree <=> n \in 1 .. nextId - 1

(* Nothing is executed before the run, and a run ends where it must. *)
PhaseIsSound ==
  /\ phase \in Phases
  /\ ops \in Seq(Operation)
  /\ cursor \in Nat
  /\ DOMAIN bound = Refs /\ \A r \in Refs : bound[r] \in Nat \cup {None}
  /\ phase = "start" => meddled = <<>>
  /\ ~ Started => /\ cursor = 0 /\ nextId = 1 /\ renamed = {}
                  /\ \A r \in Refs : bound[r] = None
                  /\ ~ Beneath(Root, Root, tree)
                  /\ DOMAIN tree \subseteq Ids
  /\ phase \in {"running", "failed"} => cursor < Len(ops)
  /\ phase = "applied" => cursor = Len(ops)
  /\ phase = "approved" => ops # <<>>
  /\ phase # "start" => kind \in {"manual", "organization"}
  /\ meddled \in Seq(Phases)

(* Drive refuses an operation for a reason that is still there to see. *)
FailsForAReason == phase = "failed" => ~ Possible(ops[cursor + 1])

(* As long as nobody touched Drive, the plan is what was accepted on it. *)
AcceptedHere ==
  /\ Undisturbed /\ phase \in {"proposed", "approved"} =>
       \E plan \in Seq(Operation) : \E ctx :
         /\ PartOf(ctx.known, tree)
         /\ DOMAIN ctx.known \subseteq visible
         /\ ops = Accepted(plan, ctx)
  /\ Undisturbed /\ phase = "approved" => atApproval = tree
  /\ Undisturbed /\ Started => atApproval = atRun
  /\ phase = "rejected" => ~ Undisturbed

(* A plan made of a draft creates folders below the root and moves files    *)
(* into them, from where they were found.                                   *)
DraftIsCompiled ==
  kind = "organization" =>
    /\ \A i \in DOMAIN ops : \/ Creates(ops[i]) /\ ops[i].parent_id = Root
                             \/ Moves(ops[i]) /\ ops[i].new_parent_id \in Refs
    /\ \A i \in DOMAIN ops : Moves(ops[i]) =>
         /\ Undisturbed /\ phase = "proposed" => ops[i].expected \in {None, tree[ops[i].file_id]}
         /\ Undisturbed /\ phase \in {"approved", "running", "applied", "failed"} =>
              ops[i].expected \in {None, atApproval[ops[i].file_id]}

(* What revalidation has proved, of Drive as it then was. *)
Planned(t) ==
  \E known, refs :
    /\ PartOf(known, t)
    /\ DOMAIN refs = Refs
    /\ InPlace(ops, known)
    /\ RefsLead(refs, known)
    /\ NoCycles(ops, refs, known)
    /\ \A i \in DOMAIN ops : Creates(ops[i]) => refs[ops[i].ref] = ops[i].parent_id

RunIsPlanned ==
  Started =>
    /\ IsDrive(atRun)
    /\ \A n \in Nat : n \notin DOMAIN atRun
    /\ ~ Beneath(Root, Root, atRun)
    /\ InOrder(ops)
    /\ Planned(atRun)

(* Where a destination is, once its ref has been created. *)
TargetIn(b, d) == IF d \in Refs /\ b[d] # None THEN b[d] ELSE d

(* What the first c operations of the plan o have done to the Drive t0, if   *)
(* nobody else touched it: the tree is t, refs are bound as b says, v can be *)
(* seen, n is the next number and ren the files renamed.                     *)
Effects(o, c, t0, t, b, v, n, ren) ==
  /\ DOMAIN t = DOMAIN t0 \cup 1 .. n - 1
  /\ \A i \in DOMAIN o :
       /\ Touches(o[i]) => o[i].file_id \in v
       /\ o[i].op # "rename" /\ DestinationOf(o[i]) \notin Refs => DestinationOf(o[i]) \in v
  /\ \A i \in DOMAIN o : i <= c /\ Moves(o[i]) =>
       t[o[i].file_id] = TargetIn(b, o[i].new_parent_id)
  /\ \A i \in DOMAIN o : i <= c /\ Creates(o[i]) =>
       /\ b[o[i].ref] \in 1 .. n - 1
       /\ b[o[i].ref] \in v
       /\ t[b[o[i].ref]] = TargetIn(b, o[i].parent_id)
  /\ \A f \in DOMAIN t0 : t[f] # t0[f] =>
       \E i \in DOMAIN o : i <= c /\ Moves(o[i]) /\ o[i].file_id = f
  /\ \A m \in 1 .. n - 1 :
       \E i \in DOMAIN o : i <= c /\ Creates(o[i]) /\ b[o[i].ref] = m
  /\ \A r \in Refs : b[r] # None =>
       \E i \in DOMAIN o : i <= c /\ Creates(o[i]) /\ o[i].ref = r
  /\ \A f : f \in ren <=>
       \E i \in DOMAIN o : i <= c /\ o[i].op = "rename" /\ o[i].file_id = f

RunIsExecuted ==
  Started /\ UndisturbedRun =>
    Effects(ops, cursor, atRun, tree, bound, visible, nextId, renamed)

PlanInv ==
  /\ DriveIsSound
  /\ PhaseIsSound
  /\ FailsForAReason
  /\ AcceptedHere
  /\ DraftIsCompiled
  /\ RunIsPlanned
  /\ RunIsExecuted

-----------------------------------------------------------------------------
(* What the assumptions say of operations and of the first Drives. *)

LEMMA OperationsAreTyped ==
  \A op \in Operation : IsOperation(op)
  BY DEF Operation, IsOperation

LEMMA KindsOfOperations ==
  ASSUME NEW op \in Operation
  PROVE  /\ Creates(op) \/ Moves(op) \/ op.op = "rename"
         /\ Creates(op) => op.ref \in Refs /\ ~ Moves(op) /\ ~ Touches(op) /\ op.op # "rename"
         /\ Moves(op) => Touches(op) /\ op.op # "rename"
         /\ op.op = "rename" => Touches(op)
  BY DEF Operation, Creates, Moves, Touches

(* The reference definition of the properties is what the lemmas speak of. *)
LEMMA InsideIsBeneath ==
  ASSUME NEW t, IsKnown(t), NEW f
  PROVE  Inside(f, t) <=> Beneath(f, Root, t)
<1>1. IsFiniteSet(DOMAIN t) /\ None \notin DOMAIN t /\ Root # None
  BY RulesAssumption DEF IsKnown
<1>2. QED
  BY <1>1, BoundedSearch DEF Inside

LEMMA FirstDrives ==
  ASSUME NEW t \in Trees
  PROVE  /\ IsDrive(t)
         /\ \A n \in Nat : n \notin DOMAIN t
         /\ ~ Beneath(Root, Root, t)
         /\ DOMAIN t \subseteq Ids
<1>1. /\ t \in [DOMAIN t -> (DOMAIN t \cap Folders) \cup {None}]
      /\ IsFiniteSet(DOMAIN t)
      /\ Root \in DOMAIN t
      /\ DOMAIN t \subseteq Ids \ (Refs \cup {None})
      /\ \A f \in DOMAIN t : f \notin Nat
      /\ \A f \in DOMAIN t, n \in 1 .. Cardinality(DOMAIN t) : Up(f, n, t) # f
  BY PlanAssumption
<1>2. IsKnown(t)
  BY <1>1 DEF IsKnown
<1>3. ParentsAreFolders(t)
  <2>1. ASSUME NEW f \in DOMAIN t, t[f] # None PROVE t[f] \in DOMAIN t \cap Folders
    BY <1>1, <2>1
  <2>2. QED
    BY <2>1 DEF ParentsAreFolders
<1>4. ~ Inside(Root, t)
  BY <1>1 DEF Inside
<1>5. ~ Beneath(Root, Root, t)
  BY <1>2, <1>4, InsideIsBeneath
<1>6. QED
  BY <1>1, <1>2, <1>3, <1>5 DEF IsDrive

-----------------------------------------------------------------------------
(* The invariant holds at first ... *)

LEMMA InitIsSound == Init => PlanInv
<1> SUFFICES ASSUME Init PROVE PlanInv
  OBVIOUS
<1>1. /\ tree \in Trees /\ nextId = 1 /\ visible \subseteq DOMAIN tree
      /\ renamed = {} /\ phase = "start" /\ kind = "none" /\ ops = <<>>
      /\ cursor = 0 /\ bound = [r \in Refs |-> None] /\ meddled = <<>>
  BY DEF Init
<1>2. ~ Started
  BY <1>1 DEF Started
<1>3. /\ IsDrive(tree)
      /\ \A n \in Nat : n \notin DOMAIN tree
      /\ ~ Beneath(Root, Root, tree)
      /\ DOMAIN tree \subseteq Ids
  BY <1>1, FirstDrives
<1>4. DriveIsSound
  BY <1>1, <1>3 DEF DriveIsSound
<1>5. PhaseIsSound
  BY <1>1, <1>2, <1>3 DEF PhaseIsSound, Phases
<1>6. AcceptedHere
  BY <1>1, <1>2 DEF AcceptedHere
<1>7. DraftIsCompiled
  BY <1>1 DEF DraftIsCompiled
<1>8. RunIsPlanned /\ RunIsExecuted
  BY <1>2 DEF RunIsPlanned, RunIsExecuted
<1>9. QED
  BY <1>1, <1>4, <1>5, <1>6, <1>7, <1>8 DEF PlanInv, FailsForAReason

-----------------------------------------------------------------------------
(* ... and is kept by every step: a plan is proposed, ... *)

(* What a client proposes, or what a draft compiles to, on this Drive. *)
LEMMA BuildIsSound ==
  ASSUME PlanInv, phase = "start",
         NEW k \in {"manual", "organization"}, NEW plan \in Seq(Operation), NEW ctx, Build(k, plan, ctx),
         PartOf(ctx.known, tree), DOMAIN ctx.known \subseteq visible,
         k = "organization" => \A i \in DOMAIN plan :
           /\ \/ Creates(plan[i]) /\ plan[i].parent_id = Root
              \/ Moves(plan[i]) /\ plan[i].new_parent_id \in Refs
           /\ Moves(plan[i]) => plan[i].expected \in {None, tree[plan[i].file_id]}
  PROVE  PlanInv'
<1>1. DriveIsSound /\ PhaseIsSound /\ AcceptedHere /\ DraftIsCompiled
  BY DEF PlanInv
<1>2. /\ tree' = tree /\ visible' = visible /\ nextId' = nextId /\ renamed' = renamed
      /\ cursor' = cursor /\ bound' = bound /\ atApproval' = atApproval /\ atRun' = atRun
      /\ meddled' = meddled
  BY DEF Build, driveVars
<1>3. CASE UNCHANGED <<ops, kind, phase>>
  BY <1>2, <1>3 DEF PlanInv, DriveIsSound, PhaseIsSound, AcceptedHere, DraftIsCompiled,
     RunIsPlanned, RunIsExecuted, FailsForAReason, Started, Undisturbed
<1>4. CASE ops' = Accepted(plan, ctx) /\ kind' = k /\ phase' = "proposed"
  <2>1. ~ Started /\ ~ Started'
    BY <1>4 DEF Started
  <2>2. IsKnown(tree) /\ IsKnown(ctx.known)
    BY <1>1, PartIsKnown DEF DriveIsSound, IsDrive
  <2>3. Accepted(plan, ctx) \in Seq(Operation)
    BY <2>2, OperationsAreTyped, AcceptedPlanIsSound
  <2>4. DriveIsSound'
    BY <1>1, <1>2 DEF DriveIsSound
  <2>5. PhaseIsSound'
    BY <1>1, <1>2, <1>4, <2>1, <2>3 DEF PhaseIsSound, Phases
  <2>6. AcceptedHere'
    BY <1>2, <1>4, <2>1 DEF AcceptedHere
  <2>7. DraftIsCompiled'
    <3> SUFFICES ASSUME k = "organization", NEW i \in DOMAIN Accepted(plan, ctx)
                 PROVE  LET op == Accepted(plan, ctx)[i] IN
                        /\ \/ Creates(op) /\ op.parent_id = Root
                           \/ Moves(op) /\ op.new_parent_id \in Refs
                        /\ Moves(op) => op.expected \in {None, tree[op.file_id]}
      BY <1>2, <1>4 DEF DraftIsCompiled
    <3> DEFINE O == {plan[j] : j \in DOMAIN plan}
    <3>1. plan \in Seq(O)
      OBVIOUS
    <3>2. \A op \in O : IsOperation(op)
      BY OperationsAreTyped
    <3> HIDE DEF O
    <3>3. Accepted(plan, ctx) \in Seq(O)
      BY <2>2, <3>1, <3>2, AcceptedPlanIsSound
    <3>4. Accepted(plan, ctx)[i] \in O
      BY <3>3
    <3>5. PICK j \in DOMAIN plan : Accepted(plan, ctx)[i] = plan[j]
      BY <3>4 DEF O
    <3>6. QED
      BY <3>5
  <2>8. RunIsPlanned' /\ RunIsExecuted'
    BY <2>1 DEF RunIsPlanned, RunIsExecuted
  <2>9. QED
    BY <1>4, <2>4, <2>5, <2>6, <2>7, <2>8 DEF PlanInv, FailsForAReason
<1>5. QED
  BY <1>3, <1>4 DEF Build

(* A snapshot taken now is a part of Drive, with nothing hidden in it. *)
LEMMA ContextIsPart ==
  ASSUME DriveIsSound, NEW found, found \subseteq visible
  PROVE  /\ PartOf(Context(found).known, tree)
         /\ DOMAIN Context(found).known \subseteq visible
         /\ found \subseteq DOMAIN Context(found).known
         /\ DOMAIN Context(found).known \subseteq Context(found).granted
         /\ Context(found).known = SnapshotOf(found, tree, visible)
<1>1. /\ Context(found).known = SnapshotOf(found, tree, visible)
      /\ Context(found).granted = granted \cup DOMAIN SnapshotOf(found, tree, visible)
  BY DEF Context, Snapshot, Recorded
<1>2. visible \subseteq DOMAIN tree
  BY DEF DriveIsSound
<1>3. /\ PartOf(SnapshotOf(found, tree, visible), tree)
      /\ DOMAIN SnapshotOf(found, tree, visible) \subseteq visible
      /\ found \subseteq DOMAIN SnapshotOf(found, tree, visible)
  BY <1>2, SnapshotIsPart
<1>4. QED
  BY <1>1, <1>3

LEMMA ProposeIsSound ==
  ASSUME PlanInv, NEW plan \in Plans, Propose(plan)
  PROVE  PlanInv'
<1>1. plan \in Seq(Operation)
  BY PlanAssumption
<1>2. PICK ctx : ctx = Resolved(plan)
  OBVIOUS
<1>3. phase = "start" /\ Build("manual", plan, ctx)
  BY <1>2 DEF Propose
<1>4. PartOf(ctx.known, tree) /\ DOMAIN ctx.known \subseteq visible
  BY <1>2, ContextIsPart DEF PlanInv, Resolved
<1>5. QED
  BY <1>1, <1>3, <1>4, BuildIsSound

LEMMA MemberOfSequence ==
  ASSUME NEW O, NEW p \in Seq(O), NEW i \in DOMAIN p
  PROVE  p[i] \in O
  OBVIOUS

(* Two sequences, one after the other. *)
LEMMA Joined ==
  ASSUME NEW O, NEW p \in Seq(O), NEW q \in Seq(O)
  PROVE  /\ p \o q \in Seq(O)
         /\ \A i \in DOMAIN (p \o q) :
              (\E j \in DOMAIN p : (p \o q)[i] = p[j]) \/ (\E j \in DOMAIN q : (p \o q)[i] = q[j])
<1>1. p \o q \in Seq(O) /\ Len(p \o q) = Len(p) + Len(q)
  OBVIOUS
<1>2. ASSUME NEW i \in DOMAIN (p \o q)
      PROVE  (\E j \in DOMAIN p : (p \o q)[i] = p[j]) \/ (\E j \in DOMAIN q : (p \o q)[i] = q[j])
  <2>1. i \in 1 .. Len(p) + Len(q) /\ Len(p) \in Nat /\ Len(q) \in Nat
    BY <1>1
  <2>2. CASE i <= Len(p)
    <3>1. i \in DOMAIN p /\ (p \o q)[i] = p[i]
      BY <2>1, <2>2
    <3>2. QED
      BY <3>1
  <2>3. CASE ~ (i <= Len(p))
    <3>1. i - Len(p) \in DOMAIN q /\ (p \o q)[i] = q[i - Len(p)]
      BY <2>1, <2>3
    <3>2. QED
      BY <3>1
  <2>4. QED
    BY <2>2, <2>3
<1>3. QED
  BY <1>1, <1>2

(* A compiled draft is a plan, of folders below the root and moves into them. *)
LEMMA CompiledIsPlan ==
  ASSUME NEW draft \in Drafts, NEW candidates, Root \in Ids,
         \A f \in candidates : tree[f] \in Ids
  PROVE  /\ Compile(draft, candidates) \in Seq(Operation)
         /\ \A i \in DOMAIN Compile(draft, candidates) :
              LET op == Compile(draft, candidates)[i] IN
              /\ \/ Creates(op) /\ op.parent_id = Root
                 \/ Moves(op) /\ op.new_parent_id \in Refs
              /\ Moves(op) => op.expected \in {None, tree[op.file_id]}
<1> DEFINE folders == [i \in DOMAIN draft.folders |->
                        [op |-> "create_folder", ref |-> draft.folders[i].ref,
                         safe |-> draft.folders[i].safe, parent_id |-> Root]]
           moves == [i \in DOMAIN draft.assignments |->
                      LET f == draft.assignments[i].file_id IN
                      [op |-> "move", file_id |-> f, new_parent_id |-> draft.assignments[i].folder_ref,
                       expected |-> IF f \in candidates THEN tree[f] ELSE None]]
           plan == Compile(draft, candidates)
<1>1. /\ draft.folders \in Seq([ref : Refs, safe : BOOLEAN])
      /\ draft.assignments \in Seq([file_id : Ids, folder_ref : Refs])
  BY PlanAssumption DEF DraftPlan
<1>2. plan = folders \o moves
  BY DEF Compile
<1>3. ASSUME NEW i \in DOMAIN draft.folders
      PROVE  /\ folders[i] \in Operation
             /\ Creates(folders[i]) /\ ~ Moves(folders[i]) /\ folders[i].parent_id = Root
  <2>1. draft.folders[i] \in [ref : Refs, safe : BOOLEAN]
    BY <1>1, MemberOfSequence, Zenon
  <2>2. QED
    BY <2>1 DEF Operation, Creates, Moves
<1>4. ASSUME NEW i \in DOMAIN draft.assignments
      PROVE  /\ moves[i] \in Operation
             /\ Moves(moves[i]) /\ moves[i].new_parent_id \in Refs
             /\ moves[i].expected \in {None, tree[moves[i].file_id]}
  <2> DEFINE f == draft.assignments[i].file_id
             e == IF f \in candidates THEN tree[f] ELSE None
  <2>1. draft.assignments[i] \in [file_id : Ids, folder_ref : Refs]
    BY <1>1, MemberOfSequence, Zenon
  <2>2. f \in Ids /\ draft.assignments[i].folder_ref \in Ids /\ draft.assignments[i].folder_ref \in Refs
    BY <2>1, PlanAssumption
  <2>3. e \in Ids \cup {None} /\ e \in {None, tree[f]}
    OBVIOUS
  <2>4. moves[i] = [op |-> "move", file_id |-> f, new_parent_id |-> draft.assignments[i].folder_ref,
                    expected |-> e]
    OBVIOUS
  <2> HIDE DEF f, e, moves
  <2>5. QED
    BY <2>2, <2>3, <2>4 DEF Operation, Moves
<1>5. DOMAIN folders = 1 .. Len(draft.folders) /\ DOMAIN moves = 1 .. Len(draft.assignments)
  BY <1>1
<1>6. folders \in Seq(Operation) /\ moves \in Seq(Operation)
  <2>1. Len(draft.folders) \in Nat /\ Len(draft.assignments) \in Nat
    BY <1>1
  <2>2. folders \in [1 .. Len(draft.folders) -> Operation]
    BY <1>3, <1>5
  <2>3. moves \in [1 .. Len(draft.assignments) -> Operation]
    BY <1>4, <1>5
  <2> HIDE DEF folders, moves
  <2>4. QED
    BY <2>1, <2>2, <2>3
<1>7. DOMAIN folders = DOMAIN draft.folders /\ DOMAIN moves = DOMAIN draft.assignments
  OBVIOUS
<1> HIDE DEF folders, moves, plan
<1>8. plan \in Seq(Operation)
  BY <1>2, <1>6, Joined
<1>9. ASSUME NEW i \in DOMAIN plan
      PROVE  /\ \/ Creates(plan[i]) /\ plan[i].parent_id = Root
                \/ Moves(plan[i]) /\ plan[i].new_parent_id \in Refs
             /\ Moves(plan[i]) => plan[i].expected \in {None, tree[plan[i].file_id]}
  <2>1. (\E j \in DOMAIN folders : plan[i] = folders[j]) \/ (\E j \in DOMAIN moves : plan[i] = moves[j])
    BY <1>2, <1>6, <1>9, Joined
  <2>2. QED
    BY <1>3, <1>4, <1>7, <2>1
<1>10. QED
  BY <1>8, <1>9 DEF plan

LEMMA OrganizeIsSound ==
  ASSUME PlanInv, NEW folder \in Files, NEW draft \in Drafts, Organize(folder, draft)
  PROVE  PlanInv'
<1>1. DriveIsSound /\ PhaseIsSound
  BY DEF PlanInv
<1>2. phase = "start" /\ folder \in visible
  BY DEF Organize
<1>3. PICK listed \in SUBSET {f \in visible : tree[f] = folder} :
        Build("organization", Compile(draft, listed \ Folders), Context(listed))
  BY DEF Organize
<1>4. PICK plan : plan = Compile(draft, listed \ Folders)
  OBVIOUS
<1>5. PICK ctx : ctx = Context(listed)
  OBVIOUS
<1>6. Root \in Ids /\ folder \in Ids
  <2>1. ~ Started
    BY <1>2 DEF Started
  <2>2. DOMAIN tree \subseteq Ids
    BY <1>1, <2>1 DEF PhaseIsSound
  <2>3. Root \in DOMAIN tree /\ folder \in DOMAIN tree
    BY <1>1 DEF DriveIsSound, IsDrive, Files
  <2>4. QED
    BY <2>2, <2>3
<1>7. /\ plan \in Seq(Operation)
      /\ \A i \in DOMAIN plan :
           /\ \/ Creates(plan[i]) /\ plan[i].parent_id = Root
              \/ Moves(plan[i]) /\ plan[i].new_parent_id \in Refs
           /\ Moves(plan[i]) => plan[i].expected \in {None, tree[plan[i].file_id]}
  <2>1. \A f \in listed \ Folders : tree[f] \in Ids
    BY <1>6
  <2>2. QED
    BY <1>4, <1>6, <2>1, CompiledIsPlan
<1>8. PartOf(ctx.known, tree) /\ DOMAIN ctx.known \subseteq visible
  BY <1>1, <1>5, ContextIsPart
<1>9. Build("organization", plan, ctx)
  BY <1>3, <1>4, <1>5
<1>10. QED
  BY <1>2, <1>7, <1>8, <1>9, BuildIsSound

-----------------------------------------------------------------------------
(* ... approved, revalidated, ... *)

LEMMA ApproveIsSound ==
  ASSUME PlanInv, Approve
  PROVE  PlanInv'
<1>1. DriveIsSound /\ PhaseIsSound /\ AcceptedHere /\ DraftIsCompiled
  BY DEF PlanInv
<1>2. /\ phase = "proposed" /\ ops # <<>> /\ phase' = "approved" /\ atApproval' = tree
      /\ tree' = tree /\ visible' = visible /\ nextId' = nextId /\ renamed' = renamed
      /\ kind' = kind /\ ops' = ops /\ cursor' = cursor /\ bound' = bound /\ atRun' = atRun
      /\ meddled' = meddled
  BY DEF Approve, driveVars
<1>3. ~ Started /\ ~ Started' /\ (Undisturbed' <=> Undisturbed)
  BY <1>2 DEF Started, Undisturbed
<1>4. DriveIsSound'
  BY <1>1, <1>2 DEF DriveIsSound
<1>5. PhaseIsSound'
  BY <1>1, <1>2, <1>3 DEF PhaseIsSound, Phases
<1>6. AcceptedHere'
  BY <1>1, <1>2, <1>3 DEF AcceptedHere
<1>7. DraftIsCompiled'
  BY <1>1, <1>2, <1>3 DEF DraftIsCompiled
<1>8. RunIsPlanned' /\ RunIsExecuted'
  BY <1>3 DEF RunIsPlanned, RunIsExecuted
<1>9. QED
  BY <1>2, <1>4, <1>5, <1>6, <1>7, <1>8 DEF PlanInv, FailsForAReason

(* Everything a plan names and the app can see is fetched. *)
LEMMA ResolvedCovers ==
  ASSUME DriveIsSound, NEW plan \in Seq(Operation), NEW i \in DOMAIN plan
  PROVE  Covers(Wanted(plan) \cap visible, plan[i], visible)
<1>1. visible \cap Refs = {}
  BY DEF DriveIsSound, IsDrive, IsKnown
<1>2. plan[i] \in Operation
  BY MemberOfSequence
<1>3. Named(plan[i]) \ Refs \subseteq Wanted(plan)
  BY DEF Wanted
<1>4. ASSUME Touches(plan[i]) PROVE plan[i].file_id \in Named(plan[i])
  BY <1>4 DEF Touches, Named
<1>5. ASSUME plan[i].op # "rename" PROVE DestinationOf(plan[i]) \in Named(plan[i])
  <2>1. CASE Creates(plan[i])
    BY <2>1 DEF Creates, DestinationOf, Named
  <2>2. CASE Moves(plan[i])
    BY <2>2 DEF Creates, Moves, DestinationOf, Named
  <2>3. QED
    BY <1>2, <1>5, <2>1, <2>2, KindsOfOperations
<1>6. QED
  BY <1>1, <1>3, <1>4, <1>5 DEF Covers

LEMMA RevalidateIsSound ==
  ASSUME PlanInv, Revalidate
  PROVE  PlanInv'
<1>1. DriveIsSound /\ PhaseIsSound /\ AcceptedHere /\ DraftIsCompiled
  BY DEF PlanInv
<1> DEFINE found == Wanted(ops) \cap visible
<1>2. PICK ctx : ctx = Resolved(ops)
  OBVIOUS
<1>3. /\ phase = "approved" /\ atRun' = tree
      /\ phase' = IF Len(Accepted(ops, ctx)) = Len(ops) THEN "running" ELSE "rejected"
      /\ tree' = tree /\ visible' = visible /\ nextId' = nextId /\ renamed' = renamed
      /\ kind' = kind /\ ops' = ops /\ cursor' = cursor /\ bound' = bound
      /\ atApproval' = atApproval /\ meddled' = meddled
  BY <1>2 DEF Revalidate, driveVars
<1>4. /\ PartOf(ctx.known, tree)
      /\ DOMAIN ctx.known \subseteq visible
      /\ DOMAIN ctx.known \subseteq ctx.granted
      /\ ctx.known = SnapshotOf(found, tree, visible)
  BY <1>1, <1>2, ContextIsPart DEF Resolved
<1>5. /\ IsKnown(tree) /\ IsKnown(ctx.known) /\ visible \subseteq DOMAIN tree
      /\ ops \in Seq(Operation)
  BY <1>1, <1>4, PartIsKnown DEF DriveIsSound, IsDrive, PhaseIsSound
<1>6. /\ ~ Started /\ (Undisturbed' <=> Undisturbed)
      /\ cursor = 0 /\ nextId = 1 /\ renamed = {} /\ ops # <<>>
      /\ \A r \in Refs : bound[r] = None
      /\ ~ Beneath(Root, Root, tree)
  BY <1>1, <1>3 DEF PhaseIsSound, Started, Undisturbed
<1>7. DriveIsSound'
  BY <1>1, <1>3 DEF DriveIsSound
<1>8. ASSUME Undisturbed PROVE Accepted(ops, ctx) = ops
  <2>1. PICK plan, old :
          /\ plan \in Seq(Operation)
          /\ PartOf(old.known, tree)
          /\ DOMAIN old.known \subseteq visible
          /\ ops = Accepted(plan, old)
    BY <1>1, <1>3, <1>8 DEF AcceptedHere
  <2>2. \A i \in DOMAIN ops : Covers(found, ops[i], visible)
    BY <1>1, <1>5, ResolvedCovers
  <2>3. found \subseteq visible /\ \A op \in Operation : IsOperation(op)
    BY OperationsAreTyped
  <2> HIDE DEF found
  <2>4. Accepted(Accepted(plan, old), ctx) = Accepted(plan, old)
    BY <1>4, <1>5, <1>6, <2>1, <2>2, <2>3, AcceptedIsAcceptedAgain
  <2>5. QED
    BY <2>1, <2>4
<1>9. CASE phase' = "running"
  <2>1. Started' /\ Len(Accepted(ops, ctx)) = Len(ops)
    BY <1>3, <1>9 DEF Started
  <2>2. Accepted(ops, ctx) = ops
    BY <1>5, <2>1, OperationsAreTyped, AllAccepted
  <2>3. PICK refs : /\ DOMAIN refs = Refs
                    /\ InOrder(ops)
                    /\ InPlace(ops, ctx.known)
                    /\ RefsLead(refs, ctx.known)
                    /\ NoCycles(ops, refs, ctx.known)
                    /\ \A i \in DOMAIN ops : Creates(ops[i]) => refs[ops[i].ref] = ops[i].parent_id
    BY <1>5, <2>2, OperationsAreTyped, AcceptedPlanIsSound
  <2>4. Planned(tree)'
    BY <1>3, <1>4, <2>3 DEF Planned
  <2>5. PhaseIsSound'
    <3>1. 0 < Len(ops)
      BY <1>5, <1>6
    <3>2. QED
      BY <1>1, <1>3, <1>6, <1>9, <2>1, <3>1 DEF PhaseIsSound, Phases
  <2>6. AcceptedHere'
    BY <1>1, <1>3, <1>6, <1>9 DEF AcceptedHere
  <2>7. DraftIsCompiled'
    BY <1>1, <1>3, <1>6, <1>9 DEF DraftIsCompiled
  <2>8. RunIsPlanned'
    <3>1. \A n \in Nat : n \notin DOMAIN tree
      BY <1>1, <1>6 DEF DriveIsSound
    <3>2. IsDrive(tree)
      BY <1>1 DEF DriveIsSound
    <3>3. IsDrive(atRun') /\ ~ Beneath(Root, Root, atRun') /\ InOrder(ops')
      BY <1>3, <1>6, <2>3, <3>2
    <3>4. Planned(atRun)'
      BY <1>3, <2>4 DEF Planned
    <3>5. QED
      BY <1>3, <3>1, <3>3, <3>4 DEF RunIsPlanned
  <2>9. Effects(ops, 0, tree, tree, bound, visible, 1, {})
    <3>1. ASSUME NEW i \in DOMAIN ops
          PROVE  /\ Touches(ops[i]) => ops[i].file_id \in visible
                 /\ ops[i].op # "rename" /\ DestinationOf(ops[i]) \notin Refs =>
                      DestinationOf(ops[i]) \in visible
      BY <1>4, <2>3 DEF InPlace, RealDestination
    <3>2. \A i \in DOMAIN ops : ~ (i <= 0)
      BY <1>5
    <3>3. 1 .. 1 - 1 = {}
      OBVIOUS
    <3>4. QED
      BY <1>6, <3>1, <3>2, <3>3 DEF Effects
  <2>10. RunIsExecuted'
    BY <1>3, <1>6, <2>9 DEF RunIsExecuted
  <2>11. QED
    BY <1>7, <1>9, <2>5, <2>6, <2>7, <2>8, <2>10 DEF PlanInv, FailsForAReason
<1>10. CASE phase' = "rejected"
  <2>1. ~ Started'
    BY <1>10 DEF Started
  <2>2. ~ Undisturbed
    BY <1>3, <1>8, <1>10
  <2>3. PhaseIsSound'
    BY <1>1, <1>3, <1>6, <1>10, <2>1 DEF PhaseIsSound, Phases
  <2>4. AcceptedHere'
    BY <1>6, <1>10, <2>1, <2>2 DEF AcceptedHere
  <2>5. DraftIsCompiled'
    BY <1>1, <1>3, <1>10 DEF DraftIsCompiled
  <2>6. RunIsPlanned' /\ RunIsExecuted'
    BY <2>1 DEF RunIsPlanned, RunIsExecuted
  <2>7. QED
    BY <1>7, <1>10, <2>3, <2>4, <2>5, <2>6 DEF PlanInv, FailsForAReason
<1>11. QED
  BY <1>3, <1>9, <1>10

-----------------------------------------------------------------------------
(* ... disturbed by the owner, ... *)

LEMMA MeddleIsSound ==
  ASSUME PlanInv, Meddle
  PROVE  PlanInv'
<1>1. DriveIsSound /\ PhaseIsSound /\ AcceptedHere /\ DraftIsCompiled /\ RunIsPlanned
  BY DEF PlanInv
<1>2. /\ phase \in {"proposed", "approved", "running"} /\ meddled' = Append(meddled, phase)
      /\ nextId' = nextId /\ renamed' = renamed /\ phase' = phase
      /\ kind' = kind /\ ops' = ops /\ cursor' = cursor /\ bound' = bound
      /\ atApproval' = atApproval /\ atRun' = atRun
  BY DEF Meddle, planVars
<1>3. /\ DOMAIN meddled = 1 .. Len(meddled) /\ Len(meddled) \in Nat
      /\ meddled' \in Seq(Phases)
      /\ DOMAIN meddled' = 1 .. Len(meddled) + 1
      /\ meddled'[Len(meddled) + 1] = phase
  BY <1>1, <1>2, Appended DEF PhaseIsSound
<1>4. ~ Undisturbed' /\ (phase = "running" => ~ UndisturbedRun')
  <2>1. Len(meddled) + 1 \in DOMAIN meddled'
    BY <1>3
  <2>2. QED
    BY <1>3, <2>1 DEF Undisturbed, UndisturbedRun
<1>5. /\ (Started' <=> Started) /\ (Started => phase = "running")
      /\ (RunIsExecuted') /\ AcceptedHere'
  BY <1>2, <1>4 DEF Started, RunIsExecuted, AcceptedHere
<1>6. RunIsPlanned' /\ DraftIsCompiled'
  BY <1>1, <1>2, <1>4, <1>5 DEF RunIsPlanned, Planned, DraftIsCompiled
<1>7. /\ IsKnown(tree) /\ Root \in DOMAIN tree /\ ParentsAreFolders(tree)
      /\ visible \subseteq DOMAIN tree
  BY <1>1 DEF DriveIsSound, IsDrive
<1>8. CASE \E f, d \in Files : MoveByHand(f, d)
  <2>1. PICK f \in DOMAIN tree, d \in DOMAIN tree : MoveByHand(f, d)
    BY <1>8 DEF Files
  <2>2. /\ tree' = [tree EXCEPT ![f] = d] /\ visible' = visible
        /\ f # Root /\ d \in Folders /\ f # d
        /\ \A n \in 1 .. Cardinality(DOMAIN tree) : Up(d, n, tree) # f
    BY <2>1 DEF MoveByHand, Files
  <2>3. IsKnown(tree') /\ Root \in DOMAIN tree' /\ visible' \subseteq DOMAIN tree'
        /\ DOMAIN tree' = DOMAIN tree
    BY <1>7, <2>2 DEF IsKnown
  <2>4. ParentsAreFolders(tree')
    <3>1. ASSUME NEW g \in DOMAIN tree, tree'[g] # None
          PROVE  tree'[g] \in DOMAIN tree /\ tree'[g] \in Folders \cup Nat
      <4>1. CASE g = f
        BY <2>1, <2>2, <4>1
      <4>2. CASE g # f
        <5>1. tree'[g] = tree[g]
          BY <2>2, <4>2
        <5>2. QED
          BY <1>7, <3>1, <5>1 DEF ParentsAreFolders
      <4>3. QED
        BY <4>1, <4>2
    <3>2. QED
      BY <2>3, <3>1 DEF ParentsAreFolders
  <2>5. DriveIsSound'
    BY <1>1, <1>2, <2>3, <2>4 DEF DriveIsSound, IsDrive
  <2>6. ASSUME ~ Started PROVE ~ Beneath(Root, Root, tree')
    <3>1. IsFiniteSet(DOMAIN tree) /\ None \notin DOMAIN tree /\ f # None
      BY <1>7, <2>1 DEF IsKnown
    <3>2. ~ Beneath(d, f, tree)
      BY <2>2, <3>1, BoundedSearch
    <3>3. ~ Beneath(Root, Root, tree)
      BY <1>1, <2>6 DEF PhaseIsSound
    <3>4. ~ Beneath(Root, Root, [tree EXCEPT ![f] = d])
      BY <2>2, <3>2, <3>3, MovingMakesNoLoop
    <3>5. QED
      BY <2>2, <3>4
  <2>7. PhaseIsSound'
    BY <1>1, <1>2, <1>3, <1>5, <2>3, <2>6 DEF PhaseIsSound
  <2>8. QED
    BY <1>2, <1>5, <1>6, <2>5, <2>7 DEF PlanInv, FailsForAReason
<1>9. CASE \E f \in Files : Regrant(f)
  <2>1. tree' = tree /\ visible' \subseteq DOMAIN tree
    BY <1>7, <1>9 DEF Regrant, Files
  <2>2. DriveIsSound' /\ PhaseIsSound'
    BY <1>1, <1>2, <1>3, <1>5, <2>1 DEF DriveIsSound, PhaseIsSound
  <2>3. QED
    BY <1>2, <1>5, <1>6, <2>2 DEF PlanInv, FailsForAReason
<1>10. QED
  BY <1>8, <1>9 DEF Meddle

-----------------------------------------------------------------------------
(* ... and executed.  A ref that is used is bound by then. *)

LEMMA DestinationsAreBound ==
  ASSUME NEW o \in Seq(Operation), InOrder(o), NEW c, c \in Nat, NEW t0, NEW t, NEW b, NEW v,
         NEW n, n \in Nat, NEW ren, Effects(o, c, t0, t, b, v, n, ren)
  PROVE  \A i \in DOMAIN o : i <= c + 1 /\ o[i].op # "rename" /\ DestinationOf(o[i]) \in Refs =>
           b[DestinationOf(o[i])] # None /\ b[DestinationOf(o[i])] \in v
<1> SUFFICES ASSUME NEW i \in DOMAIN o, i <= c + 1, o[i].op # "rename", DestinationOf(o[i]) \in Refs
             PROVE  b[DestinationOf(o[i])] # None /\ b[DestinationOf(o[i])] \in v
  OBVIOUS
<1>1. PICK j \in DOMAIN o : j < i /\ Creates(o[j]) /\ o[j].ref = DestinationOf(o[i])
  BY DEF InOrder
<1>2. i \in Nat /\ j \in Nat /\ j <= c
  BY <1>1
<1>3. b[o[j].ref] \in 1 .. n - 1 /\ b[o[j].ref] \in v
  BY <1>1, <1>2 DEF Effects
<1>4. b[o[j].ref] \in Nat
  BY <1>3
<1>5. QED
  BY <1>1, <1>3, <1>4, PlanAssumption

(* A ref is free until its folder is created. *)
LEMMA RefIsFree ==
  ASSUME NEW o \in Seq(Operation), InOrder(o), NEW c \in Nat, c < Len(o), Creates(o[c + 1]),
         NEW t0, NEW t, NEW b, NEW v, NEW n, NEW ren, Effects(o, c, t0, t, b, v, n, ren)
  PROVE  o[c + 1].ref \in Refs /\ b[o[c + 1].ref] = None
<1>1. c + 1 \in DOMAIN o
  OBVIOUS
<1>2. o[c + 1] \in Operation
  BY <1>1, MemberOfSequence, Zenon
<1>3. o[c + 1].ref \in Refs
  BY <1>2, KindsOfOperations
<1>4. ASSUME b[o[c + 1].ref] # None PROVE FALSE
  <2>1. PICK i \in DOMAIN o : i <= c /\ Creates(o[i]) /\ o[i].ref = o[c + 1].ref
    BY <1>3, <1>4 DEF Effects
  <2>2. i < c + 1
    BY <2>1
  <2>3. QED
    BY <1>1, <2>1, <2>2 DEF InOrder
<1>5. QED
  BY <1>3, <1>4

LEMMA CreateExtends ==
  ASSUME NEW o \in Seq(Operation), InOrder(o), NEW c \in Nat, c < Len(o), Creates(o[c + 1]),
         NEW t0, \A m \in Nat : m \notin DOMAIN t0,
         NEW t, NEW b, DOMAIN b = Refs, NEW v, v \subseteq DOMAIN t, NEW n \in Nat, n # 0, NEW ren,
         Effects(o, c, t0, t, b, v, n, ren), n \notin DOMAIN t,
         NEW u, DOMAIN u = DOMAIN t \cup {n}, \A f \in DOMAIN t : u[f] = t[f],
         u[n] = TargetIn(b, o[c + 1].parent_id)
  PROVE  Effects(o, c + 1, t0, u, [b EXCEPT ![o[c + 1].ref] = n], v \cup {n}, n + 1, ren)
<1>1. PICK a : a = [b EXCEPT ![o[c + 1].ref] = n]
  OBVIOUS
<1>2. PICK r : r = o[c + 1].ref
  OBVIOUS
<1>3. r \in Refs /\ b[r] = None
  BY <1>2, RefIsFree
<1>4. a[r] = n /\ \A q \in Refs : q # r => a[q] = b[q]
  BY <1>1, <1>2, <1>3
<1>5. \A i \in DOMAIN o : i \in Nat /\ (i <= c + 1 <=> i <= c \/ i = c + 1)
  OBVIOUS
<1>6. c + 1 \in DOMAIN o /\ n \in Nat /\ n # None /\ 1 .. (n + 1) - 1 = 1 .. n - 1 \cup {n}
  <2>1. n # None
    BY PlanAssumption
  <2>2. QED
    BY <2>1
<1>7. ASSUME NEW i \in DOMAIN o, i <= c + 1, o[i].op # "rename"
      PROVE  TargetIn(a, DestinationOf(o[i])) = TargetIn(b, DestinationOf(o[i]))
  <2>1. CASE DestinationOf(o[i]) \in Refs
    <3>1. b[DestinationOf(o[i])] # None
      <4>1. \A j \in DOMAIN o : j <= c + 1 /\ o[j].op # "rename" /\ DestinationOf(o[j]) \in Refs =>
            b[DestinationOf(o[j])] # None /\ b[DestinationOf(o[j])] \in v
        BY DestinationsAreBound
      <4>2. QED
        BY <1>7, <2>1, <4>1
    <3>2. a[DestinationOf(o[i])] = b[DestinationOf(o[i])]
      BY <1>3, <1>4, <2>1, <3>1
    <3>3. QED
      BY <3>2 DEF TargetIn
  <2>2. CASE DestinationOf(o[i]) \notin Refs
    BY <2>2 DEF TargetIn
  <2>3. QED
    BY <2>1, <2>2
<1>8. DOMAIN u = DOMAIN t0 \cup 1 .. (n + 1) - 1
  BY <1>6 DEF Effects
<1>9. ASSUME NEW i \in DOMAIN o
      PROVE  /\ Touches(o[i]) => o[i].file_id \in v \cup {n}
             /\ o[i].op # "rename" /\ DestinationOf(o[i]) \notin Refs => DestinationOf(o[i]) \in v \cup {n}
  BY DEF Effects
<1>10. ASSUME NEW i \in DOMAIN o, i <= c + 1, Moves(o[i])
       PROVE  u[o[i].file_id] = TargetIn(a, o[i].new_parent_id)
  <2>1. i <= c
    BY <1>5, <1>10 DEF Creates, Moves
  <2>2. Touches(o[i]) /\ o[i].op # "rename" /\ DestinationOf(o[i]) = o[i].new_parent_id
    BY <1>10 DEF Touches, Moves, Creates, DestinationOf
  <2>3. o[i].file_id \in DOMAIN t
    BY <2>2 DEF Effects
  <2>4. t[o[i].file_id] = TargetIn(b, o[i].new_parent_id)
    BY <1>10, <2>1 DEF Effects
  <2>5. TargetIn(a, o[i].new_parent_id) = TargetIn(b, o[i].new_parent_id)
    BY <1>7, <1>10, <2>2
  <2>6. QED
    BY <2>3, <2>4, <2>5
<1>11. ASSUME NEW i \in DOMAIN o, i <= c + 1, Creates(o[i])
       PROVE  /\ a[o[i].ref] \in 1 .. (n + 1) - 1
              /\ a[o[i].ref] \in v \cup {n}
              /\ u[a[o[i].ref]] = TargetIn(a, o[i].parent_id)
  <2>1. o[i].op # "rename" /\ DestinationOf(o[i]) = o[i].parent_id
    BY <1>11 DEF Creates, DestinationOf
  <2>2. TargetIn(a, o[i].parent_id) = TargetIn(b, o[i].parent_id)
    BY <1>7, <1>11, <2>1
  <2>3. CASE i = c + 1
    BY <1>2, <1>4, <1>6, <2>2, <2>3
  <2>4. CASE i <= c
    <3>1. /\ b[o[i].ref] \in 1 .. n - 1
          /\ b[o[i].ref] \in v
          /\ t[b[o[i].ref]] = TargetIn(b, o[i].parent_id)
      BY <1>11, <2>4 DEF Effects
    <3>2. o[i] \in Operation
      BY MemberOfSequence, Zenon
    <3>3. o[i].ref \in Refs /\ b[o[i].ref] # None
      <4>1. b[o[i].ref] \in Nat
        BY <3>1
      <4>2. QED
        BY <1>11, <3>2, <4>1, KindsOfOperations, PlanAssumption
    <3>4. a[o[i].ref] = b[o[i].ref]
      BY <1>3, <1>4, <3>3
    <3>5. QED
      BY <1>6, <2>2, <3>1, <3>4
  <2>5. QED
    BY <1>5, <1>11, <2>3, <2>4
<1>12. ASSUME NEW f \in DOMAIN t0, u[f] # t0[f]
       PROVE  \E i \in DOMAIN o : i <= c + 1 /\ Moves(o[i]) /\ o[i].file_id = f
  <2>1. u[f] = t[f]
    BY DEF Effects
  <2>2. QED
    BY <1>5, <1>12, <2>1 DEF Effects
<1>13. ASSUME NEW m \in 1 .. (n + 1) - 1
       PROVE  \E i \in DOMAIN o : i <= c + 1 /\ Creates(o[i]) /\ a[o[i].ref] = m
  <2>1. CASE m = n
    BY <1>2, <1>4, <1>6, <2>1
  <2>2. CASE m \in 1 .. n - 1
    <3>1. PICK i \in DOMAIN o : i <= c /\ Creates(o[i]) /\ b[o[i].ref] = m
      BY <2>2 DEF Effects
    <3>2. o[i] \in Operation
      BY MemberOfSequence, Zenon
    <3>3. o[i].ref \in Refs /\ m # None
      BY <2>2, <3>1, <3>2, KindsOfOperations, PlanAssumption
    <3>4. a[o[i].ref] = m
      BY <1>3, <1>4, <3>1, <3>3
    <3>5. QED
      BY <1>5, <3>1, <3>4
  <2>3. QED
    BY <1>6, <2>1, <2>2
<1>14. ASSUME NEW q \in Refs, a[q] # None
       PROVE  \E i \in DOMAIN o : i <= c + 1 /\ Creates(o[i]) /\ o[i].ref = q
  <2>1. CASE q = r
    BY <1>2, <1>6, <2>1
  <2>2. CASE q # r
    <3>1. b[q] # None
      BY <1>4, <1>14, <2>2
    <3>2. QED
      BY <1>5, <3>1 DEF Effects
  <2>3. QED
    BY <2>1, <2>2
<1>15. ASSUME NEW f
       PROVE  f \in ren <=> \E i \in DOMAIN o : i <= c + 1 /\ o[i].op = "rename" /\ o[i].file_id = f
  <2>1. f \in ren <=> \E i \in DOMAIN o : i <= c /\ o[i].op = "rename" /\ o[i].file_id = f
    BY DEF Effects
  <2>2. o[c + 1].op # "rename"
    BY DEF Creates
  <2>3. QED
    BY <1>5, <2>1, <2>2
<1>16. Effects(o, c + 1, t0, u, a, v \cup {n}, n + 1, ren)
  BY <1>8, <1>9, <1>10, <1>11, <1>12, <1>13, <1>14, <1>15 DEF Effects
<1>17. QED
  BY <1>1, <1>16

LEMMA RenameExtends ==
  ASSUME NEW o \in Seq(Operation), NEW c \in Nat, c < Len(o), o[c + 1].op = "rename",
         NEW t0, NEW t, NEW b, NEW v, NEW n, NEW ren, Effects(o, c, t0, t, b, v, n, ren)
  PROVE  Effects(o, c + 1, t0, t, b, v, n, ren \cup {o[c + 1].file_id})
<1>1. \A i \in DOMAIN o : i <= c + 1 <=> i <= c \/ i = c + 1
  OBVIOUS
<1>2. c + 1 \in DOMAIN o /\ ~ Creates(o[c + 1]) /\ ~ Moves(o[c + 1])
  BY DEF Creates, Moves
<1>3. ASSUME NEW f
      PROVE  f \in ren \cup {o[c + 1].file_id} <=>
               \E i \in DOMAIN o : i <= c + 1 /\ o[i].op = "rename" /\ o[i].file_id = f
  <2>1. f \in ren <=> \E i \in DOMAIN o : i <= c /\ o[i].op = "rename" /\ o[i].file_id = f
    BY DEF Effects
  <2>2. QED
    BY <1>1, <1>2, <2>1
<1>4. ASSUME NEW i \in DOMAIN o, Creates(o[i]) \/ Moves(o[i]) PROVE i <= c + 1 <=> i <= c
  BY <1>1, <1>2, <1>4
<1>5. QED
  BY <1>3, <1>4 DEF Effects

LEMMA MoveExtends ==
  ASSUME NEW o \in Seq(Operation), InOrder(o), NEW c \in Nat, c < Len(o), Moves(o[c + 1]),
         NEW t0, \A m \in Nat : m \notin DOMAIN t0, o[c + 1].file_id \in DOMAIN t0,
         NEW t, NEW b, NEW v, NEW n \in Nat, NEW ren, Effects(o, c, t0, t, b, v, n, ren),
         NEW u, DOMAIN u = DOMAIN t, \A f \in DOMAIN t : f # o[c + 1].file_id => u[f] = t[f],
         u[o[c + 1].file_id] = TargetIn(b, o[c + 1].new_parent_id), v \subseteq DOMAIN t
  PROVE  Effects(o, c + 1, t0, u, b, v, n, ren)
<1>1. \A i \in DOMAIN o : i \in Nat /\ (i <= c + 1 <=> i <= c \/ i = c + 1)
  OBVIOUS
<1>2. c + 1 \in DOMAIN o /\ ~ Creates(o[c + 1]) /\ Touches(o[c + 1]) /\ o[c + 1].op # "rename"
  BY DEF Creates, Moves, Touches
<1>3. ASSUME NEW i \in DOMAIN o, i <= c + 1, Moves(o[i])
      PROVE  u[o[i].file_id] = TargetIn(b, o[i].new_parent_id)
  <2>1. CASE i = c + 1
    BY <2>1
  <2>2. CASE i <= c
    <3>1. i < c + 1 /\ Touches(o[i]) /\ o[i].op = o[c + 1].op
      BY <1>1, <1>3, <2>2 DEF Moves, Touches
    <3>2. o[i].file_id # o[c + 1].file_id
      BY <1>2, <3>1 DEF InOrder
    <3>3. o[i].file_id \in DOMAIN t
      BY <3>1 DEF Effects
    <3>4. t[o[i].file_id] = TargetIn(b, o[i].new_parent_id)
      BY <1>3, <2>2 DEF Effects
    <3>5. QED
      BY <3>2, <3>3, <3>4
  <2>3. QED
    BY <1>1, <1>3, <2>1, <2>2
<1>4. ASSUME NEW i \in DOMAIN o, i <= c + 1, Creates(o[i])
      PROVE  /\ b[o[i].ref] \in 1 .. n - 1
             /\ b[o[i].ref] \in v
             /\ u[b[o[i].ref]] = TargetIn(b, o[i].parent_id)
  <2>1. i <= c
    BY <1>1, <1>2, <1>4
  <2>2. /\ b[o[i].ref] \in 1 .. n - 1
        /\ b[o[i].ref] \in v
        /\ t[b[o[i].ref]] = TargetIn(b, o[i].parent_id)
    BY <1>4, <2>1 DEF Effects
  <2>3. b[o[i].ref] # o[c + 1].file_id
    <3>1. b[o[i].ref] \in Nat
      BY <2>2
    <3>2. QED
      BY <3>1
  <2>4. QED
    BY <2>2, <2>3
<1>5. ASSUME NEW f \in DOMAIN t0, u[f] # t0[f]
      PROVE  \E i \in DOMAIN o : i <= c + 1 /\ Moves(o[i]) /\ o[i].file_id = f
  <2>1. CASE f = o[c + 1].file_id
    BY <1>1, <1>2, <2>1
  <2>2. CASE f # o[c + 1].file_id
    <3>1. u[f] = t[f]
      BY <2>2 DEF Effects
    <3>2. QED
      BY <1>1, <1>5, <3>1 DEF Effects
  <2>3. QED
    BY <2>1, <2>2
<1>6. ASSUME NEW i \in DOMAIN o, Creates(o[i]) \/ o[i].op = "rename" PROVE i <= c + 1 <=> i <= c
  BY <1>1, <1>2, <1>6
<1>7. QED
  BY <1>3, <1>4, <1>5, <1>6 DEF Effects

(* What a destination stands for, if Drive can see it, is a folder. *)
LEMMA TargetIsFolder ==
  ASSUME PlanInv, Started, NEW i \in DOMAIN ops, ops[i].op # "rename",
         Target(DestinationOf(ops[i])) \in visible
  PROVE  /\ Target(DestinationOf(ops[i])) \in DOMAIN tree
         /\ Target(DestinationOf(ops[i])) \in Folders \cup Nat
<1>1. DriveIsSound /\ PhaseIsSound /\ RunIsPlanned
  BY DEF PlanInv
<1>2. visible \subseteq DOMAIN tree /\ visible \cap Refs = {}
  BY <1>1 DEF DriveIsSound, IsDrive, IsKnown
<1>3. PICK known : InPlace(ops, known)
  BY <1>1 DEF RunIsPlanned, Planned
<1>4. CASE DestinationOf(ops[i]) \in Refs
  <2>1. bound[DestinationOf(ops[i])] \in Nat \cup {None}
    BY <1>1, <1>4 DEF PhaseIsSound
  <2>2. bound[DestinationOf(ops[i])] # None
    BY <1>2, <1>4 DEF Target
  <2>3. Target(DestinationOf(ops[i])) = bound[DestinationOf(ops[i])]
    BY <1>4, <2>2 DEF Target
  <2>4. QED
    BY <1>2, <2>1, <2>2, <2>3
<1>5. CASE DestinationOf(ops[i]) \notin Refs
  <2>1. DestinationOf(ops[i]) \in Folders
    BY <1>3, <1>5 DEF InPlace, RealDestination, IsFolder
  <2>2. Target(DestinationOf(ops[i])) = DestinationOf(ops[i])
    BY <1>5 DEF Target
  <2>3. QED
    BY <1>2, <2>1, <2>2
<1>6. QED
  BY <1>4, <1>5

(* A step of the run leaves what was decided before it alone. *)
LEMMA ExecuteKeepsThePlan ==
  ASSUME PlanInv, Execute
  PROVE  AcceptedHere' /\ DraftIsCompiled' /\ RunIsPlanned'
<1>1. AcceptedHere /\ DraftIsCompiled /\ RunIsPlanned
  BY DEF PlanInv
<1>2. /\ phase = "running" /\ phase' \in {"running", "applied", "failed"}
      /\ kind' = kind /\ ops' = ops /\ atApproval' = atApproval /\ atRun' = atRun
      /\ meddled' = meddled
  BY DEF Execute
<1>3. Started /\ Started' /\ (Undisturbed' <=> Undisturbed)
  BY <1>2 DEF Started, Undisturbed
<1>4. AcceptedHere'
  BY <1>1, <1>2, <1>3 DEF AcceptedHere
<1>5. DraftIsCompiled'
  BY <1>1, <1>2, <1>3 DEF DraftIsCompiled
<1>6. RunIsPlanned'
  BY <1>1, <1>2, <1>3 DEF RunIsPlanned, Planned
<1>7. QED
  BY <1>4, <1>5, <1>6

LEMMA ExecuteIsSound ==
  ASSUME PlanInv, Execute
  PROVE  PlanInv'
<1>1. DriveIsSound /\ PhaseIsSound /\ RunIsPlanned /\ RunIsExecuted
  BY DEF PlanInv
<1>2. PICK op : op = ops[cursor + 1]
  OBVIOUS
<1>3. /\ phase = "running"
      /\ kind' = kind /\ ops' = ops /\ atApproval' = atApproval /\ atRun' = atRun
      /\ meddled' = meddled
  BY DEF Execute
<1>4. /\ ops \in Seq(Operation) /\ cursor \in Nat /\ cursor < Len(ops)
      /\ cursor + 1 \in DOMAIN ops
      /\ DOMAIN bound = Refs /\ \A r \in Refs : bound[r] \in Nat \cup {None}
      /\ meddled \in Seq(Phases) /\ kind \in {"manual", "organization"}
  BY <1>1, <1>3 DEF PhaseIsSound
<1>5. op \in Operation
  BY <1>2, <1>4, MemberOfSequence, Zenon
<1>6. /\ Started /\ (UndisturbedRun' <=> UndisturbedRun)
      /\ UndisturbedRun => Effects(ops, cursor, atRun, tree, bound, visible, nextId, renamed)
      /\ InOrder(ops) /\ \A n \in Nat : n \notin DOMAIN atRun
  BY <1>1, <1>3 DEF Started, UndisturbedRun, RunIsExecuted, RunIsPlanned
<1>7. /\ IsKnown(tree) /\ Root \in DOMAIN tree /\ ParentsAreFolders(tree)
      /\ visible \subseteq DOMAIN tree
      /\ nextId \in Nat /\ nextId # 0 /\ nextId \notin DOMAIN tree
      /\ \A n \in Nat : n \in DOMAIN tree <=> n \in 1 .. nextId - 1
  BY <1>1 DEF DriveIsSound, IsDrive
<1>8. AcceptedHere' /\ DraftIsCompiled' /\ RunIsPlanned'
  BY ExecuteKeepsThePlan
<1>9. CASE ~ Possible(op)
  <2>1. /\ phase' = "failed" /\ tree' = tree /\ visible' = visible /\ renamed' = renamed
        /\ nextId' = nextId /\ bound' = bound /\ cursor' = cursor
    BY <1>2, <1>9 DEF Execute, driveVars
  <2>2. Started'
    BY <2>1 DEF Started
  <2>3. DriveIsSound'
    BY <1>1, <2>1 DEF DriveIsSound
  <2>4. PhaseIsSound'
    BY <1>3, <1>4, <2>1, <2>2 DEF PhaseIsSound, Phases
  <2>5. RunIsExecuted'
    BY <1>3, <1>6, <2>1 DEF RunIsExecuted
  <2>6. FailsForAReason'
    BY <1>2, <1>3, <1>9, <2>1 DEF FailsForAReason, Possible, Target
  <2>7. QED
    BY <1>8, <2>3, <2>4, <2>5, <2>6 DEF PlanInv
<1>10. CASE Possible(op)
  <2>1. /\ cursor' = cursor + 1
        /\ phase' = IF cursor + 1 = Len(ops) THEN "applied" ELSE "running"
        /\ CreateFolder(op) \/ Rename(op) \/ Move(op)
    BY <1>2, <1>10 DEF Execute
  <2>2. /\ Started' /\ phase' # "start" /\ phase' # "approved" /\ phase' \in Phases
        /\ FailsForAReason'
    BY <2>1 DEF Started, Phases, FailsForAReason
  <2>3. ASSUME DOMAIN bound' = Refs, \A r \in Refs : bound'[r] \in Nat \cup {None}
        PROVE  PhaseIsSound'
    <3>1. cursor' \in Nat
      BY <1>4, <2>1
    <3>2. phase' \in {"running", "failed"} => cursor' < Len(ops')
      BY <1>3, <1>4, <2>1
    <3>3. phase' = "applied" => cursor' = Len(ops')
      BY <1>3, <2>1
    <3>4. QED
      BY <1>3, <1>4, <2>2, <2>3, <3>1, <3>2, <3>3 DEF PhaseIsSound
  <2>4. ASSUME UndisturbedRun => Effects(ops, cursor + 1, atRun, tree', bound', visible', nextId', renamed')
        PROVE  RunIsExecuted'
    BY <1>3, <1>6, <2>1, <2>4 DEF RunIsExecuted
  <2>5. CASE CreateFolder(op)
    <3>1. /\ op.op = "create_folder"
          /\ tree' = [f \in DOMAIN tree \cup {nextId} |->
                        IF f = nextId THEN Target(op.parent_id) ELSE tree[f]]
          /\ visible' = visible \cup {nextId}
          /\ nextId' = nextId + 1
          /\ bound' = [bound EXCEPT ![op.ref] = nextId]
          /\ renamed' = renamed
      BY <2>5 DEF CreateFolder, Files
    <3>2. Creates(op) /\ DestinationOf(op) = op.parent_id /\ op.ref \in Refs
      BY <1>5, <3>1, KindsOfOperations DEF Creates, DestinationOf
    <3>3. Target(op.parent_id) \in visible
      BY <1>10, <3>1 DEF Possible
    <3>4. Target(op.parent_id) \in DOMAIN tree /\ Target(op.parent_id) \in Folders \cup Nat
      BY <1>2, <1>4, <1>6, <3>1, <3>2, <3>3, TargetIsFolder
    <3>5. /\ DOMAIN tree' = DOMAIN tree \cup {nextId}
          /\ tree'[nextId] = Target(op.parent_id)
          /\ \A f \in DOMAIN tree : tree'[f] = tree[f]
      BY <1>7, <3>1
    <3>6. DriveIsSound'
      <4>1. IsKnown(tree')
        <5>1. IsFiniteSet(DOMAIN tree \cup {nextId})
          BY <1>7, FS_AddElement DEF IsKnown
        <5>2. nextId \notin Refs \cup {None}
          BY <1>7, PlanAssumption
        <5>3. QED
          BY <1>7, <3>5, <5>1, <5>2 DEF IsKnown
      <4>2. ParentsAreFolders(tree')
        BY <1>7, <3>4, <3>5 DEF ParentsAreFolders
      <4>3. \A n \in Nat : n \in DOMAIN tree' <=> n \in 1 .. nextId' - 1
        BY <1>7, <3>1, <3>5
      <4>4. nextId' \in Nat /\ nextId' # 0
        BY <1>7, <3>1
      <4>5. visible' \subseteq DOMAIN tree' /\ Root \in DOMAIN tree'
        BY <1>7, <3>1, <3>5
      <4>6. QED
        BY <4>1, <4>2, <4>3, <4>4, <4>5 DEF DriveIsSound, IsDrive
    <3>7. PhaseIsSound'
      BY <1>4, <1>7, <2>3, <3>1
    <3>8. RunIsExecuted'
      <4>1. SUFFICES ASSUME UndisturbedRun
                     PROVE  Effects(ops, cursor + 1, atRun, tree', bound', visible', nextId', renamed')
        BY <2>4
      <4>2. tree'[nextId] = TargetIn(bound, ops[cursor + 1].parent_id)
        BY <1>2, <3>5 DEF Target, TargetIn
      <4>3. Creates(ops[cursor + 1])
        BY <1>2, <3>2
      <4>4. Effects(ops, cursor + 1, atRun, tree', [bound EXCEPT ![ops[cursor + 1].ref] = nextId],
                    visible \cup {nextId}, nextId + 1, renamed)
        BY <1>4, <1>6, <1>7, <3>5, <4>1, <4>2, <4>3, CreateExtends
      <4>5. QED
        BY <1>2, <3>1, <4>4
    <3>9. QED
      BY <1>8, <2>2, <3>6, <3>7, <3>8 DEF PlanInv
  <2>6. CASE Rename(op)
    <3>1. /\ op.op = "rename" /\ renamed' = renamed \cup {op.file_id}
          /\ tree' = tree /\ visible' = visible /\ nextId' = nextId /\ bound' = bound
      BY <2>6 DEF Rename
    <3>2. DriveIsSound'
      BY <1>1, <3>1 DEF DriveIsSound
    <3>3. PhaseIsSound'
      BY <1>4, <2>3, <3>1
    <3>4. UndisturbedRun => Effects(ops, cursor + 1, atRun, tree, bound, visible, nextId,
                                    renamed \cup {ops[cursor + 1].file_id})
      BY <1>2, <1>4, <1>6, <3>1, RenameExtends
    <3>5. RunIsExecuted'
      BY <1>2, <2>4, <3>1, <3>4
    <3>6. QED
      BY <1>8, <2>2, <3>2, <3>3, <3>5 DEF PlanInv
  <2>7. CASE Move(op)
    <3>1. /\ op.op = "move"
          /\ tree' = [tree EXCEPT ![op.file_id] = Target(op.new_parent_id)]
          /\ visible' = visible /\ renamed' = renamed /\ nextId' = nextId /\ bound' = bound
      BY <2>7 DEF Move
    <3>2. /\ Moves(op) /\ Touches(op) /\ op.op # "rename"
          /\ DestinationOf(op) = op.new_parent_id
      BY <3>1 DEF Moves, Touches, Creates, DestinationOf
    <3>3. op.file_id \in visible /\ Target(op.new_parent_id) \in visible
      BY <1>10, <3>1 DEF Possible
    <3>4. Target(op.new_parent_id) \in DOMAIN tree /\ Target(op.new_parent_id) \in Folders \cup Nat
      BY <1>2, <1>4, <1>6, <3>2, <3>3, TargetIsFolder
    <3>5. /\ DOMAIN tree' = DOMAIN tree /\ op.file_id \in DOMAIN tree
          /\ tree'[op.file_id] = Target(op.new_parent_id)
          /\ \A f \in DOMAIN tree : f # op.file_id => tree'[f] = tree[f]
      BY <1>7, <3>1, <3>3
    <3>6. DriveIsSound'
      <4>1. IsKnown(tree')
        BY <1>7, <3>5 DEF IsKnown
      <4>2. ParentsAreFolders(tree')
        BY <1>7, <3>4, <3>5 DEF ParentsAreFolders
      <4>3. QED
        BY <1>7, <3>1, <3>5, <4>1, <4>2 DEF DriveIsSound, IsDrive
    <3>7. PhaseIsSound'
      BY <1>4, <2>3, <3>1
    <3>8. RunIsExecuted'
      <4>1. SUFFICES ASSUME UndisturbedRun
                     PROVE  Effects(ops, cursor + 1, atRun, tree', bound', visible', nextId', renamed')
        BY <2>4
      <4>2. PICK known : PartOf(known, atRun) /\ InPlace(ops, known)
        BY <1>1, <1>6 DEF RunIsPlanned, Planned
      <4>3. ops[cursor + 1].file_id \in DOMAIN atRun
        BY <1>2, <1>4, <3>2, <4>2 DEF InPlace, PartOf
      <4>4. tree'[ops[cursor + 1].file_id] = TargetIn(bound, ops[cursor + 1].new_parent_id)
        BY <1>2, <3>5 DEF Target, TargetIn
      <4>5. Moves(ops[cursor + 1]) /\ \A f \in DOMAIN tree : f # ops[cursor + 1].file_id => tree'[f] = tree[f]
        BY <1>2, <3>2, <3>5
      <4>6. Effects(ops, cursor + 1, atRun, tree', bound, visible, nextId, renamed)
        BY <1>4, <1>6, <1>7, <3>5, <4>1, <4>3, <4>4, <4>5, MoveExtends
      <4>7. QED
        BY <3>1, <4>6
    <3>9. QED
      BY <1>8, <2>2, <3>6, <3>7, <3>8 DEF PlanInv
  <2>8. QED
    BY <2>1, <2>5, <2>6, <2>7
<1>11. QED
  BY <1>9, <1>10

(* The inductive invariant. *)
THEOREM PlanInductive == Spec => []PlanInv
<1>1. ASSUME PlanInv, [Next]_vars PROVE PlanInv'
  <2>1. CASE \E plan \in Plans : Propose(plan)
    BY <1>1, <2>1, ProposeIsSound
  <2>2. CASE \E folder \in Files, draft \in Drafts : Organize(folder, draft)
    BY <1>1, <2>2, OrganizeIsSound
  <2>3. CASE Approve
    BY <1>1, <2>3, ApproveIsSound
  <2>4. CASE Revalidate
    BY <1>1, <2>4, RevalidateIsSound
  <2>5. CASE Execute
    BY <1>1, <2>5, ExecuteIsSound
  <2>6. CASE Meddle
    BY <1>1, <2>6, MeddleIsSound
  <2>7. CASE UNCHANGED vars
    <3>1. /\ tree' = tree /\ visible' = visible /\ renamed' = renamed /\ nextId' = nextId
          /\ phase' = phase /\ kind' = kind /\ ops' = ops /\ cursor' = cursor /\ bound' = bound
          /\ atApproval' = atApproval /\ atRun' = atRun /\ meddled' = meddled
      BY <2>7 DEF vars, driveVars, planVars
    <3>2. (Started' <=> Started) /\ (Undisturbed' <=> Undisturbed) /\ (UndisturbedRun' <=> UndisturbedRun)
      BY <3>1 DEF Started, Undisturbed, UndisturbedRun
    <3>3. DriveIsSound' /\ PhaseIsSound' /\ FailsForAReason'
      BY <1>1, <3>1, <3>2 DEF PlanInv, DriveIsSound, PhaseIsSound, FailsForAReason, Possible, Target
    <3>4. AcceptedHere' /\ DraftIsCompiled'
      BY <1>1, <3>1, <3>2 DEF PlanInv, AcceptedHere, DraftIsCompiled
    <3>5. RunIsPlanned' /\ RunIsExecuted'
      BY <1>1, <3>1, <3>2 DEF PlanInv, RunIsPlanned, Planned, RunIsExecuted
    <3>6. QED
      BY <3>3, <3>4, <3>5 DEF PlanInv
  <2>8. QED
    BY <1>1, <2>1, <2>2, <2>3, <2>4, <2>5, <2>6, <2>7 DEF Next
<1>2. QED
  BY <1>1, InitIsSound, PTL DEF Spec

-----------------------------------------------------------------------------
(* What the invariant says of the operations of a plan that runs. *)

(* Sources and destinations are below the root, on Drive as it was fetched. *)
LEMMA OperationsAreInside ==
  ASSUME PlanInv, Started, NEW i \in DOMAIN ops
  PROVE  /\ Touches(ops[i]) => /\ ops[i].file_id # Root
                               /\ ops[i].file_id \in DOMAIN atRun
                               /\ Beneath(ops[i].file_id, Root, atRun)
         /\ ops[i].op # "rename" /\ DestinationOf(ops[i]) \notin Refs =>
              InWorkspace(DestinationOf(ops[i]), atRun)
<1>1. IsKnown(atRun)
  BY DEF PlanInv, RunIsPlanned, IsDrive
<1>2. PICK known : PartOf(known, atRun) /\ InPlace(ops, known)
  BY DEF PlanInv, RunIsPlanned, Planned
<1>3. None \notin DOMAIN known /\ Root # None /\ DOMAIN known \subseteq DOMAIN atRun
  BY <1>1, <1>2, RulesAssumption DEF IsKnown, PartOf
<1>4. \A f : Beneath(f, Root, known) => Beneath(f, Root, atRun)
  BY <1>2, <1>3, PartKeepsBeneath
<1>5. QED
  BY <1>2, <1>3, <1>4 DEF InPlace, RealDestination, InWorkspace

(* So something is put below the root or, if a ref says where, into a folder *)
(* that was not there before the run.                                        *)
LEMMA TargetsAreInside ==
  ASSUME PlanInv, Started, NEW i \in DOMAIN ops, ops[i].op # "rename"
  PROVE  /\ DestinationOf(ops[i]) \in Refs =>
              TargetIn(bound, DestinationOf(ops[i])) \notin DOMAIN atRun
         /\ DestinationOf(ops[i]) \notin Refs =>
              /\ TargetIn(bound, DestinationOf(ops[i])) = DestinationOf(ops[i])
              /\ InWorkspace(DestinationOf(ops[i]), atRun)
<1>1. DOMAIN atRun \cap Refs = {} /\ \A n \in Nat : n \notin DOMAIN atRun
  BY DEF PlanInv, RunIsPlanned, IsDrive, IsKnown
<1>2. \A r \in Refs : bound[r] \in Nat \cup {None}
  BY DEF PlanInv, PhaseIsSound
<1>3. QED
  BY <1>1, <1>2, OperationsAreInside DEF TargetIn

-----------------------------------------------------------------------------
(* What was accepted is accepted again on a Drive that nobody touched: the  *)
(* rejected operations and the other files of the first snapshot are not    *)
(* missed when _revalidate fetches what the rest of the plan names.         *)
THEOREM UnchangedWorldHolds == Spec => []UnchangedWorldRevalidates
<1>1. PlanInv => UnchangedWorldRevalidates
  BY DEF PlanInv, AcceptedHere, UnchangedWorldRevalidates
<1>2. QED
  BY <1>1, PlanInductive, PTL

(* A plan that passes _revalidate changes only files below the root and     *)
(* puts them only there, whatever happened to Drive since it was proposed.  *)
THEOREM RevalidatedPlansHold == Spec => []RevalidatedPlansAreInside
<1>1. ASSUME PlanInv PROVE RevalidatedPlansAreInside
  <2> SUFFICES ASSUME Started
               PROVE  /\ \A f \in Sources : f # Root /\ Inside(f, atRun)
                      /\ \A d \in Destinations \ Refs : d = Root \/ Inside(d, atRun)
    BY DEF RevalidatedPlansAreInside
  <2>1. IsKnown(atRun)
    BY <1>1 DEF PlanInv, RunIsPlanned, IsDrive
  <2>2. ASSUME NEW f \in Sources PROVE f # Root /\ Inside(f, atRun)
    <3>1. PICK i \in DOMAIN ops : Touches(ops[i]) /\ ops[i].file_id = f
      BY DEF Sources, MovedFiles, OpsOf, Touches
    <3>2. QED
      BY <1>1, <2>1, <3>1, OperationsAreInside, InsideIsBeneath
  <2>3. ASSUME NEW d \in Destinations \ Refs PROVE d = Root \/ Inside(d, atRun)
    <3>1. PICK i \in DOMAIN ops : ops[i].op # "rename" /\ DestinationOf(ops[i]) = d
      BY DEF Destinations, OpsOf, DestinationOf, Creates
    <3>2. InWorkspace(d, atRun)
      BY <1>1, <3>1, OperationsAreInside
    <3>3. QED
      BY <2>1, <3>2, InsideIsBeneath DEF InWorkspace
  <2>4. QED
    BY <2>2, <2>3
<1>2. QED
  BY <1>1, PlanInductive, PTL

(* A run that nobody disturbs leaves the root and all that is not below it  *)
(* where it was and as it was called, and puts nothing there.               *)
THEOREM OutsideHolds == Spec => []OutsideUntouched
<1>1. ASSUME PlanInv PROVE OutsideUntouched
  <2> DEFINE outside == {f \in DOMAIN atRun : ~ Inside(f, atRun) /\ f # Root}
  <2> SUFFICES ASSUME Started, UndisturbedRun
               PROVE  /\ \A f \in outside \cup {Root} : tree[f] = atRun[f] /\ f \notin renamed
                      /\ \A f \in Files : tree[f] \in outside =>
                           f \in DOMAIN atRun /\ tree[f] = atRun[f]
    BY DEF OutsideUntouched
  <2>1. Effects(ops, cursor, atRun, tree, bound, visible, nextId, renamed)
    BY <1>1 DEF PlanInv, RunIsExecuted
  <2>2. IsKnown(atRun) /\ Root \in DOMAIN atRun
    BY <1>1 DEF PlanInv, RunIsPlanned, IsDrive
  <2>3. \A f : f \in outside <=> f \in DOMAIN atRun /\ ~ InWorkspace(f, atRun)
    BY <2>2, InsideIsBeneath DEF InWorkspace
  <2>4. \A f \in DOMAIN atRun : f \in outside \cup {Root} => f = Root \/ ~ Beneath(f, Root, atRun)
    BY <2>3 DEF InWorkspace
  <2> HIDE DEF outside
  <2>5. ASSUME NEW f \in outside \cup {Root} PROVE tree[f] = atRun[f] /\ f \notin renamed
    <3>1. f \in DOMAIN atRun
      BY <2>2, <2>3
    <3>2. \A i \in DOMAIN ops : Touches(ops[i]) => ops[i].file_id # f
      BY <1>1, <2>4, <3>1, OperationsAreInside
    <3>3. \A i \in DOMAIN ops : Moves(ops[i]) \/ ops[i].op = "rename" => ops[i].file_id # f
      BY <3>2 DEF Moves, Touches
    <3>4. QED
      BY <2>1, <3>1, <3>3 DEF Effects
  <2>6. ASSUME NEW f \in Files, tree[f] \in outside
        PROVE  f \in DOMAIN atRun /\ tree[f] = atRun[f]
    <3>1. \A i \in DOMAIN ops : ops[i].op # "rename" =>
            TargetIn(bound, DestinationOf(ops[i])) # tree[f]
      BY <1>1, <2>3, <2>6, TargetsAreInside
    <3>2. \A i \in DOMAIN ops : /\ Moves(ops[i]) => TargetIn(bound, ops[i].new_parent_id) # tree[f]
                                /\ Creates(ops[i]) => TargetIn(bound, ops[i].parent_id) # tree[f]
      BY <3>1 DEF DestinationOf, Creates, Moves
    <3>3. f \in DOMAIN atRun \/ f \in 1 .. nextId - 1
      BY <2>1 DEF Effects, Files
    <3>4. f \notin 1 .. nextId - 1
      BY <2>1, <3>2 DEF Effects
    <3>5. tree[f] = atRun[f]
      BY <2>1, <3>2, <3>3, <3>4 DEF Effects
    <3>6. QED
      BY <3>3, <3>4, <3>5
  <2>7. QED
    BY <2>5, <2>6
<1>2. QED
  BY <1>1, PlanInductive, PTL

(* What a finished run was to do is done, and nothing else: no operation    *)
(* undoes what an earlier one has done.                                     *)
THEOREM AppliedPlansHold == Spec => []AppliedPlanHolds
<1>1. ASSUME PlanInv PROVE AppliedPlanHolds
  <2> SUFFICES ASSUME phase = "applied", UndisturbedRun
               PROVE  /\ \A op \in OpsOf("move") : tree[op.file_id] = Target(op.new_parent_id)
                      /\ \A op \in OpsOf("create_folder") :
                           bound[op.ref] # None /\ tree[bound[op.ref]] = Target(op.parent_id)
                      /\ renamed = {op.file_id : op \in OpsOf("rename")}
                      /\ \A f \in DOMAIN atRun \ MovedFiles : tree[f] = atRun[f]
    BY DEF AppliedPlanHolds
  <2>1. Started
    BY DEF Started
  <2>2. Effects(ops, cursor, atRun, tree, bound, visible, nextId, renamed)
    BY <1>1, <2>1 DEF PlanInv, RunIsExecuted
  <2>3. \A i \in DOMAIN ops : i <= cursor
    BY <1>1 DEF PlanInv, PhaseIsSound
  <2>4. \A d : Target(d) = TargetIn(bound, d)
    BY DEF Target, TargetIn
  <2>5. ASSUME NEW op \in OpsOf("move") PROVE tree[op.file_id] = Target(op.new_parent_id)
    <3>1. PICK i \in DOMAIN ops : Moves(ops[i]) /\ op = ops[i]
      BY DEF OpsOf, Moves
    <3>2. QED
      BY <2>2, <2>3, <2>4, <3>1 DEF Effects
  <2>6. ASSUME NEW op \in OpsOf("create_folder")
        PROVE  bound[op.ref] # None /\ tree[bound[op.ref]] = Target(op.parent_id)
    <3>1. PICK i \in DOMAIN ops : Creates(ops[i]) /\ op = ops[i]
      BY DEF OpsOf, Creates
    <3>2. bound[op.ref] \in 1 .. nextId - 1 /\ tree[bound[op.ref]] = TargetIn(bound, op.parent_id)
      BY <2>2, <2>3, <3>1 DEF Effects
    <3>3. bound[op.ref] \in Nat
      BY <1>1, <3>2 DEF PlanInv, DriveIsSound
    <3>4. QED
      BY <2>4, <3>2, <3>3, PlanAssumption
  <2>7. ASSUME NEW f PROVE f \in renamed <=> f \in {op.file_id : op \in OpsOf("rename")}
    <3>1. f \in renamed <=> \E i \in DOMAIN ops : ops[i].op = "rename" /\ ops[i].file_id = f
      BY <2>2, <2>3 DEF Effects
    <3>2. QED
      BY <3>1 DEF OpsOf
  <2>8. ASSUME NEW f \in DOMAIN atRun \ MovedFiles PROVE tree[f] = atRun[f]
    <3>1. \A i \in DOMAIN ops : Moves(ops[i]) => ops[i].file_id # f
      BY DEF MovedFiles, OpsOf, Moves
    <3>2. QED
      BY <2>2, <3>1 DEF Effects
  <2>9. renamed = {op.file_id : op \in OpsOf("rename")}
    BY <2>7
  <2>10. QED
    BY <2>5, <2>6, <2>8, <2>9
<1>2. QED
  BY <1>1, PlanInductive, PTL

(* Whatever the model answers, a drafted plan only moves files of the       *)
(* workspace into new folders directly below the root.                      *)
THEOREM DraftsHold == Spec => []DraftsOnlyFileAway
<1>1. ASSUME PlanInv PROVE DraftsOnlyFileAway
  <2> SUFFICES ASSUME kind = "organization", Started, UndisturbedRun
               PROVE  /\ renamed = {}
                      /\ \A f \in Files \ DOMAIN atRun : tree[f] = Root
                      /\ \A f \in DOMAIN atRun : tree[f] # atRun[f] =>
                           tree[f] \notin DOMAIN atRun /\ Inside(f, atRun)
    BY DEF DraftsOnlyFileAway
  <2>1. Effects(ops, cursor, atRun, tree, bound, visible, nextId, renamed)
    BY <1>1 DEF PlanInv, RunIsExecuted
  <2>2. \A i \in DOMAIN ops : \/ Creates(ops[i]) /\ ops[i].parent_id = Root
                              \/ Moves(ops[i]) /\ ops[i].new_parent_id \in Refs
    BY <1>1 DEF PlanInv, DraftIsCompiled
  <2>3. renamed = {}
    <3>1. \A i \in DOMAIN ops : ops[i].op # "rename"
      BY <2>2 DEF Creates, Moves
    <3>2. QED
      BY <2>1, <3>1 DEF Effects
  <2>4. ASSUME NEW f \in Files \ DOMAIN atRun PROVE tree[f] = Root
    <3>1. f \in 1 .. nextId - 1
      BY <2>1 DEF Effects, Files
    <3>2. PICK i \in DOMAIN ops : i <= cursor /\ Creates(ops[i]) /\ bound[ops[i].ref] = f
      BY <2>1, <3>1 DEF Effects
    <3>3. tree[f] = TargetIn(bound, ops[i].parent_id)
      BY <2>1, <3>2 DEF Effects
    <3>4. ops[i].parent_id = Root
      BY <2>2, <3>2 DEF Creates, Moves
    <3>5. Root \notin Refs
      BY RulesAssumption
    <3>6. QED
      BY <3>3, <3>4, <3>5 DEF TargetIn
  <2>5. ASSUME NEW f \in DOMAIN atRun, tree[f] # atRun[f]
        PROVE  tree[f] \notin DOMAIN atRun /\ Inside(f, atRun)
    <3>1. PICK i \in DOMAIN ops : i <= cursor /\ Moves(ops[i]) /\ ops[i].file_id = f
      BY <2>1, <2>5 DEF Effects
    <3>2. /\ Touches(ops[i]) /\ ops[i].op # "rename"
          /\ DestinationOf(ops[i]) = ops[i].new_parent_id /\ DestinationOf(ops[i]) \in Refs
      BY <2>2, <3>1 DEF Creates, Moves, Touches, DestinationOf
    <3>3. tree[f] = TargetIn(bound, DestinationOf(ops[i]))
      BY <2>1, <3>1, <3>2 DEF Effects
    <3>4. tree[f] \notin DOMAIN atRun
      BY <1>1, <3>2, <3>3, TargetsAreInside
    <3>5. Beneath(f, Root, atRun) /\ IsKnown(atRun)
      BY <1>1, <3>1, <3>2, OperationsAreInside DEF PlanInv, RunIsPlanned, IsDrive
    <3>6. QED
      BY <3>4, <3>5, InsideIsBeneath
  <2>6. QED
    BY <2>3, <2>4, <2>5
<1>2. QED
  BY <1>1, PlanInductive, PTL

(* Left alone, an accepted plan fails only on a move that a client sent      *)
(* with a parent the file never had: every ref is bound by its turn, every   *)
(* folder still visible, no file moved already.                              *)
THEOREM UndisturbedRunHolds == Spec => []UndisturbedRunSucceeds
<1>1. ASSUME PlanInv PROVE UndisturbedRunSucceeds
  <2> SUFFICES ASSUME phase = "failed", Undisturbed, NEW op, op = ops[cursor + 1]
               PROVE  /\ kind = "manual"
                      /\ op.op = "move" /\ op.expected # None /\ op.expected # atApproval[op.file_id]
    BY DEF UndisturbedRunSucceeds
  <2>1. Started /\ UndisturbedRun
    BY DEF Started, Undisturbed, UndisturbedRun
  <2>2. /\ ops \in Seq(Operation) /\ cursor \in Nat /\ cursor < Len(ops)
        /\ kind \in {"manual", "organization"} /\ ~ Possible(op)
    BY <1>1 DEF PlanInv, PhaseIsSound, FailsForAReason
  <2>3. /\ Effects(ops, cursor, atRun, tree, bound, visible, nextId, renamed)
        /\ InOrder(ops) /\ atApproval = atRun /\ nextId \in Nat
    BY <1>1, <2>1 DEF PlanInv, RunIsExecuted, RunIsPlanned, AcceptedHere, DriveIsSound
  <2>4. cursor + 1 \in DOMAIN ops /\ cursor + 1 <= cursor + 1
    BY <2>2
  <2>5. op \in Operation
    BY <2>2, <2>4, MemberOfSequence, Zenon
  <2>6. ASSUME op.op # "rename" PROVE Target(DestinationOf(op)) \in visible
    <3>1. CASE DestinationOf(op) \in Refs
      <4>1. bound[DestinationOf(op)] # None /\ bound[DestinationOf(op)] \in visible
        BY <2>2, <2>3, <2>4, <2>6, <3>1, DestinationsAreBound
      <4>2. QED
        BY <3>1, <4>1 DEF Target
    <3>2. CASE DestinationOf(op) \notin Refs
      <4>1. DestinationOf(op) \in visible
        BY <2>3, <2>4, <2>6, <3>2 DEF Effects
      <4>2. QED
        BY <3>2, <4>1 DEF Target
    <3>3. QED
      BY <3>1, <3>2
  <2>7. Touches(op) => op.file_id \in visible
    BY <2>3, <2>4 DEF Effects
  <2>8. op.op = "move"
    <3>1. CASE op.op = "create_folder"
      BY <2>2, <2>6, <3>1 DEF Possible, DestinationOf, Creates
    <3>2. CASE op.op = "rename"
      BY <2>2, <2>7, <3>2 DEF Possible, Touches
    <3>3. QED
      BY <2>5, <3>1, <3>2, KindsOfOperations DEF Creates, Moves
  <2>9. /\ Moves(op) /\ Touches(op) /\ op.op # "rename"
        /\ DestinationOf(op) = op.new_parent_id
    BY <2>8 DEF Moves, Touches, Creates, DestinationOf
  <2>10. op.expected # None /\ tree[op.file_id] # op.expected
    BY <2>2, <2>6, <2>7, <2>8, <2>9 DEF Possible
  <2>11. op.file_id \in DOMAIN atRun
    BY <1>1, <2>1, <2>4, <2>9, OperationsAreInside
  <2>12. tree[op.file_id] = atRun[op.file_id]
    <3> SUFFICES ASSUME tree[op.file_id] # atRun[op.file_id] PROVE FALSE
      OBVIOUS
    <3>1. PICK i \in DOMAIN ops : i <= cursor /\ Moves(ops[i]) /\ ops[i].file_id = op.file_id
      BY <2>3, <2>11 DEF Effects
    <3>2. i < cursor + 1 /\ Touches(ops[i]) /\ ops[i].op = op.op
      BY <2>2, <2>9, <3>1 DEF Moves, Touches
    <3>3. QED
      BY <2>3, <2>4, <3>1, <3>2 DEF InOrder
  <2>13. op.expected # atApproval[op.file_id]
    BY <2>3, <2>10, <2>12
  <2>14. kind # "organization"
    BY <1>1, <2>4, <2>9, <2>10, <2>13 DEF PlanInv, DraftIsCompiled
  <2>15. QED
    BY <2>2, <2>8, <2>10, <2>13, <2>14
<1>2. QED
  BY <1>1, PlanInductive, PTL

(* The run takes a file only out of the folder that its operation expects   *)
(* it in, or that any will do: what its owner moved meanwhile stays.         *)
THEOREM ExpectedParentHolds == Spec => ExpectedParentIsHonoured
<1>1. ASSUME PlanInv, [Next]_vars
      PROVE  [\A f \in Files : tree'[f] # tree[f] /\ cursor' # cursor =>
                \E op \in OpsOf("move") : op.file_id = f /\ op.expected \in {None, tree[f]}]_vars
  <2> SUFFICES ASSUME NEW f \in Files, tree'[f] # tree[f], cursor' # cursor
               PROVE  \E op \in OpsOf("move") : op.file_id = f /\ op.expected \in {None, tree[f]}
    OBVIOUS
  <2>1. Execute
    <3>1. ~ UNCHANGED vars
      BY DEF vars, planVars
    <3>2. ASSUME NEW plan \in Plans, Propose(plan) PROVE FALSE
      BY <3>2 DEF Propose, Build
    <3>3. ASSUME NEW folder \in Files, NEW draft \in Drafts, Organize(folder, draft) PROVE FALSE
      BY <3>3 DEF Organize, Build
    <3>4. ~ Approve /\ ~ Revalidate /\ ~ Meddle
      BY DEF Approve, Revalidate, Meddle, planVars
    <3>5. QED
      BY <1>1, <3>1, <3>2, <3>3, <3>4 DEF Next
  <2>2. PICK op : op = ops[cursor + 1]
    OBVIOUS
  <2>3. /\ phase = "running" /\ Possible(op)
        /\ CreateFolder(op) \/ Rename(op) \/ Move(op)
    BY <2>1, <2>2 DEF Execute
  <2>4. cursor + 1 \in DOMAIN ops
    BY <1>1, <2>3 DEF PlanInv, PhaseIsSound
  <2>5. nextId \notin Files
    BY <1>1 DEF PlanInv, DriveIsSound, Files
  <2>6. ~ CreateFolder(op)
    BY <2>5 DEF CreateFolder
  <2>7. ~ Rename(op)
    BY DEF Rename
  <2>8. /\ op.op = "move" /\ op.file_id = f
    BY <2>3, <2>6, <2>7 DEF Move, Files
  <2>9. op.expected \in {None, tree[f]}
    BY <2>3, <2>8 DEF Possible
  <2>10. op \in OpsOf("move")
    BY <2>2, <2>4, <2>8 DEF OpsOf
  <2>11. QED
    BY <2>8, <2>9, <2>10
<1>2. QED
  BY <1>1, PlanInductive, PTL DEF Spec, ExpectedParentIsHonoured

-----------------------------------------------------------------------------
(* Moving at most one folder. *)

(* The folders created for a chain of refs form the same chain on Drive,     *)
(* below the folder that the chain hangs from.                               *)
LEMMA CreatedChain ==
  ASSUME NEW o \in Seq(Operation), InOrder(o), NEW c \in Nat, NEW t0, NEW t, NEW b, NEW v,
         NEW n \in Nat, NEW ren, Effects(o, c, t0, t, b, v, n, ren),
         NEW refs, DOMAIN refs = Refs,
         \A i \in DOMAIN o : Creates(o[i]) => refs[o[i].ref] = o[i].parent_id,
         NEW a, a \notin Refs, a # None,
         NEW d \in Refs, b[d] # None, Beneath(d, a, refs)
  PROVE  Beneath(b[d], a, t)
<1> DEFINE P(k) == \A r \in Refs : b[r] # None /\ Up(r, k, refs) = a => Beneath(b[r], a, t)
           S == {k \in Nat : P(k)}
<1>1. None \notin DOMAIN refs
  BY RulesAssumption
<1>2. P(0)
  BY UpZero
<1>3. ASSUME NEW k \in Nat, P(k), NEW r \in Refs, b[r] # None, Up(r, k + 1, refs) = a
      PROVE  Beneath(b[r], a, t)
  <2>1. PICK i \in DOMAIN o : i <= c /\ Creates(o[i]) /\ o[i].ref = r
    BY <1>3 DEF Effects
  <2>2. /\ refs[r] = o[i].parent_id
        /\ o[i].op # "rename" /\ DestinationOf(o[i]) = refs[r]
    BY <2>1 DEF Creates, DestinationOf
  <2>3. Above(b[r], t) = TargetIn(b, refs[r])
    <3>1. b[r] \in 1 .. n - 1 /\ t[b[r]] = TargetIn(b, o[i].parent_id)
      BY <2>1 DEF Effects
    <3>2. b[r] \in DOMAIN t
      BY <3>1 DEF Effects
    <3>3. QED
      BY <2>2, <3>1, <3>2 DEF Above
  <2>4. Up(refs[r], k, refs) = a
    <3>1. Up(r, 1, refs) = refs[r]
      <4>1. 0 \in Nat /\ 0 + 1 = 1
        OBVIOUS
      <4>2. Up(r, 1, refs) = Above(Up(r, 0, refs), refs)
        BY <4>1, UpNext
      <4>3. QED
        BY <4>2, UpZero DEF Above
    <3>2. 1 \in Nat /\ k + 1 = 1 + k
      OBVIOUS
    <3>3. QED
      BY <1>3, <3>1, <3>2, UpSum
  <2>5. CASE refs[r] \in Refs
    <3>1. i <= c + 1
      BY <2>1
    <3>2. b[refs[r]] # None
      <4>1. \A j \in DOMAIN o : j <= c + 1 /\ o[j].op # "rename" /\ DestinationOf(o[j]) \in Refs =>
            b[DestinationOf(o[j])] # None /\ b[DestinationOf(o[j])] \in v
        BY DestinationsAreBound
      <4>2. QED
        BY <2>2, <2>5, <3>1, <4>1
    <3>3. Beneath(b[refs[r]], a, t) /\ Above(b[r], t) = b[refs[r]]
      BY <1>3, <2>3, <2>4, <2>5, <3>2 DEF TargetIn
    <3>4. QED
      BY <3>3, BeneathStep
  <2>6. CASE refs[r] \notin Refs
    <3>1. refs[r] = a
      <4>1. CASE k = 0
        BY <2>4, <4>1, UpZero
      <4>2. CASE k # 0
        <5>1. 0 \in Nat /\ 0 < k
          BY <4>2
        <5>2. refs[r] \in DOMAIN refs
          BY <1>1, <2>4, <5>1, ChainStaysInside, UpZero
        <5>3. QED
          BY <2>6, <5>2
      <4>3. QED
        BY <4>1, <4>2
    <3>2. Above(b[r], t) = a
      BY <2>3, <2>6, <3>1 DEF TargetIn
    <3>3. QED
      BY <3>2, BeneathStep
  <2>7. QED
    BY <2>5, <2>6
<1>4. 0 \in S
  BY <1>2
<1>5. ASSUME NEW k \in Nat, k \in S PROVE k + 1 \in S
  BY <1>3, <1>5
<1> HIDE DEF P
<1>6. Nat \subseteq S
  BY <1>4, <1>5, Induction
<1>7. PICK m \in Nat : m # 0 /\ Up(d, m, refs) = a
  BY DEF Beneath
<1>8. P(m)
  BY <1>6
<1>9. QED
  BY <1>7, <1>8 DEF P

(* So what an executed operation put something into is the folder that its   *)
(* destination hangs from, or below it.                                      *)
LEMMA TargetHangs ==
  ASSUME NEW o \in Seq(Operation), InOrder(o), NEW c \in Nat, NEW t0, NEW t, NEW b, NEW v,
         NEW n \in Nat, NEW ren, Effects(o, c, t0, t, b, v, n, ren),
         NEW refs, DOMAIN refs = Refs,
         \A i \in DOMAIN o : Creates(o[i]) => refs[o[i].ref] = o[i].parent_id,
         NEW known, IsKnown(known), NEW i \in DOMAIN o, i <= c, o[i].op # "rename",
         NEW a, Anchors(DestinationOf(o[i]), a, refs, known)
  PROVE  LET d == TargetIn(b, DestinationOf(o[i])) IN d = a \/ Beneath(d, a, t)
<1>1. a \notin Refs /\ a # None /\ None \notin DOMAIN refs
  BY RulesAssumption DEF Anchors, RealDestination, IsKnown
<1>2. PICK r : r = DestinationOf(o[i])
  OBVIOUS
<1>3. r = a \/ Beneath(r, a, refs)
  BY <1>2 DEF Anchors
<1>4. CASE r = a
  BY <1>1, <1>2, <1>4 DEF TargetIn
<1>5. CASE Beneath(r, a, refs)
  <2>1. r \in Refs
    BY <1>1, <1>5, BeneathIsInside
  <2>2. i <= c + 1
    OBVIOUS
  <2>3. b[r] # None
    BY <1>2, <2>1, <2>2, DestinationsAreBound
  <2>4. Beneath(b[r], a, t)
    BY <1>1, <1>5, <2>1, <2>3, CreatedChain
  <2>5. QED
    BY <1>2, <2>1, <2>3, <2>4 DEF TargetIn
<1>6. QED
  BY <1>3, <1>4, <1>5

(* Two members make two. *)
LEMMA AtMostOne ==
  ASSUME NEW S, IsFiniteSet(S), Cardinality(S) <= 1, NEW x \in S, NEW y \in S
  PROVE  x = y
<1> SUFFICES ASSUME x # y PROVE FALSE
  OBVIOUS
<1>1. IsFiniteSet({x}) /\ Cardinality({x}) = 1
  BY FS_Singleton
<1>2. Cardinality({x} \cup {y}) = 2
  <2>1. Cardinality({x} \cup {y}) = IF y \in {x} THEN Cardinality({x}) ELSE Cardinality({x}) + 1
    BY <1>1, FS_AddElement
  <2>2. QED
    BY <1>1, <2>1
<1>3. Cardinality({x} \cup {y}) <= Cardinality(S) /\ Cardinality(S) \in Nat
  BY FS_Subset, FS_CardinalityType
<1>4. QED
  BY <1>2, <1>3

(* A plan that moves at most one folder loses nothing: what was below the   *)
(* root still is, and so is every folder created.  No destination hangs     *)
(* below the one folder that is moved, and for two that would not do: each   *)
(* could be moved below the other (AcceptedPlansMakeNoCycle).                *)
THEOREM OneFolderMoveHolds == Spec => []OneFolderMoveKeepsTheTree
<1>1. ASSUME PlanInv PROVE OneFolderMoveKeepsTheTree
  <2> SUFFICES ASSUME Started, UndisturbedRun, Cardinality(MovedFiles \cap Folders) <= 1,
                      NEW f \in Files, f \notin DOMAIN atRun \/ Inside(f, atRun)
               PROVE  Inside(f, tree)
    BY DEF OneFolderMoveKeepsTheTree
  <2> DEFINE Done(i) == i \in DOMAIN ops /\ i <= cursor
  <2>1. /\ Effects(ops, cursor, atRun, tree, bound, visible, nextId, renamed)
        /\ ops \in Seq(Operation) /\ cursor \in Nat /\ InOrder(ops) /\ nextId \in Nat
    BY <1>1 DEF PlanInv, PhaseIsSound, DriveIsSound, RunIsPlanned, RunIsExecuted
  <2>2. /\ IsKnown(tree) /\ IsKnown(atRun) /\ ParentsAreFolders(atRun)
        /\ \A n \in Nat : n \notin DOMAIN atRun
        /\ ~ Beneath(Root, Root, atRun)
    BY <1>1 DEF PlanInv, DriveIsSound, IsDrive, RunIsPlanned
  <2>3. PICK known, refs :
          /\ PartOf(known, atRun)
          /\ DOMAIN refs = Refs
          /\ InPlace(ops, known)
          /\ RefsLead(refs, known)
          /\ NoCycles(ops, refs, known)
          /\ \A i \in DOMAIN ops : Creates(ops[i]) => refs[ops[i].ref] = ops[i].parent_id
    BY <1>1 DEF PlanInv, RunIsPlanned, Planned
  <2>4. /\ IsKnown(known) /\ None \notin DOMAIN known /\ None \notin DOMAIN atRun
        /\ Root # None /\ DOMAIN known \subseteq DOMAIN atRun
        /\ DOMAIN atRun \subseteq DOMAIN tree
    BY <2>1, <2>2, <2>3, PartIsKnown, RulesAssumption DEF IsKnown, PartOf, Effects
  (* Whatever is above a file now but was not, a move has put it there. *)
  <2>5. ASSUME NEW g \in DOMAIN atRun, Above(g, tree) # Above(g, atRun)
        PROVE  \E i : Done(i) /\ Moves(ops[i]) /\ ops[i].file_id = g
    <3>1. tree[g] # atRun[g]
      BY <2>4, <2>5 DEF Above
    <3>2. QED
      BY <2>1, <3>1 DEF Effects
  <2>6. ASSUME NEW i, Done(i), Moves(ops[i])
        PROVE  /\ ops[i].file_id \in DOMAIN atRun /\ ops[i].file_id # None
               /\ Beneath(ops[i].file_id, Root, atRun)
               /\ Above(ops[i].file_id, tree) = TargetIn(bound, ops[i].new_parent_id)
    <3>1. ops[i].file_id \in DOMAIN atRun /\ Beneath(ops[i].file_id, Root, atRun)
      BY <1>1, <2>6, OperationsAreInside DEF Moves, Touches
    <3>2. tree[ops[i].file_id] = TargetIn(bound, ops[i].new_parent_id)
      BY <2>1, <2>6 DEF Effects
    <3>3. QED
      BY <2>4, <3>1, <3>2 DEF Above
  (* Only one of the files moved can be above another. *)
  <2>7. ASSUME NEW i, Done(i), Moves(ops[i]), IsFolder(ops[i].file_id),
               NEW j, Done(j), Moves(ops[j]), IsFolder(ops[j].file_id)
        PROVE  ops[i].file_id = ops[j].file_id
    <3>1. \A op \in OpsOf("move") : op.file_id \in DOMAIN atRun
      BY <1>1, OperationsAreInside DEF OpsOf, Touches
    <3>2. IsFiniteSet(MovedFiles \cap Folders)
      <4>1. MovedFiles \cap Folders \subseteq DOMAIN atRun
        BY <3>1 DEF MovedFiles
      <4>2. QED
        BY <2>2, <4>1, FS_Subset DEF IsKnown
    <3>3. ops[i].file_id \in MovedFiles \cap Folders /\ ops[j].file_id \in MovedFiles \cap Folders
      BY <2>7 DEF MovedFiles, OpsOf, Moves, IsFolder
    <3>4. QED
      BY <3>2, <3>3, AtMostOne
  (* A folder that was below the root still is, or one that moved is it or above it. *)
  <2>8. ASSUME NEW a \in DOMAIN atRun, InWorkspace(a, atRun)
        PROVE  \/ InWorkspace(a, tree)
               \/ \E i : /\ Done(i) /\ Moves(ops[i])
                         /\ \/ a = ops[i].file_id
                            \/ /\ Beneath(a, ops[i].file_id, atRun)
                               /\ Beneath(a, ops[i].file_id, tree)
                               /\ IsFolder(ops[i].file_id)
    <3>1. CASE a = Root
      BY <3>1 DEF InWorkspace
    <3>2. CASE Beneath(a, Root, atRun)
      <4>1. PICK M : M = {g \in DOMAIN atRun \cup {None} \cup DOMAIN tree : Above(g, tree) # Above(g, atRun)}
        OBVIOUS
      <4>2. ASSUME NEW g, g \notin M PROVE Above(g, tree) = Above(g, atRun)
        <5>1. CASE g \in DOMAIN tree
          BY <4>1, <4>2, <5>1
        <5>2. CASE g \notin DOMAIN tree
          BY <2>4, <5>2 DEF Above
        <5>3. QED
          BY <5>1, <5>2
      <4>3. \/ Beneath(a, Root, tree)
            \/ a \in M
            \/ \E g \in M : Beneath(a, g, atRun) /\ Beneath(a, g, tree) /\ Beneath(g, Root, atRun)
        BY <3>2, <4>2, ChainUpToChange
      <4>4. CASE a \in M
        BY <2>5, <4>1, <4>4
      <4>5. ASSUME NEW g \in M, Beneath(a, g, atRun), Beneath(a, g, tree), Beneath(g, Root, atRun)
            PROVE  \E i : /\ Done(i) /\ Moves(ops[i])
                          /\ g = ops[i].file_id /\ IsFolder(ops[i].file_id)
        <5>1. g \in DOMAIN atRun
          BY <2>4, <4>5, BeneathIsInside
        <5>2. PICK i : Done(i) /\ Moves(ops[i]) /\ ops[i].file_id = g
          BY <2>5, <4>1, <5>1
        <5>3. PICK n \in Nat : n # 0 /\ Up(a, n, atRun) = g
          BY <4>5 DEF Beneath
        <5>4. n - 1 \in Nat /\ n = (n - 1) + 1 /\ n - 1 < n
          BY <5>3
        <5>5. g # None
          BY <2>4, <5>1
        <5>6. PICK h : h = Up(a, n - 1, atRun)
          OBVIOUS
        <5>7. h \in DOMAIN atRun /\ Above(h, atRun) = g
          <6>1. h \in DOMAIN atRun
            BY <2>4, <5>3, <5>4, <5>5, <5>6, ChainStaysInside
          <6>2. Up(a, n, atRun) = Above(h, atRun)
            BY <5>4, <5>6, UpNext
          <6>3. QED
            BY <5>3, <6>1, <6>2
        <5>8. g \in Folders
          BY <2>2, <5>1, <5>5, <5>7 DEF ParentsAreFolders, Above
        <5>9. QED
          BY <5>2, <5>8 DEF IsFolder
      <4>6. QED
        BY <4>3, <4>4, <4>5 DEF InWorkspace
    <3>3. QED
      BY <2>8, <3>1, <3>2 DEF InWorkspace
  <2> HIDE DEF Done
  (* The destination of the folder that moves is not below it. *)
  <2>9. ASSUME NEW i, Done(i), Moves(ops[i]), IsFolder(ops[i].file_id)
        PROVE  Beneath(ops[i].file_id, Root, tree)
    <3>1. i \in DOMAIN ops /\ i <= cursor /\ ops[i].op # "rename" /\ DestinationOf(ops[i]) = ops[i].new_parent_id
      BY <2>9 DEF Done, Moves, Creates, DestinationOf
    <3>2. PICK a : /\ Anchors(ops[i].new_parent_id, a, refs, known)
                   /\ a # ops[i].file_id /\ ~ Beneath(a, ops[i].file_id, known)
      BY <2>3, <2>9, <3>1 DEF NoCycles
    <3>3. a \in DOMAIN known /\ IsFolder(a) /\ InWorkspace(a, known)
      BY <3>2 DEF Anchors, RealDestination
    <3>4. InWorkspace(a, atRun)
      BY <2>3, <2>4, <3>3, PartKeepsBeneath DEF InWorkspace
    <3>5. ~ Beneath(a, ops[i].file_id, atRun)
      BY <2>2, <2>3, <2>6, <2>9, <3>2, <3>3, AboveIsFetched
    <3>6. ASSUME NEW j, Done(j), Moves(ops[j]), IsFolder(ops[j].file_id)
          PROVE  a # ops[j].file_id /\ ~ Beneath(a, ops[j].file_id, atRun)
      BY <2>7, <2>9, <3>2, <3>5, <3>6
    <3>7. InWorkspace(a, tree)
      BY <2>4, <2>8, <3>3, <3>4, <3>6
    <3>8. LET d == TargetIn(bound, ops[i].new_parent_id) IN d = a \/ Beneath(d, a, tree)
      BY <2>1, <2>3, <2>4, <3>1, <3>2, TargetHangs
    <3>9. QED
      BY <2>6, <2>9, <3>7, <3>8, BeneathStep, BeneathIsTransitive DEF InWorkspace
  (* So every real destination is below the root still, ... *)
  <2>10. ASSUME NEW a, RealDestination(a, known) PROVE InWorkspace(a, tree)
    <3>1. a \in DOMAIN atRun /\ IsFolder(a) /\ InWorkspace(a, atRun)
      BY <2>3, <2>4, <2>10, PartKeepsBeneath DEF RealDestination, InWorkspace
    <3>2. CASE InWorkspace(a, tree)
      BY <3>2
    <3>3. ASSUME NEW i, Done(i), Moves(ops[i]),
                 a = ops[i].file_id \/ (Beneath(a, ops[i].file_id, tree) /\ IsFolder(ops[i].file_id))
          PROVE  InWorkspace(a, tree)
      <4>1. Beneath(ops[i].file_id, Root, tree)
        BY <2>9, <3>1, <3>3
      <4>2. QED
        BY <3>3, <4>1, BeneathIsTransitive DEF InWorkspace
    <3>4. QED
      BY <2>8, <3>1, <3>2, <3>3
  (* ... and so is what was put or created somewhere. *)
  <2>11. ASSUME NEW i, Done(i), ops[i].op # "rename"
         PROVE  InWorkspace(TargetIn(bound, DestinationOf(ops[i])), tree)
    <3>1. i \in DOMAIN ops /\ i <= cursor
      BY <2>11 DEF Done
    <3>2. \E a : Anchors(DestinationOf(ops[i]), a, refs, known)
      <4>1. CASE DestinationOf(ops[i]) \in Refs
        <5>1. PICK j \in DOMAIN ops : Creates(ops[j]) /\ ops[j].ref = DestinationOf(ops[i])
          BY <2>1, <2>11, <3>1, <4>1 DEF InOrder
        <5>2. /\ refs[DestinationOf(ops[i])] = DestinationOf(ops[j]) /\ ops[j].op # "rename"
          BY <2>3, <5>1 DEF Creates, DestinationOf
        <5>3. DestinationOf(ops[j]) # None
          <6>1. CASE DestinationOf(ops[j]) \in Refs
            BY <6>1, RulesAssumption
          <6>2. CASE DestinationOf(ops[j]) \notin Refs
            BY <2>3, <2>4, <5>2, <6>2 DEF InPlace, RealDestination
          <6>3. QED
            BY <6>1, <6>2
        <5>4. QED
          BY <2>3, <4>1, <5>2, <5>3 DEF RefsLead
      <4>2. CASE DestinationOf(ops[i]) \notin Refs
        BY <2>3, <2>11, <3>1, <4>2 DEF InPlace, Anchors
      <4>3. QED
        BY <4>1, <4>2
    <3>3. PICK a : Anchors(DestinationOf(ops[i]), a, refs, known)
      BY <3>2
    <3>4. InWorkspace(a, tree)
      BY <2>10, <3>3 DEF Anchors
    <3>5. LET d == TargetIn(bound, DestinationOf(ops[i])) IN d = a \/ Beneath(d, a, tree)
      BY <2>1, <2>3, <2>4, <2>11, <3>1, <3>3, TargetHangs
    <3>6. QED
      BY <3>4, <3>5, BeneathIsTransitive DEF InWorkspace
  <2>12. ASSUME NEW i, Done(i), Moves(ops[i]) PROVE Beneath(ops[i].file_id, Root, tree)
    <3>1. ops[i].op # "rename" /\ DestinationOf(ops[i]) = ops[i].new_parent_id
      BY <2>12 DEF Moves, Creates, DestinationOf
    <3>2. InWorkspace(TargetIn(bound, ops[i].new_parent_id), tree)
      BY <2>11, <2>12, <3>1
    <3>3. QED
      BY <2>6, <2>12, <3>2, BeneathStep DEF InWorkspace
  <2>13. CASE f \notin DOMAIN atRun
    <3>1. f \in 1 .. nextId - 1 /\ f \in DOMAIN tree
      BY <2>1, <2>13 DEF Effects, Files
    <3>2. PICK i \in DOMAIN ops : i <= cursor /\ Creates(ops[i]) /\ bound[ops[i].ref] = f
      BY <2>1, <3>1 DEF Effects
    <3>3. Above(f, tree) = TargetIn(bound, DestinationOf(ops[i]))
      BY <2>1, <3>1, <3>2 DEF Effects, Above, DestinationOf
    <3>4. Done(i) /\ ops[i].op # "rename"
      BY <3>2 DEF Done, Creates
    <3>5. Beneath(f, Root, tree)
      BY <2>11, <3>3, <3>4, BeneathStep DEF InWorkspace
    <3>6. QED
      BY <2>2, <3>5, InsideIsBeneath
  <2>14. CASE f \in DOMAIN atRun
    <3>1. Beneath(f, Root, atRun)
      BY <2>2, <2>14, InsideIsBeneath
    <3>2. InWorkspace(f, tree) \/ Beneath(f, Root, tree)
      BY <2>8, <2>12, <2>14, <3>1, BeneathIsTransitive DEF InWorkspace
    <3>3. f # Root
      BY <2>2, <3>1
    <3>4. QED
      BY <2>2, <3>2, <3>3, InsideIsBeneath DEF InWorkspace
  <2>15. QED
    BY <2>13, <2>14
<1>2. QED
  BY <1>1, PlanInductive, PTL
=============================================================================
