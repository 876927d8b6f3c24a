------------------------------ MODULE PlanRules ------------------------------
(***************************************************************************)
(* The deterministic validator (rules/validate.py): which operations of a  *)
(* plan are accepted, given what the server fetched (known), the grant     *)
(* ledger (granted) and the plan-local refs declared so far.               *)
(*                                                                         *)
(* A plan is a sequence of records with the fields of models.py; a name is *)
(* abstracted to check_name's verdict on it, "safe".  A snapshot "known"   *)
(* maps each fetched file to its first parent, None for a file that has    *)
(* none: nothing in the code looks further than parents[0].                *)
(* The limit on the length of a plan is in PlanRun's Build.                 *)
(***************************************************************************)
EXTENDS Integers, Sequences, FiniteSets

CONSTANTS
  Root,     \* root_folder_id
  Folders,  \* the files that are folders
  Refs,     \* plan-local handles: the ids that start with "#"
  MaxOps,   \* max_files_per_proposal
  None      \* no parent, no ref

ASSUME RulesAssumption ==
  /\ Root \in Folders
  /\ Folders \cap Refs = {}
  /\ None \notin Folders \cup Refs
  /\ IsFiniteSet(Refs)   \* a handle has at most 40 characters
  /\ MaxOps \in Nat

IsFolder(f) == f \in Folders

(* The parent of f; None above a parentless or unknown file. *)
Above(f, parentOf) == IF f \in DOMAIN parentOf THEN parentOf[f] ELSE None

(* The file n parents above f. *)
Up(f, n, parentOf) ==
  LET up[i \in 0..n] == IF i = 0 THEN f ELSE Above(up[i - 1], parentOf)
  IN up[n]

(* Workspace.snapshot: what was found, the root, and every visible ancestor *)
(* up to the root or to the first one that cannot be fetched.               *)
SnapshotOf(found, parentOf, visible) ==
  LET climb(f) == {Up(f, n, parentOf) : n \in
                     {m \in 1..Cardinality(DOMAIN parentOf) :
                        /\ \A k \in 1..m : Up(f, k, parentOf) \in visible
                        /\ \A k \in 1..(m - 1) : Up(f, k, parentOf) # Root}}
      ids == found \cup ({Root} \cap visible) \cup UNION {climb(f) : f \in found}
  IN [f \in ids |-> parentOf[f]]

(* _ancestor_chain: the parents met on the way up.  The first one that was  *)
(* not fetched still counts as an ancestor; a file is never its own.        *)
Ancestors(f, known) ==
  {Up(f, n, known) : n \in 1..Cardinality(DOMAIN known)} \ {f, None}

(* _Chain.complete: the walk ended at a parentless file that was fetched. *)
ChainComplete(f, known) ==
  \E n \in 0..Cardinality(DOMAIN known) :
    Up(f, n, known) \in DOMAIN known /\ known[Up(f, n, known)] = None

(* Mutant: containment is assumed unless it is disproved. *)
CheckContainment_NotDisproved(f, known) ==
  IF f = Root \/ Root \in Ancestors(f, known) \/ ~ChainComplete(f, known) THEN "ok"
  ELSE "outside_workspace"

(* _check_containment: proved, or refused. *)
CheckContainment(f, known) ==
  IF f = Root \/ Root \in Ancestors(f, known) THEN "ok"
  ELSE IF ~ChainComplete(f, known) THEN "unverifiable_parent"
  ELSE "outside_workspace"

(* _check_source: a file the plan wants to rename or move. *)
CheckSource(f, known, granted) ==
  IF f = Root THEN "root_immutable"
  ELSE IF f \notin DOMAIN known THEN "unknown_file"
  ELSE IF f \notin granted THEN "not_granted"
  ELSE CheckContainment(f, known)

(* Mutant: a ref is taken on trust. *)
CheckDestination_AnyRef(d, known, granted, refs) ==
  IF d \in Refs THEN "ok"
  ELSE IF d \notin DOMAIN known THEN "unknown_file"
  ELSE IF d \notin granted THEN "not_granted"
  ELSE IF ~IsFolder(d) THEN "not_a_folder"
  ELSE CheckContainment(d, known)

(* _check_destination: refs maps a ref to the parent it was declared with,  *)
(* None while no accepted operation has declared it.                        *)
CheckDestination(d, known, granted, refs) ==
  IF d \in Refs THEN IF refs[d] = None THEN "unknown_ref" ELSE "ok"
  ELSE IF d \notin DOMAIN known THEN "unknown_file"
  ELSE IF d \notin granted THEN "not_granted"
  ELSE IF ~IsFolder(d) THEN "not_a_folder"
  ELSE CheckContainment(d, known)

(* _resolve_real_anchor: the real folder a chain of refs hangs from.  A ref *)
(* that is not declared leads nowhere, and so does a chain that never ends.  *)
RealAnchor(d, refs) ==
  LET real == {Up(d, n, refs) : n \in 0..Cardinality(Refs)} \ (Refs \cup {None})
  IN IF real = {} THEN None ELSE CHOOSE e \in real : TRUE

(* Mutant: refs are not followed to the folder they hang from. *)
CheckNoCycle_NotThroughRefs(f, d, known, refs) ==
  IF IsFolder(f) /\ d \notin Refs /\ (d = f \/ f \in Ancestors(d, known)) THEN "cycle" ELSE "ok"

(* _check_no_cycle: not into itself nor below itself, as the snapshot has it. *)
CheckNoCycle(f, d, known, refs) ==
  LET anchor == RealAnchor(d, refs) IN
  IF IsFolder(f) /\ anchor # None /\ (anchor = f \/ f \in Ancestors(anchor, known))
  THEN "cycle" ELSE "ok"

FirstProblem(problems) ==
  IF \E i \in DOMAIN problems : problems[i] # "ok"
  THEN problems[CHOOSE i \in DOMAIN problems :
                  problems[i] # "ok" /\ \A j \in 1..(i - 1) : problems[j] = "ok"]
  ELSE "ok"

(* Mutant: a file may be moved again by a later operation. *)
CheckOp_Again(op, ctx, soFar) ==
  CASE op.op = "create_folder" ->
         IF soFar.refs[op.ref] # None THEN "duplicate_ref"
         ELSE IF ~op.safe THEN "invalid_name"
         ELSE CheckDestination(op.parent_id, ctx.known, ctx.granted, soFar.refs)
    [] op.op = "rename" ->
         IF ~op.safe THEN "invalid_name" ELSE CheckSource(op.file_id, ctx.known, ctx.granted)
    [] op.op = "move" ->
         FirstProblem(<<CheckSource(op.file_id, ctx.known, ctx.granted),
                        CheckDestination(op.new_parent_id, ctx.known, ctx.granted, soFar.refs),
                        CheckNoCycle(op.file_id, op.new_parent_id, ctx.known, soFar.refs)>>)

(* _check_op: the reason an operation is rejected for, or "ok". *)
CheckOp(op, ctx, soFar) ==
  CASE op.op = "create_folder" ->
         IF soFar.refs[op.ref] # None THEN "duplicate_ref"
         ELSE IF ~op.safe THEN "invalid_name"
         ELSE CheckDestination(op.parent_id, ctx.known, ctx.granted, soFar.refs)
    [] op.op = "rename" ->
         IF <<"rename", op.file_id>> \in soFar.touched THEN "duplicate_target"
         ELSE IF ~op.safe THEN "invalid_name"
         ELSE CheckSource(op.file_id, ctx.known, ctx.granted)
    [] op.op = "move" ->
         IF <<"move", op.file_id>> \in soFar.touched THEN "duplicate_target"
         ELSE FirstProblem(
                <<CheckSource(op.file_id, ctx.known, ctx.granted),
                  CheckDestination(op.new_parent_id, ctx.known, ctx.granted, soFar.refs),
                  CheckNoCycle(op.file_id, op.new_parent_id, ctx.known, soFar.refs)>>)

(* An accepted operation, and what it means for the ones after it. *)
Accept(soFar, op) ==
  [accepted |-> Append(soFar.accepted, op),
   refs     |-> IF op.op = "create_folder" THEN [soFar.refs EXCEPT ![op.ref] = op.parent_id]
                ELSE soFar.refs,
   touched  |-> IF op.op = "create_folder" THEN soFar.touched
                ELSE soFar.touched \cup {<<op.op, op.file_id>>}]

Nothing == [accepted |-> <<>>, refs |-> [r \in Refs |-> None], touched |-> {}]

(* Mutant: a rejected create_folder declares its ref all the same. *)
UpTo_RefsOfRejected(ops, n, ctx) ==
  LET upTo[i \in 0..n] ==
        IF i = 0 THEN Nothing
        ELSE IF CheckOp(ops[i], ctx, upTo[i - 1]) = "ok" THEN Accept(upTo[i - 1], ops[i])
        ELSE [Accept(upTo[i - 1], ops[i]) EXCEPT !.accepted = upTo[i - 1].accepted]
  IN upTo[n]

(* The loop of validate_plan after n operations: what it has accepted, the  *)
(* refs declared and the files touched.                                     *)
UpTo(ops, n, ctx) ==
  LET upTo[i \in 0..n] ==
        IF i = 0 THEN Nothing
        ELSE IF CheckOp(ops[i], ctx, upTo[i - 1]) = "ok" THEN Accept(upTo[i - 1], ops[i])
        ELSE upTo[i - 1]
  IN upTo[n]

(* validate_plan: rejected operations are dropped, the others keep their order. *)
Accepted(ops, ctx) == UpTo(ops, Len(ops), ctx).accepted
=============================================================================
