------------------------------ MODULE DriveCalls ------------------------------
(***************************************************************************)
(* How _execute's operations reach Google Drive (drive/client.py over      *)
(* drive/retry.py).  ApplyGate and PlanRun take an operation for one step; *)
(* here it is one or two requests, each tried again after a transient      *)
(* failure.  A client that saw one does not know what became of the        *)
(* request: Drive may have carried it out, may do so later, or never.      *)
(* Meanwhile the owner, and other runs, use the same Drive.                *)
(*                                                                         *)
(* Drive is external: it is as the client's requests take it to be, a file *)
(* with a set of parents from which "update" removes some and adds one.    *)
(***************************************************************************)
EXTENDS Integers, Sequences, FiniteSets

CONSTANTS
  Runs,       \* runs of _execute
  Plan,       \* the operations of each run
  Start,      \* file -> the parents it has at first
  Hands,      \* the folders the owner moves files to
  Refs,       \* plan-local handles
  Attempts,   \* DEFAULT_ATTEMPTS
  MaxByHand,  \* bound: how often the owner moves a file
  None

(* The moves of the plans. *)
Moves == UNION {{<<r, i>> : i \in {j \in DOMAIN Plan[r] : Plan[r][j].op = "move"}} : r \in Runs}

(* Where a file may be: in a folder of Drive or in one that a run created, *)
(* and named by the run, the operation and the attempt.                     *)
Places ==
  (UNION {Start[f] : f \in DOMAIN Start}) \cup Hands \cup {None} \cup (Runs \X Nat \X Nat)
    \cup {Plan[x[1]][x[2]].new_parent_id : x \in Moves}

Requests ==
  [id : [run : Runs, i : Nat, n : Nat, call : {"get", "write"}],
   to : Places, remove : SUBSET Places]

(* The plans are as the validator leaves them (validate.py): a ref is       *)
(* declared once, and before it is used; and a file is renamed once at most *)
(* and moved once at most.                                                  *)
ASSUME CallsAssumption ==
  /\ Plan \in [Runs -> Seq(UNION {{Plan[r][i] : i \in DOMAIN Plan[r]} : r \in Runs})]
  /\ \A r \in Runs : \A i \in DOMAIN Plan[r] :
       \/ Plan[r][i].op = "create_folder" /\ Plan[r][i].ref \in Refs
       \/ Plan[r][i].op \in {"rename", "move"} /\ Plan[r][i].file_id \in DOMAIN Start
  /\ \A r \in Runs : \A i, j \in DOMAIN Plan[r] :
       i # j /\ Plan[r][i].op = Plan[r][j].op =>
         IF Plan[r][i].op = "create_folder" THEN Plan[r][i].ref # Plan[r][j].ref
         ELSE Plan[r][i].file_id # Plan[r][j].file_id
  /\ \A x \in Moves : Plan[x[1]][x[2]].new_parent_id \in Refs =>
       \E j \in 1..(x[2] - 1) : /\ Plan[x[1]][j].op = "create_folder"
                                 /\ Plan[x[1]][j].ref = Plan[x[1]][x[2]].new_parent_id
  /\ Attempts \in Nat \ {0}
  /\ MaxByHand \in Nat
  /\ Start \in [DOMAIN Start -> SUBSET UNION {Start[f] : f \in DOMAIN Start}]
  /\ None \notin Requests \cup (Runs \X Nat)

VARIABLES
  parents,   \* Drive: the parents of each file
  namedBy,   \* Drive: <<run, i>>, the operation that named a file last, or None
  folders,   \* Drive: the folders created, each <<run, i, attempt>>
  flight,    \* requests that may still be carried out
  pc,        \* each run: the call it is in, or how it ended
  cursor,    \* each run: how many operations are executed
  attempt,   \* each run: attempts made at the call
  awaited,   \* each run: the request whose answer it waits for
  seen,      \* each run: current.parents, as its get_file returned them
  bound,     \* each run: ref_to_id
  faults,    \* history: the operations that met a transient failure in the call that writes
  byHand,    \* history: the files the owner has moved, in order
  kept       \* history: where the owner put a file no move of which had begun

driveVars == <<parents, namedBy, folders>>
runVars   == <<pc, cursor, attempt, awaited, seen, bound>>
vars      == <<driveVars, flight, runVars, faults, byHand, kept>>

Ended == {"done", "failed", "raised"}

Op(r) == Plan[r][cursor[r] + 1]

(* The call an operation starts with; move() looks before it writes. *)
FirstCall(r, i) ==
  IF i > Len(Plan[r]) THEN "done" ELSE IF Plan[r][i].op = "move" THEN "get" ELSE "write"

Init ==
  /\ parents = Start
  /\ namedBy = [f \in DOMAIN Start |-> None]
  /\ folders = {}
  /\ flight = {}
  /\ pc = [r \in Runs |-> FirstCall(r, 1)]
  /\ cursor = [r \in Runs |-> 0]
  /\ attempt = [r \in Runs |-> 0]
  /\ awaited = [r \in Runs |-> None]
  /\ seen = [r \in Runs |-> {}]
  /\ bound = [r \in Runs |-> [h \in Refs |-> None]]
  /\ faults = {}
  /\ byHand = <<>>
  /\ kept = [f \in DOMAIN Start |-> None]

(* ref_to_id.get(target, target) *)
Target(r, d) == IF d \in Refs THEN bound[r][d] ELSE d

(* Mutant: only the parent the plan expects is removed. *)
Removed_Expected(r) == {Op(r).expected} \ {None}

(* removeParents: all the parents the file was seen to have. *)
Removed(r) == seen[r]

(* What the current call sends. *)
Request(r) ==
  LET op == Op(r)
      id == [run |-> r, i |-> cursor[r] + 1, n |-> attempt[r] + 1, call |-> pc[r]]
  IN IF op.op = "move" /\ pc[r] = "write"
     THEN [id |-> id, to |-> Target(r, op.new_parent_id), remove |-> Removed(r)]
     ELSE [id |-> id, to |-> None, remove |-> {}]

(* Mutant: nothing limits the attempts. *)
Send_Forever(r) ==
  /\ pc[r] \in {"get", "write"}
  /\ awaited[r] = None
  /\ awaited' = [awaited EXCEPT ![r] = Request(r)]
  /\ attempt' = [attempt EXCEPT ![r] = 1 - @]
  /\ flight' = IF pc[r] = "write" THEN flight \cup {Request(r)} ELSE flight
  /\ UNCHANGED <<driveVars, pc, cursor, seen, bound, faults, byHand, kept>>

(* call_with_retry makes an attempt. *)
Send(r) ==
  /\ pc[r] \in {"get", "write"}
  /\ awaited[r] = None
  /\ attempt[r] < Attempts
  /\ awaited' = [awaited EXCEPT ![r] = Request(r)]
  /\ attempt' = [attempt EXCEPT ![r] = @ + 1]
  /\ flight' = IF pc[r] = "write" THEN flight \cup {Request(r)} ELSE flight
  /\ UNCHANGED <<driveVars, pc, cursor, seen, bound, faults, byHand, kept>>

(* Drive carries a request out. *)
CarriedOut(m) ==
  LET op == Plan[m.id.run][m.id.i] IN
  \/ /\ op.op = "create_folder"
     /\ folders' = folders \cup {<<m.id.run, m.id.i, m.id.n>>}
     /\ UNCHANGED <<parents, namedBy>>
  \/ /\ op.op = "rename"
     /\ namedBy' = [namedBy EXCEPT ![op.file_id] = <<m.id.run, m.id.i>>]
     /\ UNCHANGED <<parents, folders>>
  \/ /\ op.op = "move"
     /\ parents' = [parents EXCEPT ![op.file_id] = (@ \ m.remove) \cup {m.to}]
     /\ UNCHANGED <<namedBy, folders>>

(* The run goes on to another call, or stops. *)
Enter(r, l) ==
  /\ pc' = [pc EXCEPT ![r] = l]
  /\ attempt' = [attempt EXCEPT ![r] = 0]
  /\ awaited' = [awaited EXCEPT ![r] = None]

(* Mutant: the file is written to before its parents are compared. *)
Looked_Later(r) ==
  LET op == Op(r) IN
  /\ pc[r] = "get" /\ awaited[r] # None
  /\ seen' = [seen EXCEPT ![r] = parents[op.file_id]]
  /\ parents' = [parents EXCEPT ![op.file_id] = {Target(r, op.new_parent_id)}]
  /\ Enter(r, IF op.expected = None \/ op.expected \in parents[op.file_id]
              THEN "write" ELSE "failed")
  /\ UNCHANGED <<namedBy, folders, flight, cursor, bound, faults, byHand, kept>>

(* Mutant: the parents are not compared with the one the plan expects.      *)
Looked_Unasked(r) ==
  LET op == Op(r) IN
  /\ pc[r] = "get" /\ awaited[r] # None
  /\ seen' = [seen EXCEPT ![r] = parents[op.file_id]]
  /\ Enter(r, "write")
  /\ UNCHANGED <<driveVars, flight, cursor, bound, faults, byHand, kept>>

(* move(): get_file answers; a file that is not where the plan expects it   *)
(* is a conflict (409), and the run halts.                                  *)
Looked(r) ==
  LET op == Op(r) IN
  /\ pc[r] = "get" /\ awaited[r] # None
  /\ seen' = [seen EXCEPT ![r] = parents[op.file_id]]
  /\ Enter(r, IF op.expected = None \/ op.expected \in parents[op.file_id]
              THEN "write" ELSE "failed")
  /\ UNCHANGED <<driveVars, flight, cursor, bound, faults, byHand, kept>>

(* Mutant: the ref is bound to the folder's parent. *)
Written_BindsTheParent(r) ==
  LET op == Op(r)  m == awaited[r] IN
  /\ pc[r] = "write" /\ m # None /\ m \in flight
  /\ CarriedOut(m)
  /\ flight' = flight \ {m}
  /\ cursor' = [cursor EXCEPT ![r] = @ + 1]
  /\ bound' = IF op.op = "create_folder"
              THEN [bound EXCEPT ![r][op.ref] = Target(r, op.parent_id)] ELSE bound
  /\ Enter(r, FirstCall(r, cursor[r] + 2))
  /\ UNCHANGED <<seen, faults, byHand, kept>>

(* The write was carried out and its answer arrived. *)
Written(r) ==
  LET op == Op(r)  m == awaited[r] IN
  /\ pc[r] = "write" /\ m # None /\ m \in flight
  /\ CarriedOut(m)
  /\ flight' = flight \ {m}
  /\ cursor' = [cursor EXCEPT ![r] = @ + 1]
  /\ bound' = IF op.op = "create_folder"
              THEN [bound EXCEPT ![r][op.ref] = <<m.id.run, m.id.i, m.id.n>>] ELSE bound
  /\ Enter(r, FirstCall(r, cursor[r] + 2))
  /\ UNCHANGED <<seen, faults, byHand, kept>>

(* Drive refuses for good, 404 or 403: it did nothing, nothing is retried. *)
Refused(r) ==
  /\ pc[r] \in {"get", "write"} /\ awaited[r] # None
  /\ flight' = flight \ {awaited[r]}
  /\ Enter(r, "failed")
  /\ UNCHANGED <<driveVars, cursor, seen, bound, faults, byHand, kept>>

(* A transient failure: a status of RETRYABLE_STATUS, which ends as a       *)
(* DriveApiError when the attempts are used up, or a lost connection, which *)
(* ends as the exception it is.  The request may yet be carried out.        *)
Transient(r, how) ==
  /\ pc[r] \in {"get", "write"} /\ awaited[r] # None
  /\ IF attempt[r] < Attempts
     THEN awaited' = [awaited EXCEPT ![r] = None] /\ UNCHANGED <<pc, attempt>>
     ELSE Enter(r, how)
  /\ faults' = IF pc[r] = "write" THEN faults \cup {<<r, cursor[r] + 1>>} ELSE faults
  /\ UNCHANGED <<driveVars, flight, cursor, seen, bound, byHand, kept>>

(* Drive carries out a request nobody waits for any more. *)
Late(m) ==
  /\ m \in flight /\ awaited[m.id.run] # m
  /\ CarriedOut(m)
  /\ flight' = flight \ {m}
  /\ UNCHANGED <<runVars, faults, byHand, kept>>

(* The moves of the plans that concern file f. *)
MovesOf(f) == {x \in Moves : Plan[x[1]][x[2]].file_id = f}

(* A move has begun when its get_file is behind it. *)
Begun(x) ==
  \/ x[2] <= cursor[x[1]]
  \/ x[2] = cursor[x[1]] + 1 /\ pc[x[1]] = "write"
  \/ x \in faults

(* The owner moves a file. *)
ByHand(f, d) ==
  /\ Len(byHand) < MaxByHand
  /\ parents[f] # {d}
  /\ parents' = [parents EXCEPT ![f] = {d}]
  /\ byHand' = Append(byHand, f)
  /\ kept' = [kept EXCEPT ![f] = IF \E x \in MovesOf(f) : Begun(x) THEN None ELSE d]
  /\ UNCHANGED <<namedBy, folders, flight, runVars, faults>>

Answer(r) ==
  Looked(r) \/ Written(r) \/ Refused(r) \/ \E how \in {"failed", "raised"} : Transient(r, how)

Next ==
  \/ \E r \in Runs : Send(r) \/ Answer(r)
  \/ \E m \in flight : Late(m)
  \/ \E f \in DOMAIN Start, d \in Hands : ByHand(f, d)

Spec == Init /\ [][Next]_vars

(* The client always goes on, and every request it waits for ends: with an  *)
(* answer or, at the latest, with the timeout of the connection.            *)
FairSpec == Spec /\ \A r \in Runs : WF_vars(Send(r)) /\ WF_vars(Answer(r))

-----------------------------------------------------------------------------
Touches(r, f) ==
  \E i \in DOMAIN Plan[r] : Plan[r][i].op # "create_folder" /\ Plan[r][i].file_id = f

(* Nobody but run r has anything to do with file f. *)
Alone(r, f) ==
  /\ \A k \in DOMAIN byHand : byHand[k] # f
  /\ \A other \in Runs \ {r} : ~Touches(other, f)

(* An operation reported as executed is executed and stays so, whatever the *)
(* retries before it left in flight: a moved file has its new parent and no *)
(* other, in the folder that was bound to the ref and in no stray twin      *)
(* (client.py:215, apply.py:80).                                            *)
ExecutedStaysExecuted ==
  \A r \in Runs : \A i \in 1..cursor[r] :
    LET op == Plan[r][i] IN
    /\ op.op = "create_folder" => bound[r][op.ref] \in folders
    /\ op.op = "rename" /\ Alone(r, op.file_id) => namedBy[op.file_id] = <<r, i>>
    /\ op.op = "move" /\ Alone(r, op.file_id) =>
         parents[op.file_id] = {Target(r, op.new_parent_id)}

(* An operation that failed without a transient failure did nothing and     *)
(* never will: a conflict or a refusal leaves no request behind             *)
(* (client.py:208).                                                         *)
CleanFailureDoesNothing ==
  \A r \in Runs :
    pc[r] = "failed" /\ <<r, cursor[r] + 1>> \notin faults =>
      /\ \A m \in flight : m.id.run # r \/ m.id.i # cursor[r] + 1
      /\ \A x \in folders : x[1] # r \/ x[2] # cursor[r] + 1
      /\ Op(r).op = "rename" => namedBy[Op(r).file_id] # <<r, cursor[r] + 1>>
      /\ Op(r).op = "move" /\ Alone(r, Op(r).file_id) =>
           parents[Op(r).file_id] = Start[Op(r).file_id]

(* The owner has put f where no plan expects it, before any move began. *)
Unexpected(f) ==
  /\ kept[f] # None
  /\ \A x \in MovesOf(f) : Plan[x[1]][x[2]].expected \notin {None, kept[f]}

(* A file that the owner puts where no plan expects it stays there: the     *)
(* moves that have not looked at it yet find a conflict (client.py:207).    *)
(* Between the look and the write the owner's move goes unnoticed.          *)
ConflictsAreSeen == \A f \in DOMAIN Start : Unexpected(f) => parents[f] = {kept[f]}

(* A folder no ref is bound to, the twin a retry leaves behind, is there    *)
(* only where a transient failure was met (retry.py:42).                    *)
StrayFoldersComeFromRetries ==
  \A x \in folders :
    LET r == x[1]  i == x[2] IN
    bound[r][Plan[r][i].ref] # x => <<r, i>> \in faults

(* Every run comes to an end: the attempts are bounded and every one of     *)
(* them is answered or times out (retry.py:70).                             *)
EveryRunEnds == \A r \in Runs : <>(pc[r] \in Ended)
=============================================================================
