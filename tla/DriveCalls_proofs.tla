-------------------------- MODULE DriveCalls_proofs --------------------------
(***************************************************************************)
(* Theorems about DriveCalls, for any runs, any plans the validator lets   *)
(* through, and any number of attempts: what was reported as executed      *)
(* stays executed, a clean failure did nothing, stray folders come from    *)
(* retries, and a file moved by hand before the look is a conflict.        *)
(*                                                                         *)
(* The inductive invariant follows every request: the client waits for it, *)
(* or its operation met a transient failure (FlightIsKnown); and whatever  *)
(* it finds when it is carried out, it leaves the file in its target alone *)
(* (MovesConverge), so that late copies repeat what was done.              *)
(***************************************************************************)
EXTENDS DriveCalls, TLAPS

Types ==
  /\ parents \in [DOMAIN Start -> SUBSET Places]
  /\ namedBy \in [DOMAIN Start -> {None} \cup (Runs \X Nat)]
  /\ folders \subseteq Runs \X Nat \X Nat
  /\ flight \subseteq Requests
  /\ pc \in [Runs -> {"get", "write"} \cup Ended]
  /\ cursor \in [Runs -> Nat] /\ attempt \in [Runs -> Nat]
  /\ awaited \in [Runs -> Requests \cup {None}]
  /\ seen \in [Runs -> SUBSET Places]
  /\ bound \in [Runs -> [Refs -> Places]]
  /\ byHand \in Seq(DOMAIN Start)

(* A run is at a call of its next operation, and waits for that call only. *)
AtCall(r) ==
  /\ cursor[r] <= Len(Plan[r])
  /\ pc[r] \in {"get", "write", "failed"} => cursor[r] + 1 \in DOMAIN Plan[r]
  /\ pc[r] = "get" => Op(r).op = "move"
  /\ awaited[r] # None =>
       /\ awaited[r].id.run = r /\ awaited[r].id.i = cursor[r] + 1
       /\ awaited[r].id.call = pc[r]

RunsAreAtCalls == \A r \in Runs : AtCall(r)

(* Only writing requests are on their way, those of operations the run has  *)
(* come to; the client waits for each, or has given one up there.           *)
Known(m) ==
  /\ m.id.i \in DOMAIN Plan[m.id.run] /\ m.id.i <= cursor[m.id.run] + 1
  /\ m.id.call = "write"
  /\ awaited[m.id.run] = m \/ <<m.id.run, m.id.i>> \in faults

FlightIsKnown == \A m \in flight : Known(m)

(* A folder on Drive is the one that is bound to its ref, or a twin. *)
FoldersAreBound ==
  \A x \in folders :
    /\ x[2] \in DOMAIN Plan[x[1]] /\ Plan[x[1]][x[2]].op = "create_folder"
    /\ \/ x[2] <= cursor[x[1]] /\ bound[x[1]][Plan[x[1]][x[2]].ref] = x
       \/ <<x[1], x[2]>> \in faults

(* A move that is carried out leaves the file in its target and nowhere     *)
(* else, if nobody else has to do with the file: the parents the file was   *)
(* seen to have are those it has, or it is there already.                   *)
MovesConverge ==
  /\ \A m \in flight :
       LET r == m.id.run  op == Plan[r][m.id.i] IN
       op.op = "move" =>
         /\ m.to = Target(r, op.new_parent_id)
         /\ Alone(r, op.file_id) => parents[op.file_id] \subseteq m.remove \cup {m.to}
  /\ \A r \in Runs :
       pc[r] = "write" /\ Op(r).op = "move" /\ Alone(r, Op(r).file_id) =>
         parents[Op(r).file_id] \subseteq seen[r] \cup {Target(r, Op(r).new_parent_id)}

(* An operation that is still to be reported has left no trace, unless it   *)
(* met a transient failure.                                                 *)
PendingIsUntouched ==
  \A r \in Runs : \A i \in DOMAIN Plan[r] :
    LET op == Plan[r][i] IN
    i > cursor[r] /\ <<r, i>> \notin faults =>
      /\ op.op = "rename" => namedBy[op.file_id] # <<r, i>>
      /\ op.op = "move" /\ Alone(r, op.file_id) => parents[op.file_id] = Start[op.file_id]

CallsInv ==
  /\ Types /\ RunsAreAtCalls /\ FlightIsKnown /\ FoldersAreBound
  /\ MovesConverge /\ PendingIsUntouched /\ ExecutedStaysExecuted

-----------------------------------------------------------------------------
(* What the assumption says of an operation, in a form to cite. *)
LEMMA PlanFacts ==
  /\ \A r \in Runs : Len(Plan[r]) \in Nat /\ DOMAIN Plan[r] = 1..Len(Plan[r])
  /\ \A r \in Runs : \A i \in DOMAIN Plan[r] :
       /\ Plan[r][i].op = "create_folder" => Plan[r][i].ref \in Refs
       /\ Plan[r][i].op \in {"rename", "move"} => Plan[r][i].file_id \in DOMAIN Start
       /\ Plan[r][i].op = "move" => Plan[r][i].new_parent_id \in Places
<1>1. \A r \in Runs : Len(Plan[r]) \in Nat /\ DOMAIN Plan[r] = 1..Len(Plan[r])
  BY CallsAssumption
<1>2. \A r \in Runs : \A i \in DOMAIN Plan[r] :
        Plan[r][i].op = "move" => Plan[r][i].new_parent_id \in Places
  <2> SUFFICES ASSUME NEW r \in Runs, NEW i \in DOMAIN Plan[r], Plan[r][i].op = "move"
               PROVE  Plan[r][i].new_parent_id \in Places
    OBVIOUS
  <2>1. <<r, i>> \in Moves
    BY DEF Moves
  <2>2. <<r, i>>[1] = r /\ <<r, i>>[2] = i
    OBVIOUS
  <2>3. QED
    BY <2>1, <2>2 DEF Places
<1>3. \A r \in Runs : \A i \in DOMAIN Plan[r] :
        /\ Plan[r][i].op = "create_folder" => Plan[r][i].ref \in Refs
        /\ Plan[r][i].op \in {"rename", "move"} => Plan[r][i].file_id \in DOMAIN Start
  BY CallsAssumption
<1>4. QED
  BY <1>1, <1>2, <1>3

(* A ref a move goes to is declared by an earlier operation. *)
LEMMA RefsAreDeclared ==
  ASSUME NEW r \in Runs, NEW i \in DOMAIN Plan[r], Plan[r][i].op = "move",
         Plan[r][i].new_parent_id \in Refs
  PROVE  \E j \in 1..(i - 1) : /\ Plan[r][j].op = "create_folder"
                              /\ Plan[r][j].ref = Plan[r][i].new_parent_id
<1>1. <<r, i>> \in Moves /\ <<r, i>>[1] = r /\ <<r, i>>[2] = i
  BY DEF Moves
<1>2. QED
  BY <1>1, CallsAssumption

(* No plan has two operations that do the same to the same thing. *)
LEMMA OperationsDiffer ==
  ASSUME NEW r \in Runs, NEW i \in DOMAIN Plan[r], NEW j \in DOMAIN Plan[r],
         Plan[r][i].op = Plan[r][j].op
  PROVE  /\ Plan[r][i].op = "create_folder" /\ Plan[r][i].ref = Plan[r][j].ref => i = j
         /\ Plan[r][i].op # "create_folder" /\ Plan[r][i].file_id = Plan[r][j].file_id => i = j
BY CallsAssumption

LEMMA TargetIsAPlace ==
  ASSUME Types, NEW r \in Runs, NEW i \in DOMAIN Plan[r], Plan[r][i].op = "move"
  PROVE  Target(r, Plan[r][i].new_parent_id) \in Places
BY PlanFacts DEF Types, Target

(* What a run at a call sends. *)
LEMMA RequestIsTyped ==
  ASSUME Types, NEW r \in Runs, AtCall(r), pc[r] \in {"get", "write"}
  PROVE  /\ Request(r) \in Requests /\ Request(r) # None
         /\ Request(r).id.run = r /\ Request(r).id.i = cursor[r] + 1
         /\ Request(r).id.call = pc[r]
         /\ Op(r).op = "move" /\ pc[r] = "write" =>
              /\ Request(r).to = Target(r, Op(r).new_parent_id)
              /\ Request(r).remove = seen[r]
<1>1. cursor[r] + 1 \in DOMAIN Plan[r]
  BY DEF AtCall
<1>2. Op(r).op = "move" => Target(r, Op(r).new_parent_id) \in Places
  BY <1>1, TargetIsAPlace DEF Op
<1>3. None \in Places
  BY DEF Places
<1>4. Request(r) \in Requests
  BY <1>2, <1>3 DEF Request, Requests, Types, Removed
<1>5. QED
  BY <1>4, CallsAssumption DEF Request, Removed

(* A request on its way is one of a run's, for an operation of its plan. *)
LEMMA FlightFacts ==
  ASSUME Types, FlightIsKnown, NEW m \in flight
  PROVE  /\ m \in Requests /\ m.id.run \in Runs /\ m.id.i \in DOMAIN Plan[m.id.run]
         /\ m.id.i \in Nat /\ m.id.n \in Nat /\ m.to \in Places /\ m.remove \subseteq Places
         /\ Known(m)
BY DEF Types, FlightIsKnown, Known, Requests

-----------------------------------------------------------------------------
(* The calls and the ends of a run. *)
LEMMA NextCall ==
  ASSUME NEW r \in Runs, NEW i \in Nat \ {0}
  PROVE  /\ FirstCall(r, i) \in {"get", "write"} \cup Ended
         /\ FirstCall(r, i) \in {"get", "write", "failed"} => i \in DOMAIN Plan[r]
         /\ FirstCall(r, i) = "get" => Plan[r][i].op = "move"
         /\ FirstCall(r, i) = "write" => Plan[r][i].op # "move"
BY PlanFacts DEF FirstCall, Ended

(* Drive does what a request asks for. *)
LEMMA DriveIsTyped ==
  ASSUME Types, FlightIsKnown, NEW m \in flight, CarriedOut(m)
  PROVE  /\ parents' \in [DOMAIN Start -> SUBSET Places]
         /\ namedBy' \in [DOMAIN Start -> {None} \cup (Runs \X Nat)]
         /\ folders' \subseteq Runs \X Nat \X Nat
<1> DEFINE op == Plan[m.id.run][m.id.i]
<1>1. m.id.run \in Runs /\ m.id.i \in Nat /\ m.id.n \in Nat /\ m.to \in Places
  BY FlightFacts
<1>2. CASE op.op = "create_folder"
  BY <1>1, <1>2 DEF Types, CarriedOut
<1>3. CASE op.op = "rename"
  <2>1. <<m.id.run, m.id.i>> \in {None} \cup (Runs \X Nat)
    BY <1>1
  <2>2. /\ namedBy' = [namedBy EXCEPT ![op.file_id] = <<m.id.run, m.id.i>>]
        /\ parents' = parents /\ folders' = folders
    BY <1>3 DEF CarriedOut
  <2>3. QED
    BY <2>1, <2>2 DEF Types
<1>4. CASE op.op = "move"
  <2>1. op.file_id \in DOMAIN Start
    BY <1>4, FlightFacts, PlanFacts
  <2>2. (parents[op.file_id] \ m.remove) \cup {m.to} \in SUBSET Places
    BY <1>1, <2>1 DEF Types
  <2>3. QED
    BY <1>4, <2>2 DEF Types, CarriedOut
<1>5. QED
  BY <1>2, <1>3, <1>4 DEF CarriedOut

LEMMA TypesStep ==
  ASSUME CallsInv, [Next]_vars
  PROVE  Types'
<1> USE DEF CallsInv
<1>1. ASSUME NEW r \in Runs, Send(r) PROVE Types'
  BY <1>1, RequestIsTyped DEF Types, Send, RunsAreAtCalls, driveVars
<1>2. ASSUME NEW r \in Runs, Looked(r) PROVE Types'
  <2>1. Op(r).file_id \in DOMAIN Start
    BY <1>2, PlanFacts DEF Looked, RunsAreAtCalls, AtCall, Op
  <2>2. parents[Op(r).file_id] \in SUBSET Places
    BY <2>1 DEF Types
  <2>3. QED
    BY <1>2, <2>2 DEF Types, Looked, Enter, driveVars, Ended
<1>3. ASSUME NEW r \in Runs, Written(r) PROVE Types'
  <2>1. awaited[r] \in flight /\ CarriedOut(awaited[r]) /\ awaited[r] # None
    BY <1>3 DEF Written
  <2>2. awaited[r].id.run = r /\ awaited[r].id.i = cursor[r] + 1
    BY <2>1 DEF RunsAreAtCalls, AtCall
  <2>3. <<awaited[r].id.run, awaited[r].id.i, awaited[r].id.n>> \in Places
    BY <2>1, FlightFacts DEF Places
  <2>4. bound' \in [Runs -> [Refs -> Places]]
    BY <1>3, <2>3 DEF Written, Types
  <2>5. cursor[r] + 2 \in Nat \ {0}
    BY DEF Types
  <2>6. /\ pc' \in [Runs -> {"get", "write"} \cup Ended]
        /\ cursor' \in [Runs -> Nat] /\ attempt' \in [Runs -> Nat]
        /\ awaited' \in [Runs -> Requests \cup {None}]
    BY <1>3, <2>5, NextCall DEF Written, Enter, Types
  <2>7. seen' = seen /\ byHand' = byHand /\ flight' \subseteq flight
    BY <1>3 DEF Written
  <2>8. QED
    BY <2>1, <2>4, <2>6, <2>7, DriveIsTyped DEF Types
<1>4. ASSUME NEW r \in Runs, Refused(r) PROVE Types'
  BY <1>4 DEF Types, Refused, Enter, driveVars, Ended
<1>5. ASSUME NEW r \in Runs, NEW how \in {"failed", "raised"}, Transient(r, how) PROVE Types'
  <2>1. CASE attempt[r] < Attempts
    BY <1>5, <2>1 DEF Types, Transient, driveVars
  <2>2. CASE ~(attempt[r] < Attempts)
    <3>1. Enter(r, how) /\ how \in {"get", "write"} \cup Ended
      BY <1>5, <2>2 DEF Transient, Ended
    <3>2. UNCHANGED <<driveVars, flight, cursor, seen, bound, byHand>>
      BY <1>5 DEF Transient
    <3>3. QED
      BY <3>1, <3>2 DEF Types, Enter, driveVars
  <2>3. QED
    BY <2>1, <2>2
<1>6. ASSUME NEW m \in flight, Late(m) PROVE Types'
  <2>1. CarriedOut(m) /\ flight' \subseteq flight /\ UNCHANGED <<runVars, byHand>>
    BY <1>6 DEF Late
  <2>2. QED
    BY <2>1, DriveIsTyped DEF Types, runVars
<1>7. ASSUME NEW f \in DOMAIN Start, NEW d \in Hands, ByHand(f, d) PROVE Types'
  <2>1. {d} \in SUBSET Places
    BY DEF Places
  <2>2. byHand' \in Seq(DOMAIN Start)
    BY <1>7 DEF ByHand, Types
  <2>3. QED
    BY <1>7, <2>1, <2>2 DEF Types, ByHand, runVars
<1>8. CASE UNCHANGED vars
  BY <1>8 DEF Types, vars, driveVars, runVars
<1>9. QED
  BY <1>1, <1>2, <1>3, <1>4, <1>5, <1>6, <1>7, <1>8 DEF Next, Answer

(* Which calls a run is at, and which it waits for, changes by its own      *)
(* steps alone.                                                             *)
LEMMA AtCallsStep ==
  ASSUME CallsInv, [Next]_vars
  PROVE  RunsAreAtCalls'
<1> USE DEF CallsInv, Op
<1>0. \A r \in Runs : AtCall(r) /\ pc[r] \in {"get", "write"} \cup Ended /\ cursor[r] \in Nat
  BY DEF RunsAreAtCalls, Types
<1> SUFFICES ASSUME NEW k \in Runs PROVE AtCall(k)'
  BY DEF RunsAreAtCalls
<1>1. ASSUME NEW r \in Runs, Send(r) PROVE AtCall(k)'
  <2>1. CASE k = r
    BY <1>0, <1>1, <2>1, RequestIsTyped DEF Send, AtCall, Types
  <2>2. CASE k # r
    BY <1>0, <1>1, <2>2 DEF Send, AtCall, Types
  <2>3. QED
    BY <2>1, <2>2
<1>2. ASSUME NEW r \in Runs, Looked(r) PROVE AtCall(k)'
  BY <1>0, <1>2 DEF Looked, Enter, AtCall, Types, Ended
<1>3. ASSUME NEW r \in Runs, Written(r) PROVE AtCall(k)'
  <2>1. CASE k = r
    <3>1. cursor'[r] = cursor[r] + 1 /\ pc'[r] = FirstCall(r, cursor[r] + 2) /\ awaited'[r] = None
      BY <1>3 DEF Written, Enter, Types
    <3>2. cursor[r] + 2 \in Nat \ {0} /\ cursor[r] + 1 + 1 = cursor[r] + 2
      BY <1>0
    <3>3. cursor[r] + 1 <= Len(Plan[r])
      BY <1>0, <1>3, PlanFacts DEF AtCall, Written
    <3>4. QED
      BY <2>1, <3>1, <3>2, <3>3, NextCall DEF AtCall
  <2>2. CASE k # r
    BY <1>0, <1>3, <2>2 DEF Written, Enter, AtCall, Types
  <2>3. QED
    BY <2>1, <2>2
<1>4. ASSUME NEW r \in Runs, Refused(r) PROVE AtCall(k)'
  BY <1>0, <1>4 DEF Refused, Enter, AtCall, Types, Ended
<1>5. ASSUME NEW r \in Runs, NEW how \in {"failed", "raised"}, Transient(r, how) PROVE AtCall(k)'
  <2>1. CASE attempt[r] < Attempts
    BY <1>0, <1>5, <2>1 DEF Transient, AtCall, Types
  <2>2. CASE ~(attempt[r] < Attempts)
    <3>1. Enter(r, how) /\ cursor' = cursor /\ pc[r] \in {"get", "write"}
      BY <1>5, <2>2 DEF Transient
    <3>2. CASE k = r
      <4>1. pc'[k] = how /\ awaited'[k] = None /\ cursor'[k] = cursor[k]
        BY <3>1, <3>2 DEF Enter, Types
      <4>2. cursor[k] <= Len(Plan[k]) /\ cursor[k] + 1 \in DOMAIN Plan[k]
        BY <1>0, <3>1, <3>2 DEF AtCall
      <4>3. QED
        BY <1>5, <4>1, <4>2 DEF AtCall
    <3>3. CASE k # r
      BY <1>0, <3>1, <3>3 DEF Enter, AtCall, Types
    <3>4. QED
      BY <3>2, <3>3
  <2>3. QED
    BY <2>1, <2>2
<1>6. ASSUME NEW m \in flight, Late(m) PROVE AtCall(k)'
  BY <1>0, <1>6 DEF Late, AtCall, runVars
<1>7. ASSUME NEW f \in DOMAIN Start, NEW d \in Hands, ByHand(f, d) PROVE AtCall(k)'
  BY <1>0, <1>7 DEF ByHand, AtCall, runVars
<1>8. CASE UNCHANGED vars
  BY <1>0, <1>8 DEF AtCall, vars, runVars
<1>9. QED
  BY <1>1, <1>2, <1>3, <1>4, <1>5, <1>6, <1>7, <1>8 DEF Next, Answer

(* A request is given up only with a transient failure of a call that       *)
(* writes, which is remembered.                                             *)
LEMMA FlightStep ==
  ASSUME CallsInv, [Next]_vars
  PROVE  FlightIsKnown'
<1> USE DEF CallsInv
<1>0. /\ \A m \in flight : Known(m) /\ m.id.run \in Runs /\ m.id.i \in Nat
      /\ \A r \in Runs : AtCall(r) /\ cursor[r] \in Nat
  BY FlightFacts DEF RunsAreAtCalls, Types
<1>1. ASSUME NEW r \in Runs, Send(r) PROVE FlightIsKnown'
  <2> PICK q : q = Request(r)
    OBVIOUS
  <2>1. /\ awaited[r] = None /\ awaited' = [awaited EXCEPT ![r] = q]
        /\ flight' = flight \/ (pc[r] = "write" /\ flight' = flight \cup {q})
        /\ UNCHANGED <<cursor, faults>> /\ pc[r] \in {"get", "write"}
    BY <1>1 DEF Send
  <2>2. \A m \in flight : m # None
    BY CallsAssumption DEF Types
  <2>3. ASSUME NEW m \in flight PROVE Known(m)'
    BY <1>0, <2>1, <2>2 DEF Known, Types
  <2>4. ASSUME pc[r] = "write" PROVE Known(q)'
    <3>1. AtCall(r) /\ cursor[r] \in Nat /\ cursor[r] + 1 \in DOMAIN Plan[r]
      BY <1>0, <2>4 DEF AtCall
    <3>2. q.id.run = r /\ q.id.i = cursor[r] + 1 /\ q.id.call = "write"
      BY <2>4, <3>1, RequestIsTyped
    <3>3. awaited'[r] = q /\ cursor'[r] = cursor[r]
      BY <2>1 DEF Types
    <3>4. QED
      BY <3>1, <3>2, <3>3 DEF Known
  <2>5. QED
    BY <2>1, <2>3, <2>4 DEF FlightIsKnown
<1>2. ASSUME NEW r \in Runs, Looked(r) PROVE FlightIsKnown'
  <2>1. pc[r] = "get" /\ awaited[r] # None
    BY <1>2 DEF Looked
  <2>2. awaited[r].id.call = "get"
    BY <1>0, <2>1 DEF AtCall
  <2>3. \A m \in flight : awaited[r] # m
    BY <1>0, <2>2 DEF Known
  <2>4. /\ awaited' = [awaited EXCEPT ![r] = None]
        /\ flight' = flight /\ cursor' = cursor /\ faults' = faults
    BY <1>2 DEF Looked, Enter
  <2>5. QED
    BY <1>0, <2>3, <2>4 DEF FlightIsKnown, Known, Types
<1>3. ASSUME NEW r \in Runs, Written(r) PROVE FlightIsKnown'
  <2>1. /\ awaited' = [awaited EXCEPT ![r] = None]
        /\ cursor' = [cursor EXCEPT ![r] = @ + 1]
        /\ flight' = flight \ {awaited[r]} /\ faults' = faults
    BY <1>3 DEF Written, Enter
  <2>2. \A m \in flight' : m \in flight /\ m # awaited[r]
    BY <2>1
  <2>3. ASSUME NEW m \in flight' PROVE Known(m)'
    <3>1. Known(m) /\ cursor[m.id.run] \in Nat /\ m.id.run \in Runs /\ m.id.i \in Nat
      BY <1>0, <2>2
    <3>2. m.id.i <= cursor'[m.id.run] + 1
      BY <2>1, <3>1 DEF Known, Types
    <3>3. awaited'[m.id.run] = m \/ <<m.id.run, m.id.i>> \in faults'
      BY <2>1, <2>2, <3>1 DEF Known, Types
    <3>4. QED
      BY <3>1, <3>2, <3>3 DEF Known
  <2>4. QED
    BY <2>3 DEF FlightIsKnown
<1>4. ASSUME NEW r \in Runs, Refused(r) PROVE FlightIsKnown'
  BY <1>0, <1>4 DEF Refused, Enter, FlightIsKnown, Known, Types
<1>5. ASSUME NEW r \in Runs, NEW how \in {"failed", "raised"}, Transient(r, how)
      PROVE  FlightIsKnown'
  <2>1. /\ flight' = flight /\ cursor' = cursor /\ faults \subseteq faults'
        /\ \A k \in Runs : k # r => awaited'[k] = awaited[k]
        /\ pc[r] = "write" => <<r, cursor[r] + 1>> \in faults'
    BY <1>5 DEF Transient, Enter, Types
  <2>2. \A m \in flight : awaited[r] = m => pc[r] = "write" /\ m.id.run = r /\ m.id.i = cursor[r] + 1
    BY <1>0, <1>5 DEF Known, AtCall, Transient
  <2>3. QED
    BY <1>0, <2>1, <2>2 DEF FlightIsKnown, Known
<1>6. ASSUME NEW m \in flight, Late(m) PROVE FlightIsKnown'
  BY <1>0, <1>6 DEF Late, FlightIsKnown, Known, runVars
<1>7. ASSUME NEW f \in DOMAIN Start, NEW d \in Hands, ByHand(f, d) PROVE FlightIsKnown'
  BY <1>0, <1>7 DEF ByHand, FlightIsKnown, Known, runVars
<1>8. CASE UNCHANGED vars
  BY <1>0, <1>8 DEF FlightIsKnown, Known, vars, runVars
<1>9. QED
  BY <1>1, <1>2, <1>3, <1>4, <1>5, <1>6, <1>7, <1>8 DEF Next, Answer
-----------------------------------------------------------------------------
(* What a step does to Drive and to what the runs have reported: nothing,   *)
(* or a request is carried out, reported or given up before, or the owner   *)
(* moves a file.                                                            *)
Quiet ==
  /\ UNCHANGED <<parents, namedBy, folders, cursor, bound, byHand>>
  /\ faults \subseteq faults'

Reports(m) ==
  LET r == m.id.run  op == Plan[r][m.id.i] IN
  /\ m.id.i = cursor[r] + 1
  /\ cursor' = [cursor EXCEPT ![r] = @ + 1]
  /\ bound' = IF op.op = "create_folder"
              THEN [bound EXCEPT ![r][op.ref] = <<r, m.id.i, m.id.n>>] ELSE bound

Carries(m) ==
  /\ CarriedOut(m)
  /\ UNCHANGED <<faults, byHand>>
  /\ \/ Reports(m)
     \/ <<m.id.run, m.id.i>> \in faults /\ UNCHANGED <<cursor, bound>>

LEMMA Steps ==
  ASSUME CallsInv, [Next]_vars
  PROVE  \/ Quiet
         \/ \E m \in flight : Carries(m)
         \/ \E f \in DOMAIN Start, d \in Hands : ByHand(f, d)
<1> USE DEF CallsInv
<1>1. ASSUME NEW r \in Runs, Send(r) PROVE Quiet
  BY <1>1 DEF Send, Quiet, driveVars
<1>2. ASSUME NEW r \in Runs, Looked(r) PROVE Quiet
  BY <1>2 DEF Looked, Quiet, driveVars
<1>3. ASSUME NEW r \in Runs, Written(r) PROVE \E m \in flight : Carries(m)
  <2> PICK m \in flight : m = awaited[r]
    BY <1>3 DEF Written
  <2>1. m.id.run = r /\ m.id.i = cursor[r] + 1
    BY <1>3 DEF Written, RunsAreAtCalls, AtCall
  <2>2. /\ CarriedOut(m) /\ faults' = faults /\ byHand' = byHand
        /\ cursor' = [cursor EXCEPT ![r] = @ + 1]
        /\ bound' = IF Op(r).op = "create_folder"
                    THEN [bound EXCEPT ![r][Op(r).ref] = <<m.id.run, m.id.i, m.id.n>>]
                    ELSE bound
    BY <1>3 DEF Written
  <2>3. Reports(m)
    BY <2>1, <2>2 DEF Reports, Op
  <2>4. QED
    BY <2>2, <2>3 DEF Carries
<1>4. ASSUME NEW r \in Runs, Refused(r) PROVE Quiet
  BY <1>4 DEF Refused, Quiet, driveVars
<1>5. ASSUME NEW r \in Runs, NEW how \in {"failed", "raised"}, Transient(r, how) PROVE Quiet
  BY <1>5 DEF Transient, Quiet, driveVars
<1>6. ASSUME NEW m \in flight, Late(m) PROVE Carries(m)
  BY <1>6, FlightFacts DEF Late, Carries, Known, runVars
<1>7. CASE UNCHANGED vars
  BY <1>7 DEF Quiet, vars, driveVars, runVars
<1>8. QED
  BY <1>1, <1>2, <1>3, <1>4, <1>5, <1>6, <1>7 DEF Next, Answer

(* What is Drive's after a request, and what of it was there before. *)
LEMMA CarriedOutFacts ==
  ASSUME Types, FlightIsKnown, NEW m \in flight, CarriedOut(m)
  PROVE  LET r == m.id.run  op == Plan[r][m.id.i] IN
         /\ folders \subseteq folders'
         /\ \A x \in folders' : x \in folders \/ (op.op = "create_folder" /\ x = <<r, m.id.i, m.id.n>>)
         /\ \A f \in DOMAIN Start :
              /\ parents'[f] = parents[f] \/ (op.op = "move" /\ op.file_id = f)
              /\ namedBy'[f] = namedBy[f] \/ (op.op = "rename" /\ op.file_id = f)
         /\ op.op = "create_folder" => <<r, m.id.i, m.id.n>> \in folders'
         /\ op.op = "rename" => namedBy'[op.file_id] = <<r, m.id.i>>
         /\ op.op = "move" => parents'[op.file_id] = (parents[op.file_id] \ m.remove) \cup {m.to}
<1> DEFINE op == Plan[m.id.run][m.id.i]
<1>1. CASE op.op = "create_folder"
  BY <1>1 DEF CarriedOut
<1>2. CASE op.op = "rename"
  <2>1. op.file_id \in DOMAIN Start
    BY <1>2, FlightFacts, PlanFacts
  <2>2. /\ namedBy' = [namedBy EXCEPT ![op.file_id] = <<m.id.run, m.id.i>>]
        /\ parents' = parents /\ folders' = folders
    BY <1>2 DEF CarriedOut
  <2>3. QED
    BY <1>2, <2>1, <2>2 DEF Types
<1>3. CASE op.op = "move"
  <2>1. op.file_id \in DOMAIN Start
    BY <1>3, FlightFacts, PlanFacts
  <2>2. /\ parents' = [parents EXCEPT ![op.file_id] = (@ \ m.remove) \cup {m.to}]
        /\ namedBy' = namedBy /\ folders' = folders
    BY <1>3 DEF CarriedOut
  <2>3. QED
    BY <1>3, <2>1, <2>2 DEF Types
<1>4. QED
  BY <1>1, <1>2, <1>3 DEF CarriedOut

(* Who is alone with a file was so before. *)
LEMMA AloneBefore ==
  ASSUME CallsInv, [Next]_vars, NEW r \in Runs, NEW f, Alone(r, f)'
  PROVE  Alone(r, f) /\ \A g \in DOMAIN Start, d \in Hands : ByHand(g, d) => g # f
<1>0. byHand \in Seq(DOMAIN Start)
  BY DEF CallsInv, Types
<1>1. CASE byHand' = byHand
  BY <1>0, <1>1 DEF Alone, ByHand
<1>2. ASSUME NEW g \in DOMAIN Start, NEW d \in Hands, ByHand(g, d)
      PROVE  Alone(r, f) /\ g # f
  BY <1>0, <1>2 DEF Alone, ByHand
<1>3. QED
  BY <1>1, <1>2, Steps DEF Quiet, Carries
(* An operation keeps the place it is to bring its file to, once the run    *)
(* has come to it: only an earlier one declares the ref.                    *)
LEMMA TargetsAreStable ==
  ASSUME CallsInv, [Next]_vars, NEW r \in Runs, NEW i \in DOMAIN Plan[r],
         Plan[r][i].op = "move", i <= cursor[r] + 1
  PROVE  Target(r, Plan[r][i].new_parent_id)' = Target(r, Plan[r][i].new_parent_id)
<1> DEFINE d == Plan[r][i].new_parent_id
<1>1. CASE bound' = bound
  BY <1>1 DEF Target
<1>2. CASE d \notin Refs
  BY <1>2 DEF Target
<1>3. ASSUME d \in Refs, NEW m \in flight, Reports(m) PROVE bound'[r][d] = bound[r][d]
  <2> DEFINE op == Plan[m.id.run][m.id.i]
  <2>1. /\ m.id.run \in Runs /\ m.id.i \in DOMAIN Plan[m.id.run] /\ m.id.i = cursor[m.id.run] + 1
        /\ bound \in [Runs -> [Refs -> Places]] /\ cursor[r] \in Nat
    BY <1>3, FlightFacts DEF CallsInv, Reports, Types
  <2>2. CASE op.op = "create_folder" /\ m.id.run = r
    <3>1. PICK j \in 1..(i - 1) : Plan[r][j].op = "create_folder" /\ Plan[r][j].ref = d
      BY <1>3, RefsAreDeclared
    <3>2. i \in Nat /\ j \in DOMAIN Plan[r] /\ j # m.id.i
      BY <2>1, <2>2, PlanFacts
    <3>3. op.ref # d
      BY <2>1, <2>2, <3>1, <3>2, OperationsDiffer
    <3>4. bound' = [bound EXCEPT ![r][op.ref] = <<r, m.id.i, m.id.n>>]
      BY <1>3, <2>2 DEF Reports
    <3>5. QED
      BY <1>3, <2>1, <3>3, <3>4
  <2>3. CASE op.op # "create_folder"
    BY <1>3, <2>3 DEF Reports
  <2>4. CASE op.op = "create_folder" /\ m.id.run # r
    <3>1. bound' = [bound EXCEPT ![m.id.run][op.ref] = <<m.id.run, m.id.i, m.id.n>>]
      BY <1>3, <2>4 DEF Reports
    <3>2. QED
      BY <2>1, <2>4, <3>1
  <2>5. QED
    BY <2>2, <2>3, <2>4
<1>4. QED
  BY <1>1, <1>2, <1>3, Steps DEF Target, Quiet, Carries, ByHand, runVars

(* What a step does to a file nobody else has to do with: nothing, or it    *)
(* carries out the one operation of the plan that moves it, which is then   *)
(* reported or met a transient failure.                                     *)
LEMMA AloneMoves ==
  ASSUME CallsInv, [Next]_vars, NEW r \in Runs, NEW i \in DOMAIN Plan[r],
         Plan[r][i].op = "move", Alone(r, Plan[r][i].file_id)'
  PROVE  \/ parents'[Plan[r][i].file_id] = parents[Plan[r][i].file_id]
         \/ /\ i <= cursor[r] + 1
            /\ parents'[Plan[r][i].file_id] = {Target(r, Plan[r][i].new_parent_id)}
            /\ <<r, i>> \in faults \/ cursor'[r] = i
<1> DEFINE f == Plan[r][i].file_id
<1> USE DEF CallsInv
<1>1. f \in DOMAIN Start
  BY PlanFacts
<1>2. Alone(r, f) /\ \A g \in DOMAIN Start, d \in Hands : ByHand(g, d) => g # f
  BY AloneBefore DEF Types
<1>3. ASSUME NEW m \in flight, Carries(m), parents'[f] # parents[f]
      PROVE  /\ i <= cursor[r] + 1
             /\ parents'[f] = {Target(r, Plan[r][i].new_parent_id)}
             /\ <<r, i>> \in faults \/ cursor'[r] = i
  <2> DEFINE op == Plan[m.id.run][m.id.i]
  <2>1. op.op = "move" /\ op.file_id = f
    BY <1>1, <1>3, CarriedOutFacts DEF Carries
  <2>2. m.id.run \in Runs /\ m.id.i \in DOMAIN Plan[m.id.run] /\ Known(m)
    BY FlightFacts
  <2>3. m.id.run = r
    BY <1>2, <2>1, <2>2 DEF Alone, Touches
  <2>4. m.id.i = i
    BY <2>1, <2>2, <2>3, OperationsDiffer
  <2>5. m.to = Target(r, Plan[r][i].new_parent_id) /\ parents[f] \subseteq m.remove \cup {m.to}
    BY <1>2, <2>1, <2>3, <2>4 DEF MovesConverge
  <2>6. parents'[f] = (parents[f] \ m.remove) \cup {m.to}
    BY <1>3, <2>1, CarriedOutFacts DEF Carries
  <2>7. i <= cursor[r] + 1
    BY <2>2, <2>3, <2>4 DEF Known
  <2>8. <<r, i>> \in faults \/ cursor'[r] = i
    BY <1>3, <2>3, <2>4 DEF Carries, Reports, Types
  <2>9. QED
    BY <2>5, <2>6, <2>7, <2>8
<1>4. ASSUME NEW g \in DOMAIN Start, NEW d \in Hands, ByHand(g, d) PROVE parents'[f] = parents[f]
  BY <1>1, <1>2, <1>4 DEF ByHand, Types
<1>5. QED
  BY <1>3, <1>4, Steps DEF Quiet

(* What a step does to the name of a file that a plan renames. *)
LEMMA Renames ==
  ASSUME CallsInv, [Next]_vars, NEW r \in Runs, NEW i \in DOMAIN Plan[r],
         Plan[r][i].op = "rename"
  PROVE  LET f == Plan[r][i].file_id IN
         /\ namedBy'[f] = <<r, i>> =>
              namedBy[f] = <<r, i>> \/ <<r, i>> \in faults \/ cursor'[r] = i
         /\ Alone(r, f) => namedBy'[f] = namedBy[f] \/ namedBy'[f] = <<r, i>>
<1> DEFINE f == Plan[r][i].file_id
<1> USE DEF CallsInv
<1>1. f \in DOMAIN Start
  BY PlanFacts
<1>2. ASSUME NEW m \in flight, Carries(m), namedBy'[f] # namedBy[f]
      PROVE  /\ namedBy'[f] = <<r, i>> => <<r, i>> \in faults \/ cursor'[r] = i
             /\ Alone(r, f) => namedBy'[f] = <<r, i>>
  <2> DEFINE op == Plan[m.id.run][m.id.i]
  <2>1. op.op = "rename" /\ op.file_id = f /\ namedBy'[f] = <<m.id.run, m.id.i>>
    BY <1>1, <1>2, CarriedOutFacts DEF Carries
  <2>2. m.id.run \in Runs /\ m.id.i \in DOMAIN Plan[m.id.run]
    BY FlightFacts
  <2>3. Alone(r, f) => m.id.run = r
    BY <2>1, <2>2 DEF Alone, Touches
  <2>4. Alone(r, f) => m.id.i = i
    BY <2>1, <2>2, <2>3, OperationsDiffer
  <2>5. m.id.run = r /\ m.id.i = i => <<r, i>> \in faults \/ cursor'[r] = i
    BY <1>2 DEF Carries, Reports, Types
  <2>6. QED
    BY <2>1, <2>3, <2>4, <2>5
<1>3. QED
  BY <1>2, Steps DEF Quiet, ByHand
-----------------------------------------------------------------------------
(* A run that is to write a move has looked at its file. *)
LEMMA WritesHaveLooked ==
  ASSUME CallsInv, [Next]_vars, NEW r \in Runs, pc'[r] = "write", (Op(r).op = "move")'
  PROVE  /\ cursor'[r] = cursor[r]
         /\ \/ /\ parents' = parents /\ seen'[r] = parents[Op(r).file_id]
            \/ /\ pc[r] = "write" /\ seen'[r] = seen[r]
<1> USE DEF CallsInv, Op
<1>0. cursor[r] \in Nat
  BY DEF Types
<1>1. ASSUME NEW k \in Runs, Send(k) PROVE pc' = pc /\ seen' = seen /\ cursor' = cursor
  BY <1>1 DEF Send
<1>2. ASSUME NEW k \in Runs, Looked(k)
      PROVE  /\ cursor'[r] = cursor[r]
             /\ \/ parents' = parents /\ seen'[r] = parents[Op(r).file_id]
                \/ pc[r] = "write" /\ seen'[r] = seen[r]
  BY <1>2 DEF Looked, Enter, Types, driveVars
<1>3. ASSUME NEW k \in Runs, Written(k)
      PROVE  cursor'[r] = cursor[r] /\ pc'[r] = pc[r] /\ seen' = seen
  <2>1. CASE k = r
    <3>1. cursor'[r] = cursor[r] + 1 /\ pc'[r] = FirstCall(r, cursor[r] + 2)
      BY <1>3, <2>1 DEF Written, Enter, Types
    <3>2. cursor[r] + 2 \in Nat \ {0} /\ cursor'[r] + 1 = cursor[r] + 2
      BY <1>0, <3>1
    <3>3. Plan[r][cursor[r] + 2].op = "move"
      BY <3>2
    <3>4. QED
      BY <3>1, <3>2, <3>3, NextCall
  <2>2. CASE k # r
    BY <1>3, <2>2 DEF Written, Enter, Types
  <2>3. QED
    BY <2>1, <2>2
<1>4. ASSUME NEW k \in Runs, Refused(k)
      PROVE  cursor' = cursor /\ seen' = seen /\ pc[r] = "write"
  BY <1>4 DEF Refused, Enter, Types
<1>5. ASSUME NEW k \in Runs, NEW how \in {"failed", "raised"}, Transient(k, how)
      PROVE  cursor' = cursor /\ seen' = seen /\ pc[r] = "write"
  <2>1. CASE attempt[k] < Attempts
    BY <1>5, <2>1 DEF Transient
  <2>2. CASE ~(attempt[k] < Attempts)
    <3>1. Enter(k, how) /\ cursor' = cursor /\ seen' = seen
      BY <1>5, <2>2 DEF Transient
    <3>2. QED
      BY <3>1 DEF Enter, Types
  <2>3. QED
    BY <2>1, <2>2
<1>6. ASSUME NEW m \in flight, Late(m) PROVE UNCHANGED <<pc, cursor, seen>>
  BY <1>6 DEF Late, runVars
<1>7. ASSUME NEW f \in DOMAIN Start, NEW d \in Hands, ByHand(f, d)
      PROVE  UNCHANGED <<pc, cursor, seen>>
  BY <1>7 DEF ByHand, runVars
<1>8. CASE UNCHANGED vars
  BY <1>8 DEF vars, runVars
<1>9. QED
  BY <1>1, <1>2, <1>3, <1>4, <1>5, <1>6, <1>7, <1>8 DEF Next, Answer

(* Where the requests on their way come from. *)
LEMMA FlightGrows ==
  ASSUME [Next]_vars, NEW m \in flight', m \notin flight
  PROVE  \E r \in Runs : Send(r) /\ pc[r] = "write" /\ m = Request(r)
<1>1. ASSUME NEW r \in Runs, Send(r) PROVE pc[r] = "write" /\ m = Request(r)
  BY <1>1 DEF Send
<1>2. ASSUME NEW r \in Runs, Answer(r) PROVE FALSE
  BY <1>2 DEF Answer, Looked, Written, Refused, Transient
<1>3. ASSUME NEW x \in flight, Late(x) PROVE FALSE
  BY <1>3 DEF Late
<1>4. ASSUME NEW f \in DOMAIN Start, NEW d \in Hands, ByHand(f, d) PROVE FALSE
  BY <1>4 DEF ByHand
<1>5. CASE UNCHANGED vars
  BY <1>5 DEF vars
<1>6. QED
  BY <1>1, <1>2, <1>3, <1>4, <1>5 DEF Next

LEMMA FoldersStep ==
  ASSUME CallsInv, [Next]_vars
  PROVE  FoldersAreBound'
<1> USE DEF CallsInv
<1>1. CASE Quiet
  BY <1>1 DEF Quiet, FoldersAreBound
<1>2. ASSUME NEW f \in DOMAIN Start, NEW d \in Hands, ByHand(f, d) PROVE FoldersAreBound'
  BY <1>2 DEF ByHand, runVars, FoldersAreBound
<1>3. ASSUME NEW m \in flight, Carries(m) PROVE FoldersAreBound'
  <2> DEFINE q == m.id.run
             op == Plan[m.id.run][m.id.i]
  <2>0. /\ q \in Runs /\ m.id.i \in DOMAIN Plan[q] /\ m.id.i \in Nat /\ m.id.n \in Nat
        /\ cursor \in [Runs -> Nat] /\ bound \in [Runs -> [Refs -> Places]]
        /\ faults' = faults /\ CarriedOut(m)
    BY <1>3, FlightFacts DEF Carries, Types
  <2> SUFFICES ASSUME NEW x \in folders'
               PROVE  /\ x[2] \in DOMAIN Plan[x[1]] /\ Plan[x[1]][x[2]].op = "create_folder"
                      /\ \/ x[2] <= cursor'[x[1]] /\ bound'[x[1]][Plan[x[1]][x[2]].ref] = x
                         \/ <<x[1], x[2]>> \in faults
    BY <2>0 DEF FoldersAreBound
  <2>1. CASE x \in folders
    <3>1. /\ x[1] \in Runs /\ x[2] \in Nat
          /\ x[2] \in DOMAIN Plan[x[1]] /\ Plan[x[1]][x[2]].op = "create_folder"
      BY <2>1 DEF FoldersAreBound, Types
    <3>2. CASE <<x[1], x[2]>> \in faults
      BY <3>1, <3>2
    <3>3. CASE x[2] <= cursor[x[1]] /\ bound[x[1]][Plan[x[1]][x[2]].ref] = x
      <4>1. x[2] <= cursor'[x[1]]
        BY <1>3, <2>0, <3>1, <3>3 DEF Carries, Reports
      <4>2. CASE op.op = "create_folder" /\ x[1] = q /\ Reports(m)
        <5>1. x[2] # m.id.i
          BY <2>0, <3>1, <3>3, <4>2 DEF Reports
        <5>2. Plan[q][x[2]].ref # op.ref
          BY <2>0, <3>1, <4>2, <5>1, OperationsDiffer
        <5>3. bound' = [bound EXCEPT ![q][op.ref] = <<q, m.id.i, m.id.n>>]
          BY <4>2 DEF Reports
        <5>4. Plan[q][x[2]].ref \in Refs
          BY <2>0, <3>1, <4>2, PlanFacts
        <5>5. QED
          BY <2>0, <3>1, <3>3, <4>1, <4>2, <5>2, <5>3, <5>4
      <4>3. CASE op.op = "create_folder" /\ x[1] # q /\ Reports(m)
        <5>1. bound' = [bound EXCEPT ![q][op.ref] = <<q, m.id.i, m.id.n>>]
          BY <4>3 DEF Reports
        <5>2. QED
          BY <2>0, <3>1, <3>3, <4>1, <4>3, <5>1
      <4>4. CASE op.op # "create_folder" \/ bound' = bound
        BY <1>3, <3>1, <3>3, <4>1, <4>4 DEF Carries, Reports
      <4>5. QED
        BY <1>3, <4>2, <4>3, <4>4 DEF Carries
    <3>4. QED
      BY <2>1, <3>2, <3>3 DEF FoldersAreBound
  <2>2. CASE x \notin folders
    <3>1. op.op = "create_folder" /\ x = <<q, m.id.i, m.id.n>>
      BY <2>0, <2>2, CarriedOutFacts
    <3>2. x[1] = q /\ x[2] = m.id.i
      BY <3>1
    <3>3. CASE <<q, m.id.i>> \in faults
      BY <2>0, <3>1, <3>2, <3>3
    <3>4. CASE Reports(m)
      <4>1. op.ref \in Refs
        BY <2>0, <3>1, PlanFacts
      <4>2. bound' = [bound EXCEPT ![q][op.ref] = x] /\ cursor' = [cursor EXCEPT ![q] = @ + 1]
        BY <3>1, <3>4 DEF Reports
      <4>3. m.id.i = cursor[q] + 1
        BY <3>4 DEF Reports
      <4>4. bound'[q][op.ref] = x /\ m.id.i = cursor'[q]
        BY <2>0, <4>1, <4>2, <4>3
      <4>5. Plan[x[1]][x[2]] = op
        BY <3>2
      <4>6. x[2] \in DOMAIN Plan[x[1]] /\ Plan[x[1]][x[2]].op = "create_folder"
        BY <2>0, <3>1, <3>2
      <4>7. x[2] <= cursor'[x[1]]
        BY <2>0, <3>2, <4>4
      <4>8. bound'[x[1]][Plan[x[1]][x[2]].ref] = x
        BY <3>2, <4>4, <4>5
      <4>9. QED
        BY <4>6, <4>7, <4>8
    <3>5. QED
      BY <1>3, <3>3, <3>4 DEF Carries
  <2>3. QED
    BY <2>1, <2>2
<1>4. QED
  BY <1>1, <1>2, <1>3, Steps
LEMMA MovesStep ==
  ASSUME CallsInv, [Next]_vars
  PROVE  MovesConverge'
<1> USE DEF CallsInv
<1>1. ASSUME NEW m \in flight',
             Plan[m.id.run][m.id.i].op = "move"
      PROVE  LET r == m.id.run  op == Plan[r][m.id.i] IN
             /\ m.to = Target(r, op.new_parent_id)'
             /\ Alone(r, op.file_id)' => parents'[op.file_id] \subseteq m.remove \cup {m.to}
  <2> DEFINE r == m.id.run
             op == Plan[r][m.id.i]
  <2>1. CASE m \in flight
    <3>1. /\ r \in Runs /\ m.id.i \in DOMAIN Plan[r] /\ m.id.i <= cursor[r] + 1
          /\ m.to = Target(r, op.new_parent_id)
      BY <1>1, <2>1, FlightFacts DEF Known, MovesConverge
    <3>2. m.to = Target(r, op.new_parent_id)'
      BY <1>1, <3>1, TargetsAreStable
    <3>3. ASSUME Alone(r, op.file_id)'
          PROVE  parents'[op.file_id] \subseteq m.remove \cup {m.to}
      <4>1. Alone(r, op.file_id)
        BY <3>1, <3>3, AloneBefore
      <4>2. parents[op.file_id] \subseteq m.remove \cup {m.to}
        BY <1>1, <2>1, <4>1 DEF MovesConverge
      <4>3. PICK k, i : k = r /\ i = m.id.i
        OBVIOUS
      <4>4. Plan[k][i].op = "move" /\ Alone(k, Plan[k][i].file_id)'
        BY <1>1, <3>3, <4>3
      <4>5. \/ parents'[Plan[k][i].file_id] = parents[Plan[k][i].file_id]
            \/ parents'[Plan[k][i].file_id] = {Target(k, Plan[k][i].new_parent_id)}
        BY <3>1, <4>3, <4>4, AloneMoves
      <4>6. QED
        BY <3>1, <4>2, <4>3, <4>5
    <3>4. QED
      BY <3>2, <3>3
  <2>2. CASE m \notin flight
    <3>1. PICK k \in Runs : Send(k) /\ pc[k] = "write" /\ m = Request(k)
      BY <2>2, FlightGrows
    <3>2. AtCall(k) /\ cursor[k] + 1 \in DOMAIN Plan[k]
      BY <3>1 DEF RunsAreAtCalls, AtCall
    <3>3. r = k /\ m.id.i = cursor[k] + 1
      BY <3>1, <3>2, RequestIsTyped
    <3>4. op = Op(k) /\ op.op = "move"
      BY <1>1, <3>3 DEF Op
    <3>5. m.to = Target(k, op.new_parent_id) /\ m.remove = seen[k]
      BY <3>1, <3>2, <3>4, RequestIsTyped
    <3>6. parents' = parents /\ bound' = bound /\ byHand' = byHand
      BY <3>1 DEF Send, driveVars
    <3>7. Alone(k, op.file_id) => parents[op.file_id] \subseteq m.remove \cup {m.to}
      BY <3>1, <3>4, <3>5 DEF MovesConverge
    <3>8. QED
      BY <3>3, <3>5, <3>6, <3>7 DEF Target, Alone
  <2>3. QED
    BY <2>1, <2>2
<1>2. ASSUME NEW r \in Runs, pc'[r] = "write", (Op(r).op = "move")', Alone(r, Op(r).file_id)'
      PROVE  (parents[Op(r).file_id] \subseteq seen[r] \cup {Target(r, Op(r).new_parent_id)})'
  <2> PICK i : i = cursor[r] + 1
    OBVIOUS
  <2> DEFINE op == Plan[r][i]
  <2>1. /\ cursor'[r] = cursor[r]
        /\ \/ parents' = parents /\ seen'[r] = parents[op.file_id]
           \/ pc[r] = "write" /\ seen'[r] = seen[r]
    BY <1>2, WritesHaveLooked DEF Op
  <2>2. op.op = "move" /\ Alone(r, op.file_id)'
    BY <1>2, <2>1 DEF Op
  <2>3. i \in DOMAIN Plan[r] /\ i \in Nat
    <3>1. (cursor[r] + 1 \in DOMAIN Plan[r])'
      BY <1>2, AtCallsStep DEF RunsAreAtCalls, AtCall
    <3>2. QED
      BY <2>1, <3>1 DEF Types
  <2>4. Target(r, op.new_parent_id)' = Target(r, op.new_parent_id)
    BY <2>2, <2>3, TargetsAreStable
  <2>5. CASE parents' = parents /\ seen'[r] = parents[op.file_id]
    BY <2>1, <2>5 DEF Op
  <2>6. CASE pc[r] = "write" /\ seen'[r] = seen[r]
    <3>1. Alone(r, op.file_id)
      BY <2>2, AloneBefore
    <3>2. parents[op.file_id] \subseteq seen[r] \cup {Target(r, op.new_parent_id)}
      BY <2>2, <2>6, <3>1 DEF MovesConverge, Op
    <3>3. \/ parents'[op.file_id] = parents[op.file_id]
          \/ parents'[op.file_id] = {Target(r, op.new_parent_id)}
      BY <2>2, <2>3, AloneMoves
    <3>4. parents'[op.file_id] \subseteq seen'[r] \cup {Target(r, op.new_parent_id)'}
      BY <2>4, <2>6, <3>2, <3>3
    <3>5. QED
      BY <2>1, <3>4 DEF Op
  <2>7. QED
    BY <2>1, <2>5, <2>6
<1>3. QED
  BY <1>1, <1>2 DEF MovesConverge

(* What has been reported or has met a failure remains so. *)
LEMMA ReportsRemain ==
  ASSUME CallsInv, [Next]_vars, NEW r \in Runs
  PROVE  /\ cursor[r] \in Nat /\ cursor'[r] \in Nat /\ cursor[r] <= cursor'[r]
         /\ faults \subseteq faults'
<1>1. cursor \in [Runs -> Nat]
  BY DEF CallsInv, Types
<1>2. ASSUME NEW m \in flight, Carries(m)
      PROVE  cursor' = cursor \/ cursor' = [cursor EXCEPT ![m.id.run] = @ + 1]
  BY <1>2 DEF Carries, Reports
<1>3. cursor'[r] = cursor[r] \/ cursor'[r] = cursor[r] + 1
  BY <1>1, <1>2, Steps DEF Quiet, ByHand, runVars
<1>4. faults \subseteq faults'
  BY Steps DEF Quiet, Carries, ByHand
<1>5. QED
  BY <1>1, <1>3, <1>4

LEMMA PendingStep ==
  ASSUME CallsInv, [Next]_vars
  PROVE  PendingIsUntouched'
<1> USE DEF CallsInv
<1> SUFFICES ASSUME NEW r \in Runs, NEW i \in DOMAIN Plan[r],
                    i > cursor'[r], <<r, i>> \notin faults'
             PROVE  LET op == Plan[r][i] IN
                    /\ op.op = "rename" => namedBy'[op.file_id] # <<r, i>>
                    /\ op.op = "move" /\ Alone(r, op.file_id)' =>
                         parents'[op.file_id] = Start[op.file_id]
  BY DEF PendingIsUntouched
<1> DEFINE op == Plan[r][i]
<1>1. i \in Nat /\ i > cursor[r] /\ <<r, i>> \notin faults /\ cursor'[r] # i
  BY ReportsRemain, PlanFacts
<1>2. ASSUME op.op = "rename" PROVE namedBy'[op.file_id] # <<r, i>>
  <2>1. namedBy[op.file_id] # <<r, i>>
    BY <1>1, <1>2 DEF PendingIsUntouched
  <2>2. QED
    BY <1>1, <1>2, <2>1, Renames
<1>3. ASSUME op.op = "move", Alone(r, op.file_id)'
      PROVE  parents'[op.file_id] = Start[op.file_id]
  <2>1. Alone(r, op.file_id)
    BY <1>3, AloneBefore
  <2>2. parents[op.file_id] = Start[op.file_id]
    BY <1>1, <1>3, <2>1 DEF PendingIsUntouched
  <2>3. QED
    BY <1>1, <1>3, <2>2, AloneMoves
<1>4. QED
  BY <1>2, <1>3

(* An operation was reported before the step, or the step reports it. *)
LEMMA ExecutedStep ==
  ASSUME CallsInv, [Next]_vars
  PROVE  ExecutedStaysExecuted'
<1> USE DEF CallsInv
<1> SUFFICES ASSUME NEW r \in Runs, NEW i \in 1..cursor'[r]
             PROVE  LET op == Plan[r][i] IN
                    /\ op.op = "create_folder" => bound'[r][op.ref] \in folders'
                    /\ op.op = "rename" /\ Alone(r, op.file_id)' => namedBy'[op.file_id] = <<r, i>>
                    /\ op.op = "move" /\ Alone(r, op.file_id)' =>
                         parents'[op.file_id] = {Target(r, op.new_parent_id)'}
  BY DEF ExecutedStaysExecuted
<1> DEFINE op == Plan[r][i]
<1>0. /\ cursor \in [Runs -> Nat] /\ bound \in [Runs -> [Refs -> Places]]
      /\ i \in Nat /\ i \in DOMAIN Plan[r] /\ cursor[r] <= Len(Plan[r])
  <2>1. (cursor[r] <= Len(Plan[r]))'
    BY AtCallsStep DEF RunsAreAtCalls, AtCall
  <2>2. QED
    BY <2>1, PlanFacts, ReportsRemain DEF Types, RunsAreAtCalls, AtCall
<1>1. CASE i \in 1..cursor[r]
  <2>1. ASSUME op.op = "create_folder" PROVE bound'[r][op.ref] \in folders'
    <3>1. bound[r][op.ref] \in folders
      BY <1>1, <2>1 DEF ExecutedStaysExecuted
    <3>2. CASE folders' = folders /\ bound' = bound
      BY <3>1, <3>2
    <3>3. ASSUME NEW m \in flight, Carries(m) PROVE bound'[r][op.ref] \in folders'
      <4> DEFINE q == m.id.run
                 its == Plan[m.id.run][m.id.i]
      <4>1. folders \subseteq folders'
        BY <3>3, CarriedOutFacts DEF Carries
      <4>2. q \in Runs /\ m.id.i \in DOMAIN Plan[q] /\ m.id.i \in Nat
        BY FlightFacts
      <4>3. CASE its.op = "create_folder" /\ Reports(m) /\ q = r
        <5>1. i # m.id.i
          BY <1>0, <1>1, <4>3 DEF Reports
        <5>2. op.ref # its.ref
          BY <1>0, <2>1, <4>2, <4>3, <5>1, OperationsDiffer
        <5>3. bound' = [bound EXCEPT ![q][its.ref] = <<q, m.id.i, m.id.n>>]
          BY <4>3 DEF Reports
        <5>4. bound'[r][op.ref] = bound[r][op.ref]
          <6>1. op.ref \in Refs
            BY <1>0, <2>1, PlanFacts
          <6>2. QED
            BY <1>0, <4>2, <4>3, <5>2, <5>3, <6>1
        <5>5. QED
          BY <3>1, <4>1, <5>4
      <4>4. CASE its.op = "create_folder" /\ Reports(m) /\ q # r
        <5>1. bound' = [bound EXCEPT ![q][its.ref] = <<q, m.id.i, m.id.n>>]
          BY <4>4 DEF Reports
        <5>2. QED
          BY <1>0, <3>1, <4>1, <4>2, <4>4, <5>1
      <4>5. CASE bound' = bound
        BY <3>1, <4>1, <4>5
      <4>6. QED
        BY <3>3, <4>3, <4>4, <4>5 DEF Carries, Reports
    <3>4. QED
      BY <3>2, <3>3, Steps DEF Quiet, ByHand, runVars
  <2>2. ASSUME op.op = "rename", Alone(r, op.file_id)' PROVE namedBy'[op.file_id] = <<r, i>>
    <3>1. Alone(r, op.file_id)
      BY <2>2, AloneBefore
    <3>2. namedBy[op.file_id] = <<r, i>>
      BY <1>1, <2>2, <3>1 DEF ExecutedStaysExecuted
    <3>3. QED
      BY <1>0, <2>2, <3>1, <3>2, Renames
  <2>3. ASSUME op.op = "move", Alone(r, op.file_id)'
        PROVE  parents'[op.file_id] = {Target(r, op.new_parent_id)'}
    <3>1. Alone(r, op.file_id)
      BY <2>3, AloneBefore
    <3>2. parents[op.file_id] = {Target(r, op.new_parent_id)}
      BY <1>1, <2>3, <3>1 DEF ExecutedStaysExecuted
    <3>3. i <= cursor[r] + 1
      BY <1>0, <1>1
    <3>4. QED
      BY <1>0, <2>3, <3>2, <3>3, AloneMoves, TargetsAreStable
  <2>4. QED
    BY <2>1, <2>2, <2>3
<1>2. CASE i \notin 1..cursor[r]
  <2>1. cursor'[r] # cursor[r]
    BY <1>2
  <2>2. PICK m \in flight : CarriedOut(m) /\ Reports(m)
    BY <2>1, Steps DEF Quiet, Carries, ByHand, runVars
  <2>3. m.id.run \in Runs /\ m.id.i \in Nat /\ m.id.n \in Nat
    BY FlightFacts
  <2>4. m.id.run = r
    BY <1>0, <2>1, <2>2, <2>3 DEF Reports
  <2>5. m.id.i = i /\ i = cursor[r] + 1
    BY <1>0, <1>2, <2>2, <2>4 DEF Reports
  <2>6. ASSUME op.op = "create_folder" PROVE bound'[r][op.ref] \in folders'
    <3>1. bound' = [bound EXCEPT ![r][op.ref] = <<r, i, m.id.n>>]
      BY <2>2, <2>4, <2>5, <2>6 DEF Reports
    <3>2. op.ref \in Refs
      BY <1>0, <2>6, PlanFacts
    <3>3. bound'[r][op.ref] = <<r, i, m.id.n>>
      BY <1>0, <3>1, <3>2
    <3>4. <<r, i, m.id.n>> \in folders'
      BY <2>2, <2>4, <2>5, <2>6, CarriedOutFacts
    <3>5. QED
      BY <3>3, <3>4
  <2>7. ASSUME op.op = "rename" PROVE namedBy'[op.file_id] = <<r, i>>
    BY <2>2, <2>4, <2>5, <2>7, CarriedOutFacts
  <2>8. ASSUME op.op = "move", Alone(r, op.file_id)'
        PROVE  parents'[op.file_id] = {Target(r, op.new_parent_id)'}
    <3>1. Alone(r, op.file_id)
      BY <2>8, AloneBefore
    <3>2. m.to = Target(r, op.new_parent_id) /\ parents[op.file_id] \subseteq m.remove \cup {m.to}
      BY <2>4, <2>5, <2>8, <3>1 DEF MovesConverge
    <3>3. parents'[op.file_id] = (parents[op.file_id] \ m.remove) \cup {m.to}
      BY <2>2, <2>4, <2>5, <2>8, CarriedOutFacts
    <3>4. Target(r, op.new_parent_id)' = Target(r, op.new_parent_id)
      BY <1>0, <2>5, <2>8, TargetsAreStable
    <3>5. QED
      BY <3>2, <3>3, <3>4
  <2>9. QED
    BY <2>6, <2>7, <2>8
<1>3. QED
  BY <1>1, <1>2

-----------------------------------------------------------------------------
LEMMA InitHolds == Init => CallsInv
<1> SUFFICES ASSUME Init PROVE CallsInv
  OBVIOUS
<1> USE DEF Init
<1>1. \A r \in Runs : /\ FirstCall(r, 1) \in {"get", "write"} \cup Ended
                      /\ FirstCall(r, 1) \in {"get", "write", "failed"} => 1 \in DOMAIN Plan[r]
                      /\ FirstCall(r, 1) = "get" => Plan[r][1].op = "move"
                      /\ FirstCall(r, 1) = "write" => Plan[r][1].op # "move"
  BY NextCall
<1>2. Types
  <2>1. \A f \in DOMAIN Start : Start[f] \in SUBSET Places
    BY DEF Places
  <2>2. Start = [f \in DOMAIN Start |-> Start[f]]
    BY CallsAssumption
  <2>3. None \in Places
    BY DEF Places
  <2>4. QED
    BY <1>1, <2>1, <2>2, <2>3 DEF Types
<1>3. RunsAreAtCalls
  BY <1>1, PlanFacts DEF RunsAreAtCalls, AtCall, Op
<1>4. FlightIsKnown /\ FoldersAreBound
  BY DEF FlightIsKnown, FoldersAreBound
<1>5. MovesConverge
  BY <1>1 DEF MovesConverge, Op
<1>6. PendingIsUntouched
  <2>1. ASSUME NEW r \in Runs, NEW i \in DOMAIN Plan[r], Plan[r][i].op = "rename"
        PROVE  namedBy[Plan[r][i].file_id] # <<r, i>>
    <3>1. <<r, i>> \in Runs \X Nat
      BY PlanFacts
    <3>2. namedBy[Plan[r][i].file_id] = None
      BY <2>1, PlanFacts
    <3>3. QED
      BY <3>1, <3>2, CallsAssumption
  <2>2. QED
    BY <2>1 DEF PendingIsUntouched
<1>7. ExecutedStaysExecuted
  BY DEF ExecutedStaysExecuted
<1>8. QED
  BY <1>2, <1>3, <1>4, <1>5, <1>6, <1>7 DEF CallsInv

THEOREM CallsInductive == Spec => []CallsInv
<1>1. CallsInv /\ [Next]_vars => CallsInv'
  <2> SUFFICES ASSUME CallsInv, [Next]_vars PROVE CallsInv'
    OBVIOUS
  <2>1. Types' /\ RunsAreAtCalls' /\ FlightIsKnown' /\ FoldersAreBound'
    BY TypesStep, AtCallsStep, FlightStep, FoldersStep
  <2>2. MovesConverge' /\ PendingIsUntouched' /\ ExecutedStaysExecuted'
    BY MovesStep, PendingStep, ExecutedStep
  <2>3. QED
    BY <2>1, <2>2 DEF CallsInv
<1>2. QED
  BY <1>1, InitHolds, PTL DEF Spec
(* Whatever failures, retries and late copies there are, in plans of any    *)
(* length and with any number of attempts, an operation reported as         *)
(* executed is executed and stays so (client.py:215, apply.py:80).          *)
THEOREM ExecutedOperationsStay == Spec => []ExecutedStaysExecuted
BY CallsInductive, PTL DEF CallsInv

(* A folder no ref is bound to is there only where a transient failure was  *)
(* met (retry.py:42).                                                       *)
THEOREM StrayFoldersAreTwins == Spec => []StrayFoldersComeFromRetries
<1>1. CallsInv => StrayFoldersComeFromRetries
  <2> SUFFICES ASSUME CallsInv, NEW x \in folders,
                      bound[x[1]][Plan[x[1]][x[2]].ref] # x
               PROVE  <<x[1], x[2]>> \in faults
    BY DEF StrayFoldersComeFromRetries
  <2>1. QED
    BY DEF CallsInv, FoldersAreBound
<1>2. QED
  BY <1>1, CallsInductive, PTL

(* An operation that failed without a transient failure did nothing and     *)
(* leaves nothing on its way (client.py:208).                               *)
THEOREM CleanFailuresAreClean == Spec => []CleanFailureDoesNothing
<1>1. CallsInv => CleanFailureDoesNothing
  <2> SUFFICES ASSUME CallsInv, NEW r \in Runs, pc[r] = "failed",
                      <<r, cursor[r] + 1>> \notin faults
               PROVE  /\ \A m \in flight : m.id.run # r \/ m.id.i # cursor[r] + 1
                      /\ \A x \in folders : x[1] # r \/ x[2] # cursor[r] + 1
                      /\ Op(r).op = "rename" => namedBy[Op(r).file_id] # <<r, cursor[r] + 1>>
                      /\ Op(r).op = "move" /\ Alone(r, Op(r).file_id) =>
                           parents[Op(r).file_id] = Start[Op(r).file_id]
    BY DEF CleanFailureDoesNothing
  <2> USE DEF CallsInv
  <2>1. AtCall(r) /\ cursor[r] + 1 \in DOMAIN Plan[r] /\ cursor[r] \in Nat
    BY DEF RunsAreAtCalls, AtCall, Types
  <2>2. ASSUME NEW m \in flight, m.id.run = r, m.id.i = cursor[r] + 1 PROVE FALSE
    <3>1. awaited[r] = m /\ m.id.call = "write"
      BY <2>2, FlightFacts DEF Known
    <3>2. m # None
      BY CallsAssumption DEF Types
    <3>3. QED
      BY <2>1, <3>1, <3>2 DEF AtCall
  <2>3. ASSUME NEW x \in folders, x[1] = r, x[2] = cursor[r] + 1 PROVE FALSE
    BY <2>1, <2>3 DEF FoldersAreBound
  <2>4. /\ Op(r).op = "rename" => namedBy[Op(r).file_id] # <<r, cursor[r] + 1>>
        /\ Op(r).op = "move" /\ Alone(r, Op(r).file_id) =>
             parents[Op(r).file_id] = Start[Op(r).file_id]
    BY <2>1 DEF PendingIsUntouched, Op
  <2>5. QED
    BY <2>2, <2>3, <2>4
<1>2. QED
  BY <1>1, CallsInductive, PTL

-----------------------------------------------------------------------------
(* While a file is where no plan expects it, its moves are still to look.   *)
LooksAreAhead ==
  /\ kept \in [DOMAIN Start -> Places]
  /\ \A f \in DOMAIN Start : Unexpected(f) =>
       parents[f] = {kept[f]} /\ \A x \in MovesOf(f) : ~Begun(x)

LEMMA MoveFacts ==
  ASSUME NEW f, NEW x \in MovesOf(f)
  PROVE  /\ x[1] \in Runs /\ x[2] \in DOMAIN Plan[x[1]] /\ x = <<x[1], x[2]>> /\ x[2] \in Nat
         /\ Plan[x[1]][x[2]].op = "move" /\ Plan[x[1]][x[2]].file_id = f
BY PlanFacts DEF MovesOf, Moves

(* A request that writes is one of a move that has begun. *)
LEMMA FlightHasBegun ==
  ASSUME CallsInv, NEW m \in flight, NEW f, Plan[m.id.run][m.id.i].op = "move",
         Plan[m.id.run][m.id.i].file_id = f
  PROVE  \E x \in MovesOf(f) : Begun(x)
<1> USE DEF CallsInv
<1> DEFINE x == <<m.id.run, m.id.i>>
<1>1. m.id.run \in Runs /\ m.id.i \in DOMAIN Plan[m.id.run] /\ Known(m) /\ m # None
  BY FlightFacts, CallsAssumption
<1>2. x \in MovesOf(f) /\ x[1] = m.id.run /\ x[2] = m.id.i
  BY <1>1 DEF MovesOf, Moves
<1>3. CASE awaited[m.id.run] = m
  <2>1. m.id.i = cursor[m.id.run] + 1 /\ pc[m.id.run] = "write"
    BY <1>1, <1>3 DEF Known, RunsAreAtCalls, AtCall
  <2> QED BY <1>2, <2>1 DEF Begun
<1>4. CASE x \in faults
  BY <1>2, <1>4 DEF Begun
<1> QED BY <1>1, <1>3, <1>4 DEF Known

LEMMA LooksStep ==
  ASSUME CallsInv, LooksAreAhead, [Next]_vars
  PROVE  LooksAreAhead'
<1> USE DEF CallsInv
<1>0. \A r \in Runs : AtCall(r) /\ pc[r] \in {"get", "write"} \cup Ended /\ cursor[r] \in Nat
  BY DEF RunsAreAtCalls, Types
<1>1. ASSUME kept' = kept,
             \A f \in DOMAIN Start : Unexpected(f) =>
               /\ parents'[f] = parents[f]
               /\ \A x \in MovesOf(f) : ~Begun(x)'
      PROVE  LooksAreAhead'
  BY <1>1 DEF LooksAreAhead, Unexpected
<1>2. ASSUME NEW r \in Runs, Send(r) PROVE LooksAreAhead'
  BY <1>1, <1>2 DEF Send, driveVars, LooksAreAhead, Begun
<1>3. ASSUME NEW r \in Runs, Looked(r) PROVE LooksAreAhead'
  <2> SUFFICES ASSUME NEW f \in DOMAIN Start, Unexpected(f), NEW x \in MovesOf(f)
               PROVE  ~Begun(x)'
    BY <1>1, <1>3 DEF Looked, driveVars
  <2>1. ~Begun(x) /\ parents[f] = {kept[f]}
    BY DEF LooksAreAhead
  <2>2. Plan[x[1]][x[2]].expected # None /\ Plan[x[1]][x[2]].expected \notin parents[f]
    BY <2>1 DEF Unexpected
  <2>3. cursor' = cursor /\ faults' = faults
    BY <1>3 DEF Looked
  <2>4. CASE x[1] = r /\ x[2] = cursor[r] + 1
    <3>1. Op(r) = Plan[x[1]][x[2]] /\ Op(r).file_id = f
      BY <2>4, MoveFacts DEF Op
    <3>2. Enter(r, "failed")
      BY <1>3, <2>2, <3>1 DEF Looked
    <3>3. pc'[r] # "write"
      BY <3>2 DEF Enter, Types
    <3> QED BY <2>1, <2>3, <2>4, <3>3 DEF Begun
  <2>5. CASE x[1] = r /\ x[2] # cursor[r] + 1
    BY <2>1, <2>3, <2>5 DEF Begun
  <2>6. CASE x[1] # r
    <3>1. pc'[x[1]] = pc[x[1]]
      BY <1>3, <2>6, MoveFacts DEF Looked, Enter, Types
    <3> QED BY <2>1, <2>3, <3>1 DEF Begun
  <2> QED BY <2>4, <2>5, <2>6
<1>4. ASSUME NEW r \in Runs, Written(r) PROVE LooksAreAhead'
  <2> SUFFICES ASSUME NEW f \in DOMAIN Start, Unexpected(f)
               PROVE  parents'[f] = parents[f] /\ \A x \in MovesOf(f) : ~Begun(x)'
    BY <1>1, <1>4 DEF Written
  <2>1. \A x \in MovesOf(f) : ~Begun(x)
    BY DEF LooksAreAhead
  <2>2. awaited[r] \in flight /\ CarriedOut(awaited[r])
    BY <1>4 DEF Written
  <2>3. parents'[f] = parents[f]
    BY <2>1, <2>2, CarriedOutFacts, FlightHasBegun
  <2>4. ASSUME NEW x \in MovesOf(f), Begun(x)' PROVE FALSE
    <3>1. cursor'[r] = cursor[r] + 1 /\ pc'[r] = FirstCall(r, cursor[r] + 2) /\ faults' = faults
      BY <1>4 DEF Written, Enter, Types
    <3>2. CASE x[1] # r
      <4>1. pc'[x[1]] = pc[x[1]] /\ cursor'[x[1]] = cursor[x[1]]
        BY <1>4, <3>2, MoveFacts DEF Written, Enter, Types
      <4> QED BY <2>1, <2>4, <3>1, <4>1 DEF Begun
    <3>3. CASE x[1] = r
      <4>1. x[2] > cursor[r] /\ x[2] # cursor[r] + 1 /\ x \notin faults
        BY <1>0, <1>4, <2>1, <3>3, MoveFacts DEF Begun, Written
      <4>2. x[2] = cursor[r] + 2 /\ pc'[r] = "write"
        BY <1>0, <2>4, <3>1, <3>3, <4>1, MoveFacts DEF Begun
      <4>3. FirstCall(r, x[2]) # "write"
        BY <3>3, MoveFacts DEF FirstCall
      <4> QED BY <3>1, <4>2, <4>3
    <3> QED BY <3>2, <3>3
  <2> QED BY <2>3, <2>4
<1>5. ASSUME NEW r \in Runs, pc[r] \in {"get", "write"}, NEW how \in {"failed", "raised"},
             \/ Enter(r, how)
             \/ UNCHANGED pc,
             faults' = IF pc[r] = "write" THEN faults \cup {<<r, cursor[r] + 1>>} ELSE faults,
             UNCHANGED <<driveVars, cursor, kept>>
      PROVE  LooksAreAhead'
  <2> SUFFICES ASSUME NEW f \in DOMAIN Start, Unexpected(f), NEW x \in MovesOf(f), Begun(x)'
               PROVE  FALSE
    BY <1>1, <1>5 DEF driveVars
  <2>1. ~Begun(x)
    BY DEF LooksAreAhead
  <2>2. pc'[x[1]] = "write" => pc[x[1]] = "write"
    BY <1>5, MoveFacts DEF Enter, Types
  <2>3. x \in faults' => x \in faults \/ (pc[x[1]] = "write" /\ x[2] = cursor[x[1]] + 1)
    BY <1>5
  <2> QED BY <1>5, <2>1, <2>2, <2>3 DEF Begun
<1>6. ASSUME NEW r \in Runs, Refused(r) PROVE LooksAreAhead'
  <2> SUFFICES ASSUME NEW f \in DOMAIN Start, Unexpected(f), NEW x \in MovesOf(f), Begun(x)'
               PROVE  FALSE
    BY <1>1, <1>6 DEF Refused, driveVars
  <2>1. ~Begun(x)
    BY DEF LooksAreAhead
  <2>2. pc'[x[1]] = "write" => pc[x[1]] = "write"
    BY <1>6, MoveFacts DEF Refused, Enter, Types
  <2> QED BY <1>6, <2>1, <2>2 DEF Refused, Begun
<1>7. ASSUME NEW r \in Runs, NEW how \in {"failed", "raised"}, Transient(r, how)
      PROVE  LooksAreAhead'
  BY <1>5, <1>7 DEF Transient
<1>8. ASSUME NEW m \in flight, Late(m) PROVE LooksAreAhead'
  <2> SUFFICES ASSUME NEW f \in DOMAIN Start, Unexpected(f)
               PROVE  parents'[f] = parents[f] /\ \A x \in MovesOf(f) : ~Begun(x)'
    BY <1>1, <1>8 DEF Late
  <2>1. \A x \in MovesOf(f) : ~Begun(x)
    BY DEF LooksAreAhead
  <2>2. parents'[f] = parents[f]
    BY <1>8, <2>1, CarriedOutFacts, FlightHasBegun DEF Late
  <2> QED BY <1>8, <2>1, <2>2 DEF Late, runVars, Begun
<1>9. ASSUME NEW g \in DOMAIN Start, NEW d \in Hands, ByHand(g, d) PROVE LooksAreAhead'
  <2>1. UNCHANGED <<cursor, pc, faults>> /\ d \in Places /\ None \in Places
    BY <1>9 DEF ByHand, runVars, Places
  <2>2. kept' = [kept EXCEPT ![g] = IF \E x \in MovesOf(g) : Begun(x) THEN None ELSE d]
    BY <1>9 DEF ByHand
  <2>3. kept' \in [DOMAIN Start -> Places]
    BY <2>1, <2>2 DEF LooksAreAhead
  <2>4. parents' = [parents EXCEPT ![g] = {d}]
    BY <1>9 DEF ByHand
  <2>5. ASSUME NEW f \in DOMAIN Start, Unexpected(f)'
        PROVE  parents'[f] = {kept'[f]} /\ \A x \in MovesOf(f) : ~Begun(x)'
    <3>1. CASE f = g
      <4>1. kept'[g] = IF \E x \in MovesOf(g) : Begun(x) THEN None ELSE d
        BY <2>2 DEF LooksAreAhead
      <4>2. kept'[g] # None
        BY <2>5, <3>1 DEF Unexpected
      <4>3. kept'[g] = d /\ \A x \in MovesOf(g) : ~Begun(x)
        BY <4>1, <4>2
      <4> QED BY <2>1, <2>4, <3>1, <4>3 DEF Types, Begun
    <3>2. CASE f # g
      <4>1. kept'[f] = kept[f] /\ parents'[f] = parents[f]
        BY <2>2, <2>4, <3>2 DEF LooksAreAhead, Types
      <4>2. Unexpected(f)
        BY <2>5, <4>1 DEF Unexpected
      <4> QED BY <2>1, <4>1, <4>2 DEF LooksAreAhead, Begun
    <3> QED BY <3>1, <3>2
  <2> QED BY <2>3, <2>5 DEF LooksAreAhead
<1>10. CASE UNCHANGED vars
  BY <1>1, <1>10 DEF vars, driveVars, runVars, LooksAreAhead, Begun
<1> QED BY <1>2, <1>3, <1>4, <1>6, <1>7, <1>8, <1>9, <1>10 DEF Next, Answer

(* What the owner does to a file before a move of it has looked is seen, and *)
(* where no plan expects the file it stays (client.py:207).                  *)
THEOREM ConflictsAreNoticed == Spec => []ConflictsAreSeen
<1>1. Init => LooksAreAhead
  BY DEF Init, LooksAreAhead, Unexpected, Places
<1>2. CallsInv /\ LooksAreAhead /\ [Next]_vars => LooksAreAhead'
  BY LooksStep
<1>3. LooksAreAhead => ConflictsAreSeen
  BY DEF LooksAreAhead, ConflictsAreSeen
<1> QED BY <1>1, <1>2, <1>3, CallsInductive, PTL DEF Spec
=============================================================================
