------------------------------ MODULE HumanGate ------------------------------
(***************************************************************************)
(* What the approval gate promises, without saying how: a person grants a  *)
(* plan for a limited time; a run may change Drive only while it holds a   *)
(* grant of its own, spent before the grant lapsed, for exactly the plan   *)
(* it carries out; the changes of a run follow the order of the plan; and  *)
(* nobody gives a grant back.  ApplyGate implements this specification.    *)
(***************************************************************************)
EXTENDS Integers

CONSTANTS
  Plans,      \* the stored plans
  PlanLen,    \* how many operations a plan has
  Runs,       \* attempts to carry out a plan
  Grants,     \* acts of approval
  TTL,        \* how long a grant is good for
  None

VARIABLES
  clock,      \* time
  grant,      \* what each act of approval so far has granted
  holds,      \* the grant each run has spent, None for a run with none
  changes     \* <<run, plan, i>>: a run changed Drive as operation i of plan says

vars == <<clock, grant, holds, changes>>

Init ==
  /\ clock = 0
  /\ grant = [g \in {} |-> None]
  /\ holds = [r \in Runs |-> None]
  /\ changes = {}

(* A person approves plan p.  The time is taken before the grant is stored. *)
Issue(g, p) ==
  /\ g \notin DOMAIN grant
  /\ \E t \in 0..clock :
       grant' = [x \in DOMAIN grant \cup {g} |->
                   IF x = g THEN [plan |-> p, from |-> t, until |-> t + TTL] ELSE grant[x]]
  /\ UNCHANGED <<clock, holds, changes>>

(* A run takes a live grant nobody has spent. *)
Spend(r, g) ==
  /\ holds[r] = None
  /\ g \in DOMAIN grant
  /\ \A other \in Runs : holds[other] # g
  /\ \E t \in 0..clock : grant[g].from <= t /\ t < grant[g].until
  /\ holds' = [holds EXCEPT ![r] = g]
  /\ UNCHANGED <<clock, grant, changes>>

(* A run that holds a grant carries out the next operation of that plan. *)
Change(r) ==
  /\ holds[r] # None
  /\ LET p == grant[holds[r]].plan IN
     \E i \in 1..PlanLen[p] :
       /\ \A j \in 1..(i - 1) : <<r, p, j>> \in changes
       /\ changes' = changes \cup {<<r, p, i>>}
  /\ UNCHANGED <<clock, grant, holds>>

Tick == clock' = clock + 1 /\ UNCHANGED <<grant, holds, changes>>

Next ==
  \/ \E g \in Grants, p \in Plans : Issue(g, p)
  \/ \E r \in Runs, g \in Grants : Spend(r, g)
  \/ \E r \in Runs : Change(r)
  \/ Tick

Spec == Init /\ [][Next]_vars
=============================================================================
