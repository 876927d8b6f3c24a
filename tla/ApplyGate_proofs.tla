--------------------------- MODULE ApplyGate_proofs ---------------------------
(***************************************************************************)
(* Theorems about ApplyGate, for any set of proposals, calls and commands, *)
(* any plans and any lifetime of approvals.                                *)
(*                                                                         *)
(* The inductive invariant IInv is the conjunction of what a call knows at *)
(* each point of consume_approval (CallsKnow), what a command knows before *)
(* it inserts (CommandsKnow), the arithmetic of every stored row           *)
(* (RowsAreSound), SingleUse, and the link between Drive and the claims    *)
(* (DriveIsClaimed).                                                       *)
(***************************************************************************)
EXTENDS ApplyGate, FiniteSetTheorems, TLAPS

(* What a call has established by the time it reaches each step. *)
CallKnows(c) ==
  /\ pc[c] # "idle" => target[c] \in Proposals
  /\ pc[c] = "audit" => verdict[c] \in AuditRows
  /\ pc[c] \in {"revalidate", "latest", "check", "claim", "execute", "report"}
       => ~dryRun[c] /\ c \notin ReadOnly
  /\ pc[c] \in {"check", "claim"} => row[c] \in ApprovalsOf(target[c])
  /\ pc[c] = "claim"
       => stamp[c] \in Nat /\ approvals[row[c]].created <= stamp[c] /\ stamp[c] <= now
  /\ pc[c] \in {"idle", "load", "revalidate", "latest", "check", "claim"} => claimed[c] = None
  /\ pc[c] \in {"execute", "report"} => claimed[c] # None

CallsKnow == \A c \in Calls : CallKnows(c)

(* What a command has established before its INSERT. *)
CommandsKnow ==
  \A o \in Commands :
    /\ cliPc[o] \in {"prompt", "confirmed", "stamp", "insert", "audit"} => cliTarget[o] \in Proposals
    /\ cliPc[o] = "insert" => cliStamp[o] \in Nat /\ cliStamp[o] <= now
    /\ cliPc[o] \in {"idle", "prompt", "confirmed", "stamp", "insert"} => approvals[o] = None

(* A stored approval was issued in the past, lives TTL, binds its proposal's *)
(* plan, and was consumed, if at all, within its life.                       *)
RowsAreSound ==
  \A a \in Commands : approvals[a] # None =>
    LET r == approvals[a] IN
    /\ r.created <= now
    /\ r.expires = r.created + TTL
    /\ r.plan_hash = PlanHash[r.proposal]
    /\ r.consumed # None => r.created <= r.consumed /\ r.consumed < r.expires

(* A call's claim is a consumed approval of its target, made by a real run. *)
ClaimsAreConsumed ==
  \A c \in Calls : claimed[c] # None =>
    /\ claimed[c] \in ApprovalsOf(target[c])
    /\ approvals[claimed[c]].consumed # None
    /\ ~dryRun[c] /\ c \notin ReadOnly

(* Drive changed only for claimed approvals, and the operations a call has   *)
(* behind it are all there.                                                  *)
DriveIsClaimed ==
  /\ \A x \in drive : x[2] = target[x[1]] /\ claimed[x[1]] # None
  /\ \A c \in Calls : \A j \in 1..cursor[c] : <<c, target[c], j>> \in drive

(* The inductive invariant: the types, what each process knows when it gets to  *)
(* a step, and how approvals, claims and the changes of Drive hang together.    *)
IInv == /\ TypeOK /\ CallsKnow /\ CommandsKnow /\ RowsAreSound
        /\ ClaimsAreConsumed /\ SingleUse /\ DriveIsClaimed

-----------------------------------------------------------------------------
(* The rows audited() writes are audit rows. *)
LEMMA AuditRowsHold ==
  /\ \A by \in BOOLEAN : Row("ok", "", by) \in AuditRows
  /\ Failure("proposal_not_found") \in AuditRows
  /\ Failure("internal_error") \in AuditRows
  /\ Refused("proposal_not_pending") \in AuditRows
  /\ Refused("mutations_disabled") \in AuditRows
  /\ Refused("plan_rejected") \in AuditRows
  /\ Refused("approval_required") \in AuditRows
  /\ Refused("approval_invalid") \in AuditRows
  /\ Refused("approval_not_interactive") \in AuditRows
BY DEF AuditRows, RefusalCodes, ErrorCodes

(* Leaving the body of the tool with an audit row keeps the types. *)
LEMMA LeaveTypes ==
  ASSUME CallTypes, NEW c \in Calls, NEW r \in AuditRows, Leave(c, r),
         UNCHANGED <<target, dryRun, cursor, halted>>
  PROVE  CallTypes'
BY DEF CallTypes, Leave, CallPcs

(* So does going on to the next step. *)
LEMMA GotoTypes ==
  ASSUME CallTypes, NEW c \in Calls, NEW l \in CallPcs, Goto(c, l),
         UNCHANGED <<target, dryRun, cursor, halted>>,
         row' \in [Calls -> Commands \cup {None}],
         stamp' \in [Calls -> Nat \cup {None}],
         claimed' \in [Calls -> Commands \cup {None}]
  PROVE  CallTypes'
BY DEF CallTypes, Goto

(* Every step keeps the types of the calls' locals. *)
LEMMA CallTypesStep == IInv /\ [Next]_vars => CallTypes'
<1> SUFFICES ASSUME StoreTypes, CallTypes, CallsKnow, [Next]_vars PROVE CallTypes'
  BY DEF IInv, TypeOK
<1> USE DEF CallTypes
<1>1. CASE UNCHANGED callVars
  BY <1>1 DEF callVars
<1>2. ASSUME NEW c \in Calls, NEW p \in Proposals, NEW d \in BOOLEAN, Invoke(c, p, d)
      PROVE  CallTypes'
  BY <1>2 DEF Invoke, CallPcs, Running
<1>3. ASSUME NEW c \in Calls, Load(c) PROVE CallTypes'
  <2>1. Goto(c, "revalidate") /\ UNCHANGED <<row, stamp, claimed>> => CallTypes'
    BY <1>3, GotoTypes DEF Load, CallPcs, Running
  <2>2. QED
    BY <1>3, <2>1, LeaveTypes, AuditRowsHold DEF Load
<1>4. ASSUME NEW c \in Calls, Revalidate(c) PROVE CallTypes'
  <2>1. Goto(c, "latest") /\ UNCHANGED <<row, stamp, claimed>> => CallTypes'
    BY <1>4, GotoTypes DEF Revalidate, CallPcs, Running
  <2>2. QED
    BY <1>4, <2>1, LeaveTypes, AuditRowsHold DEF Revalidate
<1>5. ASSUME NEW c \in Calls, ReadApproval(c) PROVE CallTypes'
  <2>1. ASSUME NEW a \in Commands, Goto(c, "check"), row' = [row EXCEPT ![c] = a],
               UNCHANGED <<stamp, claimed>>
        PROVE  CallTypes'
    BY <1>5, <2>1, GotoTypes DEF ReadApproval, CallPcs, Running
  <2>2. QED
    BY <1>5, <2>1, LeaveTypes, AuditRowsHold DEF ReadApproval, ApprovalsOf
<1>6. ASSUME NEW c \in Calls, CheckExpiry(c) PROVE CallTypes'
  <2>1. ASSUME Goto(c, "claim"), stamp' = [stamp EXCEPT ![c] = now], UNCHANGED <<row, claimed>>
        PROVE  CallTypes'
    BY <1>6, <2>1, GotoTypes DEF CheckExpiry, CallPcs, Running, StoreTypes
  <2>2. QED
    BY <1>6, <2>1, LeaveTypes, AuditRowsHold DEF CheckExpiry
<1>7. ASSUME NEW c \in Calls, Claim(c) PROVE CallTypes'
  <2>1. row[c] \in Commands
    BY <1>7 DEF Claim, CallsKnow, CallKnows, ApprovalsOf
  <2>2. ASSUME Goto(c, "execute"), claimed' = [claimed EXCEPT ![c] = row[c]],
               UNCHANGED <<row, stamp>>
        PROVE  CallTypes'
    BY <1>7, <2>1, <2>2, GotoTypes DEF Claim, CallPcs, Running
  <2>3. QED
    BY <1>7, <2>2, LeaveTypes, AuditRowsHold DEF Claim
<1>8. ASSUME NEW c \in Calls, OpExecuted(c) PROVE CallTypes'
  BY <1>8 DEF OpExecuted
<1>9. ASSUME NEW c \in Calls, OpFailed(c) PROVE CallTypes'
  BY <1>9 DEF OpFailed
<1>10. ASSUME NEW c \in Calls, SetStatus(c) PROVE CallTypes'
  BY <1>10 DEF SetStatus, Goto, CallPcs, Running
<1>11. ASSUME NEW c \in Calls, Report(c) PROVE CallTypes'
  BY <1>11, AuditRowsHold DEF Report, Leave, CallPcs
<1>12. ASSUME NEW c \in Calls, Raise(c) PROVE CallTypes'
  BY <1>12, AuditRowsHold DEF Raise, Leave, CallPcs, ErrorCodes
<1>13. ASSUME NEW c \in Calls, Audit(c) PROVE CallTypes'
  BY <1>13 DEF Audit, CallPcs
<1>14. ASSUME NEW c \in Calls, Crash(c) PROVE CallTypes'
  BY <1>14 DEF Crash, CallPcs
<1>15. CASE Tick \/ (\E p \in Proposals : Create(p)) \/ UNCHANGED vars
  BY <1>1, <1>15 DEF Tick, Create, vars
<1>16. ASSUME NEW o \in Commands,
              \/ NoTerminal(o) \/ CliStep(o) \/ CliCrash(o)
              \/ \E p \in Proposals : ShowPlan(o, p)
              \/ \E yes \in BOOLEAN : Answer(o, yes)
       PROVE  CallTypes'
  BY <1>1, <1>16
  DEF NoTerminal, ShowPlan, Answer, CliStep, CheckPending, ReadClock, InsertApproval,
      AuditApproval, CliCrash
<1>17. QED
  BY <1>2, <1>3, <1>4, <1>5, <1>6, <1>7, <1>8, <1>9, <1>10, <1>11, <1>12, <1>13, <1>14,
     <1>15, <1>16
  DEF Next, CallStep

(* Every step keeps the types of the commands' locals. *)
LEMMA CliTypesStep == IInv /\ [Next]_vars => CliTypes'
<1> SUFFICES ASSUME StoreTypes, CliTypes, [Next]_vars PROVE CliTypes'
  BY DEF IInv, TypeOK
<1> USE DEF CliTypes, CliGoto, CliPcs
<1>1. CASE UNCHANGED cliVars
  BY <1>1 DEF cliVars
<1>2. ASSUME NEW o \in Commands, NoTerminal(o) PROVE CliTypes'
  BY <1>2 DEF NoTerminal
<1>3. ASSUME NEW o \in Commands, NEW p \in Proposals, ShowPlan(o, p) PROVE CliTypes'
  BY <1>3 DEF ShowPlan
<1>4. ASSUME NEW o \in Commands, NEW yes \in BOOLEAN, Answer(o, yes) PROVE CliTypes'
  BY <1>4 DEF Answer
<1>5. ASSUME NEW o \in Commands, CheckPending(o) PROVE CliTypes'
  BY <1>5 DEF CheckPending
<1>6. ASSUME NEW o \in Commands, ReadClock(o) PROVE CliTypes'
  BY <1>6 DEF ReadClock, StoreTypes
<1>7. ASSUME NEW o \in Commands, InsertApproval(o) PROVE CliTypes'
  BY <1>7 DEF InsertApproval
<1>8. ASSUME NEW o \in Commands, AuditApproval(o) PROVE CliTypes'
  BY <1>8 DEF AuditApproval
<1>9. ASSUME NEW o \in Commands, CliCrash(o) PROVE CliTypes'
  BY <1>9 DEF CliCrash
<1>10. CASE Tick \/ (\E p \in Proposals : Create(p)) \/ UNCHANGED vars
  BY <1>1, <1>10 DEF Tick, Create, vars
<1>11. ASSUME NEW c \in Calls,
              \/ CallStep(c) \/ Raise(c) \/ Crash(c)
              \/ \E p \in Proposals, d \in BOOLEAN : Invoke(c, p, d)
       PROVE  CliTypes'
  BY <1>1, <1>11
  DEF Invoke, CallStep, Load, Revalidate, ReadApproval, CheckExpiry, Claim, OpExecuted,
      OpFailed, SetStatus, Report, Audit, Raise, Crash
<1>12. QED
  BY <1>2, <1>3, <1>4, <1>5, <1>6, <1>7, <1>8, <1>9, <1>10, <1>11 DEF Next, CliStep

(* Every step keeps the types of the tables, of Drive and of the clock. *)
LEMMA StoreTypesStep == IInv /\ [Next]_vars => StoreTypes'
<1> SUFFICES ASSUME StoreTypes, CallTypes, CliTypes, CallsKnow, CommandsKnow, [Next]_vars
             PROVE  StoreTypes'
  BY DEF IInv, TypeOK
<1>1. CASE UNCHANGED <<now, dbVars, drive>>
  BY <1>1 DEF StoreTypes, dbVars
<1>2. CASE Tick
  BY <1>2 DEF StoreTypes, Tick, dbVars
<1>3. ASSUME NEW p \in Proposals, Create(p) PROVE StoreTypes'
  BY <1>3 DEF StoreTypes, Create, Statuses
<1>4. ASSUME NEW c \in Calls, Claim(c) PROVE StoreTypes'
  <2>1. row[c] \in Commands /\ approvals[row[c]] \in ApprovalRows
    BY <1>4 DEF Claim, CallsKnow, CallKnows, ApprovalsOf, StoreTypes
  <2>2. stamp[c] \in Nat
    BY <1>4 DEF Claim, CallsKnow, CallKnows
  <2>3. [approvals[row[c]] EXCEPT !.consumed = stamp[c]] \in ApprovalRows
    BY <2>1, <2>2 DEF ApprovalRows
  <2>4. QED
    BY <1>4, <2>1, <2>3 DEF Claim, StoreTypes
<1>5. ASSUME NEW c \in Calls, OpExecuted(c) \/ OpFailed(c) \/ Raise(c) PROVE StoreTypes'
  <2>1. CASE UNCHANGED drive
    BY <1>1, <1>5, <2>1 DEF OpExecuted, OpFailed, Raise, dbVars
  <2>2. CASE Operating(c) /\ TakeEffect(c)
    <3>1. <<c, target[c], cursor[c] + 1>> \in Calls \X Proposals \X Nat
      BY <2>2 DEF Operating, CallsKnow, CallKnows, CallTypes
    <3>2. QED
      BY <1>5, <2>2, <3>1 DEF StoreTypes, TakeEffect, OpExecuted, OpFailed, Raise, dbVars
  <2>3. QED
    BY <1>5, <2>1, <2>2 DEF OpExecuted, OpFailed, Raise
<1>6. ASSUME NEW c \in Calls, SetStatus(c) PROVE StoreTypes'
  BY <1>6 DEF StoreTypes, SetStatus, FinalStatus, Statuses
<1>7. ASSUME NEW c \in Calls, Audit(c) PROVE StoreTypes'
  <2>1. verdict[c] \in AuditRows
    BY <1>7 DEF Audit, CallsKnow, CallKnows
  <2>2. QED
    BY <1>7, <2>1 DEF StoreTypes, Audit
<1>8. ASSUME NEW o \in Commands, NoTerminal(o) \/ AuditApproval(o) PROVE StoreTypes'
  <2>1. ASSUME NEW r \in AuditRows, audit' = [audit EXCEPT ![o] = Append(@, r)],
               UNCHANGED <<now, status, approvals, drive>>
        PROVE  StoreTypes'
    BY <2>1 DEF StoreTypes
  <2>2. Refused("approval_not_interactive") \in AuditRows /\ Row("ok", "", TRUE) \in AuditRows
    BY AuditRowsHold
  <2>3. QED
    BY <1>8, <2>1, <2>2 DEF NoTerminal, AuditApproval
<1>9. ASSUME NEW o \in Commands, InsertApproval(o) PROVE StoreTypes'
  <2>1. cliTarget[o] \in Proposals /\ cliStamp[o] \in Nat
    BY <1>9 DEF InsertApproval, CommandsKnow
  <2>2. [proposal |-> cliTarget[o], plan_hash |-> PlanHash[cliTarget[o]],
         created |-> cliStamp[o], expires |-> cliStamp[o] + TTL, consumed |-> None]
          \in ApprovalRows
    BY <2>1, ConstantsAssumption DEF ApprovalRows
  <2>3. QED
    BY <1>9, <2>2 DEF StoreTypes, InsertApproval, WithApproval
<1>10. ASSUME NEW c \in Calls,
              \/ Load(c) \/ Revalidate(c) \/ ReadApproval(c) \/ CheckExpiry(c) \/ Report(c)
              \/ Crash(c)
              \/ \E p \in Proposals, d \in BOOLEAN : Invoke(c, p, d)
       PROVE  StoreTypes'
  BY <1>1, <1>10
  DEF Invoke, Load, Revalidate, ReadApproval, CheckExpiry, Report, Crash
<1>11. ASSUME NEW o \in Commands,
              \/ CheckPending(o) \/ ReadClock(o) \/ CliCrash(o)
              \/ \E p \in Proposals : ShowPlan(o, p)
              \/ \E yes \in BOOLEAN : Answer(o, yes)
       PROVE  StoreTypes'
  BY <1>1, <1>11 DEF ShowPlan, Answer, CheckPending, ReadClock, CliCrash
<1>12. CASE UNCHANGED vars
  BY <1>1, <1>12 DEF vars
<1>13. QED
  BY <1>2, <1>3, <1>4, <1>5, <1>6, <1>7, <1>8, <1>9, <1>10, <1>11, <1>12
  DEF Next, CallStep, CliStep

-----------------------------------------------------------------------------
(* What a step may do to the approvals table and to the clock: nothing is    *)
(* taken back, only consumed_at is ever filled in.                           *)
StoreGrows ==
  /\ now' \in Nat /\ now <= now'
  /\ \A a \in Commands : approvals[a] # None =>
       /\ approvals'[a] # None
       /\ approvals'[a].proposal = approvals[a].proposal
       /\ approvals'[a].plan_hash = approvals[a].plan_hash
       /\ approvals'[a].created = approvals[a].created
       /\ approvals'[a].expires = approvals[a].expires
       /\ approvals[a].consumed # None => approvals'[a].consumed = approvals[a].consumed

(* The UPDATE of consume_approval, when it matches a row. *)
LEMMA ClaimWrites ==
  ASSUME IInv, NEW c \in Calls, Claim(c), Claimable(row[c], target[c], stamp[c])
  PROVE  /\ row[c] \in Commands
         /\ approvals[row[c]] \in ApprovalRows
         /\ approvals[row[c]].consumed = None
         /\ [approvals[row[c]] EXCEPT !.consumed = stamp[c]] \in ApprovalRows
         /\ stamp[c] \in Nat
         /\ approvals' = [approvals EXCEPT ![row[c]] =
                            [approvals[row[c]] EXCEPT !.consumed = stamp[c]]]
<1>1. row[c] \in Commands /\ approvals[row[c]] \in ApprovalRows
  BY DEF IInv, Claim, CallsKnow, CallKnows, ApprovalsOf, TypeOK, StoreTypes
<1>2. stamp[c] \in Nat
  BY DEF IInv, Claim, CallsKnow, CallKnows
<1>3. [approvals[row[c]] EXCEPT !.consumed = stamp[c]] \in ApprovalRows
  BY <1>1, <1>2 DEF ApprovalRows
<1>4. QED
  BY <1>1, <1>2, <1>3 DEF Claim, Claimable

(* Every step lets the approvals table and the clock only grow. *)
LEMMA StoreGrowsStep == IInv /\ [Next]_vars => StoreGrows
<1> SUFFICES ASSUME IInv, [Next]_vars PROVE StoreGrows
  OBVIOUS
<1>0. now \in Nat /\ approvals \in [Commands -> ApprovalRows \cup {None}]
  BY DEF IInv, TypeOK, StoreTypes
<1>1. CASE UNCHANGED <<now, approvals>>
  BY <1>0, <1>1 DEF StoreGrows
<1>2. CASE Tick
  BY <1>0, <1>2 DEF StoreGrows, Tick, dbVars
<1>3. ASSUME NEW c \in Calls, Claim(c), Claimable(row[c], target[c], stamp[c]) PROVE StoreGrows
  <2>1. now' = now
    BY <1>3 DEF Claim
  <2>2. ASSUME NEW a \in Commands, a # row[c] PROVE approvals'[a] = approvals[a]
    BY <1>0, <1>3, <2>2, ClaimWrites
  <2>3. approvals'[row[c]] = [approvals[row[c]] EXCEPT !.consumed = stamp[c]]
    BY <1>0, <1>3, ClaimWrites
  <2>4. /\ approvals'[row[c]] # None
        /\ approvals'[row[c]].proposal = approvals[row[c]].proposal
        /\ approvals'[row[c]].plan_hash = approvals[row[c]].plan_hash
        /\ approvals'[row[c]].created = approvals[row[c]].created
        /\ approvals'[row[c]].expires = approvals[row[c]].expires
        /\ approvals[row[c]].consumed = None
    BY <1>3, <2>3, ClaimWrites, ConstantsAssumption DEF ApprovalRows
  <2>5. QED
    BY <1>0, <2>1, <2>2, <2>4 DEF StoreGrows
<1>4. ASSUME NEW o \in Commands, InsertApproval(o) PROVE StoreGrows
  <2>1. approvals[o] = None /\ now' = now
    BY <1>4 DEF IInv, CommandsKnow, InsertApproval
  <2>2. \A a \in Commands : a # o => approvals'[a] = approvals[a]
    BY <1>0, <1>4 DEF InsertApproval, WithApproval
  <2>3. QED
    BY <1>0, <2>1, <2>2 DEF StoreGrows
<1>5. ASSUME NEW c \in Calls,
             \/ CallStep(c) \/ Raise(c) \/ Crash(c)
             \/ \E p \in Proposals, d \in BOOLEAN : Invoke(c, p, d)
      PROVE  StoreGrows
  BY <1>1, <1>3, <1>5
  DEF Invoke, CallStep, Load, Revalidate, ReadApproval, CheckExpiry, Claim, OpExecuted,
      OpFailed, SetStatus, Report, Audit, Raise, Crash, dbVars
<1>6. ASSUME NEW o \in Commands,
             \/ NoTerminal(o) \/ CliStep(o) \/ CliCrash(o)
             \/ \E p \in Proposals : ShowPlan(o, p)
             \/ \E yes \in BOOLEAN : Answer(o, yes)
      PROVE  StoreGrows
  BY <1>1, <1>4, <1>6
  DEF NoTerminal, ShowPlan, Answer, CliStep, CheckPending, ReadClock, AuditApproval,
      CliCrash, dbVars
<1>7. CASE (\E p \in Proposals : Create(p)) \/ UNCHANGED vars
  BY <1>1, <1>7 DEF Create, vars, dbVars
<1>8. QED
  BY <1>2, <1>5, <1>6, <1>7 DEF Next

(* A row, once stored, stays among the approvals of its proposal. *)
LEMMA ApprovalsOfGrow ==
  ASSUME StoreGrows, NEW p, NEW a \in ApprovalsOf(p)
  PROVE  a \in ApprovalsOf(p)' /\ approvals'[a].created = approvals[a].created
BY DEF StoreGrows, ApprovalsOf


(* A call that is not touched knows what it knew. *)
LEMMA CallKnowsFrame ==
  ASSUME TypeOK, StoreGrows, NEW c \in Calls, CallKnows(c),
         pc'[c] = pc[c], target'[c] = target[c], dryRun'[c] = dryRun[c], row'[c] = row[c],
         stamp'[c] = stamp[c], claimed'[c] = claimed[c], verdict'[c] = verdict[c]
  PROVE  CallKnows(c)'
<1>1. ASSUME pc[c] \in {"check", "claim"}
      PROVE  /\ row[c] \in ApprovalsOf(target[c])'
             /\ approvals'[row[c]].created = approvals[row[c]].created
  <2>1. row[c] \in ApprovalsOf(target[c])
    BY <1>1 DEF CallKnows
  <2>2. row[c] \in Commands /\ approvals[row[c]] # None /\ approvals[row[c]].proposal = target[c]
    BY <2>1 DEF ApprovalsOf
  <2>3. QED
    BY <2>2 DEF StoreGrows, ApprovalsOf
<1>2. ASSUME pc[c] = "claim" PROVE stamp[c] \in Nat /\ stamp[c] <= now'
  <2>1. now \in Nat /\ now' \in Int /\ now <= now'
    BY DEF TypeOK, StoreTypes, StoreGrows
  <2>2. QED
    BY <1>2, <2>1 DEF CallKnows
<1>3. QED
  BY <1>1, <1>2 DEF CallKnows, ApprovalsOf

(* Leaving the body of the tool asks nothing of the call. *)
LEMMA CallKnowsLeave ==
  ASSUME CallTypes, NEW c \in Calls, CallKnows(c), NEW r \in AuditRows, Leave(c, r),
         target' = target, pc[c] # "idle"
  PROVE  CallKnows(c)'
BY DEF CallKnows, CallTypes, Leave

(* Every step keeps what the calls have established, the stepping call gaining *)
(* what its next step rests on.                                                *)
LEMMA CallsKnowStep == IInv /\ [Next]_vars => CallsKnow'
<1> SUFFICES ASSUME IInv, [Next]_vars, NEW k \in Calls PROVE CallKnows(k)'
  BY DEF CallsKnow
<1>0. TypeOK /\ CallTypes /\ CallKnows(k) /\ StoreGrows
  BY StoreGrowsStep DEF IInv, CallsKnow, TypeOK
<1>1. CASE UNCHANGED callVars
  BY <1>0, <1>1, CallKnowsFrame DEF callVars
<1>2. ASSUME NEW c \in Calls, CallStep(c) \/ Raise(c) \/ Crash(c), c # k PROVE CallKnows(k)'
  <2>1. /\ pc'[k] = pc[k] /\ target'[k] = target[k] /\ dryRun'[k] = dryRun[k]
        /\ row'[k] = row[k] /\ stamp'[k] = stamp[k] /\ claimed'[k] = claimed[k]
        /\ verdict'[k] = verdict[k]
    BY <1>0, <1>2
    DEF CallTypes, CallStep, Load, Revalidate, ReadApproval, CheckExpiry, Claim, OpExecuted,
        OpFailed, SetStatus, Report, Audit, Raise, Crash, Leave, Goto
  <2>2. QED
    BY <1>0, <2>1, CallKnowsFrame
<1>3. ASSUME NEW c \in Calls, NEW p \in Proposals, NEW d \in BOOLEAN, Invoke(c, p, d)
      PROVE  CallKnows(k)'
  <2>1. CASE c = k
    BY <1>0, <1>3, <2>1 DEF Invoke, CallKnows, CallTypes
  <2>2. CASE c # k
    BY <1>0, <1>3, <2>2, CallKnowsFrame DEF Invoke, CallTypes
  <2>3. QED
    BY <2>1, <2>2
<1>4. CASE Load(k)
  <2>1. target' = target /\ pc[k] # "idle"
    BY <1>4 DEF Load
  <2>2. CASE \E r \in AuditRows : Leave(k, r)
    BY <1>0, <2>1, <2>2, CallKnowsLeave
  <2>3. CASE Goto(k, "revalidate") /\ ~dryRun[k] /\ k \notin ReadOnly
                /\ UNCHANGED <<row, stamp, claimed>>
    BY <1>0, <1>4, <2>3 DEF Load, Goto, CallKnows, CallTypes
  <2>4. QED
    BY <1>4, <2>2, <2>3, AuditRowsHold DEF Load
<1>5. CASE Revalidate(k)
  <2>1. target' = target /\ pc[k] # "idle"
    BY <1>5 DEF Revalidate
  <2>2. CASE \E r \in AuditRows : Leave(k, r)
    BY <1>0, <2>1, <2>2, CallKnowsLeave
  <2>3. CASE Goto(k, "latest") /\ UNCHANGED <<row, stamp, claimed>>
    BY <1>0, <1>5, <2>3 DEF Revalidate, Goto, CallKnows, CallTypes
  <2>4. QED
    BY <1>5, <2>2, <2>3, AuditRowsHold DEF Revalidate
<1>6. CASE ReadApproval(k)
  <2>1. target' = target /\ pc[k] = "latest"
    BY <1>6 DEF ReadApproval
  <2>2. CASE \E r \in AuditRows : Leave(k, r)
    BY <1>0, <2>1, <2>2, CallKnowsLeave
  <2>3. ASSUME NEW a \in ApprovalsOf(target[k]), Goto(k, "check"), row' = [row EXCEPT ![k] = a],
               UNCHANGED <<stamp, claimed>>
        PROVE  CallKnows(k)'
    <3>1. a \in ApprovalsOf(target[k])'
      BY <1>0, <2>1, <2>3, ApprovalsOfGrow
    <3>2. row'[k] = a /\ pc'[k] = "check"
      BY <1>0, <2>3 DEF CallTypes, Goto
    <3>3. QED
      BY <1>0, <1>6, <2>1, <2>3, <3>1, <3>2 DEF ReadApproval, CallKnows
  <2>4. QED
    BY <1>6, <2>2, <2>3, AuditRowsHold DEF ReadApproval
<1>7. CASE CheckExpiry(k)
  <2>1. target' = target /\ pc[k] = "check"
    BY <1>7 DEF CheckExpiry
  <2>2. CASE \E r \in AuditRows : Leave(k, r)
    BY <1>0, <2>1, <2>2, CallKnowsLeave
  <2>3. CASE Goto(k, "claim") /\ stamp' = [stamp EXCEPT ![k] = now] /\ UNCHANGED <<row, claimed>>
    <3>1. row[k] \in ApprovalsOf(target[k])
      BY <1>0, <2>1 DEF CallKnows
    <3>2. now \in Nat /\ approvals[row[k]].created <= now
      BY <3>1 DEF IInv, TypeOK, StoreTypes, RowsAreSound, ApprovalsOf
    <3>3. UNCHANGED <<now, approvals>> /\ pc'[k] = "claim" /\ stamp'[k] = now
      BY <1>0, <1>7, <2>3 DEF CheckExpiry, CallTypes, Goto, dbVars
    <3>4. QED
      BY <1>0, <1>7, <2>1, <2>3, <3>1, <3>2, <3>3 DEF CheckExpiry, CallKnows, ApprovalsOf
  <2>4. QED
    BY <1>7, <2>2, <2>3, AuditRowsHold DEF CheckExpiry
<1>8. CASE Claim(k)
  <2>1. target' = target /\ pc[k] = "claim"
    BY <1>8 DEF Claim
  <2>2. CASE \E r \in AuditRows : Leave(k, r)
    BY <1>0, <2>1, <2>2, CallKnowsLeave
  <2>3. CASE Goto(k, "execute") /\ claimed' = [claimed EXCEPT ![k] = row[k]]
    <3>1. row[k] \in Commands /\ row[k] # None
      BY <1>0, <2>1, ConstantsAssumption DEF CallKnows, ApprovalsOf
    <3>2. pc'[k] = "execute" /\ claimed'[k] = row[k]
      BY <1>0, <2>3 DEF CallTypes, Goto
    <3>3. QED
      BY <1>0, <1>8, <2>1, <3>1, <3>2 DEF Claim, CallKnows
  <2>4. QED
    BY <1>8, <2>2, <2>3, AuditRowsHold DEF Claim
<1>9. CASE OpExecuted(k) \/ OpFailed(k)
  BY <1>0, <1>9, CallKnowsFrame DEF OpExecuted, OpFailed
<1>10. CASE SetStatus(k)
  BY <1>0, <1>10 DEF SetStatus, Goto, CallKnows, CallTypes
<1>11. CASE Report(k) \/ Raise(k)
  <2>1. target' = target /\ pc[k] # "idle"
    BY <1>11 DEF Report, Raise, Running
  <2>2. \E r \in AuditRows : Leave(k, r)
    BY <1>11, AuditRowsHold DEF Report, Raise
  <2>3. QED
    BY <1>0, <2>1, <2>2, CallKnowsLeave
<1>12. CASE Audit(k) \/ Crash(k)
  BY <1>0, <1>12 DEF Audit, Crash, Running, CallKnows, CallTypes
<1>13. CASE Tick \/ (\E p \in Proposals : Create(p)) \/ UNCHANGED vars
  BY <1>1, <1>13 DEF Tick, Create, vars
<1>14. ASSUME NEW o \in Commands,
              \/ NoTerminal(o) \/ CliStep(o) \/ CliCrash(o)
              \/ \E p \in Proposals : ShowPlan(o, p)
              \/ \E yes \in BOOLEAN : Answer(o, yes)
       PROVE  CallKnows(k)'
  BY <1>1, <1>14
  DEF NoTerminal, ShowPlan, Answer, CliStep, CheckPending, ReadClock, InsertApproval,
      AuditApproval, CliCrash
<1>15. QED
  BY <1>2, <1>3, <1>4, <1>5, <1>6, <1>7, <1>8, <1>9, <1>10, <1>11, <1>12, <1>13, <1>14
  DEF Next, CallStep

(* Every step keeps what the commands have established. *)
LEMMA CommandsKnowStep == IInv /\ [Next]_vars => CommandsKnow'
<1> SUFFICES ASSUME StoreTypes, CliTypes, CallsKnow, CommandsKnow, StoreGrows, [Next]_vars,
                    NEW k \in Commands
             PROVE  /\ cliPc'[k] \in {"prompt", "confirmed", "stamp", "insert", "audit"}
                         => cliTarget'[k] \in Proposals
                    /\ cliPc'[k] = "insert" => cliStamp'[k] \in Nat /\ cliStamp'[k] <= now'
                    /\ cliPc'[k] \in {"idle", "prompt", "confirmed", "stamp", "insert"}
                         => approvals'[k] = None
  BY StoreGrowsStep DEF IInv, TypeOK, CommandsKnow
<1> DEFINE Known == /\ cliPc'[k] \in {"prompt", "confirmed", "stamp", "insert", "audit"}
                         => cliTarget'[k] \in Proposals
                    /\ cliPc'[k] = "insert" => cliStamp'[k] \in Nat /\ cliStamp'[k] <= now'
                    /\ cliPc'[k] \in {"idle", "prompt", "confirmed", "stamp", "insert"}
                         => approvals'[k] = None
<1>0. now \in Nat /\ now' \in Nat /\ now <= now'
  BY DEF StoreTypes, StoreGrows
<1>1. CASE /\ cliPc'[k] = cliPc[k] /\ cliTarget'[k] = cliTarget[k] /\ cliStamp'[k] = cliStamp[k]
           /\ approvals'[k] = approvals[k]
  BY <1>0, <1>1 DEF CommandsKnow
<1>2. ASSUME NEW c \in Calls, Claim(c) PROVE Known
  <2>1. UNCHANGED cliVars
    BY <1>2 DEF Claim
  <2>2. approvals[k] = None => approvals'[k] = None
    <3>1. row[c] \in Commands /\ approvals[row[c]] # None
      BY <1>2 DEF Claim, CallsKnow, CallKnows, ApprovalsOf
    <3>2. approvals[k] = None => k # row[c]
      BY <3>1
    <3>3. QED
      BY <1>2, <3>2 DEF Claim, StoreTypes
  <2>3. QED
    BY <1>0, <2>1, <2>2 DEF CommandsKnow, cliVars
<1>3. ASSUME NEW c \in Calls,
             \/ CallStep(c) \/ Raise(c) \/ Crash(c)
             \/ \E p \in Proposals, d \in BOOLEAN : Invoke(c, p, d)
      PROVE  Known
  BY <1>1, <1>2, <1>3
  DEF Invoke, CallStep, Load, Revalidate, ReadApproval, CheckExpiry, OpExecuted,
      OpFailed, SetStatus, Report, Audit, Raise, Crash, dbVars, cliVars
<1>4. CASE Tick \/ (\E p \in Proposals : Create(p)) \/ UNCHANGED vars
  BY <1>1, <1>4 DEF Tick, Create, vars, dbVars, cliVars
<1>5. ASSUME NEW o \in Commands, o # k,
             \/ NoTerminal(o) \/ CliStep(o) \/ CliCrash(o)
             \/ \E p \in Proposals : ShowPlan(o, p)
             \/ \E yes \in BOOLEAN : Answer(o, yes)
      PROVE  Known
  BY <1>1, <1>5
  DEF NoTerminal, ShowPlan, Answer, CliStep, CheckPending, ReadClock, InsertApproval,
      AuditApproval, CliCrash, CliGoto, WithApproval, CliTypes, StoreTypes, dbVars
<1>6. CASE NoTerminal(k) \/ CliCrash(k) \/ AuditApproval(k)
  BY <1>0, <1>6 DEF NoTerminal, CliCrash, AuditApproval, CliGoto, CliTypes, CommandsKnow, dbVars
<1>7. ASSUME NEW p \in Proposals, ShowPlan(k, p) PROVE Known
  BY <1>0, <1>7 DEF ShowPlan, CliGoto, CliTypes, CommandsKnow, dbVars
<1>8. ASSUME NEW yes \in BOOLEAN, Answer(k, yes) PROVE Known
  BY <1>0, <1>8 DEF Answer, CliGoto, CliTypes, CommandsKnow, dbVars
<1>9. CASE CheckPending(k)
  BY <1>0, <1>9 DEF CheckPending, CliGoto, CliTypes, CommandsKnow, dbVars
<1>10. CASE ReadClock(k)
  BY <1>0, <1>10 DEF ReadClock, CliGoto, CliTypes, CommandsKnow, dbVars
<1>11. CASE InsertApproval(k)
  BY <1>0, <1>11 DEF InsertApproval, CliGoto, CliTypes, CommandsKnow
<1>12. QED
  BY <1>2, <1>3, <1>4, <1>5, <1>6, <1>7, <1>8, <1>9, <1>10, <1>11 DEF Next, CliStep

(* Only the INSERT of approve() and a claim that succeeds write approvals,   *)
(* and only the latter gives a call its claim.                               *)
LEMMA WhoWritesApprovals ==
  ASSUME [Next]_vars
  PROVE  \/ UNCHANGED <<approvals, claimed>>
         \/ \E o \in Commands : InsertApproval(o)
         \/ \E c \in Calls : Claim(c) /\ Claimable(row[c], target[c], stamp[c])
<1>1. ASSUME NEW c \in Calls,
             \/ CallStep(c) \/ Raise(c) \/ Crash(c)
             \/ \E p \in Proposals, d \in BOOLEAN : Invoke(c, p, d)
      PROVE  \/ UNCHANGED <<approvals, claimed>>
             \/ Claim(c) /\ Claimable(row[c], target[c], stamp[c])
  BY <1>1
  DEF Invoke, CallStep, Load, Revalidate, ReadApproval, CheckExpiry, Claim, OpExecuted,
      OpFailed, SetStatus, Report, Audit, Raise, Crash, Leave, dbVars
<1>2. ASSUME NEW o \in Commands,
             \/ NoTerminal(o) \/ CliStep(o) \/ CliCrash(o)
             \/ \E p \in Proposals : ShowPlan(o, p)
             \/ \E yes \in BOOLEAN : Answer(o, yes)
      PROVE  UNCHANGED <<approvals, claimed>> \/ InsertApproval(o)
  BY <1>2
  DEF NoTerminal, ShowPlan, Answer, CliStep, CheckPending, ReadClock, AuditApproval, CliCrash,
      dbVars, callVars
<1>3. CASE Tick \/ (\E p \in Proposals : Create(p)) \/ UNCHANGED vars
  BY <1>3 DEF Tick, Create, vars, dbVars, callVars
<1>4. QED
  BY <1>1, <1>2, <1>3 DEF Next

(* Every step keeps the stored approvals sound: the INSERT writes a sound row, *)
(* the claim consumes one before it expires.                                   *)
LEMMA RowsAreSoundStep == IInv /\ [Next]_vars => RowsAreSound'
<1> SUFFICES ASSUME IInv, [Next]_vars, NEW a \in Commands, approvals'[a] # None
             PROVE  /\ approvals'[a].created <= now'
                    /\ approvals'[a].expires = approvals'[a].created + TTL
                    /\ approvals'[a].plan_hash = PlanHash[approvals'[a].proposal]
                    /\ approvals'[a].consumed # None =>
                         /\ approvals'[a].created <= approvals'[a].consumed
                         /\ approvals'[a].consumed < approvals'[a].expires
  BY DEF RowsAreSound
<1>0. /\ approvals \in [Commands -> ApprovalRows \cup {None}]
      /\ now \in Nat /\ now' \in Nat /\ now <= now'
  BY StoreGrowsStep DEF IInv, TypeOK, StoreTypes, StoreGrows
<1>1. CASE approvals'[a] = approvals[a]
  <2>1. approvals[a] \in ApprovalRows
    BY <1>0, <1>1
  <2>2. approvals[a].created \in Nat
    BY <2>1 DEF ApprovalRows
  <2>3. QED
    BY <1>0, <1>1, <2>2 DEF IInv, RowsAreSound
<1>2. ASSUME NEW o \in Commands, InsertApproval(o) PROVE approvals'[a] = approvals[a] \/ o = a
  BY <1>0, <1>2 DEF InsertApproval, WithApproval
<1>3. CASE InsertApproval(a)
  <2>1. approvals'[a] = [proposal |-> cliTarget[a], plan_hash |-> PlanHash[cliTarget[a]],
                         created |-> cliStamp[a], expires |-> cliStamp[a] + TTL,
                         consumed |-> None]
    BY <1>0, <1>3 DEF InsertApproval, WithApproval
  <2>2. cliStamp[a] \in Nat /\ cliStamp[a] <= now'
    BY <1>0, <1>3 DEF InsertApproval, IInv, CommandsKnow
  <2>3. QED
    BY <2>1, <2>2
<1>4. ASSUME NEW c \in Calls, Claim(c), Claimable(row[c], target[c], stamp[c]), a = row[c]
      PROVE  /\ approvals'[a] = [approvals[a] EXCEPT !.consumed = stamp[c]]
             /\ approvals[a] \in ApprovalRows
             /\ stamp[c] \in Nat /\ approvals[a].created <= stamp[c]
             /\ stamp[c] < approvals[a].expires
  <2>1. /\ approvals'[a] = [approvals[a] EXCEPT !.consumed = stamp[c]]
        /\ approvals[a] \in ApprovalRows /\ stamp[c] \in Nat
    BY <1>0, <1>4, ClaimWrites
  <2>2. approvals[a].created <= stamp[c]
    BY <1>4 DEF IInv, CallsKnow, CallKnows, Claim
  <2>3. stamp[c] < approvals[a].expires
    BY <1>4, <2>1 DEF Claimable, ApprovalRows
  <2>4. QED
    BY <2>1, <2>2, <2>3
<1>5. ASSUME NEW c \in Calls, Claim(c), Claimable(row[c], target[c], stamp[c]), a # row[c]
      PROVE  approvals'[a] = approvals[a]
  BY <1>0, <1>5, ClaimWrites
<1>6. ASSUME NEW c \in Calls, Claim(c), Claimable(row[c], target[c], stamp[c]), a = row[c]
      PROVE  /\ approvals'[a].created <= now'
             /\ approvals'[a].expires = approvals'[a].created + TTL
             /\ approvals'[a].plan_hash = PlanHash[approvals'[a].proposal]
             /\ approvals'[a].created <= approvals'[a].consumed
             /\ approvals'[a].consumed < approvals'[a].expires
  <2>1. /\ approvals[a] # None /\ approvals[a].created \in Nat
        /\ approvals'[a].created = approvals[a].created
        /\ approvals'[a].expires = approvals[a].expires
        /\ approvals'[a].plan_hash = approvals[a].plan_hash
        /\ approvals'[a].proposal = approvals[a].proposal
        /\ approvals'[a].consumed = stamp[c]
    BY <1>4, <1>6, ConstantsAssumption DEF ApprovalRows
  <2>2. /\ approvals[a].created <= now
        /\ approvals[a].expires = approvals[a].created + TTL
        /\ approvals[a].plan_hash = PlanHash[approvals[a].proposal]
    BY <2>1 DEF IInv, RowsAreSound
  <2>3. approvals[a].created <= stamp[c] /\ stamp[c] < approvals[a].expires /\ stamp[c] \in Nat
    BY <1>4, <1>6
  <2>4. approvals'[a].created <= now'
    BY <1>0, <2>1, <2>2
  <2>5. QED
    BY <2>1, <2>2, <2>3, <2>4
<1>7. QED
  BY <1>1, <1>2, <1>3, <1>5, <1>6, WhoWritesApprovals

(* A call that has a claim keeps it, and its arguments. *)
LEMMA ClaimLasts ==
  ASSUME IInv, [Next]_vars, NEW c \in Calls, claimed[c] # None
  PROVE  claimed'[c] = claimed[c] /\ target'[c] = target[c] /\ dryRun'[c] = dryRun[c]
<1>0. CallTypes /\ pc[c] \notin {"idle", "claim"}
  BY DEF IInv, TypeOK, CallsKnow, CallKnows
<1>1. QED
  BY <1>0
  DEF CallTypes, vars, callVars, Next, Tick, Create, Invoke, CallStep, Load, Revalidate,
      ReadApproval, CheckExpiry, Claim, OpExecuted, OpFailed, SetStatus, Report, Audit, Raise,
      Crash, Leave, NoTerminal, ShowPlan, Answer, CliStep, CheckPending, ReadClock,
      InsertApproval, AuditApproval, CliCrash

(* Every step keeps claims consumed and distinct: the row a call claims was not *)
(* consumed, so nobody else had claimed it.                                     *)
LEMMA ClaimsStep == IInv /\ [Next]_vars => ClaimsAreConsumed' /\ SingleUse'
<1> SUFFICES ASSUME IInv, [Next]_vars PROVE ClaimsAreConsumed' /\ SingleUse'
  OBVIOUS
<1>0. StoreGrows /\ CallTypes /\ ClaimsAreConsumed /\ SingleUse
  BY StoreGrowsStep DEF IInv, TypeOK
<1>1. ASSUME NEW c \in Calls, claimed[c] # None
      PROVE  target'[c] = target[c] /\ dryRun'[c] = dryRun[c]
  BY <1>1, ClaimLasts
<1>2. ASSUME NEW c \in Calls, claimed[c] # None, claimed'[c] = claimed[c]
      PROVE  /\ claimed'[c] \in ApprovalsOf(target[c])'
             /\ approvals'[claimed'[c]].consumed # None
             /\ ~dryRun'[c] /\ c \notin ReadOnly
  <2>1. /\ claimed[c] \in Commands /\ approvals[claimed[c]] # None
        /\ approvals[claimed[c]].proposal = target[c]
        /\ approvals[claimed[c]].consumed # None
        /\ ~dryRun[c] /\ c \notin ReadOnly
    BY <1>0, <1>2 DEF ClaimsAreConsumed, ApprovalsOf
  <2>2. QED
    BY <1>0, <1>1, <1>2, <2>1 DEF StoreGrows, ApprovalsOf
<1>3. CASE UNCHANGED claimed
  BY <1>0, <1>2, <1>3 DEF ClaimsAreConsumed, SingleUse
<1>4. ASSUME NEW o \in Commands, InsertApproval(o) PROVE UNCHANGED claimed
  BY <1>4 DEF InsertApproval, callVars
<1>5. ASSUME NEW c \in Calls, Claim(c), Claimable(row[c], target[c], stamp[c])
      PROVE  ClaimsAreConsumed' /\ SingleUse'
  <2>1. /\ row[c] \in Commands /\ row[c] # None /\ approvals[row[c]].consumed = None
        /\ approvals[row[c]].proposal = target[c]
        /\ approvals'[row[c]] = [approvals[row[c]] EXCEPT !.consumed = stamp[c]]
        /\ approvals'[row[c]] \in ApprovalRows /\ approvals[row[c]] \in ApprovalRows
        /\ stamp[c] \in Nat
    <3>1. row[c] \in Commands /\ row[c] # None
      BY <1>5, ClaimWrites, ConstantsAssumption
    <3>2. approvals[row[c]].proposal = target[c]
      BY <1>5 DEF IInv, CallsKnow, CallKnows, Claim, ApprovalsOf
    <3>3. approvals \in [Commands -> ApprovalRows \cup {None}]
      BY DEF IInv, TypeOK, StoreTypes
    <3>4. QED
      BY <1>5, <3>1, <3>2, <3>3, ClaimWrites
  <2>2. /\ approvals'[row[c]] # None /\ approvals'[row[c]].proposal = target[c]
        /\ approvals'[row[c]].consumed # None
    BY <2>1, ConstantsAssumption DEF ApprovalRows
  <2>3. claimed' = [claimed EXCEPT ![c] = row[c]] /\ claimed[c] = None
        /\ UNCHANGED <<target, dryRun>> /\ ~dryRun[c] /\ c \notin ReadOnly
    BY <1>5 DEF Claim, IInv, CallsKnow, CallKnows
  <2>4. \A d \in Calls : claimed[d] # row[c]
    BY <1>0, <2>1 DEF ClaimsAreConsumed
  <2>5. claimed'[c] = row[c] /\ \A d \in Calls \ {c} : claimed'[d] = claimed[d]
    BY <1>0, <2>3 DEF CallTypes
  <2>6. SingleUse'
    BY <1>0, <2>4, <2>5 DEF SingleUse
  <2>7. ASSUME NEW d \in Calls, claimed'[d] # None
        PROVE  /\ claimed'[d] \in ApprovalsOf(target[d])'
               /\ approvals'[claimed'[d]].consumed # None
               /\ ~dryRun'[d] /\ d \notin ReadOnly
    <3>1. CASE d = c
      BY <2>1, <2>2, <2>3, <2>5, <3>1 DEF ApprovalsOf
    <3>2. CASE d # c
      BY <1>2, <2>5, <2>7, <3>2
    <3>3. QED
      BY <3>1, <3>2
  <2>8. QED
    BY <2>6, <2>7 DEF ClaimsAreConsumed
<1>6. QED
  BY <1>3, <1>4, <1>5, WhoWritesApprovals

(* Only an operation in flight changes Drive, and counts. *)
LEMMA WhoChangesDrive ==
  ASSUME [Next]_vars
  PROVE  \/ UNCHANGED <<drive, cursor>>
         \/ \E c \in Calls : /\ Operating(c) /\ TakeEffect(c)
                             /\ cursor' \in {cursor, [cursor EXCEPT ![c] = @ + 1]}
                             /\ UNCHANGED <<now, target, claimed, approvals>>
<1>1. ASSUME NEW c \in Calls, OpExecuted(c) \/ OpFailed(c) \/ Raise(c)
      PROVE  \/ UNCHANGED <<drive, cursor>>
             \/ /\ Operating(c) /\ TakeEffect(c)
                /\ cursor' \in {cursor, [cursor EXCEPT ![c] = @ + 1]}
                /\ UNCHANGED <<now, target, claimed, approvals>>
  BY <1>1 DEF OpExecuted, OpFailed, Raise, Leave, dbVars
<1>2. QED
  BY <1>1
  DEF vars, callVars, Next, Tick, Create, Invoke, CallStep, Load, Revalidate, ReadApproval,
      CheckExpiry, Claim, SetStatus, Report, Audit, Crash, NoTerminal, ShowPlan, Answer,
      CliStep, CheckPending, ReadClock, InsertApproval, AuditApproval, CliCrash

(* Every step keeps the changes of Drive tied to the claims of their calls. *)
LEMMA DriveIsClaimedStep == IInv /\ [Next]_vars => DriveIsClaimed'
<1> SUFFICES ASSUME IInv, [Next]_vars PROVE DriveIsClaimed'
  OBVIOUS
<1>0. CallTypes /\ CallsKnow /\ DriveIsClaimed /\ drive \subseteq Calls \X Proposals \X Nat
  BY DEF IInv, TypeOK, StoreTypes
<1>1. ASSUME NEW x \in drive PROVE x[2] = target'[x[1]] /\ claimed'[x[1]] # None
  <2>1. x[1] \in Calls /\ x[2] = target[x[1]] /\ claimed[x[1]] # None
    BY <1>0 DEF DriveIsClaimed
  <2>2. QED
    BY <2>1, ClaimLasts
<1>2. ASSUME NEW c \in Calls, NEW j \in 1..cursor[c]
      PROVE  <<c, target'[c], j>> \in drive
  <2>1. <<c, target[c], j>> \in drive
    BY <1>0 DEF DriveIsClaimed
  <2>2. claimed[c] # None
    BY <1>0, <2>1 DEF DriveIsClaimed
  <2>3. QED
    BY <2>1, <2>2, ClaimLasts
<1>3. CASE UNCHANGED <<drive, cursor>>
  BY <1>1, <1>2, <1>3 DEF DriveIsClaimed
<1>4. ASSUME NEW c \in Calls, Operating(c), TakeEffect(c),
             cursor' \in {cursor, [cursor EXCEPT ![c] = @ + 1]},
             UNCHANGED <<now, target, claimed, approvals>>
      PROVE  DriveIsClaimed'
  <2>1. drive' = drive \cup {<<c, target[c], cursor[c] + 1>>}
    BY <1>4 DEF TakeEffect
  <2>2. claimed'[c] # None
    BY <1>0, <1>4 DEF Operating, CallsKnow, CallKnows
  <2>3. \A x \in drive' : x[2] = target'[x[1]] /\ claimed'[x[1]] # None
    BY <1>1, <1>4, <2>1, <2>2
  <2>4. ASSUME NEW d \in Calls, NEW j \in 1..cursor'[d]
        PROVE  <<d, target'[d], j>> \in drive'
    <3>1. j \in 1..cursor[d] \/ (d = c /\ j = cursor[c] + 1)
      BY <1>0, <1>4, <2>4 DEF CallTypes
    <3>2. QED
      BY <1>2, <1>4, <2>1, <3>1
  <2>5. QED
    BY <2>3, <2>4 DEF DriveIsClaimed
<1>5. QED
  BY <1>3, <1>4, WhoChangesDrive

-----------------------------------------------------------------------------
(* The invariant holds with an empty database and no call begun. *)
LEMMA InitHolds == Init => IInv
<1> SUFFICES ASSUME Init PROVE IInv
  OBVIOUS
<1>1. StoreTypes
  BY DEF Init, StoreTypes, Statuses
<1>2. CallTypes
  BY DEF Init, CallTypes, CallPcs
<1>3. CliTypes
  BY DEF Init, CliTypes, CliPcs
<1>4. CallsKnow /\ CommandsKnow /\ RowsAreSound /\ ClaimsAreConsumed /\ SingleUse
  BY DEF Init, CallsKnow, CallKnows, CommandsKnow, RowsAreSound, ClaimsAreConsumed, SingleUse
<1>5. DriveIsClaimed
  BY DEF Init, DriveIsClaimed
<1>6. QED
  BY <1>1, <1>2, <1>3, <1>4, <1>5 DEF IInv, TypeOK

(* The inductive invariant holds in every reachable state. *)
THEOREM Inductive == Spec => []IInv
<1>1. IInv /\ [Next]_vars => IInv'
  BY StoreTypesStep, CallTypesStep, CliTypesStep, CallsKnowStep, CommandsKnowStep,
     RowsAreSoundStep, ClaimsStep, DriveIsClaimedStep
  DEF IInv, TypeOK
<1>2. QED
  BY <1>1, InitHolds, PTL DEF Spec

(* The tables and the locals of every call and command keep their types. *)
THEOREM TypeCorrect == Spec => []TypeOK
<1>1. IInv => TypeOK
  BY DEF IInv
<1>2. QED
  BY <1>1, Inductive, PTL

(* However many calls race in consume_approval, an approval pays for one run. *)
THEOREM ApprovalsAreSingleUse == Spec => []SingleUse
<1>1. IInv => SingleUse
  BY DEF IInv
<1>2. QED
  BY <1>1, Inductive, PTL

(* Whatever changes Drive holds an approval given by a person for that very  *)
(* proposal and plan, claimed after it was issued and before it expired, by  *)
(* a real run on a server that may mutate.                                   *)
THEOREM DriveChangesArePaidFor == Spec => []ChangesArePaidFor
<1>1. IInv => ChangesArePaidFor
  <2> SUFFICES ASSUME IInv, NEW x \in drive
               PROVE  LET c == x[1]  p == x[2]  a == approvals[claimed[c]] IN
                      /\ ~dryRun[c] /\ c \notin ReadOnly
                      /\ claimed[c] # None
                      /\ a.proposal = p /\ a.plan_hash = PlanHash[p]
                      /\ a.created <= a.consumed /\ a.consumed < a.expires
    BY DEF ChangesArePaidFor
  <2>1. x[1] \in Calls /\ x[2] = target[x[1]] /\ claimed[x[1]] # None
    BY DEF IInv, TypeOK, StoreTypes, DriveIsClaimed
  <2>2. /\ claimed[x[1]] \in Commands
        /\ approvals[claimed[x[1]]] # None
        /\ approvals[claimed[x[1]]].proposal = target[x[1]]
        /\ approvals[claimed[x[1]]].consumed # None
        /\ ~dryRun[x[1]] /\ x[1] \notin ReadOnly
    BY <2>1 DEF IInv, ClaimsAreConsumed, ApprovalsOf
  <2>3. QED
    BY <2>1, <2>2 DEF IInv, RowsAreSound
<1>2. QED
  BY <1>1, Inductive, PTL

(* No step takes an approval back, alters it or revives it. *)
THEOREM ApprovalsTableIsAppendOnly == Spec => ApprovalsAppendOnly
<1>1. ASSUME IInv, [Next]_vars, NEW a \in Commands, approvals[a] # None
      PROVE  \/ approvals'[a] = approvals[a]
             \/ /\ approvals[a].consumed = None
                /\ \E c \in Calls : pc[c] = "claim" /\ claimed'[c] = a
                /\ approvals'[a] = [approvals[a] EXCEPT !.consumed = approvals'[a].consumed]
  <2>0. approvals \in [Commands -> ApprovalRows \cup {None}] /\ CallTypes
    BY <1>1 DEF IInv, TypeOK, StoreTypes
  <2>1. ASSUME NEW o \in Commands, InsertApproval(o) PROVE approvals'[a] = approvals[a]
    <3>1. o # a
      BY <1>1, <2>1 DEF IInv, CommandsKnow, InsertApproval
    <3>2. QED
      BY <2>0, <2>1, <3>1 DEF InsertApproval, WithApproval
  <2>2. ASSUME NEW c \in Calls, Claim(c), Claimable(row[c], target[c], stamp[c]), a # row[c]
        PROVE  approvals'[a] = approvals[a]
    BY <1>1, <2>0, <2>2, ClaimWrites
  <2>3. ASSUME NEW c \in Calls, Claim(c), Claimable(row[c], target[c], stamp[c]), a = row[c]
        PROVE  /\ approvals[a].consumed = None /\ pc[c] = "claim" /\ claimed'[c] = a
               /\ approvals'[a] = [approvals[a] EXCEPT !.consumed = approvals'[a].consumed]
    <3>1. /\ approvals[a] \in ApprovalRows /\ approvals[a].consumed = None
          /\ approvals'[a] = [approvals[a] EXCEPT !.consumed = stamp[c]]
      BY <1>1, <2>0, <2>3, ClaimWrites
    <3>2. approvals'[a].consumed = stamp[c]
      BY <3>1 DEF ApprovalRows
    <3>3. pc[c] = "claim" /\ claimed'[c] = a
      BY <2>0, <2>3 DEF Claim, CallTypes
    <3>4. QED
      BY <3>1, <3>2, <3>3
  <2>4. QED
    BY <1>1, <2>1, <2>2, <2>3, WhoWritesApprovals
<1>2. IInv /\ [Next]_vars =>
        [\A a \in Commands : approvals[a] # None =>
           \/ approvals'[a] = approvals[a]
           \/ /\ approvals[a].consumed = None
              /\ \E c \in Calls : pc[c] = "claim" /\ claimed'[c] = a
              /\ approvals'[a] = [approvals[a] EXCEPT !.consumed = approvals'[a].consumed]]_vars
  BY <1>1
<1>3. QED
  BY <1>2, Inductive, PTL DEF Spec, ApprovalsAppendOnly

-----------------------------------------------------------------------------
(* The refinement: each step of ApplyGate is a step of HumanGate or leaves   *)
(* its variables alone.                                                      *)
(* The grant HumanGate sees in a stored approval. *)
LEMMA GrantedRow ==
  ASSUME NEW a \in Commands, approvals[a] # None
  PROVE  /\ a \in DOMAIN Granted
         /\ Granted[a] = [plan |-> approvals[a].proposal, from |-> approvals[a].created,
                          until |-> approvals[a].expires]
BY DEF Granted

(* Every step of ApplyGate is a step of HumanGate, or one it does not see. *)
LEMMA GateStep == IInv /\ IInv' /\ [Next]_vars => [Gate!Next]_(Gate!vars)
<1> SUFFICES ASSUME IInv, IInv', [Next]_vars PROVE [Gate!Next]_(Gate!vars)
  OBVIOUS
<1>0. /\ now \in Nat /\ approvals \in [Commands -> ApprovalRows \cup {None}]
      /\ drive \subseteq Calls \X Proposals \X Nat /\ CallTypes /\ StoreGrows
  BY StoreGrowsStep DEF IInv, TypeOK, StoreTypes
<1>1. CASE UNCHANGED <<now, approvals, claimed, drive>>
  BY <1>1 DEF Gate!vars, Granted
<1>2. CASE Tick
  BY <1>2 DEF Tick, Gate!Next, Gate!Tick, Granted, dbVars, callVars
<1>3. ASSUME NEW o \in Commands, InsertApproval(o) PROVE Gate!Next
  <2> DEFINE p == cliTarget[o]
             t == cliStamp[o]
  <2>1. /\ p \in Proposals /\ t \in 0..now /\ approvals[o] = None
        /\ UNCHANGED <<now, drive, claimed>>
    BY <1>0, <1>3 DEF InsertApproval, IInv, CommandsKnow, callVars
  <2>2. approvals'[o] = [proposal |-> p, plan_hash |-> PlanHash[p], created |-> t,
                         expires |-> t + TTL, consumed |-> None]
    BY <1>0, <1>3 DEF InsertApproval, WithApproval
  <2>3. approvals'[o] # None
    BY <2>1, <2>2, ConstantsAssumption DEF ApprovalRows
  <2>4. \A a \in Commands : a # o => approvals'[a] = approvals[a]
    BY <1>0, <1>3 DEF InsertApproval, WithApproval
  <2>5. /\ DOMAIN Granted = {a \in Commands : approvals[a] # None}
        /\ {a \in Commands : approvals'[a] # None} = DOMAIN Granted \cup {o}
    BY <2>3, <2>4 DEF Granted
  <2>6. Granted' = [x \in DOMAIN Granted \cup {o} |->
                      IF x = o THEN [plan |-> p, from |-> t, until |-> t + TTL] ELSE Granted[x]]
    <3>1. Granted' = [x \in DOMAIN Granted \cup {o} |->
                        [plan |-> approvals'[x].proposal, from |-> approvals'[x].created,
                         until |-> approvals'[x].expires]]
      BY <2>5 DEF Granted
    <3>2. /\ approvals'[o].proposal = p /\ approvals'[o].created = t
          /\ approvals'[o].expires = t + TTL
      BY <2>2
    <3>3. \A x \in DOMAIN Granted : x # o =>
            Granted[x] = [plan |-> approvals'[x].proposal, from |-> approvals'[x].created,
                          until |-> approvals'[x].expires]
      BY <2>4, <2>5, GrantedRow
    <3>4. QED
      BY <3>1, <3>2, <3>3
  <2>7. Gate!Issue(o, p)
    BY <2>1, <2>5, <2>6 DEF Gate!Issue
  <2>8. QED
    BY <2>1, <2>7 DEF Gate!Next
<1>4. ASSUME NEW c \in Calls, Claim(c), Claimable(row[c], target[c], stamp[c]) PROVE Gate!Next
  <2> DEFINE a == row[c]
  <2>1. /\ a \in Commands /\ approvals[a] \in ApprovalRows /\ approvals[a].consumed = None
        /\ stamp[c] \in Nat
        /\ approvals' = [approvals EXCEPT ![a] = [approvals[a] EXCEPT !.consumed = stamp[c]]]
        /\ [approvals[a] EXCEPT !.consumed = stamp[c]] \in ApprovalRows
    BY <1>4, ClaimWrites
  <2>2. /\ approvals[a] # None /\ approvals'[a] # None
        /\ approvals'[a].proposal = approvals[a].proposal
        /\ approvals'[a].created = approvals[a].created
        /\ approvals'[a].expires = approvals[a].expires
    BY <1>0, <2>1, ConstantsAssumption DEF StoreGrows
  <2>3. \A b \in Commands : b # a => approvals'[b] = approvals[b]
    BY <1>0, <2>1
  <2>4. Granted' = Granted
    <3>1. {b \in Commands : approvals'[b] # None} = {b \in Commands : approvals[b] # None}
      BY <2>2, <2>3
    <3>2. QED
      BY <2>2, <2>3, <3>1 DEF Granted
  <2>5. /\ a \in DOMAIN Granted /\ Granted[a].from = approvals[a].created
        /\ Granted[a].until = approvals[a].expires
    <3>1. a \in DOMAIN Granted /\
          Granted[a] = [plan |-> approvals[a].proposal, from |-> approvals[a].created,
                        until |-> approvals[a].expires]
      BY <2>1, <2>2, GrantedRow
    <3>2. QED
      BY <3>1
  <2>6. stamp[c] \in 0..now /\ approvals[a].created <= stamp[c] /\ stamp[c] < approvals[a].expires
    BY <1>0, <1>4, <2>1 DEF Claim, Claimable, IInv, CallsKnow, CallKnows, ApprovalRows
  <2>7. \A d \in Calls : claimed[d] # a
    BY <2>1, ConstantsAssumption DEF IInv, ClaimsAreConsumed
  <2>8. /\ claimed[c] = None /\ claimed' = [claimed EXCEPT ![c] = a]
        /\ UNCHANGED <<now, drive>>
    BY <1>4 DEF Claim, IInv, CallsKnow, CallKnows
  <2>9. Gate!Spend(c, a)
    BY <2>4, <2>5, <2>6, <2>7, <2>8 DEF Gate!Spend
  <2>10. QED
    BY <2>1, <2>9 DEF Gate!Next
<1>5. ASSUME NEW c \in Calls, Operating(c), TakeEffect(c),
             UNCHANGED <<now, target, claimed, approvals>>
      PROVE  Gate!Next
  <2>1. /\ target[c] \in Proposals /\ claimed[c] # None /\ cursor[c] \in Nat
        /\ cursor[c] < PlanLen[target[c]] /\ PlanLen[target[c]] \in Nat
    BY <1>0, <1>5, ConstantsAssumption DEF Operating, IInv, CallsKnow, CallKnows, CallTypes
  <2>2. /\ claimed[c] \in Commands /\ approvals[claimed[c]] # None
        /\ approvals[claimed[c]].proposal = target[c]
    BY <2>1 DEF IInv, ClaimsAreConsumed, ApprovalsOf
  <2>3. Granted[claimed[c]].plan = target[c]
    <3>1. Granted[claimed[c]] =
            [plan |-> target[c], from |-> approvals[claimed[c]].created,
             until |-> approvals[claimed[c]].expires]
      BY <2>2, GrantedRow
    <3>2. QED
      BY <3>1
  <2>4. \A j \in 1..cursor[c] : <<c, target[c], j>> \in drive
    BY DEF IInv, DriveIsClaimed
  <2>5. cursor[c] + 1 \in 1..PlanLen[target[c]] /\ (cursor[c] + 1) - 1 = cursor[c]
    BY <2>1
  <2>6. Granted' = Granted
    BY <1>5 DEF Granted
  <2>7. Gate!Change(c)
    BY <1>5, <2>1, <2>3, <2>4, <2>5, <2>6 DEF Gate!Change, TakeEffect
  <2>8. QED
    BY <2>7 DEF Gate!Next
<1>6. \/ Tick
      \/ UNCHANGED <<now, approvals, claimed, drive>>
      \/ \E o \in Commands : InsertApproval(o)
      \/ \E c \in Calls : Claim(c) /\ Claimable(row[c], target[c], stamp[c])
      \/ \E c \in Calls : /\ Operating(c) /\ TakeEffect(c)
                          /\ UNCHANGED <<now, target, claimed, approvals>>
  <2>1. ASSUME ~Tick PROVE now' = now
    BY <2>1
    DEF vars, callVars, Next, Create, Invoke, CallStep, Load, Revalidate, ReadApproval,
        CheckExpiry, Claim, OpExecuted, OpFailed, SetStatus, Report, Audit, Raise, Crash,
        NoTerminal, ShowPlan, Answer, CliStep, CheckPending, ReadClock, InsertApproval,
        AuditApproval, CliCrash
  <2>2. QED
    BY <2>1, WhoWritesApprovals, WhoChangesDrive
<1>7. QED
  BY <1>1, <1>2, <1>3, <1>4, <1>5, <1>6

(* ApplyGate implements HumanGate. *)
THEOREM RefinesHumanGate == Spec => KeepsThePromise
<1>1. Init => Gate!Init
  BY DEF Init, Gate!Init, Granted
<1>2. QED
  BY <1>1, GateStep, Inductive, PTL DEF Spec, KeepsThePromise, Gate!Spec

-----------------------------------------------------------------------------
(* What ApplyGate reports: that a refusal spends nothing, that a run is a   *)
(* prefix of its plan, and that status, audit log and approval state say    *)
(* what happened.  A second invariant, ReportInv, is inductive together     *)
(* with IInv: what a call may answer given how far it has come (CallsTell), *)
(* what a command has written (CommandsTell), who spent an approval         *)
(* (SpentHasOwner), and which runs settled a proposal (SettledByRuns).      *)

Settled(p) == status[p] \in {"applied", "failed"}

Over == {"audit", "done", "crashed"}

(* What the answer of a call says is so: a refusal claimed nothing, and if   *)
(* it lost a claim somebody else holds it; an approver is named by a call    *)
(* that settled its proposal; a call with a claim says so or failed inside.  *)
Tells(c) ==
  /\ verdict[c].outcome = "refused" =>
       claimed[c] = None /\ (stamp[c] # None => \E d \in Calls : claimed[d] = row[c])
  /\ verdict[c].approvedBy => claimed[c] # None /\ Settled(target[c])
  /\ claimed[c] # None => verdict[c].approvedBy \/ verdict[c] = Failure("internal_error")

CallTells(c) ==
  /\ pc[c] \in {"idle", "load", "revalidate", "latest", "check"} => stamp[c] = None
  /\ pc[c] = "claim" => stamp[c] < approvals[row[c]].expires
  /\ stamp[c] # None => row[c] # None
  /\ pc[c] = "report" => Settled(target[c])
  /\ halted[c] => claimed[c] # None
  /\ audit[c] = IF pc[c] = "done" THEN <<verdict[c]>> ELSE <<>>
  /\ pc[c] \in {"audit", "done"} => Tells(c)

CallsTell == \A c \in Calls : CallTells(c)

CommandTells(o) ==
  /\ cliPc[o] = "audit" => approvals[o] # None
  /\ cliPc[o] # "done" => audit[o] = <<>>
  /\ cliPc[o] = "done" =>
       \/ approvals[o] = None /\ audit[o] \in {<<>>, <<Refused("approval_not_interactive")>>}
       \/ approvals[o] # None /\ audit[o] = <<Row("ok", "", TRUE)>>

CommandsTell == \A o \in Commands : CommandTells(o)

(* Every consumed approval is held by the call it was consumed for. *)
SpentHasOwner ==
  \A a \in Commands :
    approvals[a] # None /\ approvals[a].consumed # None => \E c \in Calls : claimed[c] = a

(* A settled proposal was settled by a run of its own that had a claim and   *)
(* got as far as the status says.                                            *)
SettledByRuns ==
  \A p \in Proposals :
    /\ status[p] = "applied" =>
         \E c \in Calls : /\ target[c] = p /\ claimed[c] # None
                          /\ \A i \in 1..PlanLen[p] : <<c, p, i>> \in drive
    /\ status[p] = "failed" =>
         \E c \in Calls : target[c] = p /\ claimed[c] # None /\ halted[c]

FewApprovals == IsFiniteSet({a \in Commands : approvals[a] # None})

ReportInv ==
  CallsTell /\ CommandsTell /\ SpentHasOwner /\ SettledByRuns /\ RunIsAPrefix /\ FewApprovals

-----------------------------------------------------------------------------
(* The steps that are a call's own. *)
OwnStep(c) ==
  \/ CallStep(c) \/ Raise(c) \/ Crash(c)
  \/ \E p \in Proposals, d \in BOOLEAN : Invoke(c, p, d)

(* The steps that are a command's own. *)
CommandStep(o) ==
  \/ NoTerminal(o) \/ CliStep(o) \/ CliCrash(o)
  \/ \E p \in Proposals : ShowPlan(o, p)
  \/ \E yes \in BOOLEAN : Answer(o, yes)

(* A step is a call's, a command's, or the world's. *)
LEMMA WhoSteps ==
  ASSUME [Next]_vars
  PROVE  \/ \E c \in Calls : OwnStep(c)
         \/ \E o \in Commands : CommandStep(o)
         \/ Tick \/ (\E p \in Proposals : Create(p)) \/ UNCHANGED vars
BY DEF Next, OwnStep, CommandStep

(* A step of another process leaves the locals of a call, and its audit      *)
(* rows, as they are.                                                        *)
LEMMA Untouched ==
  ASSUME IInv, [Next]_vars, NEW k \in Calls, ~OwnStep(k)
  PROVE  /\ pc'[k] = pc[k] /\ target'[k] = target[k] /\ row'[k] = row[k]
         /\ stamp'[k] = stamp[k] /\ claimed'[k] = claimed[k] /\ cursor'[k] = cursor[k]
         /\ halted'[k] = halted[k] /\ verdict'[k] = verdict[k] /\ audit'[k] = audit[k]
<1>0. CallTypes /\ audit \in [Calls \cup Commands -> Seq(AuditRows)]
  BY DEF IInv, TypeOK, StoreTypes
<1>1. ASSUME NEW c \in Calls, c # k, CallStep(c) \/ Raise(c) \/ Crash(c)
      PROVE  /\ pc'[k] = pc[k] /\ target'[k] = target[k] /\ row'[k] = row[k]
             /\ stamp'[k] = stamp[k] /\ claimed'[k] = claimed[k] /\ cursor'[k] = cursor[k]
             /\ halted'[k] = halted[k] /\ verdict'[k] = verdict[k] /\ audit'[k] = audit[k]
  BY <1>0, <1>1
  DEF CallTypes, CallStep, Load, Revalidate, ReadApproval, CheckExpiry, Claim, OpExecuted,
      OpFailed, SetStatus, Report, Audit, Raise, Crash, Leave, Goto, dbVars
<1>2. ASSUME NEW c \in Calls, c # k, NEW p \in Proposals, NEW d \in BOOLEAN, Invoke(c, p, d)
      PROVE  /\ pc'[k] = pc[k] /\ target'[k] = target[k] /\ row'[k] = row[k]
             /\ stamp'[k] = stamp[k] /\ claimed'[k] = claimed[k] /\ cursor'[k] = cursor[k]
             /\ halted'[k] = halted[k] /\ verdict'[k] = verdict[k] /\ audit'[k] = audit[k]
  BY <1>0, <1>2 DEF CallTypes, Invoke, dbVars
<1>3. ASSUME NEW o \in Commands, CommandStep(o)
      PROVE  UNCHANGED callVars /\ audit'[k] = audit[k]
  <2>1. o # k
    BY ConstantsAssumption
  <2>2. QED
    BY <1>0, <1>3, <2>1
    DEF CommandStep, NoTerminal, ShowPlan, Answer, CliStep, CheckPending, ReadClock,
        InsertApproval, AuditApproval, CliCrash, dbVars
<1>4. CASE Tick \/ (\E p \in Proposals : Create(p)) \/ UNCHANGED vars
  BY <1>4 DEF Tick, Create, vars, dbVars, callVars
<1>5. QED
  BY <1>1, <1>2, <1>3, <1>4, WhoSteps DEF OwnStep, callVars

(* A step of another process leaves what a command has, and its row in the   *)
(* approvals table stays there or stays absent.                              *)
LEMMA CommandUntouched ==
  ASSUME IInv, [Next]_vars, NEW k \in Commands, ~CommandStep(k)
  PROVE  /\ cliPc'[k] = cliPc[k] /\ audit'[k] = audit[k]
         /\ (approvals'[k] = None <=> approvals[k] = None)
<1>0. /\ CliTypes /\ audit \in [Calls \cup Commands -> Seq(AuditRows)]
      /\ approvals \in [Commands -> ApprovalRows \cup {None}] /\ StoreGrows
  BY StoreGrowsStep DEF IInv, TypeOK, StoreTypes
<1>1. ASSUME NEW o \in Commands, o # k, CommandStep(o)
      PROVE  cliPc'[k] = cliPc[k] /\ audit'[k] = audit[k] /\ approvals'[k] = approvals[k]
  BY <1>0, <1>1
  DEF CliTypes, CommandStep, NoTerminal, ShowPlan, Answer, CliStep, CheckPending, ReadClock,
      InsertApproval, AuditApproval, CliCrash, CliGoto, WithApproval, dbVars
<1>2. ASSUME NEW c \in Calls, Claim(c)
      PROVE  cliPc'[k] = cliPc[k] /\ audit'[k] = audit[k] /\ (approvals[k] = None => approvals'[k] = None)
  <2>1. UNCHANGED <<cliVars, audit>>
    BY <1>2 DEF Claim
  <2>2. ASSUME approvals[k] = None PROVE row[c] # k
    BY <1>2, <2>2 DEF IInv, CallsKnow, CallKnows, Claim, ApprovalsOf
  <2>3. QED
    BY <1>0, <1>2, <2>1, <2>2 DEF Claim, cliVars
<1>3. ASSUME NEW c \in Calls, OwnStep(c), ~Claim(c)
      PROVE  cliPc'[k] = cliPc[k] /\ audit'[k] = audit[k] /\ approvals'[k] = approvals[k]
  <2>1. c # k
    BY ConstantsAssumption
  <2>2. QED
    BY <1>0, <1>3, <2>1
    DEF OwnStep, Invoke, CallStep, Load, Revalidate, ReadApproval, CheckExpiry, OpExecuted,
        OpFailed, SetStatus, Report, Audit, Raise, Crash, dbVars, cliVars
<1>4. CASE Tick \/ (\E p \in Proposals : Create(p)) \/ UNCHANGED vars
  BY <1>4 DEF Tick, Create, vars, dbVars, cliVars
<1>5. approvals[k] # None => approvals'[k] # None
  BY <1>0 DEF StoreGrows
<1>6. QED
  BY <1>1, <1>2, <1>3, <1>4, <1>5, WhoSteps

(* The statements that write proposals.status. *)
LEMMA WhoSettles ==
  ASSUME [Next]_vars
  PROVE  \/ UNCHANGED status
         \/ \E p \in Proposals : Create(p)
         \/ \E c \in Calls : SetStatus(c)
<1>1. ASSUME NEW c \in Calls, OwnStep(c) PROVE UNCHANGED status \/ SetStatus(c)
  BY <1>1
  DEF OwnStep, Invoke, CallStep, Load, Revalidate, ReadApproval, CheckExpiry, Claim, OpExecuted,
      OpFailed, Report, Audit, Raise, Crash, dbVars
<1>2. ASSUME NEW o \in Commands, CommandStep(o) PROVE UNCHANGED status
  BY <1>2
  DEF CommandStep, NoTerminal, ShowPlan, Answer, CliStep, CheckPending, ReadClock,
      InsertApproval, AuditApproval, CliCrash, dbVars
<1>3. CASE Tick \/ UNCHANGED vars
  BY <1>3 DEF Tick, vars, dbVars
<1>4. QED
  BY <1>1, <1>2, <1>3, WhoSteps

(* A settled proposal stays settled, although it may be settled again. *)
LEMMA SettledLasts ==
  ASSUME IInv, [Next]_vars, NEW p \in Proposals, Settled(p)
  PROVE  Settled(p)'
<1>0. status \in [Proposals -> Statuses]
  BY DEF IInv, TypeOK, StoreTypes
<1>1. QED
  BY <1>0, WhoSettles DEF Settled, Create, SetStatus, FinalStatus

(* A call with a claim does not go back, and once over it stays so. *)
LEMMA RunGoesOn ==
  ASSUME IInv, [Next]_vars, NEW c \in Calls, claimed[c] # None
  PROVE  /\ cursor[c] \in Nat /\ cursor'[c] \in Nat /\ cursor[c] <= cursor'[c]
         /\ halted[c] => halted'[c]
         /\ pc[c] \in Over => pc'[c] \in Over
<1>0. CallTypes /\ pc[c] \notin {"idle", "claim"}
  BY DEF IInv, TypeOK, CallsKnow, CallKnows
<1>1. CASE ~OwnStep(c)
  BY <1>0, <1>1, Untouched DEF CallTypes
<1>2. ASSUME OpExecuted(c) \/ OpFailed(c)
      PROVE  /\ cursor'[c] \in {cursor[c], cursor[c] + 1} /\ (halted[c] => halted'[c])
             /\ pc'[c] = pc[c]
  BY <1>0, <1>2 DEF CallTypes, OpExecuted, OpFailed
<1>3. ASSUME OwnStep(c), ~OpExecuted(c), ~OpFailed(c)
      PROVE  /\ cursor'[c] = cursor[c] /\ halted'[c] = halted[c]
             /\ pc[c] \in Over => pc'[c] \in Over
  BY <1>0, <1>3
  DEF CallTypes, Over, OwnStep, Invoke, CallStep, Load, Revalidate, ReadApproval, CheckExpiry,
      Claim, SetStatus, Report, Audit, Raise, Crash, Running
<1>4. cursor[c] \in Nat
  BY <1>0 DEF CallTypes
<1>5. QED
  BY <1>1, <1>2, <1>3, <1>4

-----------------------------------------------------------------------------
(* A call that another process leaves alone tells what it told. *)
LEMMA CallTellsFrame ==
  ASSUME IInv, [Next]_vars, NEW k \in Calls, CallTells(k), ~OwnStep(k)
  PROVE  CallTells(k)'
<1>0. /\ pc'[k] = pc[k] /\ target'[k] = target[k] /\ row'[k] = row[k]
      /\ stamp'[k] = stamp[k] /\ claimed'[k] = claimed[k]
      /\ halted'[k] = halted[k] /\ verdict'[k] = verdict[k] /\ audit'[k] = audit[k]
  BY Untouched
<1>1. ASSUME pc[k] # "idle", Settled(target[k]) PROVE Settled(target[k])'
  <2>1. target[k] \in Proposals
    BY <1>1 DEF IInv, CallsKnow, CallKnows
  <2>2. ASSUME NEW p \in Proposals, Settled(p) PROVE status'[p] \in {"applied", "failed"}
    BY <2>2, SettledLasts DEF Settled
  <2>3. QED
    BY <1>0, <1>1, <2>1, <2>2 DEF Settled
<1>2. ASSUME pc[k] = "claim", stamp[k] < approvals[row[k]].expires
      PROVE  stamp[k] < approvals'[row[k]].expires
  <2>1. row[k] \in Commands /\ approvals[row[k]] # None
    BY <1>2 DEF IInv, CallsKnow, CallKnows, ApprovalsOf
  <2>2. approvals'[row[k]].expires = approvals[row[k]].expires
    BY <2>1, StoreGrowsStep DEF StoreGrows
  <2>3. QED
    BY <1>2, <2>2
<1>3. ASSUME stamp[k] # None, \E d \in Calls : claimed[d] = row[k]
      PROVE  \E d \in Calls : claimed'[d] = row'[k]
  <2>1. row[k] # None
    BY <1>3 DEF CallTells
  <2>2. QED
    BY <1>0, <1>3, <2>1, ClaimLasts
<1>4. pc[k] \in {"audit", "done"} => Tells(k)'
  BY <1>0, <1>1, <1>3 DEF CallTells, Tells
<1>5. QED
  BY <1>0, <1>1, <1>2, <1>4 DEF CallTells

(* Leaving the body before the claim, with a row that names no approver. *)
LEMMA LeaveEarly ==
  ASSUME IInv, NEW k \in Calls, CallTells(k), pc[k] \in {"load", "revalidate", "latest", "check"},
         NEW r, r.approvedBy = FALSE, Leave(k, r), UNCHANGED <<audit, halted>>
  PROVE  CallTells(k)'
<1>0. CallTypes /\ claimed[k] = None /\ stamp[k] = None
  BY DEF IInv, TypeOK, CallsKnow, CallKnows, CallTells
<1>1. /\ pc'[k] = "audit" /\ verdict'[k] = r /\ claimed'[k] = None /\ stamp'[k] = None
  BY <1>0 DEF CallTypes, Leave
<1>2. Tells(k)'
  BY <1>1 DEF Tells
<1>3. QED
  BY <1>0, <1>1, <1>2 DEF CallTells

(* Going on to the next step before the claim. *)
LEMMA GoOnEarly ==
  ASSUME IInv, NEW k \in Calls, CallTells(k), pc[k] \in {"load", "revalidate", "latest"},
         NEW l \in {"revalidate", "latest", "check"}, Goto(k, l),
         stamp'[k] = stamp[k], claimed'[k] = claimed[k], UNCHANGED <<audit, halted>>
  PROVE  CallTells(k)'
BY DEF IInv, TypeOK, CallTypes, Goto, CallTells

(* The call that loses the UPDATE lost it to the one that holds the row. *)
LEMMA LostClaim ==
  ASSUME IInv, SpentHasOwner, NEW k \in Calls, CallTells(k), Claim(k),
         ~Claimable(row[k], target[k], stamp[k])
  PROVE  \E d \in Calls : claimed[d] = row[k]
<1>1. /\ row[k] \in Commands /\ approvals[row[k]] # None
      /\ approvals[row[k]].proposal = target[k] /\ stamp[k] < approvals[row[k]].expires
      /\ stamp[k] \in Nat
  BY DEF IInv, CallsKnow, CallKnows, ApprovalsOf, Claim, CallTells
<1>2. approvals[row[k]].plan_hash = PlanHash[target[k]]
  BY <1>1 DEF IInv, RowsAreSound
<1>3. approvals[row[k]] \in ApprovalRows
  BY <1>1 DEF IInv, TypeOK, StoreTypes
<1>4. approvals[row[k]].consumed # None
  BY <1>1, <1>2, <1>3 DEF Claimable, ApprovalRows
<1>5. QED
  BY <1>1, <1>4 DEF SpentHasOwner

(* Every step keeps what the calls tell true. *)
LEMMA CallsTellStep ==
  ASSUME IInv, IInv', [Next]_vars, CallsTell, SpentHasOwner
  PROVE  CallsTell'
<1> SUFFICES ASSUME NEW k \in Calls PROVE CallTells(k)'
  BY DEF CallsTell
<1>0. /\ CallTypes /\ CallTells(k) /\ now \in Nat
      /\ audit \in [Calls \cup Commands -> Seq(AuditRows)]
  BY DEF IInv, TypeOK, StoreTypes, CallsTell
<1>1. CASE ~OwnStep(k)
  BY <1>0, <1>1, CallTellsFrame
<1>2. ASSUME NEW p \in Proposals, NEW d \in BOOLEAN, Invoke(k, p, d) PROVE CallTells(k)'
  BY <1>0, <1>2 DEF Invoke, CallTells, CallTypes, dbVars
<1>3. CASE Load(k)
  BY <1>0, <1>3, LeaveEarly, GoOnEarly DEF Load, Failure, Refused, Row, dbVars
<1>4. CASE Revalidate(k)
  BY <1>0, <1>4, LeaveEarly, GoOnEarly DEF Revalidate, Refused, Row, dbVars
<1>5. CASE ReadApproval(k)
  <2>1. ASSUME NEW a \in Commands, Goto(k, "check"), row' = [row EXCEPT ![k] = a],
               UNCHANGED <<stamp, claimed>>
        PROVE  CallTells(k)'
    BY <1>0, <1>5, <2>1, GoOnEarly DEF ReadApproval, dbVars
  <2>2. QED
    BY <1>0, <1>5, <2>1, LeaveEarly DEF ReadApproval, ApprovalsOf, Refused, Row, dbVars
<1>6. CASE CheckExpiry(k)
  <2>1. ASSUME Goto(k, "claim"), stamp' = [stamp EXCEPT ![k] = now], UNCHANGED <<row, claimed>>,
               approvals[row[k]].expires > now
        PROVE  CallTells(k)'
    <3>1. row[k] \in Commands /\ row[k] # None
      BY <1>6, ConstantsAssumption DEF IInv, CallsKnow, CallKnows, ApprovalsOf, CheckExpiry
    <3>2. approvals[row[k]] # None /\ approvals[row[k]].expires \in Nat
      BY <1>6, <3>1 DEF IInv, CallsKnow, CallKnows, ApprovalsOf, CheckExpiry, TypeOK, StoreTypes,
                        ApprovalRows
    <3>3. pc'[k] = "claim" /\ stamp'[k] = now /\ UNCHANGED <<approvals, audit, halted>>
      BY <1>0, <1>6, <2>1 DEF CheckExpiry, CallTypes, Goto, dbVars
    <3>4. QED
      BY <1>0, <1>6, <2>1, <3>1, <3>2, <3>3 DEF CallTells, CheckExpiry
  <2>2. QED
    BY <1>0, <1>6, <2>1, LeaveEarly DEF CheckExpiry, Refused, Row, dbVars
<1>7. CASE Claim(k)
  <2>0. pc[k] = "claim" /\ claimed[k] = None /\ row[k] \in Commands /\ row[k] # None
    BY <1>7, ConstantsAssumption DEF Claim, IInv, CallsKnow, CallKnows, ApprovalsOf
  <2>1. CASE Claimable(row[k], target[k], stamp[k])
    <3>1. /\ pc'[k] = "execute" /\ claimed'[k] = row[k] /\ row'[k] = row[k]
          /\ halted'[k] = halted[k] /\ audit'[k] = audit[k]
      BY <1>0, <1>7, <2>1 DEF Claim, Goto, CallTypes
    <3>2. QED
      BY <1>0, <2>0, <3>1 DEF CallTells
  <2>2. CASE ~Claimable(row[k], target[k], stamp[k])
    <3>1. /\ pc'[k] = "audit" /\ verdict'[k] = Refused("approval_invalid")
          /\ UNCHANGED <<claimed, row, stamp, halted, audit>>
      BY <1>0, <1>7, <2>2 DEF Claim, Leave, CallTypes
    <3>2. \E d \in Calls : claimed[d] = row[k]
      BY <1>0, <1>7, <2>2, LostClaim
    <3>3. Tells(k)'
      BY <2>0, <3>1, <3>2 DEF Tells, Refused, Row
    <3>4. QED
      BY <1>0, <2>0, <3>1, <3>3 DEF CallTells
  <2>3. QED
    BY <2>1, <2>2
<1>8. CASE OpExecuted(k) \/ OpFailed(k)
  <2>1. /\ pc[k] = "execute" /\ claimed[k] # None
        /\ UNCHANGED <<pc, row, stamp, claimed, verdict, audit>>
    BY <1>8 DEF OpExecuted, OpFailed, Operating, IInv, CallsKnow, CallKnows, dbVars
  <2>2. QED
    BY <1>0, <2>1 DEF CallTells
<1>9. CASE SetStatus(k)
  <2>1. /\ pc'[k] = "report" /\ pc[k] = "execute" /\ target[k] \in Proposals
        /\ UNCHANGED <<target, row, stamp, claimed, halted, audit>>
    BY <1>0, <1>9 DEF SetStatus, Goto, CallTypes, IInv, CallsKnow, CallKnows
  <2>2. Settled(target[k])'
    BY <1>9, <2>1 DEF SetStatus, FinalStatus, Settled, IInv, TypeOK, StoreTypes
  <2>3. QED
    BY <1>0, <2>1, <2>2 DEF CallTells
<1>10. CASE Report(k)
  <2>1. /\ pc'[k] = "audit" /\ pc[k] = "report" /\ claimed[k] # None /\ Settled(target[k])
        /\ verdict'[k] = Row("ok", "", TRUE)
        /\ UNCHANGED <<target, row, stamp, claimed, halted, audit, status>>
    BY <1>0, <1>10 DEF Report, Leave, CallTypes, IInv, CallsKnow, CallKnows, CallTells, dbVars
  <2>2. Row("ok", "", TRUE).outcome = "ok" /\ Row("ok", "", TRUE).approvedBy
    BY DEF Row
  <2>3. Tells(k)'
    BY <2>1, <2>2 DEF Tells, Settled
  <2>4. QED
    BY <1>0, <2>1, <2>3 DEF CallTells
<1>11. CASE Raise(k)
  <2>1. /\ pc'[k] = "audit" /\ pc[k] \in Running
        /\ verdict'[k] = Failure("internal_error")
        /\ UNCHANGED <<target, row, stamp, claimed, halted, audit, status>>
    BY <1>0, <1>11 DEF Raise, Leave, CallTypes, dbVars
  <2>2. Failure("internal_error").outcome = "error" /\ ~Failure("internal_error").approvedBy
    BY DEF Failure, Row
  <2>3. Tells(k)'
    BY <2>1, <2>2 DEF Tells
  <2>4. QED
    BY <1>0, <2>1, <2>3 DEF CallTells, Running
<1>12. CASE Audit(k)
  <2>1. /\ pc'[k] = "done" /\ pc[k] = "audit" /\ audit[k] = <<>>
        /\ audit'[k] = <<verdict[k]>>
        /\ UNCHANGED <<target, row, stamp, claimed, halted, verdict, status>>
    BY <1>0, <1>12 DEF Audit, CallTypes, CallTells
  <2>2. Tells(k)'
    BY <1>0, <2>1 DEF Tells, CallTells, Settled
  <2>3. QED
    BY <1>0, <2>1, <2>2 DEF CallTells
<1>13. CASE Crash(k)
  <2>1. /\ pc'[k] = "crashed" /\ pc[k] # "done"
        /\ UNCHANGED <<row, stamp, claimed, halted, audit>>
    BY <1>0, <1>13 DEF Crash, CallTypes, Running, dbVars
  <2>2. QED
    BY <1>0, <2>1 DEF CallTells
<1>14. QED
  BY <1>1, <1>2, <1>3, <1>4, <1>5, <1>6, <1>7, <1>8, <1>9, <1>10, <1>11, <1>12, <1>13
  DEF OwnStep, CallStep

-----------------------------------------------------------------------------
(* Every step keeps what the commands have written. *)
LEMMA CommandsTellStep ==
  ASSUME IInv, [Next]_vars, CommandsTell
  PROVE  CommandsTell'
<1> SUFFICES ASSUME NEW k \in Commands PROVE CommandTells(k)'
  BY DEF CommandsTell
<1>0. /\ CliTypes /\ CommandTells(k) /\ approvals \in [Commands -> ApprovalRows \cup {None}]
      /\ audit \in [Calls \cup Commands -> Seq(AuditRows)]
  BY DEF IInv, TypeOK, StoreTypes, CommandsTell
<1>1. CASE ~CommandStep(k)
  BY <1>0, <1>1, CommandUntouched DEF CommandTells
<1>2. CASE NoTerminal(k)
  <2>1. /\ cliPc'[k] = "done" /\ audit'[k] = <<Refused("approval_not_interactive")>>
        /\ approvals[k] = None /\ approvals' = approvals
    BY <1>0, <1>2 DEF NoTerminal, CliGoto, CliTypes, CommandTells, IInv, CommandsKnow
  <2>2. QED
    BY <2>1 DEF CommandTells
<1>3. ASSUME \/ \E p \in Proposals : ShowPlan(k, p)
             \/ \E yes \in BOOLEAN : Answer(k, yes)
             \/ CheckPending(k) \/ ReadClock(k)
      PROVE  CommandTells(k)'
  <2>1. /\ cliPc[k] # "done" /\ audit[k] = <<>> /\ approvals[k] = None
        /\ cliPc'[k] # "audit" /\ UNCHANGED <<audit, approvals>>
    BY <1>0, <1>3
    DEF ShowPlan, Answer, CheckPending, ReadClock, CliGoto, CliTypes, CommandTells, IInv,
        CommandsKnow, dbVars
  <2>2. QED
    BY <2>1 DEF CommandTells
<1>4. CASE InsertApproval(k)
  <2>1. cliPc'[k] = "audit" /\ audit'[k] = <<>>
    BY <1>0, <1>4 DEF InsertApproval, CliGoto, CliTypes, CommandTells
  <2>2. /\ approvals'[k] = [proposal |-> cliTarget[k], plan_hash |-> PlanHash[cliTarget[k]],
                            created |-> cliStamp[k], expires |-> cliStamp[k] + TTL,
                            consumed |-> None]
        /\ cliTarget[k] \in Proposals /\ cliStamp[k] \in Nat
    BY <1>0, <1>4 DEF InsertApproval, WithApproval, IInv, CommandsKnow
  <2>3. approvals'[k] # None
    BY <2>2, ConstantsAssumption DEF ApprovalRows
  <2>4. QED
    BY <2>1, <2>3 DEF CommandTells
<1>5. CASE AuditApproval(k)
  <2>1. /\ cliPc[k] = "audit" /\ cliPc'[k] = "done"
        /\ audit'[k] = Append(audit[k], Row("ok", "", TRUE)) /\ approvals' = approvals
    BY <1>0, <1>5 DEF AuditApproval, CliGoto, CliTypes
  <2>2. audit[k] = <<>> /\ approvals[k] # None
    BY <1>0, <2>1 DEF CommandTells
  <2>3. \A r : Append(<<>>, r) = <<r>>
    OBVIOUS
  <2>4. QED
    BY <2>1, <2>2, <2>3 DEF CommandTells
<1>6. CASE CliCrash(k)
  <2>1. cliPc'[k] = "crashed" /\ audit'[k] = <<>>
    BY <1>0, <1>6 DEF CliCrash, CliGoto, CliTypes, CommandTells, dbVars
  <2>2. QED
    BY <2>1 DEF CommandTells
<1>7. QED
  BY <1>1, <1>2, <1>3, <1>4, <1>5, <1>6 DEF CommandStep, CliStep

(* Every step keeps consumed approvals in the hands of a call. *)
LEMMA SpentHasOwnerStep ==
  ASSUME IInv, [Next]_vars, SpentHasOwner
  PROVE  SpentHasOwner'
<1> SUFFICES ASSUME NEW a \in Commands, approvals'[a] # None, approvals'[a].consumed # None
             PROVE  \E c \in Calls : claimed'[c] = a
  BY DEF SpentHasOwner
<1>0. CallTypes /\ approvals \in [Commands -> ApprovalRows \cup {None}] /\ a # None
  BY ConstantsAssumption DEF IInv, TypeOK, StoreTypes
<1>1. CASE approvals'[a] = approvals[a]
  BY <1>0, <1>1, ClaimLasts DEF SpentHasOwner
<1>2. ASSUME NEW o \in Commands, InsertApproval(o) PROVE approvals'[a] = approvals[a]
  <2>1. o = a => approvals'[a].consumed = None
    BY <1>0, <1>2 DEF InsertApproval, WithApproval
  <2>2. QED
    BY <1>0, <1>2, <2>1 DEF InsertApproval, WithApproval
<1>3. ASSUME NEW c \in Calls, Claim(c), Claimable(row[c], target[c], stamp[c])
      PROVE  approvals'[a] = approvals[a] \/ claimed'[c] = a
  BY <1>0, <1>3, ClaimWrites DEF Claim, CallTypes
<1>4. QED
  BY <1>1, <1>2, <1>3, WhoWritesApprovals

(* Every step keeps a settled proposal settled by a run that got that far. *)
LEMMA SettledByRunsStep ==
  ASSUME IInv, [Next]_vars, SettledByRuns
  PROVE  SettledByRuns'
<1> SUFFICES ASSUME NEW p \in Proposals
             PROVE  /\ status'[p] = "applied" =>
                         \E c \in Calls : /\ target'[c] = p /\ claimed'[c] # None
                                          /\ \A i \in 1..PlanLen[p] : <<c, p, i>> \in drive'
                    /\ status'[p] = "failed" =>
                         \E c \in Calls : target'[c] = p /\ claimed'[c] # None /\ halted'[c]
  BY DEF SettledByRuns
<1>0. status \in [Proposals -> Statuses] /\ CallTypes
  BY DEF IInv, TypeOK, StoreTypes
<1>1. drive \subseteq drive'
  BY WhoChangesDrive DEF TakeEffect
<1>2. CASE status'[p] = status[p]
  <2>1. ASSUME status[p] = "applied"
        PROVE  \E c \in Calls : /\ target'[c] = p /\ claimed'[c] # None
                                /\ \A i \in 1..PlanLen[p] : <<c, p, i>> \in drive'
    <3>1. PICK c \in Calls : /\ target[c] = p /\ claimed[c] # None
                             /\ \A i \in 1..PlanLen[p] : <<c, p, i>> \in drive
      BY <2>1 DEF SettledByRuns
    <3>2. QED
      BY <1>1, <3>1, ClaimLasts
  <2>2. ASSUME status[p] = "failed"
        PROVE  \E c \in Calls : target'[c] = p /\ claimed'[c] # None /\ halted'[c]
    <3>1. PICK c \in Calls : target[c] = p /\ claimed[c] # None /\ halted[c]
      BY <2>2 DEF SettledByRuns
    <3>2. QED
      BY <3>1, ClaimLasts, RunGoesOn
  <2>3. QED
    BY <1>2, <2>1, <2>2
<1>3. ASSUME NEW q \in Proposals, Create(q) PROVE status'[p] \in {status[p], "pending"}
  BY <1>0, <1>3 DEF Create
<1>4. ASSUME NEW c \in Calls, SetStatus(c), status'[p] # status[p]
      PROVE  /\ target'[c] = p /\ claimed'[c] # None
             /\ status'[p] = "applied" => \A i \in 1..PlanLen[p] : <<c, p, i>> \in drive'
             /\ status'[p] = "failed" => halted'[c]
  <2>1. /\ target[c] = p /\ status'[p] = FinalStatus(c) /\ Finished(c)
        /\ UNCHANGED <<target, claimed, halted, drive, cursor>>
    BY <1>0, <1>4 DEF SetStatus
  <2>2. claimed[c] # None
    BY <1>4 DEF SetStatus, IInv, CallsKnow, CallKnows
  <2>3. cursor[c] = PlanLen[p] => \A i \in 1..PlanLen[p] : <<c, p, i>> \in drive
    BY <2>1 DEF IInv, DriveIsClaimed
  <2>4. QED
    BY <2>1, <2>2, <2>3 DEF FinalStatus, Finished
<1>5. QED
  BY <1>2, <1>3, <1>4, WhoSettles

(* Every step keeps what a run did a prefix of its plan. *)
LEMMA PrefixStep ==
  ASSUME IInv, [Next]_vars, RunIsAPrefix
  PROVE  RunIsAPrefix'
<1> DEFINE Prefix(x) ==
      /\ x[2] = target[x[1]] /\ x[3] \in 1..PlanLen[x[2]]
      /\ \A j \in 1..(x[3] - 1) : <<x[1], x[2], j>> \in drive
      /\ x[3] <= cursor[x[1]] + 1
      /\ x[3] = cursor[x[1]] + 1 => halted[x[1]] \/ pc[x[1]] \in Over
<1>0. /\ drive \subseteq Calls \X Proposals \X Nat /\ CallTypes
      /\ \A x \in drive : claimed[x[1]] # None
  BY DEF IInv, TypeOK, StoreTypes, DriveIsClaimed
<1>1. drive \subseteq drive'
  BY WhoChangesDrive DEF TakeEffect
<1>2. ASSUME NEW x \in drive PROVE Prefix(x)'
  <2> DEFINE c == x[1]
  <2>1. c \in Calls /\ x[3] \in Nat /\ claimed[c] # None /\ Prefix(x)
    BY <1>0 DEF RunIsAPrefix, Over
  <2>2. target'[c] = target[c]
    BY <2>1, ClaimLasts
  <2>3. /\ cursor[c] \in Nat /\ cursor'[c] \in Nat /\ cursor[c] <= cursor'[c]
        /\ halted[c] => halted'[c]
        /\ pc[c] \in Over => pc'[c] \in Over
    BY <2>1, RunGoesOn
  <2>4. QED
    BY <1>1, <2>1, <2>2, <2>3
<1>3. ASSUME NEW c \in Calls, Operating(c), TakeEffect(c),
             OpExecuted(c) \/ OpFailed(c) \/ Raise(c),
             NEW x, x = <<c, target[c], cursor[c] + 1>>
      PROVE  Prefix(x)'
  <2>1. /\ target'[c] = target[c] /\ target[c] \in Proposals /\ cursor[c] \in Nat
        /\ cursor[c] < PlanLen[target[c]] /\ PlanLen[target[c]] \in Nat
    BY <1>0, <1>3, ConstantsAssumption
    DEF Operating, OpExecuted, OpFailed, Raise, CallTypes, IInv, CallsKnow, CallKnows
  <2>2. \A j \in 1..cursor[c] : <<c, target[c], j>> \in drive
    BY DEF IInv, DriveIsClaimed
  <2>3. \/ cursor'[c] = cursor[c] + 1
        \/ cursor'[c] = cursor[c] /\ (halted'[c] \/ pc'[c] \in Over)
    BY <1>0, <1>3 DEF OpExecuted, OpFailed, Raise, Leave, CallTypes, Over
  <2>4. (cursor[c] + 1) - 1 = cursor[c] /\ cursor[c] + 1 \in 1..PlanLen[target[c]]
    BY <2>1
  <2>5. QED
    BY <1>1, <1>3, <2>1, <2>2, <2>3, <2>4
<1>4. \/ drive' = drive
      \/ \E c \in Calls : /\ Operating(c) /\ TakeEffect(c)
                          /\ OpExecuted(c) \/ OpFailed(c) \/ Raise(c)
  BY WhoSteps
  DEF OwnStep, CommandStep, vars, Tick, Create, Invoke, CallStep, Load, Revalidate,
      ReadApproval, CheckExpiry, Claim, OpExecuted, OpFailed, SetStatus, Report, Audit, Raise,
      Crash, NoTerminal, ShowPlan, Answer, CliStep, CheckPending, ReadClock, InsertApproval,
      AuditApproval, CliCrash
<1>5. \A x \in drive' : Prefix(x)'
  BY <1>2, <1>3, <1>4 DEF TakeEffect
<1>6. QED
  BY <1>5 DEF RunIsAPrefix, Over

(* Every step leaves finitely many approvals in the table. *)
LEMMA FewApprovalsStep ==
  ASSUME IInv, [Next]_vars, FewApprovals
  PROVE  FewApprovals'
<1> DEFINE Stored == {a \in Commands : approvals[a] # None}
<1>0. approvals \in [Commands -> ApprovalRows \cup {None}] /\ StoreGrows
  BY StoreGrowsStep DEF IInv, TypeOK, StoreTypes
<1>1. CASE UNCHANGED approvals
  BY <1>1 DEF FewApprovals
<1>2. ASSUME NEW o \in Commands, InsertApproval(o) PROVE Stored' \subseteq Stored \cup {o}
  BY <1>0, <1>2 DEF InsertApproval, WithApproval
<1>3. ASSUME NEW c \in Calls, Claim(c), Claimable(row[c], target[c], stamp[c])
      PROVE  Stored' \subseteq Stored
  BY <1>0, <1>3, ClaimWrites, ConstantsAssumption DEF ApprovalRows
<1>4. \A o : IsFiniteSet(Stored \cup {o})
  BY FS_AddElement DEF FewApprovals
<1>5. QED
  BY <1>1, <1>2, <1>3, <1>4, WhoWritesApprovals, FS_Subset DEF FewApprovals

-----------------------------------------------------------------------------
(* Nothing is told, spent or settled at first. *)
LEMMA ReportInitHolds == Init => ReportInv
<1> SUFFICES ASSUME Init PROVE ReportInv
  OBVIOUS
<1>1. CallsTell /\ CommandsTell /\ SpentHasOwner
  BY DEF Init, CallsTell, CallTells, CommandsTell, CommandTells, SpentHasOwner
<1>2. SettledByRuns /\ RunIsAPrefix
  BY DEF Init, SettledByRuns, RunIsAPrefix
<1>3. {a \in Commands : approvals[a] # None} = {}
  BY DEF Init
<1>4. QED
  BY <1>1, <1>2, <1>3, FS_EmptySet DEF ReportInv, FewApprovals

(* What the processes report is true in every reachable state. *)
THEOREM ReportsInductive == Spec => []ReportInv
<1>1. IInv /\ IInv' /\ ReportInv /\ [Next]_vars => ReportInv'
  BY CallsTellStep, CommandsTellStep, SpentHasOwnerStep, SettledByRunsStep, PrefixStep,
     FewApprovalsStep
  DEF ReportInv
<1>2. QED
  BY <1>1, ReportInitHolds, Inductive, PTL DEF Spec

(* An attempt that is refused burns no approval (apply.py, "claim": every    *)
(* test comes before the UPDATE that spends).                                *)
THEOREM RefusalsSpendNothing == Spec => []RefusalSpendsNothing
<1>1. ReportInv => RefusalSpendsNothing
  BY DEF ReportInv, SpentHasOwner, CallsTell, CallTells, Tells, RefusalSpendsNothing
<1>2. QED
  BY <1>1, ReportsInductive, PTL

(* A claim is lost only to a call that holds the approval.                   *)
THEOREM LostClaimsHaveAWinner == Spec => []LostClaimHasAWinner
<1>1. ReportInv => LostClaimHasAWinner
  <2> SUFFICES ASSUME ReportInv, NEW c \in Calls, pc[c] = "done", stamp[c] # None,
                      verdict[c].outcome = "refused"
               PROVE  \E d \in Calls \ {c} : claimed[d] = row[c]
    BY DEF LostClaimHasAWinner
  <2>1. row[c] # None /\ claimed[c] = None /\ \E d \in Calls : claimed[d] = row[c]
    BY DEF ReportInv, CallsTell, CallTells, Tells
  <2>2. QED
    BY <2>1
<1>2. QED
  BY <1>1, ReportsInductive, PTL

(* What a run did to Drive is a prefix of its plan, however it ends.         *)
THEOREM RunsArePrefixes == Spec => []RunIsAPrefix
<1>1. ReportInv => RunIsAPrefix
  BY DEF ReportInv
<1>2. QED
  BY <1>1, ReportsInductive, PTL

(* The stored status says what happened.                                     *)
THEOREM StatusIsTrue == Spec => []StatusTellsTheRun
<1>1. ReportInv => StatusTellsTheRun
  BY DEF ReportInv, SettledByRuns, StatusTellsTheRun
<1>2. QED
  BY <1>1, ReportsInductive, PTL

(* The approval of an applied proposal reads as spent for ever.              *)
THEOREM SpentApprovalsReadSpent == Spec => []SpentReadsSpent
<1>1. IInv /\ ReportInv => SpentReadsSpent
  <2> SUFFICES ASSUME IInv, ReportInv, NEW p \in Proposals, status[p] = "applied",
                      Cardinality(ApprovalsOf(p)) = 1
               PROVE  ApprovalState(p) = "consumed"
    BY DEF SpentReadsSpent
  <2>1. PICK c \in Calls : target[c] = p /\ claimed[c] # None
    BY DEF ReportInv, SettledByRuns
  <2> DEFINE a == claimed[c]
  <2>2. a \in ApprovalsOf(p) /\ approvals[a].consumed # None
    BY <2>1 DEF IInv, ClaimsAreConsumed
  <2>3. IsFiniteSet(ApprovalsOf(p))
    BY FS_Subset DEF ReportInv, FewApprovals, ApprovalsOf
  <2>4. ApprovalsOf(p) = {a}
    <3>1. PICK x : ApprovalsOf(p) = {x}
      BY <2>3, FS_Singleton
    <3>2. QED
      BY <2>2, <3>1
  <2>5. a \in Commands /\ a \in Nat
    BY <2>2, ConstantsAssumption DEF ApprovalsOf
  <2>6. IsLatest(a, p) /\ \A b \in Commands : IsLatest(b, p) => b = a
    BY <2>2, <2>4, <2>5 DEF IsLatest
  <2>7. (CHOOSE b \in Commands : IsLatest(b, p)) = a
    BY <2>5, <2>6
  <2>8. QED
    BY <2>2, <2>7 DEF ApprovalState
<1>2. QED
  BY <1>1, Inductive, ReportsInductive, PTL

(* Every finished call has one audit row, and the rows of calls and commands *)
(* say what they did.                                                        *)
THEOREM AuditIsTrue == Spec => []AuditTellsTheRun
<1>1. IInv /\ ReportInv => CommandsTellTheApproval
  <2> SUFFICES ASSUME IInv, ReportInv, NEW o \in Commands
               PROVE  \/ approvals[o] = None /\ audit[o] \in {<<>>, <<Refused("approval_not_interactive")>>}
                      \/ approvals[o] # None /\ audit[o] = <<Row("ok", "", TRUE)>>
                      \/ approvals[o] # None /\ audit[o] = <<>> /\ cliPc[o] \in {"audit", "crashed"}
    BY DEF CommandsTellTheApproval
  <2>1. CommandTells(o)
    BY DEF ReportInv, CommandsTell
  <2>2. approvals[o] # None => cliPc[o] \in {"audit", "done", "crashed"}
    BY DEF IInv, CommandsKnow, TypeOK, CliTypes, CliPcs
  <2> QED BY <2>1, <2>2 DEF CommandTells
<1>2. ASSUME IInv, ReportInv, NEW c \in Calls
      PROVE  /\ Len(audit[c]) = IF pc[c] = "done" THEN 1 ELSE 0
             /\ pc[c] = "done" =>
                  /\ audit[c][1].approvedBy =>
                       claimed[c] # None /\ status[target[c]] \in {"applied", "failed"}
                  /\ (\E x \in drive : x[1] = c) =>
                       audit[c][1].approvedBy \/ audit[c][1] = Failure("internal_error")
  <2>1. CallTells(c) /\ \A x \in drive : claimed[x[1]] # None
    BY <1>2 DEF ReportInv, CallsTell, IInv, DriveIsClaimed
  <2>2. CASE pc[c] # "done"
    BY <2>1, <2>2 DEF CallTells
  <2>3. CASE pc[c] = "done"
    <3>1. audit[c] = <<verdict[c]>> /\ Len(audit[c]) = 1 /\ audit[c][1] = verdict[c] /\ Tells(c)
      BY <2>1, <2>3 DEF CallTells
    <3>2. QED
      BY <2>1, <2>3, <3>1 DEF Tells, Settled
  <2>4. QED
    BY <2>2, <2>3
<1>3. IInv /\ ReportInv => AuditTellsTheRun
  BY <1>1, <1>2 DEF AuditTellsTheRun, CallsTellTheRun
<1>4. QED
  BY <1>3, Inductive, ReportsInductive, PTL

(* Only a run that holds an approval of a proposal settles it, and settled   *)
(* proposals never become pending again.                                     *)
THEOREM OnlyPaidRunsSettleThem == Spec => OnlyPaidRunsSettle
<1>1. ASSUME IInv, [Next]_vars, NEW p \in Proposals, status[p] # "absent", status'[p] # status[p]
      PROVE  /\ status'[p] \in {"applied", "failed"}
             /\ \E c \in Calls : /\ pc[c] = "execute" /\ target[c] = p
                                  /\ claimed[c] \in ApprovalsOf(p)
  <2>0. status \in [Proposals -> Statuses]
    BY <1>1 DEF IInv, TypeOK, StoreTypes
  <2>1. ASSUME NEW q \in Proposals, Create(q) PROVE FALSE
    BY <1>1, <2>0, <2>1 DEF Create
  <2>2. PICK c \in Calls : SetStatus(c)
    BY <1>1, <2>1, WhoSettles
  <2>3. pc[c] = "execute" /\ target[c] = p /\ status'[p] = FinalStatus(c)
    BY <1>1, <2>0, <2>2 DEF SetStatus
  <2>4. claimed[c] \in ApprovalsOf(p)
    BY <1>1, <2>3 DEF IInv, CallsKnow, CallKnows, ClaimsAreConsumed
  <2>5. QED
    BY <2>3, <2>4 DEF FinalStatus
<1>2. IInv /\ [Next]_vars =>
        [\A p \in Proposals : status[p] # "absent" /\ status'[p] # status[p] =>
           /\ status'[p] \in {"applied", "failed"}
           /\ \E c \in Calls : /\ pc[c] = "execute" /\ target[c] = p
                                /\ claimed[c] \in ApprovalsOf(p)]_vars
  BY <1>1
<1>3. QED
  BY <1>2, Inductive, PTL DEF Spec, OnlyPaidRunsSettle
=============================================================================
