------------------------------ MODULE ApplyGate ------------------------------
(***************************************************************************)
(* The human gate in front of Google Drive: the tables proposals,          *)
(* approvals and audit of the SQLite file, the tool call apply_proposal    *)
(* (tools/apply.py over store/proposals.py and tools/base.py) and the      *)
(* command "cwops approve" (cli.py).                                       *)
(*                                                                         *)
(* Every statement the code sends to SQLite commits on its own (db.py      *)
(* opens the connection with isolation_level=None and nobody calls         *)
(* transaction()), tool calls run concurrently and the command runs in a   *)
(* process of its own.  So a call is a sequence of actions, one for each   *)
(* statement or Drive request, and the actions of all calls and commands   *)
(* interleave.  A call is lost in a crash, and any step can raise.         *)
(***************************************************************************)
EXTENDS Integers, Sequences, FiniteSets

CONSTANTS
  Proposals,  \* proposal ids
  PlanLen,    \* number of accepted operations of a proposal; 0: validation.ok is false
  PlanHash,   \* plan_hash of a proposal; two proposals may carry the same plan
  Calls,      \* calls of apply_proposal, named by their correlation ids
  ReadOnly,   \* the calls served with CWOPS_ALLOW_MUTATIONS=false
  Commands,   \* runs of "cwops approve"; an approval is named by the run that made it
  TTL,        \* approval_ttl_seconds
  MaxTime,    \* bound: how far the clock goes
  None

(* A row of approvals: a person approved this plan, until it expires. *)
ApprovalRows == [proposal : Proposals, plan_hash : {PlanHash[p] : p \in Proposals},
                 created : Nat, expires : Nat, consumed : Nat \cup {None}]

ASSUME ConstantsAssumption ==
  /\ PlanLen \in [Proposals -> Nat]
  /\ ReadOnly \subseteq Calls
  /\ Commands \subseteq Nat        \* approval ids are ordered (ORDER BY ... id DESC)
  /\ Calls \cap Commands = {}
  /\ TTL \in Nat \ {0}
  /\ MaxTime \in Nat
  /\ None \notin Nat \cup ApprovalRows

VARIABLES
  now,        \* the clock both processes read
  status,     \* proposals.status; "absent" before the row exists
  approvals,  \* the approvals table: the row each command inserted, or None
  audit,      \* the audit table: the rows of each correlation id, oldest first
  drive,      \* <<c, p, i>>: call c had operation i of proposal p take effect on Drive
  pc,         \* where each call of apply_proposal is
  target,     \* its argument proposal_id
  dryRun,     \* its argument dry_run
  row,        \* the approval latest_approval() returned to it
  stamp,      \* the time consume_approval read
  claimed,    \* its local "consumed": the approval it claimed
  cursor,     \* how many operations _execute has gone through
  halted,     \* _execute met a failing operation
  verdict,    \* the audit row the call is about to write
  cliPc,      \* where each command is
  cliTarget,  \* the proposal it approves
  cliStamp    \* the time approve() read

dbVars   == <<status, approvals, audit>>
callVars == <<pc, target, dryRun, row, stamp, claimed, cursor, halted, verdict>>
cliVars  == <<cliPc, cliTarget, cliStamp>>
vars     == <<now, dbVars, drive, callVars, cliVars>>

Running  == {"load", "revalidate", "latest", "check", "claim", "execute", "report"}
CallPcs  == {"idle", "audit", "done", "crashed"} \cup Running
CliPcs   == {"idle", "prompt", "confirmed", "stamp", "insert", "audit", "done", "crashed"}
Statuses == {"absent", "pending", "applied", "failed"}

(* An audit row: what happened, why, and whether approved_by is filled in. *)
Row(outcome, reason, by) == [outcome |-> outcome, reason |-> reason, approvedBy |-> by]
(* Mutant: rows of failed calls name an approver. *)
Failure_Approved(reason) == Row("error", reason, TRUE)

Refused(reason) == Row("refused", reason, FALSE)
Failure(reason) == Row("error", reason, FALSE)

RefusalCodes == {"approval_required", "approval_invalid", "mutations_disabled",
                 "plan_rejected", "proposal_not_pending"}
ErrorCodes   == {"proposal_not_found", "internal_error"}
AuditRows    == {Refused(r) : r \in RefusalCodes \cup {"approval_not_interactive"}}
                  \cup {Failure(r) : r \in ErrorCodes}
                  \cup {Row("ok", "", by) : by \in BOOLEAN}

Init ==
  /\ now = 0
  /\ status = [p \in Proposals |-> "absent"]
  /\ approvals = [a \in Commands |-> None]
  /\ audit = [id \in Calls \cup Commands |-> <<>>]
  /\ drive = {}
  /\ pc = [c \in Calls |-> "idle"]
  /\ target = [c \in Calls |-> None]
  /\ dryRun = [c \in Calls |-> TRUE]
  /\ row = [c \in Calls |-> None]
  /\ stamp = [c \in Calls |-> None]
  /\ claimed = [c \in Calls |-> None]
  /\ cursor = [c \in Calls |-> 0]
  /\ halted = [c \in Calls |-> FALSE]
  /\ verdict = [c \in Calls |-> None]
  /\ cliPc = [o \in Commands |-> "idle"]
  /\ cliTarget = [o \in Commands |-> None]
  /\ cliStamp = [o \in Commands |-> None]

(***************************************************************************)
(* The world: time passes, the propose tools store proposals.              *)
(***************************************************************************)
Tick ==
  /\ now < MaxTime
  /\ now' = now + 1
  /\ UNCHANGED <<dbVars, drive, callVars, cliVars>>

(* Mutant: the INSERT replaces a proposal that has been settled. *)
Create_Replaces(p) ==
  /\ status[p] # "pending"
  /\ status' = [status EXCEPT ![p] = "pending"]
  /\ UNCHANGED <<now, approvals, audit, drive, callVars, cliVars>>

(* ProposalStore.create: a validated plan is stored, PENDING. *)
Create(p) ==
  /\ status[p] = "absent"
  /\ status' = [status EXCEPT ![p] = "pending"]
  /\ UNCHANGED <<now, approvals, audit, drive, callVars, cliVars>>

(***************************************************************************)
(* The approvals table.                                                    *)
(***************************************************************************)
(* Mutant: approvals are looked up by what they approve, not for whom. *)
ApprovalsOf_SamePlan(p) ==
  {a \in Commands : approvals[a] # None /\ approvals[a].plan_hash = PlanHash[p]}

ApprovalsOf(p) == {a \in Commands : approvals[a] # None /\ approvals[a].proposal = p}

(* latest_approval: ORDER BY created_at DESC, id DESC LIMIT 1. *)
IsLatest(a, p) ==
  /\ a \in ApprovalsOf(p)
  /\ \A b \in ApprovalsOf(p) :
       \/ approvals[b].created < approvals[a].created
       \/ approvals[b].created = approvals[a].created /\ b <= a

(* Mutant: an approval past its time reads as expired, spent or not. *)
ApprovalState_ExpiryFirst(p) ==
  IF ApprovalsOf(p) = {} THEN "none"
  ELSE LET a == approvals[CHOOSE b \in Commands : IsLatest(b, p)] IN
       CASE a.expires <= now                     -> "expired"
         [] a.expires > now /\ a.consumed # None -> "consumed"
         [] a.expires > now /\ a.consumed = None ->
              IF a.plan_hash = PlanHash[p] THEN "active" ELSE "superseded"

(* approval_status: what a client is told became of the approval of p. *)
ApprovalState(p) ==
  IF ApprovalsOf(p) = {} THEN "none"
  ELSE LET a == approvals[CHOOSE b \in Commands : IsLatest(b, p)] IN
       IF a.consumed # None THEN "consumed"
       ELSE IF a.plan_hash # PlanHash[p] THEN "superseded"
       ELSE IF a.expires > now THEN "active" ELSE "expired"

(* Mutant: the UPDATE does not test consumed_at again. *)
Claimable_Twice(a, p, t) ==
  approvals[a] # None /\ approvals[a].plan_hash = PlanHash[p] /\ approvals[a].expires > t

(* Mutant: the UPDATE compares with a clock reading of its own. *)
Claimable_Rereads(a, p, t) ==
  /\ approvals[a] # None /\ approvals[a].consumed = None
  /\ approvals[a].plan_hash = PlanHash[p] /\ approvals[a].expires > now

(* The guard of the claiming UPDATE, evaluated on the row as it is now. *)
Claimable(a, p, t) ==
  /\ approvals[a] # None
  /\ approvals[a].consumed = None
  /\ approvals[a].plan_hash = PlanHash[p]
  /\ approvals[a].expires > t

(* Mutant: a new approval revives the spent ones of its proposal. *)
WithApproval_Revived(o, p) ==
  [a \in Commands |->
     IF a = o THEN [proposal |-> p, plan_hash |-> PlanHash[p], created |-> cliStamp[o],
                    expires |-> cliStamp[o] + TTL, consumed |-> None]
     ELSE IF a \in ApprovalsOf(p) THEN [approvals[a] EXCEPT !.consumed = None]
     ELSE approvals[a]]

(* The table with the row approve() builds for command o. *)
WithApproval(o, p) ==
  [approvals EXCEPT ![o] =
     [proposal |-> p, plan_hash |-> PlanHash[p], created |-> cliStamp[o],
      expires |-> cliStamp[o] + TTL, consumed |-> None]]

(***************************************************************************)
(* apply_proposal.                                                         *)
(***************************************************************************)
(* The tool call arrives. *)
Invoke(c, p, d) ==
  /\ pc[c] = "idle"
  /\ pc' = [pc EXCEPT ![c] = "load"]
  /\ target' = [target EXCEPT ![c] = p]
  /\ dryRun' = [dryRun EXCEPT ![c] = d]
  /\ UNCHANGED <<now, dbVars, drive, row, stamp, claimed, cursor, halted, verdict, cliVars>>

(* Leave the body of the tool, with the audit row that audited() will write. *)
Leave(c, r) ==
  /\ pc' = [pc EXCEPT ![c] = "audit"]
  /\ verdict' = [verdict EXCEPT ![c] = r]
  /\ UNCHANGED <<row, stamp, claimed>>

Goto(c, l) == pc' = [pc EXCEPT ![c] = l] /\ UNCHANGED verdict

(* get(), then the tests on the snapshot it returned: the proposal must be  *)
(* pending; a dry run answers here; the operator's switch must be on.  The  *)
(* approval_status read in between only decorates the answer.               *)
Load(c) ==
  LET s == status[target[c]] IN
  /\ pc[c] = "load"
  /\ \/ s = "absent" /\ Leave(c, Failure("proposal_not_found"))
     \/ s \in {"applied", "failed"} /\ Leave(c, Refused("proposal_not_pending"))
     \/ s = "pending" /\ dryRun[c] /\ Leave(c, Row("ok", "", FALSE))
     \/ s = "pending" /\ ~dryRun[c] /\ c \in ReadOnly
          /\ Leave(c, Refused("mutations_disabled"))
     \/ s = "pending" /\ ~dryRun[c] /\ c \notin ReadOnly
          /\ Goto(c, "revalidate") /\ UNCHANGED <<row, stamp, claimed>>
  /\ UNCHANGED <<now, dbVars, drive, target, dryRun, cursor, halted, cliVars>>

(* _revalidate against the workspace as Drive shows it now: it passes or it *)
(* rejects the plan.  A file Drive answers an error for is an unknown file  *)
(* (_resolve_targets and snapshot catch DriveApiError).                     *)
Revalidate(c) ==
  /\ pc[c] = "revalidate"
  /\ \/ Goto(c, "latest") /\ UNCHANGED <<row, stamp, claimed>>
     \/ Leave(c, Refused("plan_rejected"))
  /\ UNCHANGED <<now, dbVars, drive, target, dryRun, cursor, halted, cliVars>>

(* consume_approval, first statement: read the latest approval.  The tests  *)
(* on its hash and on consumed_at look at the row as it was read here.      *)
ReadApproval(c) ==
  LET p == target[c] IN
  /\ pc[c] = "latest"
  /\ \/ ApprovalsOf(p) = {} /\ Leave(c, Refused("approval_required"))
     \/ \E a \in ApprovalsOf(p) :
          /\ IsLatest(a, p)
          /\ IF approvals[a].plan_hash = PlanHash[p] /\ approvals[a].consumed = None
             THEN /\ Goto(c, "check")
                  /\ row' = [row EXCEPT ![c] = a]
                  /\ UNCHANGED <<stamp, claimed>>
             ELSE Leave(c, Refused("approval_invalid"))
  /\ UNCHANGED <<now, dbVars, drive, target, dryRun, cursor, halted, cliVars>>

(* consume_approval reads the clock once; the claim will use this reading. *)
CheckExpiry(c) ==
  /\ pc[c] = "check"
  /\ IF approvals[row[c]].expires > now
     THEN /\ Goto(c, "claim")
          /\ stamp' = [stamp EXCEPT ![c] = now]
          /\ UNCHANGED <<row, claimed>>
     ELSE Leave(c, Refused("approval_invalid"))
  /\ UNCHANGED <<now, dbVars, drive, target, dryRun, cursor, halted, cliVars>>

(* Mutant: the claim is made first and tested for expiry afterwards. *)
Claim_ThenTest(c) ==
  LET a == row[c] IN
  /\ pc[c] = "claim"
  /\ IF approvals[a].consumed = None
     THEN /\ approvals' = [approvals EXCEPT ![a].consumed = stamp[c]]
          /\ \/ approvals[a].expires > now /\ Goto(c, "execute")
                /\ claimed' = [claimed EXCEPT ![c] = a] /\ UNCHANGED <<row, stamp>>
             \/ approvals[a].expires <= now /\ Leave(c, Refused("approval_invalid"))
     ELSE Leave(c, Refused("approval_invalid")) /\ UNCHANGED approvals
  /\ UNCHANGED <<now, status, audit, drive, target, dryRun, cursor, halted, cliVars>>

(* UPDATE approvals SET consumed_at ... WHERE ...: one row, or the claim is lost. *)
Claim(c) ==
  LET a == row[c] IN
  /\ pc[c] = "claim"
  /\ IF Claimable(a, target[c], stamp[c])
     THEN /\ approvals' = [approvals EXCEPT ![a].consumed = stamp[c]]
          /\ Goto(c, "execute")
          /\ claimed' = [claimed EXCEPT ![c] = a]
          /\ UNCHANGED <<row, stamp>>
     ELSE Leave(c, Refused("approval_invalid")) /\ UNCHANGED approvals
  /\ UNCHANGED <<now, status, audit, drive, target, dryRun, cursor, halted, cliVars>>

(* _execute has an operation left to send. *)
Operating(c) == pc[c] = "execute" /\ ~halted[c] /\ cursor[c] < PlanLen[target[c]]

(* Operation i+1 takes effect on Drive, where i operations are behind. *)
TakeEffect(c) == drive' = drive \cup {<<c, target[c], cursor[c] + 1>>}

OpExecuted(c) ==
  /\ Operating(c)
  /\ TakeEffect(c)
  /\ cursor' = [cursor EXCEPT ![c] = @ + 1]
  /\ UNCHANGED <<now, dbVars, pc, target, dryRun, row, stamp, claimed, halted, verdict, cliVars>>

(* Mutant: a failed operation is counted and the next one is sent. *)
OpFailed_GoesOn(c) ==
  /\ Operating(c)
  /\ TakeEffect(c) \/ UNCHANGED drive
  /\ cursor' = [cursor EXCEPT ![c] = @ + 1]
  /\ UNCHANGED <<now, dbVars, pc, target, dryRun, row, stamp, claimed, halted, verdict, cliVars>>

(* DriveApiError: the operation failed, every later one is skipped.  An     *)
(* error answer does not say that Drive did nothing.                        *)
OpFailed(c) ==
  /\ Operating(c)
  /\ TakeEffect(c) \/ UNCHANGED drive
  /\ halted' = [halted EXCEPT ![c] = TRUE]
  /\ UNCHANGED <<now, dbVars, pc, target, dryRun, row, stamp, claimed, cursor, verdict, cliVars>>

(* Mutant: only a run that reaches the last operation is finished. *)
Finished_AtTheEnd(c) == cursor[c] = PlanLen[target[c]]

(* Nothing is left to send: all of it was done, or the rest is skipped. *)
Finished(c) == halted[c] \/ cursor[c] = PlanLen[target[c]]

(* Mutant: a run that did something counts as applied. *)
FinalStatus_AnyDone(c) == IF halted[c] /\ cursor[c] = 0 THEN "failed" ELSE "applied"

(* Mutant: a status the table does not know. *)
FinalStatus_Partial(c) == IF halted[c] THEN "partial" ELSE "applied"

FinalStatus(c) == IF halted[c] THEN "failed" ELSE "applied"

(* set_status: the payload it reads back differs from the one it writes in  *)
(* the status alone, so the read and the UPDATE amount to a blind write.    *)
SetStatus(c) ==
  /\ pc[c] = "execute"
  /\ Finished(c)
  /\ status' = [status EXCEPT ![target[c]] = FinalStatus(c)]
  /\ Goto(c, "report")
  /\ UNCHANGED <<now, approvals, audit, drive, target, dryRun, row, stamp, claimed, cursor,
                 halted, cliVars>>

(* The answer of a real run, whatever its operations came to, is an "ok" row. *)
Report(c) ==
  /\ pc[c] = "report"
  /\ Leave(c, Row("ok", "", TRUE))
  /\ UNCHANGED <<now, dbVars, drive, target, dryRun, cursor, halted, cliVars>>

(* Any statement or request may raise something that is not a CwopsError: a *)
(* locked database, a dropped connection.  _execute catches DriveApiError   *)
(* alone, so this leaves the run where it is; the request may have taken    *)
(* effect before its exception.                                             *)
Raise(c) ==
  /\ pc[c] \in Running \ {"check"}
  /\ Leave(c, Failure("internal_error"))
  /\ UNCHANGED drive \/ (Operating(c) /\ TakeEffect(c))
  /\ UNCHANGED <<now, dbVars, target, dryRun, cursor, halted, cliVars>>

(* audited(): the one row of the call, whichever way its body was left. *)
Audit(c) ==
  /\ pc[c] = "audit"
  /\ audit' = [audit EXCEPT ![c] = Append(@, verdict[c])]
  /\ pc' = [pc EXCEPT ![c] = "done"]
  /\ UNCHANGED <<now, status, approvals, drive, target, dryRun, row, stamp, claimed, cursor,
                 halted, verdict, cliVars>>

(* The server dies, or the audit row itself cannot be written. *)
Crash(c) ==
  /\ pc[c] \in Running \cup {"audit"}
  /\ pc' = [pc EXCEPT ![c] = "crashed"]
  /\ UNCHANGED <<now, dbVars, drive, target, dryRun, row, stamp, claimed, cursor, halted,
                 verdict, cliVars>>

(***************************************************************************)
(* cwops approve.                                                          *)
(***************************************************************************)
CliGoto(o, l) == cliPc' = [cliPc EXCEPT ![o] = l]

(* Without a terminal the command refuses before it looks at the proposal. *)
NoTerminal(o) ==
  /\ cliPc[o] = "idle"
  /\ audit' = [audit EXCEPT ![o] = Append(@, Refused("approval_not_interactive"))]
  /\ CliGoto(o, "done")
  /\ UNCHANGED <<now, status, approvals, drive, callVars, cliTarget, cliStamp>>

(* get() and the preview; an unknown id ends the command here. *)
ShowPlan(o, p) ==
  /\ cliPc[o] = "idle"
  /\ CliGoto(o, IF status[p] = "absent" THEN "done" ELSE "prompt")
  /\ cliTarget' = [cliTarget EXCEPT ![o] = p]
  /\ UNCHANGED <<now, dbVars, drive, callVars, cliStamp>>

(* The operator answers the prompt; --yes is an answer given in advance. *)
Answer(o, yes) ==
  /\ cliPc[o] = "prompt"
  /\ CliGoto(o, IF yes THEN "confirmed" ELSE "done")
  /\ UNCHANGED <<now, dbVars, drive, callVars, cliTarget, cliStamp>>

(* approve(): get() again; only a pending plan that validated goes on. *)
CheckPending(o) ==
  LET p == cliTarget[o] IN
  /\ cliPc[o] = "confirmed"
  /\ CliGoto(o, IF status[p] = "pending" /\ PlanLen[p] > 0 THEN "stamp" ELSE "done")
  /\ UNCHANGED <<now, dbVars, drive, callVars, cliTarget, cliStamp>>

ReadClock(o) ==
  /\ cliPc[o] = "stamp"
  /\ cliStamp' = [cliStamp EXCEPT ![o] = now]
  /\ CliGoto(o, "insert")
  /\ UNCHANGED <<now, dbVars, drive, callVars, cliTarget>>

(* INSERT INTO approvals: nothing tests the proposal's status once more. *)
InsertApproval(o) ==
  /\ cliPc[o] = "insert"
  /\ approvals' = WithApproval(o, cliTarget[o])
  /\ CliGoto(o, "audit")
  /\ UNCHANGED <<now, status, audit, drive, callVars, cliTarget, cliStamp>>

AuditApproval(o) ==
  /\ cliPc[o] = "audit"
  /\ audit' = [audit EXCEPT ![o] = Append(@, Row("ok", "", TRUE))]
  /\ CliGoto(o, "done")
  /\ UNCHANGED <<now, status, approvals, drive, callVars, cliTarget, cliStamp>>

(* Ctrl-C, or an exception main() does not expect. *)
CliCrash(o) ==
  /\ cliPc[o] \notin {"idle", "done", "crashed"}
  /\ CliGoto(o, "crashed")
  /\ UNCHANGED <<now, dbVars, drive, callVars, cliTarget, cliStamp>>

-----------------------------------------------------------------------------
(* What the server does by itself once a call has arrived, without faults. *)
CallStep(c) ==
  \/ Load(c) \/ Revalidate(c) \/ ReadApproval(c) \/ CheckExpiry(c) \/ Claim(c)
  \/ OpExecuted(c) \/ OpFailed(c) \/ SetStatus(c) \/ Report(c) \/ Audit(c)

(* What the command does by itself once the operator has said yes. *)
CliStep(o) == CheckPending(o) \/ ReadClock(o) \/ InsertApproval(o) \/ AuditApproval(o)

Next ==
  \/ Tick
  \/ \E p \in Proposals : Create(p)
  \/ \E c \in Calls :
       \/ \E p \in Proposals, d \in BOOLEAN : Invoke(c, p, d)
       \/ CallStep(c)
       \/ Raise(c)
       \/ Crash(c)
  \/ \E o \in Commands :
       \/ NoTerminal(o)
       \/ \E p \in Proposals : ShowPlan(o, p)
       \/ \E yes \in BOOLEAN : Answer(o, yes)
       \/ CliStep(o)
       \/ CliCrash(o)

Spec == Init /\ [][Next]_vars

(* A tool call that arrived runs on, and so does a command whose operator    *)
(* has answered: neither waits for anybody.  Nothing makes the operator      *)
(* answer, nor time pass, nor a fault happen.                                *)
Fairness ==
  /\ \A c \in Calls : WF_vars(CallStep(c))
  /\ \A o \in Commands : WF_vars(CliStep(o))

FairSpec == Spec /\ Fairness

-----------------------------------------------------------------------------
(***************************************************************************)
(* Properties.                                                             *)
(***************************************************************************)
StoreTypes ==
  /\ now \in Nat
  /\ status \in [Proposals -> Statuses]
  /\ approvals \in [Commands -> ApprovalRows \cup {None}]
  /\ audit \in [Calls \cup Commands -> Seq(AuditRows)]
  /\ drive \subseteq (Calls \X Proposals \X Nat)

CallTypes ==
  /\ pc \in [Calls -> CallPcs]
  /\ target \in [Calls -> Proposals \cup {None}]
  /\ dryRun \in [Calls -> BOOLEAN]
  /\ row \in [Calls -> Commands \cup {None}]
  /\ stamp \in [Calls -> Nat \cup {None}]
  /\ claimed \in [Calls -> Commands \cup {None}]
  /\ cursor \in [Calls -> Nat]
  /\ halted \in [Calls -> BOOLEAN]
  /\ verdict \in [Calls -> AuditRows \cup {None}]

CliTypes ==
  /\ cliPc \in [Commands -> CliPcs]
  /\ cliTarget \in [Commands -> Proposals \cup {None}]
  /\ cliStamp \in [Commands -> Nat \cup {None}]

(* The shape of the tables and of the locals of every call and command. *)
TypeOK == StoreTypes /\ CallTypes /\ CliTypes

(* Approvals are single-use: however calls interleave in consume_approval, *)
(* no two of them claim the same row.                                      *)
SingleUse ==
  \A c, d \in Calls : claimed[c] # None /\ claimed[c] = claimed[d] => c = d

(* Whatever reached Drive was paid for: by a real run on a server that may  *)
(* mutate, with an approval given for this very proposal and plan, which    *)
(* had been issued and had not expired when it was claimed.                 *)
ChangesArePaidFor ==
  \A x \in drive :
    LET c == x[1]  p == x[2]  a == approvals[claimed[c]] IN
    /\ ~dryRun[c] /\ c \notin ReadOnly
    /\ claimed[c] # None
    /\ a.proposal = p /\ a.plan_hash = PlanHash[p]
    /\ a.created <= a.consumed /\ a.consumed < a.expires

(* A refused attempt does not burn an approval: a row is consumed only on   *)
(* behalf of a call that went on to execute.                                *)
RefusalSpendsNothing ==
  /\ \A a \in Commands :
       approvals[a] # None /\ approvals[a].consumed # None
         => \E c \in Calls : claimed[c] = a
  /\ \A c \in Calls :
       pc[c] \in {"audit", "done"} /\ claimed[c] # None => verdict[c].outcome # "refused"

(* A claim that is lost was lost to somebody: the call whose UPDATE matched *)
(* no row was beaten by a call that holds that very approval, so an         *)
(* approval is never wasted on a race.                                      *)
LostClaimHasAWinner ==
  \A c \in Calls :
    pc[c] = "done" /\ stamp[c] # None /\ verdict[c].outcome = "refused"
      => \E d \in Calls \ {c} : claimed[d] = row[c]

(* A run stops at its first failure: what it did to Drive is a prefix of    *)
(* the plan, and only the operation it stopped at may be there unreported.  *)
RunIsAPrefix ==
  \A x \in drive :
    LET c == x[1]  p == x[2]  i == x[3] IN
    /\ p = target[c] /\ i \in 1..PlanLen[p]
    /\ \A j \in 1..(i - 1) : <<c, p, j>> \in drive
    /\ i <= cursor[c] + 1
    /\ i = cursor[c] + 1 => halted[c] \/ pc[c] \in {"audit", "done", "crashed"}

(* The status says what happened: APPLIED means that one run got every      *)
(* operation done, FAILED that some run met a failing operation.            *)
StatusTellsTheRun ==
  \A p \in Proposals :
    /\ status[p] = "applied" => \E c \in Calls : \A i \in 1..PlanLen[p] : <<c, p, i>> \in drive
    /\ status[p] = "failed" => \E c \in Calls : target[c] = p /\ halted[c]

CallsTellTheRun ==
  \A c \in Calls :
    /\ Len(audit[c]) = IF pc[c] = "done" THEN 1 ELSE 0
    /\ pc[c] = "done" =>
         LET r == audit[c][1] IN
         /\ r.approvedBy => claimed[c] # None /\ status[target[c]] \in {"applied", "failed"}
         /\ (\E x \in drive : x[1] = c) => r.approvedBy \/ r = Failure("internal_error")

(* What a command has written: no approval and at most a refusal, or an     *)
(* approval and its row, or an approval whose row is still to come.         *)
CommandsTellTheApproval ==
  \A o \in Commands :
    \/ approvals[o] = None /\ audit[o] \in {<<>>, <<Refused("approval_not_interactive")>>}
    \/ approvals[o] # None /\ audit[o] = <<Row("ok", "", TRUE)>>
    \/ approvals[o] # None /\ audit[o] = <<>> /\ cliPc[o] \in {"audit", "crashed"}

(* Exactly one audit row per finished call, and it does not lie: a row with *)
(* an approver belongs to a call that claimed an approval and settled the   *)
(* proposal, and a call that touched Drive has either such a row or an      *)
(* internal error.  At no time does a row speak of an approval that is not  *)
(* there, and an approval lacks its row only if the command is about to     *)
(* write it or was cut off between the two commits (cli.py:108).            *)
AuditTellsTheRun == CommandsTellTheApproval /\ CallsTellTheRun

(* The approval of an applied proposal reads as spent, however long ago it  *)
(* was: it is not mistaken for one that ran out unused (proposals.py:163).  *)
(* Only a second approval, which may be given while the plan runs, hides it.*)
SpentReadsSpent ==
  \A p \in Proposals :
    status[p] = "applied" /\ Cardinality(ApprovalsOf(p)) = 1 => ApprovalState(p) = "consumed"

(* The approvals table is append-only: a row stays as it was inserted but   *)
(* for consumed_at, which is written once, when its claimer is not yet      *)
(* executing.                                                               *)
ApprovalsAppendOnly ==
  [][\A a \in Commands : approvals[a] # None =>
       \/ approvals'[a] = approvals[a]
       \/ /\ approvals[a].consumed = None
          /\ \E c \in Calls : pc[c] = "claim" /\ claimed'[c] = a
          /\ approvals'[a] = [approvals[a] EXCEPT !.consumed = approvals'[a].consumed]]_vars

(* A proposal leaves PENDING, and changes at all once it has, only by the   *)
(* hand of a call that claimed an approval of it; and it never comes back.  *)
OnlyPaidRunsSettle ==
  [][\A p \in Proposals : status[p] # "absent" /\ status'[p] # status[p] =>
       /\ status'[p] \in {"applied", "failed"}
       /\ \E c \in Calls : /\ pc[c] = "execute" /\ target[c] = p
                            /\ claimed[c] \in ApprovalsOf(p)]_vars

(* Every call comes back with its audit row unless it crashed, and so does  *)
(* a command the operator has answered.                                     *)
EveryCallReturns ==
  /\ \A c \in Calls : pc[c] = "load" ~> pc[c] \in {"done", "crashed"}
  /\ \A o \in Commands : cliPc[o] = "confirmed" ~> cliPc[o] \in {"done", "crashed"}

(* What the rows of the approvals table grant, in the terms of HumanGate. *)
Granted ==
  [a \in {b \in Commands : approvals[b] # None} |->
     [plan |-> approvals[a].proposal, from |-> approvals[a].created,
      until |-> approvals[a].expires]]

Gate == INSTANCE HumanGate WITH
  Plans <- Proposals, Runs <- Calls, Grants <- Commands, clock <- now, grant <- Granted,
  holds <- claimed, changes <- drive

(* The approval gate keeps the promise HumanGate makes. *)
KeepsThePromise == Gate!Spec

(* What the repository's texts say, and the code does not keep.             *)

(* docs/safety-model.md, "Mid-run failure": a run that stops before the end *)
(* leaves the proposal FAILED, so that a retry needs a fresh proposal.      *)
InterruptedRunEndsFailed ==
  \A c \in Calls :
    pc[c] = "done" /\ claimed[c] # None /\ cursor[c] < PlanLen[target[c]]
      => status[target[c]] = "failed"

(* docs/architecture.md: "Concurrent applies cannot both win." *)
ConcurrentAppliesCannotBothWin ==
  \A c, d \in Calls :
    c # d /\ pc[c] = "execute" /\ pc[d] = "execute" => target[c] # target[d]
=============================================================================
