# A TLA+ model of claude-workspace-ops-mcp

The repository is an MCP server that tidies a Google Drive. An agent may propose
a plan (create folders, rename, move); deterministic code validates it; a person
approves it in a terminal; only then does `apply_proposal` change anything. This
directory models that machinery, checks it with TLC and proves the core of it
with TLAPS. File names below are relative to `src/cwops/` unless they name a doc.

## 1. Inventory

| component | state it keeps | operations | correct if |
|---|---|---|---|
| approval gate, `store/proposals.py`, `store/db.py` | tables `proposals`, `approvals` | create, approve, latest_approval, consume_approval, set_status | an approval is used once, in its time, for the plan it was given for |
| `tools/apply.py` | nothing of its own | apply_proposal: load, dry run, mutation switch, revalidate, claim, execute, set_status | Drive changes only for a claimed approval; what was done is a prefix of the plan and is reported |
| audit, `store/audit.py`, `tools/base.py` | table `audit` | `audited()` around each tool | one row per call, and it tells what happened |
| `cli.py` | nothing | approve, and commands that print or provision | a person at a terminal gives the approval |
| validator, `rules/validate.py` | none (pure) | validate_plan | what it accepts stays inside the workspace |
| proposal tools, `tools/organize.py` | none | propose_operations, propose_organization | what was accepted is what the person sees and what is run |
| workspace, `workspace.py` | none | snapshot, list_folder, observe, search | containment is proved from what was fetched |
| ledger, `store/grants.py` | table `grants` | record, granted_ids | it holds what the server can reach |
| Drive client, `drive/client.py`, `drive/retry.py` | none | get, list, create, rename, move, each retried | an operation reported as done is done |
| duplicates, `rules/duplicates.py` | none (pure) | find_duplicates | nothing passes for unique unless it is; page order is irrelevant |
| naming rules, `rules/naming.py` | none (pure) | normalize_title, check_name | a document and its copies have one title |
| organizer, `ai/` | none | classify, suggest_taxonomy | whatever it answers is harmless |
| Google authorization, `drive/auth.py` | the token file | load_credentials, by the server and by `cwops auth` | the file holds a token of the latest consent |
| provisioning, `provision.py` | none | init_workspace, seed_workspace | what the app made is in the ledger |
| configuration, wiring, logging | settings | | |

How they interact. The agent's tool calls arrive at the server, which may run
several of them at once (the tools are plain functions and `mcp` runs them in
worker threads). `cwops` is another process. Both share one SQLite file, opened
with `isolation_level=None`: every statement commits by itself, and
`Database.transaction()` has no caller. The server talks to Drive, which its
owner uses at the same time, and which answers late or not at all. Whatever Drive
answers with goes into the ledger, of the server as of `cwops workspace` and
`cwops grant`. Every process that talks to the real Drive loads, and may rewrite,
the one token file.

What is hard: the interleaving of calls and commands between the statements of
`consume_approval` and `approve`; a crash or an exception between the claim and
`set_status`; validation against a snapshot that is stale when the plan runs;
plans whose operations rest on one another (refs) or undo one another; retries of
requests that were carried out; snapshots put together from requests between which
Drive changes; a ledger and a token file that several processes write; caps and
limits. The hazards are listed, each at
its line, in `PROJECT.json`.

## 2. Modules

    HumanGate         what the gate promises, abstractly
      ^ implemented by
    ApplyGate         tables, apply_proposal, cwops approve         MCApplyGate
      ApplyGate_proofs    what it lets through, what it reports
    PlanRules         the validator, as operators
      PlanRules_proofs    what an accepted plan is, and that it is accepted again
      PlanRun         one plan, from proposal to end, on a shared Drive   MCPlanRun
        PlanRun_proofs    (on PlanRules_proofs too)
      WorkspaceView   one snapshot and the ledger, request by request     MCWorkspaceView
        WorkspaceView_proofs  (on PlanRules_proofs too)
    DriveCalls        the requests of a run, with retries           MCDriveCalls
      DriveCalls_proofs
    Naming            titles without their copy markers, as operators
    ListFolder        list_folder
      ListFolder_proofs
      FindDuplicates  the tool find_duplicates, on both             MCFindDuplicates
        FindDuplicates_proofs  (on ListFolder_proofs too)
    TokenFile         the token file and who writes it              MCTokenFile
      TokenFile_proofs

The same run is seen at four scales. ApplyGate has the concurrency of the gate
and takes the outcome of validation and of an operation for a choice. PlanRun has
the trees, the validator and the owner, and takes a snapshot and an operation for
one step each. WorkspaceView has the requests a snapshot consists of, DriveCalls
those of an operation.

**ApplyGate.** One action per SQL statement or request: a call goes `load`
(`get` and the tests on its result) - `revalidate` - `latest` (SELECT of the
latest approval) - `check` (expiry against one clock reading) - `claim` (the
guarded UPDATE) - `execute` (one action per operation) - `report` - `audit`.
`Claimable` is the WHERE clause, evaluated on the row as it then is. `Raise` is
any exception that is no CwopsError, at any statement; `Crash` loses the call.
The command goes `prompt` - `confirmed` - `stamp` - `insert` - `audit`. An
approval row is named by the command that inserted it; `plan_hash` is a value two
proposals may share. `set_status` reads the payload back and writes it with the
status: the two statements write what a blind write would, so they are one action.
The clock never goes back.

**HumanGate.** Grants are issued for a time, spent by at most one run each, while
they are good, and a run that spent one changes Drive in the order of the granted
plan. The refinement mapping takes the rows of `approvals` for grants, the local
`consumed` of a call for what it holds, and the same set for the changes.

**PlanRules, PlanRun.** `CheckOp` and `Accepted` are `_check_op` and
`validate_plan`, with `CheckSource`, `CheckDestination`, `CheckContainment`,
`CheckNoCycle` and the ref table. Snapshots are partial: `Snapshot` climbs from
the fetched files as far as it can see. A file has one parent, since the code
looks at `parents[0]` alone. Ids are abstract; a name is the verdict of
`check_name`. `Organize` lets the model answer with any draft of `Drafts`.
`Ids` are what anybody may call a file, and `Operation` and `DraftPlan` what the
schemas of the tools admit over them; `PlanAssumption` says that plans and drafts
are made of these, that Drive is a finite forest whose parents are folders (it
refuses anything else), and that numbers, refs and files do not coincide (Drive
numbers what it creates).
`Meddle` is the owner, who moves files and gives and withdraws grants between any
two steps. A snapshot (`SnapshotOf`) is one step, although it is several requests,
and so is a move: Drive here is the fake one (`drive/fake.py`), which compares the
parents and changes them at once. The two requests the real client makes of a move
are in DriveCalls.

**WorkspaceView.** What that step leaves out. A tool call goes `targets`
(`_resolve_targets`, an id per step) or lists a folder (propose_organization),
then `root` and `climb` (the loop of `Workspace.snapshot`, a request per step),
and is `judged`; `Leave` is its end or any exception. Every file fetched is
recorded (`Recorded` is `INSERT ... ON CONFLICT`, which overwrites the source and
never removes a row). A provisioning command goes `create` - `record` for each
file, then `audit`; `Unanswered` is a request whose answer is lost, carried out or
not, after which `call_with_retry` sends another, up to `Attempts` times for each
file (`tried`). The owner moves files and gives
and withdraws grants; `Grant` and `Search` are recorded by other processes. The
file that the n-th request of a command makes is named by the pair, so that
`MishapsCostOneFileEach` can count what the ledger misses. The verdicts are the
operators of PlanRules on what was fetched. `inside`, `reachable`, `quiet` and
`moves` are history: what the properties remember of Drive since the snapshot was
begun.

**DriveCalls.** An operation is one request, a move two (`get_file`, then
`update`). A request in `flight` may be carried out when it is answered, later, or
never; after a transient failure it is sent again, up to `Attempts` times. A lost
connection ends as the exception it is (`raised`), an HTTP status as a
DriveApiError (`failed`). The owner moves files between any two of these; `kept` is
history, where the owner last put a file that no run had looked at yet. The plans are those the validator lets through: refs
declared once and before their use, no file renamed or moved twice
(`CallsAssumption`).

**ListFolder, FindDuplicates.** The breadth-first loop over the folders, and in it
`list_children`, a request per page of at most `PageSize` files (`_paged`): `Page` is
an answer with a token for the next, `Visit` the last one, with which the folder is
done. A page brings any children that the pages before did not, in any order; the
last one leaves nothing out but what the owner moved since the first, which may come
or not. That the pages of one query never repeat a file is what is assumed of Drive.
A file may have several parents. `MoveByHand` is the owner, who moves files between two requests, those for
two pages of one folder included, and `Fail` a request that raises: the listing is lost. `ListAssumption` says that
each Drive is finite and that parents are folders; it may have cycles.
`FindDuplicates` groups what was collected, as `_by_checksum` and
`_by_metadata` do, with keys and files in Python's order of strings (`Below`).
`Ordered` is `sorted()`, which is stable: the n-th of the result is the file at the
position with n - 1 positions before it, by key and then by position. A document's
name is given by its history: the stem its author wrote, the marks that copying put
on it one after the other (`Marked`: "Copy of" in front, or one of `Endings`), and
the extension. `DuplicatesAssumption` says that ids and tokens are ordered and that
every document has a look of these kinds, `CopiesAssumption` that it was copied four
times at most, as often as the loop of `strip_copy_markers` turns, and that the stem
and the extension of what was copied can be told from the marks: a stem that itself
ends in "(1)" or "copy" loses that too, and a stem of an author's own may be
anything as long as nobody copied it.

**Naming.** A name is a sequence of tokens: words, single blanks, dashes, dots,
underscores, numbers in parentheses. Each pattern of `_COPY_PATTERNS` is an
operator on such sequences, `Pass` is one turn of the loop, `StripCopyMarkers` the
four turns, `NormalizeTitle` the whole. Case and diacritics are left out: every
step ignores or removes them. `check_name` stays a verdict, in PlanRules.

**TokenFile.** `load_credentials`, run by any number of starts and of `cwops auth`:
`load` - `refresh` or `consent` - `open` - `write`. `_save` is `write_text`, which
truncates and then writes: two steps, and the second writes from the start of the
file over whatever another process wrote meanwhile (`Junk` where a longer text
keeps its end). Deleting the file leaves open files to write to nothing
(`linked`). Google gives authorizations, numbered by consent, and lets them die.

## 3. Runs

| run | question | bounds |
|---|---|---|
| `gate_race` | do two calls and two commands on one proposal keep the gate's promises, with faults, crashes and expiry? | 2 calls (symmetric), 2 commands, 2 operations, TTL 1, clock to 1 |
| `gate_live` | the same with two proposals of one plan hash and a read-only server; does every call end? | 2 proposals, 2 calls, 1 command, clock to 2 |
| `plan_run` | is an accepted plan accepted again, run to its end, and does it do just what it says? are the model's drafts harmless? does what passes revalidation stay inside, whatever the owner does meanwhile? | 3 Drives of 6 files (siblings, nested, root not on top), one of them perhaps hidden; some 1700 plans of 1-2 operations, 4 longer ones; 13 x 57 drafts, and two that name a folder; for 132 of the plans and the drafts that name the folder B, two acts of the owner |
| `calls_race` | do retries keep what was reported, does `move()` see that a file has gone, and does every run end? | 2 runs, 2 operations each, 3 attempts, one act of the owner |
| `list_walk` | is a listing complete below the cap, what can a move between its requests do to it, is the duplicate report independent of page order, and are copies found whatever they are called? | 5 files below the folder or beside it, one move by the owner, caps 0, 3, 8, 9, pages of 2, depth limit 3; 25 pairs of looks, and a document next to each of 26 copies of copies |
| `ledger_walk` | what can be said of a snapshot while Drive changes, and of the ledger? | 5 files; 1 snapshot, 2 acts of the others; two commands with 2 attempts per request |
| `token_life` | when is the token file damaged, when does it lose an authorization? | 2 starts, 2 runs of `cwops auth` (symmetric), 2 lengths, one deletion |
| `gate_interrupted`, `gate_two_winners`, `plan_cycle`, `list_untruncated`, `ungranted_requested` | see section 6 | the least that shows it |

Why the bounds are enough. Two calls and two approvals give every overtaking there
is in `consume_approval`: a third call meets a row that is free, spent or newer,
as the second does; for the properties with a theorem the number does not matter.
Two operations distinguish none, some and all; an approval of one tick is live,
expires between any two steps, or is over. On Drive, ancestor chains of three
show a proof of containment, a broken chain and a chain that ends elsewhere; plans
of two operations show every pair of interfering operations, and the longer ones
chain refs and exceed `MaxOps` = 3. Three attempts leave up to two requests in
flight per call, the code's four (`DEFAULT_ATTEMPTS`) one more of the same. The
depth limit is 3 instead of 6 so that a tree of depth 4 exceeds it. Two acts of
the others show both sides of `OneMoveCannotFoolASnapshot`: with one move it holds,
and without the words "moves <= 1" TLC refutes it; with `MaxMoves` = 2 it refutes
`OneMoveListsNothingForeign` too. Pages of 2 split every folder of three, and a cap
of 3 ends between two pages. `MCInit` of `list_walk` lets the owner
move a file under one look and strategy only, since neither matters to the walk,
lists a folder without those below it under that look only, and
puts the copies in listings that are cut off nowhere: what is said of titles and
groups is about a Drive at rest. In `plan_run` (`MCSpec`) the owner interferes with a
part of the plans (`MeddledPlan`): every kind of operation is among them, on files
inside and outside, and every ordered pair of the eleven; `MCNext` is otherwise the `Next` of
PlanRun. Names are copied four times,
in any two ways by turns, as often as the code's loop turns. Two starts and two consents give
every order of two saves; without `~together` in `SoloRunsKeepTheNewest` TLC finds
a server that saves an old authorization over the new one.

`MaxTime`, `MaxMeddling`, `MaxByHand`, `MaxWalks`, `MaxActs`, `MaxDeletes`,
`MaxMoves` and `Attempts` are the only counters with a bound of the model; runs stop where all
calls are over, so deadlock is not checked.

Fairness. `FairSpec` of ApplyGate is weak fairness of a call's own steps once it
has arrived, and of a command's once its operator has answered: the code runs on,
it waits for nobody. Time, operators, faults and crashes get none. `FairSpec` of
DriveCalls is weak fairness of sending and of the end of each attempt: the HTTP
library's socket timeout ends it at the latest.

### Properties

The gate: `SingleUse`, `ChangesArePaidFor`, `RefusalSpendsNothing`,
`LostClaimHasAWinner`, `RunIsAPrefix`, `StatusTellsTheRun`, `AuditTellsTheRun`,
`SpentReadsSpent`; `ApprovalsAppendOnly` and `OnlyPaidRunsSettle` (what a step may
never do); `EveryCallReturns`; `KeepsThePromise` (HumanGate).
The plan: `UnchangedWorldRevalidates`, `UndisturbedRunSucceeds`,
`AppliedPlanHolds`, `OneFolderMoveKeepsTheTree`, `RevalidatedPlansAreInside`,
`OutsideUntouched`, `ExpectedParentIsHonoured`, and for drafts
`DraftsOnlyFileAway`.
Snapshot and ledger: `OneMoveCannotFoolASnapshot`, `QuietSnapshotIsAtomic`,
`StaleRowsAcceptNothing`, `MishapsCostOneFileEach`.
The token file: `DamageNeedsACrashOrAnOverlap`, `SoloRunsKeepTheNewest`.
The requests: `ExecutedStaysExecuted`, `CleanFailureDoesNothing`, `ConflictsAreSeen`,
`StrayFoldersComeFromRetries`, `EveryRunEnds`.
Listing: `CompleteBelowTheCap`, `OneMoveListsNothingForeign`, `BreadthFirst`, `TruncatedLacksSomething`,
`PageOrderDoesNotMatter`, `NothingIsSilentlyUnique`, `GroupsAreTwins`.
Each is stated in words above its definition. Definitions called `X_Y` are plausible
mistakes in `X`; every property is violated by one of them.

What the positive statements leave room for is as telling as what they say.
`OutsideUntouched` speaks of runs nobody disturbs: between revalidation and the
end of the run the owner can move a destination out, and nothing notices.
`OneFolderMoveKeepsTheTree` needs its "one": see `plan_cycle`.
`ExecutedStaysExecuted` is about files nobody else touches: a late copy of a
retried request may undo what the owner does later. `GroupsAreTwins` lets a
document listed in two folders be grouped with itself. `StaleRowsAcceptNothing`
does not rest on the ledger: whatever is judged was fetched, and for the same reason
the ledger stops nothing (`ungranted_requested`). `ConflictsAreSeen` is about a move
that has not looked yet: between its look and its write the owner's move is not
noticed, and `ExpectedParentIsHonoured`, where a move is one step, says nothing of
that. `AuditTellsTheRun` lets an approval be without its audit row after a crash
between the two commits. `SoloRunsKeepTheNewest` needs that no two processes overlap.
`MishapsCostOneFileEach` is about the database of these commands: files found
later by a listing get their row then.

## 4. What is proved

`ApplyGate_proofs`, for any proposals, plans, calls, commands and lifetimes, from
`ConstantsAssumption` alone (approval ids are ordered, calls and commands differ):

- `Inductive`: `Spec => []IInv`. `SingleUse` is not inductive by itself. A call
  that is about to claim must know that its row is an approval of its target, not
  newer than its clock reading (`CallsKnow`); a command about to insert that its
  row is still absent (`CommandsKnow`); a claimed row must be, and stay, consumed,
  so that the UPDATE's guard keeps a second claimer out (`ClaimsAreConsumed`);
  rows must be within their life when consumed (`RowsAreSound`); and Drive and
  the cursors must be tied to claims (`DriveIsClaimed`). There is one lemma per
  conjunct, with one case per action. TLC found `IInv` true of the instance of
  `gate_race` before it was proved.
- from it `TypeCorrect`, `ApprovalsAreSingleUse`, `DriveChangesArePaidFor`, the
  action property `ApprovalsTableIsAppendOnly`, and the refinement
  `RefinesHumanGate`: `Claim` is `Spend`, `InsertApproval` is `Issue`, an operation
  that takes effect is `Change`, `Tick` is `Tick`, and all else stutters.
- what a call reports, in the second half of the module, rests on another invariant,
  `ReportInv`, inductive together with `IInv`. What a call reports at its end
  depends on what it had done many steps before, so `CallsTell` says, for each step
  of a call, what it may hold and what it may yet answer: no clock reading before
  the expiry test, a lost claim leaves a winner behind, a verdict with an approver
  comes after `set_status`. `SpentHasOwner` and `SettledByRuns` look at it from the
  table's side, and `FewApprovals` keeps the approvals finite so that "exactly one"
  can be counted. From it follow `RefusalsSpendNothing`, `LostClaimsHaveAWinner`,
  `RunsArePrefixes`, `StatusIsTrue`, `SpentApprovalsReadSpent`, `AuditIsTrue` and
  the action property `OnlyPaidRunsSettleThem`. With them every safety property of
  the gate is proved.

`WorkspaceView_proofs`, from `ViewAssumption`, for any Drive, plans and commands.
The assumption says that quotas are positive and bounds are numbers, that Drive is
finite and parents are folders, that a new file gets a new id, and where the
commands create files: `init` in My Drive, which the app is not shown, `seed` in
the root.

- `ViewTypeCorrect`, `StaleRowsAreHarmless` and `MishapsAreCounted` from `ViewInv`.
  That a stale row lets nothing through needs that the snapshot's files were
  visible since it was begun (`SnapshotIsReached`), which the requests keep step by
  step. For the count, a file without a row is either about to be recorded by its
  command or was lost in a mishap; that a command records each file it was told of
  before it asks for the next (`CommandsCount`, `CreatedIsOfDrive`) makes every
  mishap cost one file, and a second mishap of the same request a second file.
- `QuietSnapshotsHold` from `SnapshotInv`: while nothing happens, the snapshot is
  of Drive as it is, and what it lacks above its files is invisible or still
  pending (`QuietIsCurrent`). Two parts of one Drive that show all there is to see
  above a file (`Shows`) give it one verdict (`SameVerdict`): the snapshot climbs
  past the files that several parents and Drive's order bring in, and none of them
  matters.
- `OneMoveSnapshotsHold`: each parent in the snapshot is from one of two Drives that
  differ in one file, the one before the move and the one of now, and all of either
  workspace is remembered (`SnapshotIsOfTwo`). So the snapshot is a part of the one
  or of the other. A file created meanwhile is put into both. The assumption on the
  commands is needed: a file created in a folder that was just moved out, by
  somebody else's hand, would be a second change.

`TokenFile_proofs`, from `TokenAssumption`, for any number of processes:

- `DamageIsExplained`: while no two saves overlapped, there is one writer at most,
  and the file is empty as long as it has it open (`OneWriter`), so that no longer
  text keeps its end.
- `SoloRunsAreSafe`: what the only process at work holds is as new as anything
  saved (`OneAtWork`), by what it saw in the file when it began.

`DriveCalls_proofs`, from `CallsAssumption`, for any plans the validator lets
through, any number of runs and any number of attempts:

- `ExecutedOperationsStay`, `StrayFoldersAreTwins` and `CleanFailuresAreClean` from
  `CallsInv`. Every request on its way is awaited, or its operation met a transient
  failure (`FlightIsKnown`). What a late copy does is harmless because the parents
  it removes and the one it adds cover those the file can have by then
  (`MovesConverge`): the file ends in the target alone, whether or not it was there
  already. A target does not change under a request in flight, since only an
  earlier operation declares its ref (`TargetsAreStable`). What has not been
  reported and met no failure has left no trace (`PendingIsUntouched`).
- `ConflictsAreNoticed`: while a file is where the owner put it before any move had
  looked, no move of it is under way but one that looked since, and that one found
  what it expects (`LooksAreAhead`).

`PlanRules_proofs`, for any tree and any snapshot, is about the validator:

- `AcceptedPlanIsSound`: an accepted plan is a selection of what was submitted; refs
  are declared once and before their use, no file is renamed or moved twice, every
  file named is provably in the workspace, every ref leads in finitely many
  steps to a folder that is (`Anchors`), and no folder is put below itself in the
  snapshot. `CheckOp` decides one operation from the state the earlier ones
  left, so the invariant `Sound` of the loop `UpTo` carries all of it, one lemma per
  kind of operation.
- `AcceptedIsAcceptedAgain`: validated again, without the rejected operations and
  against a snapshot that has only what the accepted ones name, the plan loses
  nothing. What a verdict rests on is a chain of parents up to the root, and that
  chain is fetched again.

Both need inductions over natural numbers: on the length of a chain of parents and
on the turns of the loop. The library's induction theorems take an operator, which the
provers cannot instantiate; `Induction` is the same for a set of numbers, proved
from the least element of its complement. `Up` and `UpTo` are recursive functions;
that they exist and satisfy their equations is proved in the same way (`ClimbExists`,
`LoopExists`). `BoundedSearch` is the pigeonhole: in a Drive of n files a
chain needs no more than n steps to reach what it can reach, which is the bound in
the definitions.

`PlanRun_proofs`, from `PlanAssumption`, for any Drive, plans and drafts and any
number of acts of the owner: `PlanInductive`, that is `Spec => []PlanInv`, and from
it all seven invariants of PlanRun and its action property. The parts of `PlanInv`,
each of which TLC checked before its proof:

- `DriveIsSound`, `PhaseIsSound`, `FailsForAReason`: Drive is a finite tree of files
  whose parents are folders, nothing is done before the run, and a refused
  operation is still impossible afterwards.
- `AcceptedHere`: while nobody has touched Drive, the plan is what the validator made
  of some submission and a part of this very Drive; so `UnchangedWorldHolds` is
  `AcceptedIsAcceptedAgain`.
- `DraftIsCompiled`: what `_compile_draft` gives keeps its shape through validation.
- `RunIsPlanned`: at the start of the run `AcceptedPlanIsSound` held of the Drive as
  it then was. `RevalidatedPlansHold` is this.
- `RunIsExecuted`: in a run nobody disturbs, tree, refs and renames are a function of
  the number of operations executed (`Effects`). That needs `InOrder`: a file
  touched twice, or a ref declared twice, would let a later operation
  undo an earlier one. From it follow `AppliedPlansHold`, `OutsideHolds`, `DraftsHold`
  and `UndisturbedRunHolds`.
- `OneFolderMoveHolds` is the longest: only the one moved folder can be above
  anything, and what it is moved to is not below it (`NoCycles`), so a chain
  that reached the root before, cut where it meets a moved file, goes on from the
  destination, whose own chain meets no moved file (`ChainUpToChange`).
- `ExpectedParentHolds` is about one step and holds however Drive is meddled with.

`ListFolder_proofs`, from `ListAssumption`, for any Drive, cap, page size
and depth limit. That the pages of one folder add up to a list that has each file
once (`ListedOnce`), every one a child or moved meanwhile, is what the rest needs of
them.

- `OneMoveIsHarmless`. With one move, the files that were below the folder at some
  time are closed: whatever is in a folder among them is among them (`EverIsClosed`),
  so a walk that began among them stays there. What makes it so is that Drive
  refuses cycles: what left went with all below it (`MoveLosesASubtree`), so a folder
  that lost its place cannot have received the file that was moved.
- `ShortListingsAreComplete`, from `CompleteInv`. The queue is sorted, holds two
  depths at most and each folder once (`QueueIsSorted`, `QueuedOnce`). Below the cap no
  folder waits deeper than a path of files that stayed leads to it (`QueueIsDeep`),
  and what is in a walked folder is listed, and seen (`WalkedAreListed`); so all
  folders above the queue have been walked (`SeenAboveTheQueue`), and at the end
  that is all of them. `QueueIsDeep` is why the depth limit costs nothing: a folder
  with a long path and a short one is never first met on the long one.
- `TruncatedMeansMore` and `ListingIsBreadthFirst`, with `QuietInv`: the length of the
  list is the number of entries of the folders that were walked (`ListedByFolder`),
  one less at least if it was cut; a file that is new to the list is not above the
  queue (`LevelByLevel`). `DepthIsLeast` is the pigeonhole for `Depth`.

`FindDuplicates_proofs`, from `DuplicatesAssumption`, `CopiesAssumption`,
`NamingAssumption` and `ListAssumption`, for any Drive, any looks of its documents, any
cap and both strategies. `DupInductive` is short: once given, the report is
`Duplicates(collected)` (`DupInv`, which TLC checked first), and `ToolLists` says that
the tool is a walk of list_folder, so that the theorems about listings hold of it. The
work is in the operators:

- `ReportForgetsTheOrder`. `Below` is a strict total order of sequences of numbers
  (`LowerIsTransitive` and what follows it). So each position has a place of its own
  among the others, every place is taken (a pigeonhole over the places), and two lists
  of the same files sort to the same list, the same file at two positions being no
  matter. The report forgets the order of listings that were cut off or disturbed too,
  which an earlier form of `PageOrderDoesNotMatter` left out.
- `GroupsHoldOnlyTwins`. A group is a bucket in another order, so its members share a
  key, and in a key the title ends at the separator's place from the right: equal keys
  are equal sizes. The first has no position before it, so no earlier time.
- `CopiesAreFound`, which is what the loop of `strip_copy_markers` is for. From the
  stem alone, marking once more gives larger and larger sets of names (`Grown`), and
  in each of them a name that begins or ends like a mark is a marked one of that set
  (`Chain`). So whatever a pattern takes off is a mark, and one pass leads from each
  set into the one before (`PassTakesOff`): four passes take off four marks, of any
  kind and in any order (`MarksComeOff`). Hence copies have the title of what was
  copied (`TitleOf`, `CopiesShareTheirTitle`), the same key, and one bucket
  (`SameDocumentsMeet`); by `ShortListingsAreComplete` all of them are listed
  (`NothingGetsLost`). The assumptions are needed: "report (1) (1) (1) (1) (1)" keeps
  a marker, and "report -", copied, becomes "report".

What is induced on is the number of marks, and that is four, not the length of the
name: so the prover's lack of induction over data does not matter here. Where a
recursive function over a sequence has to be typed (`Squeezed`, `Copied`),
`RecursionExists` is the induction for that.

With this every invariant and every action property of the passing runs is a theorem. Only
model-checked: liveness under fairness (`EveryCallReturns`, `EveryRunEnds`), which is
beyond the prover, and the verdicts of the runs that expect a violation.

## 5. What is not modelled

Characters: `check_name` (as its verdict), query escaping, previews, scrubbing and
export of the audit log, text export, the prompts and the parsing of the model's
answers. The length of backoffs, `demo`, configuration and wiring: settings are
constants of the modules, and the rest builds objects. The organizer's failures
leave nothing behind but rows of the ledger (`Leave` in WorkspaceView); PlanRun does
not repeat them. In TokenFile all tokens carry the scope they are asked
for, and the file's permissions are left out. Clocks that go back, and a database
file deleted by hand, are outside.

## 6. Where the code and its texts part

Five of these have a run; TLC's trace is the evidence.

1. `gate_interrupted`: `_execute` catches `DriveApiError` alone. A lost connection
   in the middle leaves the proposal PENDING, half done and approvable again;
   docs/safety-model.md:122 says it becomes FAILED.
2. `gate_two_winners`: approving twice lets two concurrent calls both execute, each
   with an approval of its own; docs/architecture.md:127 says they cannot.
3. `plan_cycle`: "A into B, B into A" passes the cycle check, which looks at the
   snapshot; docs/safety-model.md:108 says cycles are rejected. On the real Drive
   the second move may be refused; on the fake both folders leave the tree.
4. `list_untruncated`: a folder with more than `cap` children is cut off with
   `truncated` false (docstring at workspace.py:51).
5. `ungranted_requested`: `_resolve_targets` (organize.py:128) asks Drive for every id
   of a plan before the validator sees it, and the answer makes the row in the ledger.
   docs/safety-model.md:64 and docs/architecture.md:136 say that the ledger keeps such
   an id from being requested. It keeps none: `not_granted` is not the verdict on a
   file that was fetched, and one that was not fetched is unknown before the ledger
   is asked. What keeps an id out is Drive's own grant.

Seen while modelling, without a run of their own:

- A root that cannot be fetched does not fail containment closed (comment at
  workspace.py:109): a chain of parents that ends at the root's id proves it.
- A file moved between the two requests of `move()` causes no 409
  (docs/safety-model.md:127, client.py:216); `ConflictsAreSeen` is what the code does
  keep.
- An applied proposal reads as active or expired when a second approval is given
  while it runs (proposals.py:163).
- `cwops approve` writes no audit row when the operator declines or the proposal is
  unknown or settled (README.md:62, cli.py:422).
- A file moved within the workspace after the approval still revalidates
  (docs/architecture.md:77).
- Nothing calls `revoke()`, so the ledger keeps withdrawn grants
  (docs/architecture.md:141). A row of what the app created becomes "verified" as
  soon as the file is listed (docs/architecture.md:138).
- `cwops auth` with a token whose authorization is dead raises the refresh error
  and does not ask for consent (auth.py:76; docstrings at auth.py:11 and :57). The
  file has to be deleted first.
- A title may lose more than a marker: "Photocopy" becomes "photo", and "copy.pdf"
  ".pdf" (naming.py:28). The metadata strategy calls itself heuristic.

## 7. Plan

Done: the gate, the validator with PlanRun, DriveCalls, WorkspaceView, ListFolder with
FindDuplicates and Naming, and TokenFile, each with all its safety theorems; the twelve
runs.

Left: a composition of DriveCalls and ApplyGate: late requests of one run under a
second run of the same plan; an operation in one step as the promise, DriveCalls
shown to implement it where no transient failure is met.
