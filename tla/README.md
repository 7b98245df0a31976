# CastorIQ in TLA+

CastorIQ is a Django and Channels application over Postgres: users upload a
building model (an IFC file) and project documents, ask questions about them,
change the model by plain-language requests that a reviewer approves, and run
facilities management, scheduling, quantity take-off and cost control on top of
the same model. This directory holds TLA+ models of its stateful parts, the TLC
runs that check them and the proofs TLAPS checks.

All paths are relative to the repository root; the application lives in
`src/src/` seen from here.

## 1. The system and how its parts meet

One Daphne process serves HTTP and WebSockets. Views run in a thread pool,
consumers on the event loop with their blocking work in threads; there is no
`ATOMIC_REQUESTS`, so a view's statements commit one by one unless it opens
`transaction.atomic()` itself, and Postgres runs at READ COMMITTED. The shared
state is the database, the media directory (IFC files and their scratch copies)
and one git repository per project. Nothing is resumed after a restart.

| Component | State it keeps | Operations | What must be right |
|---|---|---|---|
| `writeback` proposals, approval, restore | `ModificationProposal`, `GitCommit`, the IFC file, its scratch copies, git | propose, supersede, approve, reject, restore, sweep | the applied change is the reviewed one, once; a status never goes back; file, git, rows and index agree |
| `writeback` pipeline, consumers, emitters | per-connection task and cancel flag | propose over WebSocket, cancel, disconnect | no orphan copy or row after a cancel; cancel reaches the work |
| `writeback` Guardian, conflict scan | verdict, `Conflict`, `ScanRun` | check, scan, dismiss, restore | advice never blocks; one open conflict per finding |
| `ifc_processor` | `IFCFile.status`, entity index, data issues | upload, parse, refresh, convert | the index is the file; one parse at a time |
| `facilities` FM export | `FMDelta`, `ExportJob`, the IFC file, git | plan, export, cancel, reconcile | job, deltas and file tell one story |
| `facilities` work orders, permits, requests, intake | status machines, recurrence | assign, start, complete, verify, close | legal transitions, follow-on orders once |
| `scheduling` governance | task-element bindings, their events, the legacy M2M rows | propose, approve, reject, reaffirm, reverse, supersede, repair, remove | no decided status without the event that decided it; replacements end; a reversed link is gone |
| `scheduling` source versions, imports, WBS versions | tasks, activity identities, versions, selection, runs | upload, merge or replace, accept, fail | one line of versions; the selected WBS is the current version's; a failed run leaves nothing |
| `scheduling` baselines, analytical snapshots | status, active flags | create, activate, retire | one active version; evidence immutable |
| `scheduling` computations | none | critical path, Monte Carlo, EVM, parsers | agree with their definitions |
| `takeoff` editable tables, preparation | tables with a content hash and version | load, edit, save, confirm | no lost update |
| `environments` | members, ownership | add, change, remove, transfer | the OWNER tier and `Project.owner` are one user |
| `core` language-model access | daily token caps, kill switch, user keys | reserve, record, store key | caps hold; keys do not leak between users |
| `chat`, `documents`, `embeddings` | sessions, summaries, chunks | ask, compact, process | a summary covers what it replaced; no half-processed document |
| `classification`, `fived`, `model_quality` | schemas, cost snapshots, metrics | seed, snapshot, measure | a snapshot is what was measured |
| `metacastor`, `beta`, `users`, `eastereggs` | failure records, invites, profiles | record, invite, provision | small and sequential |

How they meet: a proposal, a restore, an FM export and a schema conversion all
write the same IFC file and git repository, each with a lock discipline of its
own (only approval takes the `IFCFile` row lock); the parser and the index
refresh both write the entity index; facilities, scheduling and take-off read
that index by GlobalId; consumers drive all long operations and carry their
progress events, whose failure is also how a cancellation is noticed.

Hard behaviours: overlapping requests on one row or one file; read-then-write
guards in two statements; work done outside the lock that protected its inputs;
cancellation between two writes; a crash between claim and swap; failure of the
failure handling. `PROJECT.json` lists each at its line under `hazards`.

## 2. Modules

| Module | What it is |
|---|---|
| `ReviewedChange` | abstract: a change is offered against a content, claimed once, and applied only onto that content |
| `Approval` | the write-back lifecycle of one IFC file |
| `ApprovalProofs` | its inductive invariant and theorems |
| `DeltaQueue` | abstract: changes queue up; a publication takes a batch at once and shows the newest of each key |
| `FMExport` | the Export Reconciliation Service: deltas, jobs, file and git of one project |
| `FMExportProofs` | its inductive invariant and theorems |
| `WorkOrders` | work orders and the permits they need |
| `WorkOrdersProofs` | its inductive invariant and theorems |
| `Common` | the users and the NULL that the smaller models share |
| `BindingGovernance` | decisions on links between schedule tasks and building elements |
| `ScheduleImport` | saving an uploaded schedule: tasks, source versions, activity identities, WBS versions |
| `CriticalPath` | the forward and backward pass and the calendar arithmetic under them |
| `Membership` | members and owner of a project |
| `EditableTables` | saved quantity tables and the browser sessions that edit them |
| `Compaction` | summaries of a chat and the messages they replace |
| `BindingGovernanceProofs`, `ScheduleImportProofs`, `CriticalPathProofs` | their inductive invariants and theorems |
| `SessionProofs` | those of `EditableTables` and `Compaction` |
| `ServicesProofs` | those of `Membership`, and that `MCServices` implements each of its six parts |
| `MCApproval`, `MCFMExport`, `MCWorkOrders` | constants and symmetry of the TLC instances; the `.cfg` files beside them give the bounds |
| `MCServices` | one instance for the six smaller models: they share no table, so each behaviour is one of them |

In every module a process is a request, and its program counter `pc` names what
it does next. Steps are cut where the code touches state another request can
see: each ORM statement outside a transaction, each read or write of the IFC
file or a scratch copy, each git commit. Statements inside one
`transaction.atomic()` become visible together and are one step, except where a
lock or a file write inside the block can be observed earlier. Definitions named
"Mutant" in a comment are plausible bugs; no specification uses them, and for
each property one of them makes the property fail under the property's own run.

## 3. Approval

| In the model | In the code |
|---|---|
| `status`, `linked`, `rows` | `ModificationProposal.status`, whether its `message` is set, the `GitCommit` rows |
| `lock` | the `IFCFile` row lock of `ExecutionService.execute` (`select_for_update`), held to the end of its atomic block |
| `file`, `scratch`, `git` | the IFC file, the copies beside it, the repository; a content is the set of proposals whose change it holds |
| `index`, `fileStatus` | the changes each row of the entity index shows, `IFCFile.status` |
| `Entities`, `Touches`, `queue` | the rows; those a change shows in (the entities its diff names and, of a type, its occurrences); those an approval's refresh has still to write |
| `base`, `attempt` | `base_fingerprint`, attempts used of `MAX_ATTEMPTS` |
| `ListPending` ... `LinkMessage` | `propose_in_session`, `supersede_pending`, the Modify pipeline, `create_proposal`, `run_guardian` |
| `RejectRead`, `Reject` | the reject view and `ProposalService.reject` |
| `ApproveRead` ... `RefreshUpsert` | the approve view, `claim_for_approval`, `execute`, `_refusal`, `_apply`, `_fail`, `refresh_entities` |
| `RestoreRollback` ... `RestoreTrack` | `restore_version`, `git.rollback`, the parser and processor it runs |
| `SweepList`, `SweepDelete` | the `sweep_scratch_files` command |
| `Fault`, `Crash` | an exception in a step; the death of the process, after which nothing resumes a request |

Data left out: the wording of prompts, the generated code and its diff (a change
is the set of rows it touches, the same on every content), the Guardian's verdict
(only its cancellation matters), messages. Of an index row, its removal and the
related property and relation rows are left out. A SHA-256
fingerprint is taken to tell any two contents apart.

| Run | Bounds | Shows |
|---|---|---|
| `approval_overlap` | two proposals in two sessions, two attempts, three approvals, one reject; no fault | approvals of two proposals on one file, against rejects: the swap is the reviewed change, applied changes stay, commit rows name the right commit, copies are neither lost nor left, a row of the index is behind only where an older change's refresh overtook it, and the whole implements `ReviewedChange` |
| `approval_faults` | two proposals in one session, two approvals, a restore; one fault and one crash anywhere | one executor per claim, no claim without an owner, APPLIED exactly when recorded, and no status ever goes back, with supersede, error paths and the restore in play |
| `approval_liveness` | two proposals in one session, two approvals, a sweep, one fault | under `FairSpec` a claimed proposal ends APPLIED or FAILED: no path out of the transaction forgets the lock |
| `late_rollback` (violation) | one fault, two approvals | `AppliedIsInFile` fails: the rollback after a failure runs when the lock is already gone |

Two proposals are enough because a race is between the swap of one and the
check, swap or failure of another; the third approval lets one proposal be
approved twice while the other is. Two index rows are enough to have one that two
changes share and one that only one of them touches (`TypeAndOccurrence`: a change
of a type and its occurrence, and one of the occurrence). One fault and one crash are enough to reach
every error path; the theorems below hold for any number. `AppliedIsInFile`,
`SwapIsReviewedDiff`, `RowsMissOnlyLaterChanges` and the refinement are stated only
without restores and faults: with them the code does not keep them, as
`late_rollback` shows. More divergences were met while modelling and
are kept in the model, but not stated as runs: a restore takes no lock, so it
moves the file between an approval's check and its swap, which then undoes the
restore (`execution_service.py:150`); the sweep deletes a copy whose row a
propose request has not inserted yet (`sweep_scratch_files.py:38`); two
overlapping restores both
pass the status guard of `parser.py:256` and index one file at once; a restore
records HEAD as read after its rollback (`execution_service.py:154`), which
another request may have moved; and `supersede_pending` lists the pending rows
and then updates whatever its filter matches (`proposal_service.py:235`), so a
row linked in between is superseded and keeps its copy. The index refresh opens
the file and writes whole rows after the lock is released
(`index_refresh.py:46`, `:53-86`): of two applied changes of one entity the refresh
of the first may write last, from a model without the second, and the row stays
behind until the entity is touched again or the file is parsed. So
`IndexMatchesFile`, what the index is for, fails even in the instance of
`approval_overlap`; `RowsMissOnlyLaterChanges` says what is left of it. A copy can be wrong
although its fingerprint is right: the fingerprint is taken of one content, the
copy while the swap of another approval is in, and when that one fails and rolls
back the check finds the fingerprinted content again. The swap then brings back
the failed change (`SwapIsReviewedDiff` fails under `MCApprovalLateRollback.cfg`'s
constants in this way; `pipeline.py:109` and `:283` are the two reads of the file,
and no later step compares the copy).

**Fairness.** `WF` of a started propose, reject or approve request: its thread
runs to its end and nothing in the loop waits for a user. `Start` has none,
since nobody has to ask. The step that waits, `Lock`, is enabled while the lock
is free; with finitely many requests weak fairness is enough, because every
holder releases the lock and, in the instance, only finitely many can take it.
Postgres' lock queue gives the same for any number.

**Proved** (`ApprovalProofs`), for any sets of proposals, requests and sessions
and any bounds: `Typing`, `ExecutedOnce`, `LockDiscipline`, `RecordedOnce`,
`OutcomesAreFinal`, `ClaimsAreServed`. They follow from one inductive invariant
`IInv`, the conjunction of

  - `TypeOK`;
  - `HashesExist`: hashes kept in rows and by requests are positions of `git`,
    without which appending would not preserve the meaning of a row;
  - `RequestsKnow`: a request past its first read has a target, and a proposal
    has no status before it is created;
  - `LockHeldByTransaction`: needed because the check, the swap and the record
    see one state only under the lock;
  - `SoleExecutor`: the guarded UPDATE has one winner, and no other request
    writes an APPROVED row;
  - `AppliedIffRecorded`: `Record` adds the row and the status at once.

`SoleExecutor` alone is not inductive: a late `MarkFailed` would rewrite a
terminal status unless its request still owns the claim, which `RequestsKnow`
and the lock invariant give. `StatusOnlyAdvances` follows from `IInv` action by
action; `ClaimHasOwner` joins as an invariant relative to it.

**Proved under a condition**, for what the code does not keep in general (the
conditions are where `late_rollback` and the divergences above leave it):

  - `AppliedStays` (`AppliedIsInFile`), `RowsNameTheirCommits`
    (`RowNamesItsCommit`) and `SwapsAreReviewed` (`SwapIsReviewedDiff`) hold of
    every behaviour in which the file is never taken back (`[]NoRewrite`: no
    approval is in its rollback, no restore has begun). Faults, crashes,
    supersedes and sweeps remain, for any number of requests. The invariant is
    `SwapInv`: the base of a proposal is
    a content the file has only added to since (`BasesAreOld`); the copy may have
    been taken later, but it holds the base, nothing the file lacks, and its own
    change (`CopiesAddOne`); only a claimed proposal gets into the file
    (`SwappedWereClaimed`); under the lock the file is the base from the check to
    the swap (`CheckedIsBase`) and holds the change from the swap to the record
    (`SwappedIsIn`). Copy and fingerprint are two reads of a file that moves:
    with base = file at the check, the copy is squeezed between base and file and
    adds one change to it. That is why the swap is right although the copy is
    older than the lock.
  - `PendingKeepsScratch` (`PendingHasScratch`): no sweeps, and sessions with one
    proposal each, for any faults and crashes. `CopyInv` says a copy waits as
    long as somebody may approve it or is about to swap it in (`CopiesWait`), and
    that a copy is deleted after its status became terminal (`DropsAreTerminal`).
    A sweep, or a supersede that lists before it updates, deletes a copy that is
    still to be reviewed.
  - `ScratchIsCleared` (`NoScratchLeft`): one proposal each session and a server
    that stays up, for any faults, restores and sweeps. `CopiesEnd`: a terminal
    proposal with a copy has a request that is about to delete it.
  - `LeftAlone`: without restores, sweeps and faults (`Calm`) no approval ever
    fails after its snapshot (`NoFail`), so `NoRewrite` holds by itself, and with
    it the three promises about file and rows, crashes included.
  - `RowsLagBehindLaterChanges` (`RowsMissOnlyLaterChanges`): also without crashes,
    for any entities the changes share. The invariant `Indexing`: a change in the
    file is in each row it touches, or its refresh has still to write that row, or
    the row was written by the refresh of a change that was in the file first
    (`IndexLags`); a row shows nothing the file lacks (`IndexShowsFile`); a
    refresh's view of the file holds its own change (`Refreshing`).
  - `SeparateRowsFollow`, `IndexFollows`: when `IndexMatchesFile` does hold. The
    first needs that no two changes touch one row; the second allows that, and
    needs instead `[]RefreshesInOrder`: while a refresh has a row still to write
    from a model that lacks a change, that change's own refresh of the row is to come.
  - `ImplementsUnlessTakenBack` (`ImplementsReviewedChange`): every step of the
    lifecycle is a step of `ReviewedChange` or a stutter, in any behaviour in
    which the file is never taken back (`[]NoRewrite`) and no published change is
    (`[][PublishedKept]_vars`: no approval fails between its swap and its record).
    Sessions of any size, supersedes, sweeps, refusals, failures before the swap
    and crashes are all there: what ends a claim before the swap is an abstract
    refusal. The os.replace is the compare-and-swap, and at most one approval is
    between its swap and its record, by the lock. `ImplementsReviewed` is the
    corollary for `Calm` behaviours, the condition of the run `approval_overlap`.
  - `HeldLocksKeepChanges`, `HeldLocksNameCommits`, `HeldLocksSwapReviewed`: the
    same three promises about file and rows, with rollbacks. The condition is
    `HeldThroughFailure`: while an approval that has taken its rollback point
    handles its failure, no other approval is in its transaction, as if the row
    lock were kept through `_fail`; and there is no restore. So the late rollback
    is the only way in which approvals, however they fail and crash, break what
    they promise, and moving `_fail` under the lock would mend it.
    `HeldLocksSwapReviewed` asks besides that a copy is of the fingerprinted
    content (`CopyOfBase`), which excludes the wrong copy described above.

The invariant of the last three is `RollbackInv`. A rollback takes the file back
to the commit made before the swap, so it must be known what that commit holds:

  - `CopiesHaveBases`: fingerprint before copy, change before row;
  - `UnswappedNowhere`: a change that may yet be swapped in is in no content but
    its own copy, so no rollback can bring it in early;
  - `SwappedStaysIn`: a change that is in and has not failed is in the file, in
    each copy whose fingerprint saw it, and in each commit somebody may roll back
    to: what this one could undo is its own change only;
  - `NoParentYet`, `UndoneHaveFailed`: there is nothing to roll back to before the
    snapshot, and only a failed proposal is rolled back;
  - `CheckedIsBase`, `CommitHolds`, `RowNamesItsCommit`: what the transaction has
    checked, committed and recorded.

`SwappedStaysIn` replaces the premise of `SwapInv` that the file only grows.
Without the condition it fails at the rollback, whose commit was made before
another approval's swap.

`NoneAssumption` says that "no file" is not a content, which `base` and `scratch`
need to tell a missing copy from an empty one.

## 4. FM export

| In the model | In the code |
|---|---|
| `queued`, `applied`, `superseded`, `commitOf` | `FMDelta` rows by `created_at`, `applied_to_ifc_at`, `superseded_at`, `ifc_commit_hash` |
| `job` | `ExportJob.status` |
| `file`, `git` | the IFC file, as the delta each `natural_key` shows, or damaged by a write cut short; the repository |
| `plan`, `losers`, `model`, `target`, `hash` | the `ExportPlan`, the writer's model in memory, `rollback_target`, the export's commit |
| `QueueDelta` | `asset_service` recording an edit of a mapped field; the asset's row lock serialises edits of one key, so the queue is in `created_at` order |
| `Plan` ... `Finish` | `plan` and `execute` in the order of their statements |
| `Fail`, `Notify`, `Rollback` | `_fail`, its own progress event, `_try_rollback` |
| `SendFails` | a WebSocket emitter raises `CancellationError` on a dead channel |
| `Fault`, `Crash` | any other exception; the death of the process, which tears a file being written |

`MergedKeys` are the fields written by `Tier2Writer.add_pset`, which leaves a
property that exists alone. `ProfileAssumption` says a profile admits all deltas
of a key or none, which `natural_key` implies.

| Run | Bounds | Shows |
|---|---|---|
| `fm_export` | two exports one after the other, four edits on three fields, one of them outside the profile, one fault | with one export at a time and no dead channel: the file shows what completed exports carried and no trace of failed ones, commit hashes on deltas are right, and the export implements `DeltaQueue`, edits landing at any moment of it |
| `fm_export_overlap` | two exports at once, one streamed, three edits, a fault and a crash | last write wins: a superseded delta lost to a newer applied one, and nothing older than an applied delta is left to overwrite it later |
| `fm_export_mark_job` (violation) | one fault | `JobEnds` fails: the job object says COMPLETED before its transaction commits, and `_fail` believes it |
| `fm_export_merge` (violation) | one merged field | `CompletedIsInFile` fails: the second value of a merged property is skipped and marked applied |

Two deltas of one key and one of another show every comparison the plan makes;
two exports show every overlap that `NoOlderPending` and `SupersededByNewer`
relate. The promises about the file are stated for `MaxOverlap = 1` and
`Streamed = {}`, because outside them the code breaks them: overlapping exports
settle one delta twice; a dead channel at `export_reconciliation_service.py:230`
leaves a PLANNING job, at :510 skips the rollback, and at :345 rolls the file
back under a COMPLETED job. `FMExport` contains all three.

**Fairness** (used only in the violation run): `WF` of a planned export's steps,
run by the thread that took it. The counterexample ends, with every export over, in a job
that stays RUNNING.

**Proved** (`FMExportProofs`), for any exports, overlaps, faults and crashes:
`ExportTypeCorrect`, `LastWriteWins`, `NothingOlderLeft`. The inductive invariant
`ExportInv` is `ExportTypeOK`, the two properties and

  - `QueuedOnce`: a delta has one place in the queue, so `Newer` is an order;
  - `PlansAreQueued`: applied and planned deltas are rows that exist, so an edit
    made later is newer than all of them;
  - `LosersBeaten`: each loser has a newer delta of its key in the same plan;
  - `PlansAreNewest`: a pending delta older than a planned one of its key is a
    loser of that plan, so marking the plan settles it;
  - `TargetsExist`: a rollback target is a commit.

`LosersBeaten` and `PlansAreNewest` carry the plan's snapshot through the minutes
between `Plan` and `Mark`, which is what the hazard is about: `NoOlderPending` says nothing of
plans, so it is not inductive without them.

**Proved for exports that do not overlap** (`MaxOverlap = 1`; edits still land
at any moment), where the code keeps more:

  - `SettlesOnce` (`SettledOnce`): streamed exports, faults and crashes included.
    `SettleInv`: exports under way are one (`Alone`), and what its plan holds is
    settled by nobody else (`PlansUnsettled`). Two overlapping exports plan one
    delta and one of them may replay what the other supersedes.
  - `CommitsHoldTheirDeltas` (`CommitHoldsDelta`): with `MergedKeys = {}`, streams,
    faults and crashes included. `CarryInv`: a plan has one delta of each key
    (`PlansOneEach`), and the batch is handed on from the model to the file to the
    commit with nobody there to write in between (`CommitsCarry`).
  - `CompletedStays` (`CompletedIsInFile`), `FailedIsUndone`
    (`FailedLeavesNoTrace`) and `ImplementsQueue` (`ImplementsDeltaQueue`), the
    refinement: POSTs only, nothing merged, no crash (`Sequential`), and any number
    of failures as long as none strikes the handling of another
    (`[][HandlersRun]_vars`). Each part of the condition stands for a case in
    which the code leaves the file behind: a dead channel skips the rollback, a
    merged property is not overwritten, a crash and a failing `_fail` or rollback
    have nobody to repair them. `ShowInv`: the batch is what the profile lets
    through and its plan is the newest of it (`PlanTops`); where an export is
    tells what file, model and target hold (`ExportFits`); and what is published,
    which is the rollback target while an export can still take its writing
    back, shows the newest applied delta of each key and nothing else
    (`PublishedShows`). A marked delta is newer than an applied one of its key
    because `NoOlderPending` leaves no other order. Every step but `Mark` and
    `QueueDelta` keeps what is published (`QuietStep`), and `Mark` is one
    `Publish` of the whole batch; that what the profile keeps out is not left
    behind a newer delta is `ProfileAssumption`.
  - `OneFailure`: with at most one failure in all, as in the run `fm_export`,
    `HandlersRun` holds by itself (`OneFault`).

`DamagedAssumption` says that a file cut short is not a readable one.

## 5. Work orders and permits

| In the model | In the code |
|---|---|
| `wo` | `WorkOrder`: status, assignee, requester, and whether `actual_start`, `actual_end`, `verified_at`, `closed_at` are set |
| `trail` | the `to_status` values of its `WorkOrderStatusEvent`s |
| `permit`, `links` | `Permit.status` ("lapsed" is ACTIVE outside its window), the linked permits |
| `pc`, `on`, `row`, `read`, `blocking`, `holding` | the objects a request has read and not yet acted on |
| `ReadWorkOrder`, `ReadPermits`, `ReadPermit` | the view's `get_work_order` with its prefetch, `get_permit` |
| `Transitions`, `IsAllowed`, `Moved`, `ApplyTransition` | `_TRANSITIONS`, `_is_allowed`, the `field_updates` of each transition, `_apply_transition` |
| `SubmitSkipTriage`, `UpdateWorkOrder`, `CreateWorkOrder` | the methods of these names |
| `EditPermit`, `RevokeQuery`, `RevokeCommit` | `update_permit`, and `revoke_permit` cut where its transaction's query and its commit lie |

The point of the module is that nothing locks a work order: a request acts on
`row`, and every whole-row save may overwrite what another request saved since.
Which operation a request is for and who sent it do not matter before it acts,
so they are chosen there; `Refuse` is every way a service method raises. Bulk
actions are requests one after the other.

| Run | Bounds | Shows |
|---|---|---|
| `work_orders` | one work order, one permit, two overlapping requests reused for ever, a facilities manager and an engineer | what survives lost updates: dates fit the status, the audit log leads from DRAFT to the status shown and records every date, and nothing leaves CANCELLED except for a request that saw the row before |
| `permit_race` (violation) | the same | `NoStartUnderRevoked` fails: a permit revoked after `start` read it does not stop the start, nor does the revocation find the order |

One work order is enough in TLC because rows meet only in a revocation, which
treats each by itself; two requests are enough for one to be stale. `Stamped`
says which dates a status implies, not the reverse: a revocation sets the status
column alone, so after a race with complete, verify or close a row may be
ASSIGNED and keep its `closed_at`. A permit form may also set a permit to
revoked without touching the work under it; `EditStatuses` leaves that out of
the violation run, so that the run shows the race and nothing else.

**Proved** (`WorkOrdersProofs`), for any number of work orders, permits, users
and requests: `WorkOrdersTypeCorrect`, `DatesFollowStatus`, `AuditLogExplains`, `DatesAreRecorded`,
`CancelledIsFinal`. `WorkOrdersInv` is the type invariant, `Stamped`,
`TrailExplains`, `DatesHaveEvents` and

  - `CopiesFit`: an object a request holds fits its own status, or saving it
    would break `Stamped`;
  - `CopiesOnTrail`: its status and dates were announced by events, or saving it
    would break `TrailExplains`;
  - `HeldWereStarted`: what a revocation found in progress had been started, so
    sending it to ASSIGNED is a registered move.

These three are the argument: saving stale rows is harmless to the properties
because every row that was ever read satisfied them and the trail only grows.

`UndisturbedStartsAreSafe` proves the property that `permit_race` violates from
what the code leaves out. `UndisturbedStep` closes two windows: no permit of a
work order is revoked, and no revoked one linked, between a start's reading of
the permits and its save; and no work order leaves IN_PROGRESS while a request
holds an object of it read in that status, whose whole-row save would put it
back. Then no work begins under a revoked permit, for any number of requests
(`ReadsCurrent`: what was read is still so). TLC finds a counterexample with
either half alone, so a lock on the permits would not be enough.

## 6. The smaller models

The run `services` checks all six; `part` says which of them a behaviour is
about. They are one run because none needs the others' tables and each is small.

### Binding governance

| In the model | In the code |
|---|---|
| `binding` | `TaskEntityBinding` rows, one per task-element pair: status, method, `superseded_by`; `needs_review` and `is_active` follow from the status, by the field sets of `active_state.py` that every writer uses |
| `m2m`, `events` | the rows of `Task.ifc_entities`, the `BindingGovernanceEvent`s |
| `Check` | what a service does before its transaction: authority, idempotency reference, preview, fingerprint, eligibility |
| `Refresh`, `RefreshNew` | `refresh_from_db` in the transaction and the second eligibility test; nothing is locked |
| `Reject` ... `Repair` | the writes of that transaction, by primary key, whatever the rows have become since |
| `Promote`, `Create` | `promote_bindings_to_trusted`, `create_trusted_bindings`, behind approvals and manual links |
| `RemoveM2M`, `Remove`, `AutolinkClear`, `AutolinkPersist` | `BindingRemoveView`, the two ends of `run_autolink` |

Two links and two overlapping requests: a supersession relates two links, a
circle of replacements needs two of them, and every race is between the read of
one request and the write of another. No request starts once two events exist,
but requests that have started still write theirs: after a first decision two
more can overlap, and a supersession among them records two events.

Shown: a link never has a decided status without an event of its own that
decided it (`StatusIsRecorded`), although a repeated reference makes an event a
no-op; rows that replace one another point at each other's events
(`SupersessionIsPaired`) and never in a circle (`SupersessionsEnd`); what was
reversed or superseded stays in the M2M only after a parity repair or a
reaffirmation of that very row (`LingeringLinkWasRepaired`). What the code does not give, and
no property states: two overlapping decisions both succeed and the later write
wins; and a second manual promotion by one actor has the reference of the first
(`trust_promotion.py:96`), so it records no event.

Proved (`BindingGovernanceProofs`), for any links, requests and users:
`EveryStatusIsRecorded`, `SupersessionsArePaired`, `ReplacementsEnd`,
`OnlyRepairsLinger`. The first two follow from an invariant that ties what a request will write to what it has
validated (`DecisionsFit`) and says that events are never lost while their row
exists (`EventsSay`). `ReplacementsEnd` needs more, because the circle would be
closed by a step that looks at neither row: `CircleInv` takes a graph with an
edge for each `superseded_by` and one for each supersession that has passed its
second read, and shows that it has no circle, that a row still in review has no edge out of
it, and that a row with an edge out of it has left review for good (only its
deletion or a new row brings review back). A new edge then always ends in a row
without an edge. `OnlyRepairsLinger`
holds step by step, given that a request that restores a missing M2M row carries
the reference its event is found by (`RepairsNamed`). `GovernanceTypeCorrect` is
the type invariant.

### Schedule imports

| In the model | In the code |
|---|---|
| `run`, `version`, `supersedes` | `ScheduleImportRun.status`, `ScheduleSourceVersion.status` and `.supersedes` |
| `task`, `activity`, `wbs`, `selected` | `Task` rows with the import that made and that last changed them, `ScheduleActivity` keys, `WBSVersion`s, the one selected for analysis |
| `StartRun` | `TaskSaveView` up to its transaction |
| `ReadTasks`, `WriteTasks` | `persist_schedule_import`, cut between its reads and its writes |
| `FindActivities`, `LinkActivities` | `BatchScheduleActivityLinker.link_task_rows` |
| `GetSelected`, `NextRevision`, `ActivateWBS` | `populate_from_import` |
| `FindCurrent`, `AcceptAsCurrent`, `Commit` | `accept_as_current` and the end of `complete_success` |
| `RollBack`, `CompleteFailure`, `Crash` | an exception, the second transaction of the view, the death of the process |

A transaction's writes are in `upload[i]` until `Commit`; who waits for whom
follows from the row locks and unique indexes, and the guards name them. Three
uploads, because "one line of versions" needs a version that two others
may both replace; one activity code is enough for two uploads to meet in.

Shown and proved for any number (`OneLineOfVersions`, `SelectionFollows`,
`FailureLeavesNothing`): accepted versions form one line, the selected WBS is
the current version's whenever its file had one, and a run that did not succeed
leaves no trace. The invariant adds `CurrentIsLast` and `PlaceIsHeld`: whoever
passed `AcceptAsCurrent` still finds the current version it is about to replace, because
nobody else can pass until it commits. `ImportTypeCorrect` is the type invariant,
with the one part of it that is more than types: revision numbers of WBS versions
are unique, although `NextRevision` reads the largest in one statement and the
version is written in another. The unique index makes the later upload wait for
the earlier one and fail when that one commits.

### Critical path

`CriticalPath` translates `compute_critical_path` as recursive functions over
the tasks in the order Kahn's algorithm gives them; what lies on or behind a
cycle comes last, in date order. TLC evaluates it on 5,328 schedules: three
tasks, any two of eight links of all four types with positive, zero and
negative lags (one pair is a cycle), two calendars, progress, constraints and two data dates.

`PassesKeepLinks` compares the two passes, each of which sees only its own end
of a link. `FloatIsExact` is the definition of total float: holding a task back
to its late start leaves the end of the project alone, one day more moves it.
Both leave out start-finish links: the backward pass relates them to the
successor's late start (`critical_path.py:258`) and the forward pass to its
finish, so late dates break them and floats turn negative without a deadline.
They also leave out finish-finish links over days off, where counting working
days loses one. The first half of `FloatIsExact` needs one calendar: with
several the project may end on a day off for a task, and the late start computed
from it is a day too late, as TLC shows when `OneCalendar` is dropped. The
second half needs that no deadline, rather than the end, holds the task.

Proved (`CriticalPathProofs`), for any tasks, links, lags, calendars and
progress: `LinksAreKept` (`PassesKeepLinks`), `FloatIsCorrect` (`FloatIsExact`)
and `NetworkTyped`, that the passes give every task dates on networks with
cycles too. The argument has four parts.

 1. Calendar arithmetic. `CountWorkingDays` counts a stretch one day at a time;
    from it, `AddWorkingDaysIs` and `SubtractWorkingDaysIs` (the n-th working day
    exists and is found), that both are monotone, and how far they undo each
    other (`SubtractWithinAdd`, `AddAfterSubtract`, `AddPastSubtract`).
 2. The recursion. `RecursionHolds`: over a finite relation without cycles a
    recursive definition satisfies its equation; the proof extends a solution
    from a set closed under predecessors by one more element. `FeedsGrounded`
    shows that Kahn's order with its fallback to date order is such a relation,
    `LimitsGrounded` that its reverse is. `EarlyIs` and `LateIs` are the
    equations of the two passes.
 3. Links: `EarlyKeepsLink` and `LateKeepsLink`, from the equation of one task.
 4. Float. Held to its late start, no task becomes later than the larger of its
    old early start and its late start (`HeldIsEarlyOrInTime`, by induction from
    predecessors to successors), so the end stays. A task that starts on a
    working day past its late start either ends past the project's end or pushes
    a successor past its own late start (`PastLateStart`, by induction from
    successors to predecessors), so the end moves.

### Members

One action per service; `Authorise` is the check of the view, which the service
does not repeat, and `GetOrCreate` and `SaveFound` are the two statements of
`add_member`, the only one that does not lock the project. Three users and two
requests. `OwnerTierIsOwners` holds and is proved (`OneOwnerTier`): nobody but
`Project.owner` has the OWNER tier. That somebody has it does not hold: an
addition that found a row before a transfer writes over the new owner's tier,
although `access_service.py:61-64` lists `add_member` among the methods that
lock the project row. `OwnerKeepsTier` proves that this is the only way: as long
as no addition has found the row of somebody who is the owner when it writes
(`AdditionsSpareOwner`), the owner has the tier, however transfers, tier changes
and removals overlap. `MembershipTypeCorrect` is the type invariant.

### Editable tables

| In the model | In the code |
|---|---|
| `table`, `pinned` | one `QuantityEditableTable`: revision and state; whether its IFC still has the pinned hash |
| `TableRows`, `Target`, `Queries` | rows of the table; the measurement target a row is saved by, which others may share; the rows that a page's filters and grain show |
| `Measures` | choices of a measurement, kept by target whatever is shown |
| `session` | the Django session: overlays (`edits`), a pending restore (`pending`), the open revision, the dirty flag; for the properties, the rows it was last saved or matched by (`shown`) |
| `form` | the revision in the form of the last page rendered |
| `Begin`, `StoreSession` | the session is loaded when a request begins and stored whole when it ends |
| `Rebuilt` | `apply_pending_editable_table_restore`, in every rebuild of the rows |
| `Capture` | `capture_working_state` |
| `EditRow`, `RenderPage`, `SaveNew`, `SaveUpdate`, `OpenTable` | the row views, `QTOView`, the save and open views and their service methods |

Overlays are a set of edits, each there or not; the value of an annotation is
left out, and nothing is cleared. A save keeps every choice, but of the rows only
those that its own query shows, by their targets; a reopened table puts back the
targets that match one row of the next rebuild and drops the others. Both leave
the session clean. So a clean session is not what its revision holds: map a wall,
filter to doors and save, and the session says it has no unsaved changes while
the mapping is in no revision (`quantity_editable_table.py:547-568`, `:702`,
`:774`); reopen a table on a page that shows two rows of one target, and the edit
is gone although nothing is unsaved (`:142-171`). A save
records what it drops (`unmatched_row_keys`); that the session is then not marked
unsaved is in the model and not stated as a run.

`CleanIsSaved` is what is left: a session that shows no unsaved changes has the
choices of its open revision and, of the rows it was saved or matched by, has
edited those that the revision holds, as far as they have their target to
themselves; a restore that still waits is what the revision holds. Overlapping requests, each
storing its whole copy, do not break it. It is checked for one browser with two
overlapping requests, two rows of one target and two queries, one of which hides a
row, and proved for any number of all of these and of choices
(`CleanSessionsAreSaved`). Choices, which would
triple its states, are left out of the run and are in `stale_save`.

`ShownSessionsAreSaved` proves that filters and shared targets are all there is to
it: as long as every request shows all the edited rows of its session, and those
it waits to match, each under a target of its own (`QueriesShowAll`), a clean
session holds exactly what its open revision was saved with (`SessionsHoldTheirSaves`).
`UnfilteredSessionsAreSaved` has the same conclusion from the constants alone
(`Unfiltered`: one query, which shows everything, and a target for each row), so
the condition can be met.

`SavesKeepEarlierSaves` fails in the run `stale_save` with two browsers whose
requests do not even overlap and a query that shows every row: rendering a page
replaces the revision in the form by the table's newest (`takeoff/views.py:337`),
so the optimistic token never refuses the session that has not seen the other's
save. `OwnRevisionsKeepSaves` proves that, filters and shared targets aside
(`QueriesShowAll` again), this is all: if the revision a form posts is the one its
session has open (`OwnRevisions`), no save takes back an earlier one, for any
browsers and requests. `TablesTypeCorrect`, the type invariant, needs
`MaxRevision` to be at least 1, the revision a new table has.

### Chat compaction

`Compaction` has a step for each statement of `compact_session` and `Abandon`
for a failing model call, a cancellation or a death anywhere between them. Two compactions, five
messages and three summaries let each of two overlapping runs delete what the
other read. `CompactedIsCovered` holds and is proved for any number
(`NoMessageLost`); its invariant `Replaced` says that a job past `CreateSummary`
has left a summary that covers what it is about to mark and to delete. Two
summaries may remain, of which the prompt shows the newest: the code promises
one, and the other is then unread. `CompactionTypeCorrect` is the type invariant;
its bounds are assumed to be natural numbers.

### The six together

`MCServices` takes steps of one part at a time. `GovernancePart`, `ImportPart`,
`MembershipPart`, `TablesPart` and `ChatPart` prove that its specification implies
that of the part, whose variables either step as the part says or stay;
`NetworkPart` that it does so for a behaviour about the network, and that
elsewhere nothing is ever computed. With them `ServicesTypeCorrect` (`ServicesTypeOK`) and
`ServicesCorrect`, the conjunction of the parts' properties, follow from the
theorems of the parts, and what the run `services` checks is what they state.

## 7. What is only model-checked, and what is not modelled

Model-checked only: liveness (`ClaimEnds`), because the prover does not reach
fairness. Every invariant and action property of the passing runs is also a
theorem. Where the theorem of a property of section 3 or 4 has a condition, the property
is checked in an instance that meets it.
`CHECK_DEADLOCK FALSE` is in the `.cfg`s of `Approval`, `FMExport` and
`MCServices`, whose requests end with nothing that has to follow; `WorkOrders`,
where a request can always begin again, is checked for deadlock.

Not modelled inside the modelled parts:

  - races of two git commands in one working tree: a commit is one step;
  - a database error while waiting for a lock, or while marking a proposal
    FAILED, and the abort of one of two transactions that deadlock on rows they
    update in different orders (revocations, merging imports);
  - parsing started by an upload or a reprocess; a parse runs only in a restore;
  - cancellation while a consumer works: it handles one frame at a time, so
    a cancel frame or a disconnect is delivered after the work is done, and a
    dead channel shows up when a progress event is sent;
  - governance: authority rules, bulk limits, reconciliation reports;
  - imports: matching of rows by name and date, dependencies, previews;
  - critical path: holidays, and how remaining work is derived from percentages;
  - tables: names, several tables, saving one and opening another in one
    request, output units, edits of many rows at once, clearing an edit;
  - numbering, attachments, broadcasts and wording.

Components of section 1 without a module are listed in `PROJECT.json` with the
reason. Schedule and document parsing, retrieval, generation, embeddings,
Monte Carlo and presentation have no state machine to check.

## 8. Findings

Five disagreements between the code and what its own documentation says, each
shown by a violation run and quoted in `PROJECT.json`: the rollback outside the
lock, the export job that stays RUNNING, the merged property that is not
overwritten, the permit revoked during a start, and the stale save that the
revision does not refuse. Sections 3 and 6 name those that are in the models
without a run.

## 9. Plan

What is left, in the order of what a failure would cost:

 1. `FileWriters`: approve, restore, export and schema conversion on one file as
    a composition of `Approval` and `FMExport` reduced to their file steps,
    against an abstract versioned file that loses no committed change.
 2. `Intake`: action requests, occupant intake and escalation into
    `WorkOrders`; one work order per request.
 3. `Baselines` and analytical snapshots: draft, publish, approve, select,
    supersede, archive, beside the versions of `ScheduleImport`.
 4. `UsageCap`: reset, check and charge of the daily cap. `ConflictScan` and
    `Documents`: deduplication of findings, one finished set of chunks.
 5. The guard that keeps a file from being parsed twice, for uploads and
    reprocessing.

Theorems to add: `RollbackInv` with restores that hold the lock; the refinement of
`ReviewedChange` with a published change taken back, which needs an abstract step
for it; `DeltaQueue` with overlapping exports, should the code come to serialise
them.
