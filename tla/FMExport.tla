------------------------------ MODULE FMExport ------------------------------
(***************************************************************************)
(* The Export Reconciliation Service: field edits on assets queue FMDeltas; *)
(* an export plans the pending ones, replays them into the IFC file, makes  *)
(* one git commit and marks them.  An export runs in its own thread, asked  *)
(* for by a POST or, Streamed, by a WebSocket whose progress events raise   *)
(* when the channel is gone.  Nothing keeps two exports apart.              *)
(*                                                                         *)
(* The file is abstracted to the delta each key shows; a key is a           *)
(* natural_key, and deltas carry distinct values.                           *)
(***************************************************************************)
EXTENDS Integers, Sequences, FiniteSets, SequencesExt

CONSTANTS
  Exports,      \* export requests
  Streamed,     \* those that report over a WebSocket
  Deltas,       \* FMDelta rows that edits make
  KeyOf,        \* natural_key of each delta
  MergedKeys,   \* keys written by ADD_PSET, which does not overwrite
  Allowed,      \* deltas the project's ExportProfile lets through
  MaxOverlap,   \* bound: exports under way at the same time
  MaxFaults,    \* bound: I/O, git, writer or database errors
  MaxCrashes,   \* bound: deaths of the server process
  None,         \* "no delta"
  Damaged       \* a file whose writing was cut short

Keys == {KeyOf[d] : d \in Deltas}

ASSUME ExportsAssumption ==
  /\ Streamed \subseteq Exports
  /\ Allowed \subseteq Deltas
  /\ MergedKeys \subseteq Keys
  /\ None \notin Deltas
ASSUME DamagedAssumption == Damaged \notin [Keys -> Deltas \union {None}]
\* natural_key determines the operation and the pset, so a profile lets all
\* deltas of a key through or none.
ASSUME ProfileAssumption ==
  \A d, e \in Deltas : KeyOf[d] = KeyOf[e] => (d \in Allowed <=> e \in Allowed)
ASSUME ExportBoundsAssumption ==
  MaxOverlap \in Nat /\ MaxFaults \in Nat /\ MaxCrashes \in Nat

VARIABLES
  queued,      \* FMDelta rows by created_at
  applied,     \* rows with applied_to_ifc_at
  superseded,  \* rows with superseded_at
  commitOf,    \* ifc_commit_hash of each row, 0 for none
  job,         \* ExportJob.status of each export, "none" before the row exists
  file,        \* the delta each key of the IFC file shows
  git,         \* contents of the repository's commits, HEAD last
  pc,          \* where each export is
  plan,        \* ExportPlan.deltas_to_apply
  losers,      \* ExportPlan.superseded
  model,       \* the writer's in-memory model
  target,      \* rollback_target, 0 while unset
  hash,        \* the export's commit
  broken,      \* streamed exports whose channel is dead
  faults, crashes

rows  == <<queued, applied, superseded, commitOf>>
disk  == <<file, git>>
local == <<plan, losers, model, target, hash>>
env   == <<broken, faults, crashes>>
vars  == <<rows, job, disk, pc, local, env>>

JobStatus == {"none", "planning", "running", "completed", "failed"}
Models    == [Keys -> Deltas \union {None}]
Files     == Models \union {Damaged}
Working   == {"create", "announce", "snapshot", "run", "apply", "save", "commit", "mark",
              "finish", "fail", "notify", "rollback"}

Goto(e, label) == pc' = [pc EXCEPT ![e] = label]
Newer(d, e) == KeyOf[d] = KeyOf[e] /\ \E i, j \in 1..Len(queued) :
                 i > j /\ queued[i] = d /\ queued[j] = e
Pending == (ToSet(queued) \ (applied \union superseded)) \intersect Allowed

Init ==
  /\ queued = << >>
  /\ applied = {}
  /\ superseded = {}
  /\ commitOf = [d \in Deltas |-> 0]
  /\ job = [e \in Exports |-> "none"]
  /\ file = [k \in Keys |-> None]
  /\ git = << [k \in Keys |-> None] >>     \* the upload's [TRACK] commit
  /\ pc = [e \in Exports |-> "idle"]
  /\ plan = [e \in Exports |-> {}]
  /\ losers = [e \in Exports |-> {}]
  /\ model = [e \in Exports |-> [k \in Keys |-> None]]
  /\ target = [e \in Exports |-> 0]
  /\ hash = [e \in Exports |-> 0]
  /\ broken = {}
  /\ faults = 0
  /\ crashes = 0

\* A tracked field of a linked asset is edited.
QueueDelta(d) ==
  /\ d \notin ToSet(queued)
  /\ queued' = Append(queued, d)
  /\ UNCHANGED <<applied, superseded, commitOf, job, disk, pc, local, env>>

\* Mutant: the first delta of a key wins.
NewestOldest(ds) == {d \in ds : \A e \in ds : ~Newer(d, e)}
NewestOf(ds) == {d \in ds : \A e \in ds : ~Newer(e, d)}

\* Mutant: a delta stays in the batch when a newer one of its key comes along.
PlanKeepsLosers(e) ==
  /\ pc[e] = "idle"
  /\ Cardinality({x \in Exports : pc[x] \in Working}) < MaxOverlap
  /\ plan' = [plan EXCEPT ![e] = Pending]
  /\ losers' = [losers EXCEPT ![e] = Pending \ NewestOf(Pending)]
  /\ Goto(e, IF Pending = {} THEN "done" ELSE "create")
  /\ UNCHANGED <<rows, job, disk, model, target, hash, env>>

\* plan(), pure; an empty plan ends the request before there is a job.
Plan(e) ==
  /\ pc[e] = "idle"
  /\ Cardinality({x \in Exports : pc[x] \in Working}) < MaxOverlap
  /\ plan' = [plan EXCEPT ![e] = NewestOf(Pending)]
  /\ losers' = [losers EXCEPT ![e] = Pending \ NewestOf(Pending)]
  /\ Goto(e, IF Pending = {} THEN "done" ELSE "create")
  /\ UNCHANGED <<rows, job, disk, model, target, hash, env>>

CreateJob(e) ==
  /\ pc[e] = "create"
  /\ job' = [job EXCEPT ![e] = "planning"]
  /\ Goto(e, "announce")
  /\ UNCHANGED <<rows, disk, local, env>>

\* The plan is announced before the try block begins.
Announce(e) ==
  /\ pc[e] = "announce"
  /\ Goto(e, "snapshot")
  /\ UNCHANGED <<rows, job, disk, local, env>>

\* Mutant: the rollback target is HEAD even when the file has moved past it.
SnapshotSkipped(e) ==
  /\ pc[e] = "snapshot"
  /\ target' = [target EXCEPT ![e] = Len(git) - 1]
  /\ Goto(e, "run")
  /\ UNCHANGED <<rows, job, disk, plan, losers, model, hash, env>>

Snapshot(e) ==
  /\ pc[e] = "snapshot"
  /\ git' = IF file = git[Len(git)] THEN git ELSE Append(git, file)
  /\ target' = [target EXCEPT ![e] = Len(git')]
  /\ Goto(e, "run")
  /\ UNCHANGED <<rows, job, file, plan, losers, model, hash, env>>

Run(e) ==
  /\ pc[e] = "run"
  /\ job' = [job EXCEPT ![e] = "running"]
  /\ Goto(e, "apply")
  /\ UNCHANGED <<rows, disk, local, env>>

\* apply_delta: ADD_PSET writes a property only where there is none, the other
\* operations overwrite.
Written(e, content) ==
  [k \in Keys |->
     IF (\E d \in plan[e] : KeyOf[d] = k) /\ ~(k \in MergedKeys /\ content[k] # None)
       THEN CHOOSE d \in plan[e] : KeyOf[d] = k ELSE content[k]]

\* Tier2Writer opens the file and replays the plan in memory; a damaged file
\* does not open.
ApplyDeltas(e) ==
  /\ pc[e] = "apply"
  /\ IF file = Damaged
       THEN Goto(e, "fail") /\ UNCHANGED model
       ELSE model' = [model EXCEPT ![e] = Written(e, file)] /\ Goto(e, "save")
  /\ UNCHANGED <<rows, job, disk, plan, losers, target, hash, env>>

Save(e) ==
  /\ pc[e] = "save"
  /\ file' = model[e]
  /\ Goto(e, "commit")
  /\ UNCHANGED <<rows, job, git, local, env>>

Commit(e) ==
  /\ pc[e] = "commit"
  /\ git' = Append(git, file)
  /\ hash' = [hash EXCEPT ![e] = Len(git')]
  /\ Goto(e, "mark")
  /\ UNCHANGED <<rows, job, file, plan, losers, model, target, env>>

\* Mutants: the losers stay pending; the rows get the snapshot's hash; every
\* pending row is marked, planned or not.
MarkForgetsLosers(e) ==
  /\ pc[e] = "mark"
  /\ applied' = applied \union plan[e]
  /\ commitOf' = [d \in Deltas |-> IF d \in plan[e] THEN hash[e] ELSE commitOf[d]]
  /\ job' = [job EXCEPT ![e] = "completed"]
  /\ Goto(e, "finish")
  /\ UNCHANGED <<queued, superseded, disk, local, env>>
MarkSnapshotHash(e) ==
  /\ pc[e] = "mark"
  /\ applied' = applied \union plan[e]
  /\ superseded' = superseded \union losers[e]
  /\ commitOf' = [d \in Deltas |-> IF d \in plan[e] THEN target[e] ELSE commitOf[d]]
  /\ job' = [job EXCEPT ![e] = "completed"]
  /\ Goto(e, "finish")
  /\ UNCHANGED <<queued, disk, local, env>>
MarkAllPending(e) ==
  /\ pc[e] = "mark"
  /\ applied' = applied \union Pending
  /\ commitOf' = [d \in Deltas |-> IF d \in Pending THEN hash[e] ELSE commitOf[d]]
  /\ job' = [job EXCEPT ![e] = "completed"]
  /\ Goto(e, "finish")
  /\ UNCHANGED <<queued, superseded, disk, local, env>>

\* One transaction: the GitCommit row, the deltas and the job.
Mark(e) ==
  /\ pc[e] = "mark"
  /\ applied' = applied \union plan[e]
  /\ superseded' = superseded \union losers[e]
  /\ commitOf' = [d \in Deltas |-> IF d \in plan[e] THEN hash[e] ELSE commitOf[d]]
  /\ job' = [job EXCEPT ![e] = "completed"]
  /\ Goto(e, "finish")
  /\ UNCHANGED <<queued, disk, local, env>>

Finish(e) ==
  /\ pc[e] = "finish"
  /\ Goto(e, "done")
  /\ UNCHANGED <<rows, job, disk, local, env>>

\* Mutant: the handler returns without stamping the job.
FailForgetsJob(e) ==
  /\ pc[e] = "fail"
  /\ Goto(e, "rollback")
  /\ UNCHANGED <<rows, job, disk, local, env>>

\* _fail returns at once for a job that has ended.
Fail(e) ==
  /\ pc[e] = "fail"
  /\ IF job[e] \in {"completed", "failed"}
       THEN Goto(e, "rollback") /\ UNCHANGED job
       ELSE job' = [job EXCEPT ![e] = "failed"] /\ Goto(e, "notify")
  /\ UNCHANGED <<rows, disk, local, env>>

\* _fail's own event raises on a dead channel, past the rollback.
Notify(e) ==
  /\ pc[e] = "notify"
  /\ Goto(e, IF e \in broken THEN "done" ELSE "rollback")
  /\ UNCHANGED <<rows, job, disk, local, env>>

\* Mutant: a failure before the commit is not rolled back.
RollbackCommittedOnly(e) ==
  /\ pc[e] = "rollback"
  /\ IF hash[e] = 0
       THEN UNCHANGED disk
       ELSE file' = git[target[e]] /\ git' = Append(git, git[target[e]])
  /\ Goto(e, "done")
  /\ UNCHANGED <<rows, job, local, env>>

\* _try_rollback, when the snapshot was taken.
Rollback(e) ==
  /\ pc[e] = "rollback"
  /\ IF target[e] = 0
       THEN UNCHANGED disk
       ELSE file' = git[target[e]] /\ git' = Append(git, git[target[e]])
  /\ Goto(e, "done")
  /\ UNCHANGED <<rows, job, local, env>>

ExportStep(e) ==
  \/ CreateJob(e) \/ Announce(e) \/ Snapshot(e) \/ Run(e) \/ ApplyDeltas(e) \/ Save(e)
  \/ Commit(e) \/ Mark(e) \/ Finish(e) \/ Fail(e) \/ Notify(e) \/ Rollback(e)

(***************************************************************************)
(* The environment.                                                         *)
(***************************************************************************)

\* Mutant: the silent emitter of a POST raises too.
SendFailsUnstreamed(e) ==
  /\ e \notin broken
  /\ pc[e] \in {"announce", "snapshot", "run", "apply", "save", "commit", "mark",
                "finish", "notify"}
  /\ broken' = broken \union {e}
  /\ Goto(e, IF pc[e] \in {"announce", "notify"} THEN "done" ELSE "fail")
  /\ UNCHANGED <<rows, job, disk, local, faults, crashes>>

\* emit() raises CancellationError: inside the try block _fail handles it,
\* before the block and inside _fail nothing does.
SendFails(e) ==
  /\ e \in Streamed \ broken
  /\ pc[e] \in {"announce", "snapshot", "run", "apply", "save", "commit", "mark",
                "finish", "notify"}
  /\ broken' = broken \union {e}
  /\ Goto(e, IF pc[e] \in {"announce", "notify"} THEN "done" ELSE "fail")
  /\ UNCHANGED <<rows, job, disk, local, faults, crashes>>

\* Any other exception.  In the try block _fail handles it, which does nothing
\* when Mark's transaction broke after its job object was set to COMPLETED; an
\* error of the row's creation or of _fail's own save leaves the request.
FaultInExport(e) ==
  /\ \/ /\ pc[e] \in {"snapshot", "run", "apply", "commit", "mark"}
        /\ Goto(e, "fail") /\ UNCHANGED file
     \/ /\ pc[e] = "save"
        /\ file' \in {file, Damaged} /\ Goto(e, "fail")
     \/ /\ pc[e] = "mark"
        /\ Goto(e, "rollback") /\ UNCHANGED file
     \/ /\ pc[e] \in {"create", "fail"}
        /\ Goto(e, "done") /\ UNCHANGED file
  /\ UNCHANGED <<rows, job, git, local>>

\* git.rollback answers False: before or after it copied the file back.
FaultInRollback(e) ==
  /\ pc[e] = "rollback" /\ target[e] # 0
  /\ file' \in {file, git[target[e]]}
  /\ Goto(e, "done")
  /\ UNCHANGED <<rows, job, git, local>>

Fault ==
  /\ faults < MaxFaults
  /\ faults' = faults + 1
  /\ \E e \in Exports : FaultInExport(e) \/ FaultInRollback(e)
  /\ UNCHANGED <<broken, crashes>>

\* The process dies; a file that was being written is torn.
Crash ==
  /\ crashes < MaxCrashes
  /\ crashes' = crashes + 1
  /\ file' \in IF \E e \in Exports : pc[e] = "save" THEN {file, Damaged} ELSE {file}
  /\ pc' = [e \in Exports |-> IF pc[e] \in Working THEN "dead" ELSE pc[e]]
  /\ UNCHANGED <<rows, job, git, local, broken, faults>>

Next ==
  \/ \E d \in Deltas : QueueDelta(d)
  \/ \E e \in Exports : Plan(e)
  \/ \E e \in Exports : ExportStep(e)
  \/ \E e \in Exports : SendFails(e)
  \/ Fault
  \/ Crash

Spec == Init /\ [][Next]_vars

\* A started export is run to its end by its thread.
FairSpec == Spec /\ \A e \in Exports : WF_vars(ExportStep(e))

(***************************************************************************)
(* Properties.                                                              *)
(***************************************************************************)

\* Every variable keeps its type.
ExportTypeOK ==
  /\ queued \in Seq(Deltas)
  /\ applied \in SUBSET Deltas
  /\ superseded \in SUBSET Deltas
  /\ commitOf \in [Deltas -> Nat]
  /\ job \in [Exports -> JobStatus]
  /\ file \in Files
  /\ git \in Seq(Files)
  /\ pc \in [Exports -> Working \union {"idle", "done", "dead"}]
  /\ plan \in [Exports -> SUBSET Deltas]
  /\ losers \in [Exports -> SUBSET Deltas]
  /\ model \in [Exports -> Models]
  /\ target \in [Exports -> Nat]
  /\ hash \in [Exports -> Nat]
  /\ broken \in SUBSET Streamed
  /\ faults \in 0..MaxFaults
  /\ crashes \in 0..MaxCrashes

\* Last write wins: a delta is superseded only for a newer one of its key that
\* reached the file, whichever exports planned and marked them.
SupersededByNewer ==
  \A d \in superseded : \E e \in applied : Newer(e, d)

\* No export, however it overlaps others, leaves a delta pending that is older
\* than an applied one of its key: the next export would write it over the newer.
NoOlderPending ==
  \A d \in Pending, e \in applied : ~Newer(e, d)

\* A delta is replayed or superseded, never both.
SettledOnce == applied \intersect superseded = {}

Quiet == \A e \in Exports : pc[e] \notin Working
NewestApplied(k) == {d \in NewestOf(applied) : KeyOf[d] = k}

\* What a completed export carried is in the file, or a newer change is.
CompletedIsInFile ==
  Quiet => \A d \in applied :
    file # Damaged /\ (file[KeyOf[d]] = d \/ \E e \in applied : Newer(e, d) /\ file[KeyOf[d]] = e)

\* What no export has completed is not: a failed one is rolled back.
FailedLeavesNoTrace ==
  Quiet => /\ file # Damaged
           /\ \A k \in Keys : file[k] # None => file[k] \in applied

\* The commit an applied delta names holds it, or held a newer one.
CommitHoldsDelta ==
  \A d \in applied :
    /\ commitOf[d] \in 1..Len(git)
    /\ git[commitOf[d]] # Damaged
    /\ git[commitOf[d]][KeyOf[d]] = d

\* The export publishes batches of the queue: seen without the exports that
\* have saved the file and not ended, it implements DeltaQueue.
Unfinished == {e \in Exports : pc[e] \in {"commit", "mark", "fail", "notify", "rollback"}
                                 /\ target[e] # 0}
Published == IF Unfinished = {} THEN file ELSE git[target[CHOOSE e \in Unfinished : TRUE]]
Queue == INSTANCE DeltaQueue WITH published <- Published
ImplementsDeltaQueue == Queue!Spec

\* A job that was created is completed or failed in the end.
JobEnds ==
  \A e \in Exports : job[e] \in {"planning", "running"} ~> job[e] \in {"completed", "failed"}
=============================================================================
