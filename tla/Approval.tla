------------------------------ MODULE Approval ------------------------------
(***************************************************************************)
(* The writeback lifecycle of one IFC file: proposals are made on scratch   *)
(* copies, reviewed, and swapped in by an approval; versions are restored   *)
(* from git; scratch copies are swept.  Every HTTP or WebSocket request     *)
(* runs in its own thread, so each is a process here: it handles one call   *)
(* and its steps interleave with the steps of every other request wherever  *)
(* the code touches the database, the file, a scratch copy or git.          *)
(*                                                                         *)
(* The contents of an IFC file are abstracted to the set of proposals whose *)
(* change they contain; the SHA-256 fingerprint tells two contents apart    *)
(* exactly when the sets differ.  A git commit is its content; its hash is  *)
(* its position in the history.  The entity index has a row for each entity; *)
(* a row shows the changes of that entity that the model it was written from *)
(* contained.                                                               *)
(***************************************************************************)
EXTENDS Integers, Sequences, FiniteSets

CONSTANTS
  Proposals,    \* propose requests, each named as the proposal it makes
  Approvers,    \* approve requests
  Rejecters,    \* reject requests
  Restorers,    \* restore-a-version requests
  Sweepers,     \* runs of the sweep_scratch_files command
  Sessions,     \* chat sessions
  SessionOf,    \* the session a propose request is sent in
  Entities,     \* rows of the entity index
  Touches,      \* the rows a change shows in: of the entities its diff names,
                \* and of the occurrences of a type it names
  MaxAttempts,  \* MAX_ATTEMPTS of the pipeline
  MaxFaults,    \* bound: I/O, git or database errors
  MaxCrashes,   \* bound: deaths of the server process
  None          \* "no proposal", "no request", "no file"

Requests == Proposals \union Approvers \union Rejecters \union Restorers
              \union Sweepers

ASSUME RequestsAssumption ==
  /\ Proposals \intersect (Approvers \union Rejecters \union Restorers \union Sweepers) = {}
  /\ Approvers \intersect (Rejecters \union Restorers \union Sweepers) = {}
  /\ Rejecters \intersect (Restorers \union Sweepers) = {}
  /\ Restorers \intersect Sweepers = {}
  /\ None \notin Requests
ASSUME NoneAssumption == \A content \in SUBSET Proposals : content # None
ASSUME SessionsAssumption == SessionOf \in [Proposals -> Sessions]
ASSUME TouchesAssumption == Touches \in [Proposals -> SUBSET Entities]
ASSUME BoundsAssumption ==
  /\ MaxAttempts \in Nat \ {0}
  /\ MaxFaults \in Nat
  /\ MaxCrashes \in Nat

VARIABLES
  status,   \* ModificationProposal.status, "none" before the row exists
  linked,   \* rows whose message is set: what supersede_pending can see
  rows,     \* GitCommit rows: [hash, change]
  lock,     \* the approval holding the IFCFile row lock
  index,    \* the changes each row of the entity index shows
  queue,    \* rows an approval's index refresh has still to write
  fileStatus, \* IFCFile.status
  file,     \* content of the IFC file
  scratch,  \* content of each proposal's scratch copy
  git,      \* contents of the repository's commits, HEAD last
  pc,       \* where each request is
  base,     \* base_fingerprint of each proposal
  attempt,  \* generation attempts a propose request has used
  listed,   \* rows a supersede or a sweep has read
  target,   \* the proposal an approve or a reject is about
  parent,   \* the rollback point an approval holds, 0 for none
  hash,     \* the commit an approval made or a restore read back
  view,     \* the content a restore asked for, or an index write works from
  faults, crashes

indexed == <<index, queue, fileStatus>>
db    == <<status, linked, rows, lock, indexed>>
disk  == <<file, scratch, git>>
props == <<base, attempt>>
local == <<listed, target, parent, hash, view>>
env   == <<faults, crashes>>
vars  == <<db, disk, pc, props, local, env>>

Status   == {"none", "pending", "approved", "rejected", "applied", "failed", "superseded"}
Terminal == {"rejected", "applied", "failed", "superseded"}
Contents == SUBSET Proposals
Labels   == {"idle", "drop", "supersede", "resolve", "fingerprint", "generate", "copy", "run",
             "create", "guardian", "link", "claim", "lock", "check", "refuse",
             "refuse_stale", "snapshot", "replace", "commit", "record", "fail",
             "drop_scratch", "rollback", "refresh", "upsert", "reject", "head",
             "record_restore", "parse", "mark", "open", "reindex", "unsynced", "track",
             "record_track", "sweep", "done", "dead"}


PendingIn(s) == {p \in linked : SessionOf[p] = s /\ status[p] = "pending"}
HeadHash == Len(git)
Shown(content, e) == {p \in content : e \in Touches[p]}
Goto(r, label) == pc' = [pc EXCEPT ![r] = label]
Delete(ps) == scratch' = [p \in Proposals |-> IF p \in ps THEN None ELSE scratch[p]]
SetStatus(ps, new) == status' = [p \in Proposals |-> IF p \in ps THEN new ELSE status[p]]

Init ==
  /\ status = [p \in Proposals |-> "none"]
  /\ linked = {}
  /\ rows = {[hash |-> 1, change |-> None]}     \* the upload's [TRACK] commit
  /\ lock = None
  /\ index = [e \in Entities |-> {}]
  /\ queue = [r \in Approvers |-> {}]
  /\ fileStatus = "completed"
  /\ file = {}
  /\ scratch = [p \in Proposals |-> None]
  /\ git = << {} >>
  /\ pc = [r \in Requests |-> "idle"]
  /\ base = [p \in Proposals |-> None]
  /\ attempt = [p \in Proposals |-> 0]
  /\ listed = [r \in Proposals \union Sweepers |-> {}]
  /\ target = [r \in Approvers \union Rejecters |-> None]
  /\ parent = [r \in Approvers |-> 0]
  /\ hash = [r \in Approvers \union Restorers |-> 0]
  /\ view = [r \in Approvers \union Restorers |-> {}]
  /\ faults = 0
  /\ crashes = 0

(***************************************************************************)
(* Propose: ModificationService.propose_in_session.                         *)
(***************************************************************************)

\* The user's request arrives; supersede_pending evaluates its filter once.
ListPending(p) ==
  /\ pc[p] = "idle"
  /\ listed' = [listed EXCEPT ![p] = PendingIn(SessionOf[p])]
  /\ Goto(p, IF PendingIn(SessionOf[p]) = {} THEN "resolve" ELSE "drop")
  /\ UNCHANGED <<db, disk, props, target, parent, hash, view, env>>

DropListed(p) ==
  /\ pc[p] = "drop"
  /\ Delete(listed[p])
  /\ listed' = [listed EXCEPT ![p] = {}]
  /\ Goto(p, "supersede")
  /\ UNCHANGED <<db, file, git, props, target, parent, hash, view, env>>

\* Mutant: the UPDATE does not repeat the filter on the status.
SupersedeUnguarded(p) ==
  /\ pc[p] = "supersede"
  /\ SetStatus({q \in linked : SessionOf[q] = SessionOf[p]}, "superseded")
  /\ Goto(p, "resolve")
  /\ UNCHANGED <<linked, rows, lock, indexed, disk, props, local, env>>

\* pending.update(...) runs the filter again, at the time of the UPDATE.
SupersedePending(p) ==
  /\ pc[p] = "supersede"
  /\ SetStatus(PendingIn(SessionOf[p]), "superseded")
  /\ Goto(p, "resolve")
  /\ UNCHANGED <<linked, rows, lock, indexed, disk, props, local, env>>

\* _resolve_ifc_file: no processed file, no proposal.
Resolve(p) ==
  /\ pc[p] = "resolve"
  /\ Goto(p, IF fileStatus = "completed" THEN "fingerprint" ELSE "done")
  /\ UNCHANGED <<db, disk, props, local, env>>

\* The fingerprint is taken once, before the first attempt copies the file.
Fingerprint(p) ==
  /\ pc[p] = "fingerprint"
  /\ base' = [base EXCEPT ![p] = file]
  /\ Goto(p, "generate")
  /\ UNCHANGED <<db, disk, attempt, local, env>>

\* Mutant: the last attempt is repaired too.
FailAttemptOffByOne(p) ==
  /\ attempt' = [attempt EXCEPT ![p] = @ + 1]
  /\ Goto(p, IF attempt[p] = MaxAttempts THEN "done" ELSE "generate")

\* A failed attempt is repaired until MAX_ATTEMPTS are used up.
FailAttempt(p) ==
  /\ attempt' = [attempt EXCEPT ![p] = @ + 1]
  /\ Goto(p, IF attempt[p] + 1 = MaxAttempts THEN "done" ELSE "generate")

\* The model answers with a code block, with none, or the request ends here:
\* a refusal, a model that cannot be reached, a cancelled client.
Generate(p) ==
  /\ pc[p] = "generate"
  /\ \/ Goto(p, "copy") /\ UNCHANGED attempt
     \/ FailAttempt(p)
     \/ Goto(p, "done") /\ UNCHANGED attempt
  /\ UNCHANGED <<db, disk, base, local, env>>

CopyScratch(p) ==
  /\ pc[p] = "copy"
  /\ scratch' = [scratch EXCEPT ![p] = file]
  /\ Goto(p, "run")
  /\ UNCHANGED <<db, file, git, props, local, env>>

\* The sandbox writes the change into the copy; every other outcome (sandbox
\* error, no target, out of scope, no change, cancellation) deletes the copy.
RunCode(p) ==
  /\ pc[p] = "run"
  /\ \/ /\ scratch[p] # None
        /\ scratch' = [scratch EXCEPT ![p] = @ \union {p}]
        /\ Goto(p, "create")
        /\ UNCHANGED attempt
     \/ Delete({p}) /\ FailAttempt(p)
     \/ Delete({p}) /\ Goto(p, "done") /\ UNCHANGED attempt
  /\ UNCHANGED <<db, file, git, base, local, env>>

\* Inserting a row that refers to the IFC file waits for its row lock.
CreateProposal(p) ==
  /\ pc[p] = "create"
  /\ lock = None
  /\ SetStatus({p}, "pending")
  /\ Goto(p, "guardian")
  /\ UNCHANGED <<linked, rows, lock, indexed, disk, props, local, env>>

\* Guardian only advises; a client that is gone has the row rejected.
Guardian(p) ==
  /\ pc[p] = "guardian"
  /\ \/ Goto(p, "link") /\ UNCHANGED status
     \/ /\ status[p] = "pending"
        /\ SetStatus({p}, "rejected")
        /\ Goto(p, "drop_scratch")
  /\ UNCHANGED <<linked, rows, lock, indexed, disk, props, local, env>>

LinkMessage(p) ==
  /\ pc[p] = "link"
  /\ linked' = linked \union {p}
  /\ Goto(p, "done")
  /\ UNCHANGED <<status, rows, lock, indexed, disk, props, local, env>>

ProposeStep(p) ==
  \/ DropListed(p) \/ SupersedePending(p) \/ Resolve(p) \/ Fingerprint(p) \/ Generate(p)
  \/ CopyScratch(p) \/ RunCode(p) \/ CreateProposal(p) \/ Guardian(p)
  \/ LinkMessage(p)

(***************************************************************************)
(* Reject: the view reads the row, one guarded UPDATE, the scratch goes.    *)
(***************************************************************************)

\* Mutant: the copy is deleted before the guarded UPDATE.
RejectReadDeletes(r, p) ==
  /\ pc[r] = "idle"
  /\ p \in linked
  /\ target' = [target EXCEPT ![r] = p]
  /\ Delete({p})
  /\ Goto(r, IF status[p] = "pending" THEN "reject" ELSE "done")
  /\ UNCHANGED <<db, file, git, props, listed, parent, hash, view, env>>

\* A client knows a proposal by its card, which it gets after the link.
RejectRead(r, p) ==
  /\ pc[r] = "idle"
  /\ p \in linked
  /\ target' = [target EXCEPT ![r] = p]
  /\ Goto(r, IF status[p] = "pending" THEN "reject" ELSE "done")
  /\ UNCHANGED <<db, disk, props, listed, parent, hash, view, env>>

Reject(r) ==
  /\ pc[r] = "reject"
  /\ IF status[target[r]] = "pending"
       THEN SetStatus({target[r]}, "rejected") /\ Goto(r, "drop_scratch")
       ELSE UNCHANGED status /\ Goto(r, "done")
  /\ UNCHANGED <<linked, rows, lock, indexed, disk, props, local, env>>

(***************************************************************************)
(* Approve: claim the row, then ExecutionService.execute.                   *)
(***************************************************************************)

\* 410 or 409 when the row is not pending, 422 when the ticked flags differ.
ApproveRead(r, p) ==
  /\ pc[r] = "idle"
  /\ p \in linked
  /\ target' = [target EXCEPT ![r] = p]
  /\ \/ status[p] = "pending" /\ Goto(r, "claim")
     \/ Goto(r, "done")
  /\ UNCHANGED <<db, disk, props, listed, parent, hash, view, env>>

\* Mutant: the status is written without the filter on PENDING.
ClaimUnguarded(r) ==
  /\ pc[r] = "claim"
  /\ SetStatus({target[r]}, "approved") /\ Goto(r, "lock")
  /\ UNCHANGED <<linked, rows, lock, indexed, disk, props, local, env>>

Claim(r) ==
  /\ pc[r] = "claim"
  /\ IF status[target[r]] = "pending"
       THEN SetStatus({target[r]}, "approved") /\ Goto(r, "lock")
       ELSE UNCHANGED status /\ Goto(r, "done")
  /\ UNCHANGED <<linked, rows, lock, indexed, disk, props, local, env>>

\* Mutant: the file row is read without FOR UPDATE.
LockWithoutWaiting(r) ==
  /\ pc[r] = "lock"
  /\ lock' = r
  /\ Goto(r, "check")
  /\ UNCHANGED <<status, linked, rows, indexed, disk, props, local, env>>

Lock(r) ==
  /\ pc[r] = "lock"
  /\ lock = None
  /\ lock' = r
  /\ Goto(r, "check")
  /\ UNCHANGED <<status, linked, rows, indexed, disk, props, local, env>>

\* Mutant: the fingerprint is not compared.
RefusalWithoutFingerprint(p) ==
  IF status[p] \notin {"pending", "approved"} THEN "wrong_status"
  ELSE IF scratch[p] = None THEN "no_scratch"
  ELSE "none"

Refusal(p) ==
  IF status[p] \notin {"pending", "approved"} THEN "wrong_status"
  ELSE IF scratch[p] = None THEN "no_scratch"
  ELSE IF file # base[p] THEN "stale"
  ELSE "none"

\* Mutants: a missing copy is answered without marking the row FAILED; a
\* refusal leaves the transaction open.
CheckForgetsClaim(r) ==
  /\ pc[r] = "check"
  /\ LET why == Refusal(target[r]) IN
       /\ lock' = IF why = "none" THEN lock ELSE None
       /\ Goto(r, CASE why = "none"  -> "snapshot"
                    [] why = "stale" -> "refuse_stale"
                    [] OTHER         -> "done")
  /\ UNCHANGED <<status, linked, rows, indexed, disk, props, local, env>>
CheckKeepsLock(r) ==
  /\ pc[r] = "check"
  /\ LET why == Refusal(target[r]) IN
       Goto(r, CASE why = "none"         -> "snapshot"
                 [] why = "wrong_status" -> "done"
                 [] why = "no_scratch"   -> "refuse"
                 [] why = "stale"        -> "refuse_stale")
  /\ UNCHANGED <<db, disk, props, local, env>>

\* _refusal; leaving the atomic block releases the row locks.
Check(r) ==
  /\ pc[r] = "check"
  /\ LET why == Refusal(target[r]) IN
       /\ lock' = IF why = "none" THEN lock ELSE None
       /\ Goto(r, CASE why = "none"         -> "snapshot"
                    [] why = "wrong_status" -> "done"
                    [] why = "no_scratch"   -> "refuse"
                    [] why = "stale"        -> "refuse_stale")
  /\ UNCHANGED <<status, linked, rows, indexed, disk, props, local, env>>

\* git.snapshot commits the file unless HEAD already holds it.
Snapshot(r) ==
  /\ pc[r] = "snapshot"
  /\ git' = IF file = git[HeadHash] THEN git ELSE Append(git, file)
  /\ parent' = [parent EXCEPT ![r] = Len(git')]
  /\ Goto(r, "replace")
  /\ UNCHANGED <<db, file, scratch, props, listed, target, hash, view, env>>

\* os.replace(scratch, original); it raises when the scratch is gone.
Replace(r) ==
  /\ pc[r] = "replace"
  /\ IF scratch[target[r]] = None
       THEN /\ lock' = None
            /\ Goto(r, "fail")
            /\ UNCHANGED <<file, scratch>>
       ELSE /\ file' = scratch[target[r]]
            /\ Delete({target[r]})
            /\ Goto(r, "commit")
            /\ UNCHANGED lock
  /\ UNCHANGED <<status, linked, rows, indexed, git, props, local, env>>

\* Mutant: HEAD is read before the commit moves it.
CommitOldHead(r) ==
  /\ pc[r] = "commit"
  /\ git' = Append(git, file)
  /\ hash' = [hash EXCEPT ![r] = HeadHash]
  /\ Goto(r, "record")
  /\ UNCHANGED <<db, file, scratch, props, listed, target, parent, view, env>>

Commit(r) ==
  /\ pc[r] = "commit"
  /\ git' = Append(git, file)
  /\ hash' = [hash EXCEPT ![r] = Len(git')]
  /\ Goto(r, "record")
  /\ UNCHANGED <<db, file, scratch, props, listed, target, parent, view, env>>

HashTaken(h) == \E row \in rows : row.hash = h

\* The savepoint and the end of the transaction: row, status and file hash land
\* together, unless commit_hash, which is unique, is already recorded.
Record(r) ==
  /\ pc[r] = "record"
  /\ IF HashTaken(hash[r])
       THEN Goto(r, "fail") /\ UNCHANGED <<rows, status>>
       ELSE /\ rows' = rows \union {[hash |-> hash[r], change |-> target[r]]}
            /\ SetStatus({target[r]}, "applied")
            /\ Goto(r, "refresh")
  /\ lock' = None
  /\ UNCHANGED <<linked, indexed, disk, props, local, env>>

\* Mutant: a stale proposal keeps its copy.
MarkFailedKeepsScratch(r) ==
  /\ pc[r] \in {"refuse", "refuse_stale", "fail"}
  /\ SetStatus({target[r]}, "failed")
  /\ Goto(r, IF pc[r] = "fail" THEN "drop_scratch" ELSE "done")
  /\ UNCHANGED <<linked, rows, lock, indexed, disk, props, local, env>>

\* _mark_failed writes the status whatever it is, outside the lock.
MarkFailed(r) ==
  /\ pc[r] \in {"refuse", "refuse_stale", "fail"}
  /\ SetStatus({target[r]}, "failed")
  /\ Goto(r, IF pc[r] = "refuse" THEN "done" ELSE "drop_scratch")
  /\ UNCHANGED <<linked, rows, lock, indexed, disk, props, local, env>>

\* git.rollback(file, parent_hash), outside the lock.
FailRollback(r) ==
  /\ pc[r] = "rollback"
  /\ file' = git[parent[r]]
  /\ git' = Append(git, git[parent[r]])
  /\ Goto(r, "done")
  /\ UNCHANGED <<db, scratch, props, local, env>>

\* Mutant: the file is opened before the change reached it.
RefreshOpenEarly(r) ==
  /\ pc[r] = "refresh"
  /\ view' = [view EXCEPT ![r] = git[parent[r]]]
  /\ queue' = [queue EXCEPT ![r] = Touches[target[r]]]
  /\ Goto(r, IF Touches[target[r]] = {} THEN "done" ELSE "upsert")
  /\ UNCHANGED <<status, linked, rows, lock, index, fileStatus, disk, props>>
  /\ UNCHANGED <<listed, target, parent, hash, env>>

\* refresh_entities opens the file, under no lock, and queues what the diff
\* names; a type object brings in all its occurrences.
RefreshOpen(r) ==
  /\ pc[r] = "refresh"
  /\ view' = [view EXCEPT ![r] = file]
  /\ queue' = [queue EXCEPT ![r] = Touches[target[r]]]
  /\ Goto(r, IF Touches[target[r]] = {} THEN "done" ELSE "upsert")
  /\ UNCHANGED <<status, linked, rows, lock, index, fileStatus, disk, props>>
  /\ UNCHANGED <<listed, target, parent, hash, env>>

\* Each row is written whole, from the model that was opened, in a statement of
\* its own: whatever another refresh wrote there since is overwritten.
RefreshUpsert(r) ==
  /\ pc[r] = "upsert"
  /\ \E e \in queue[r] :
       /\ index' = [index EXCEPT ![e] = Shown(view[r], e)]
       /\ queue' = [queue EXCEPT ![r] = @ \ {e}]
       /\ Goto(r, IF queue[r] = {e} THEN "done" ELSE "upsert")
  /\ UNCHANGED <<status, linked, rows, lock, fileStatus, disk, props, local, env>>

ApproveStep(r) ==
  \/ Claim(r) \/ Lock(r) \/ Check(r) \/ Snapshot(r) \/ Replace(r) \/ Commit(r)
  \/ Record(r) \/ MarkFailed(r) \/ FailRollback(r) \/ RefreshOpen(r)
  \/ RefreshUpsert(r)

\* delete_scratch, after the status that makes the copy useless.
OwnScratch(r) == IF r \in Proposals THEN r ELSE target[r]
DropScratch(r) ==
  /\ pc[r] = "drop_scratch"
  /\ Delete({OwnScratch(r)})
  /\ Goto(r, IF r \in Approvers /\ parent[r] # 0 THEN "rollback" ELSE "done")
  /\ UNCHANGED <<db, file, git, props, local, env>>

(***************************************************************************)
(* Restore: ExecutionService.restore_version, under no lock.                *)
(***************************************************************************)

RestoreRollback(r, row) ==
  /\ pc[r] = "idle"
  /\ file' = git[row.hash]
  /\ git' = Append(git, git[row.hash])
  /\ view' = [view EXCEPT ![r] = git[row.hash]]
  /\ Goto(r, "head")
  /\ UNCHANGED <<db, scratch, props, listed, target, parent, hash, env>>

\* get_parent_hash: HEAD is read again, whoever moved it last.
RestoreHead(r) ==
  /\ pc[r] = "head"
  /\ hash' = [hash EXCEPT ![r] = HeadHash]
  /\ Goto(r, "record_restore")
  /\ UNCHANGED <<db, disk, props, listed, target, parent, view, env>>

RestoreRecord(r) ==
  /\ pc[r] \in {"record_restore", "record_track"}
  /\ lock = None
  /\ IF HashTaken(hash[r])
       THEN Goto(r, "done") /\ UNCHANGED rows
       ELSE /\ rows' = rows \union {[hash |-> hash[r], change |-> None]}
            /\ Goto(r, IF pc[r] = "record_restore" THEN "parse" ELSE "done")
  /\ UNCHANGED <<status, linked, lock, indexed, disk, props, local, env>>

\* run_pipeline saves the file hash, which waits for the row lock, and parse
\* reads the status: a file that is being processed is left alone.
RestoreParse(r) ==
  /\ pc[r] = "parse"
  /\ lock = None
  /\ Goto(r, IF fileStatus = "processing" THEN "unsynced" ELSE "mark")
  /\ UNCHANGED <<db, disk, props, local, env>>

RestoreMark(r) ==
  /\ pc[r] = "mark"
  /\ lock = None
  /\ fileStatus' = "processing"
  /\ Goto(r, "open")
  /\ UNCHANGED <<status, linked, rows, lock, index, queue, disk, props, local, env>>

RestoreOpen(r) ==
  /\ pc[r] = "open"
  /\ view' = [view EXCEPT ![r] = file]
  /\ Goto(r, "reindex")
  /\ UNCHANGED <<db, disk, props, listed, target, parent, hash, env>>

\* One transaction replaces every entity row and sets the file COMPLETED.
RestoreReindex(r) ==
  /\ pc[r] = "reindex"
  /\ lock = None
  /\ index' = [e \in Entities |-> Shown(view[r], e)]
  /\ fileStatus' = "completed"
  /\ Goto(r, "track")
  /\ UNCHANGED <<status, linked, rows, lock, queue, disk, props, local, env>>

\* A parse that failed, or was refused, marks the file FAILED.
RestoreUnsynced(r) ==
  /\ pc[r] = "unsynced"
  /\ lock = None
  /\ fileStatus' = "failed"
  /\ Goto(r, "done")
  /\ UNCHANGED <<status, linked, rows, lock, index, queue, disk, props, local, env>>

\* _register_in_git: a commit, then its row, when HEAD does not hold the file.
RestoreTrack(r) ==
  /\ pc[r] = "track"
  /\ IF file = git[HeadHash]
       THEN UNCHANGED <<git, hash>> /\ Goto(r, "done")
       ELSE /\ git' = Append(git, file)
            /\ hash' = [hash EXCEPT ![r] = Len(git')]
            /\ Goto(r, "record_track")
  /\ UNCHANGED <<db, file, scratch, props, listed, target, parent, view, env>>

RestoreStep(r) ==
  \/ RestoreHead(r) \/ RestoreRecord(r) \/ RestoreParse(r) \/ RestoreMark(r)
  \/ RestoreOpen(r) \/ RestoreReindex(r) \/ RestoreUnsynced(r) \/ RestoreTrack(r)

(***************************************************************************)
(* The sweep_scratch_files command: read the rows, then glob and unlink.    *)
(***************************************************************************)

SweepList(r) ==
  /\ pc[r] = "idle"
  /\ listed' = [listed EXCEPT ![r] =
                  {p \in Proposals : status[p] \in {"pending", "approved"}}]
  /\ Goto(r, "sweep")
  /\ UNCHANGED <<db, disk, props, target, parent, hash, view, env>>

SweepDelete(r) ==
  /\ pc[r] = "sweep"
  /\ Delete(Proposals \ listed[r])
  /\ listed' = [listed EXCEPT ![r] = {}]
  /\ Goto(r, "done")
  /\ UNCHANGED <<db, file, git, props, target, parent, hash, view, env>>

(***************************************************************************)
(* The environment: an error in a step, the death of the server process.    *)
(***************************************************************************)

\* Mutant: without the savepoint the commit row lands although its status did not.
FaultWithoutSavepoint(r) ==
  /\ pc[r] \in {"check", "snapshot", "replace", "commit", "record"}
  /\ lock' = None
  /\ rows' = IF pc[r] = "record"
               THEN rows \union {[hash |-> hash[r], change |-> target[r]]} ELSE rows
  /\ Goto(r, "fail")
  /\ UNCHANGED <<status, linked, indexed, disk, props, local>>

\* An exception inside the atomic block of execute: the lock is released and
\* the failure handled outside.
FaultInExecute(r) ==
  /\ pc[r] \in {"check", "snapshot", "replace", "commit", "record"}
  /\ lock' = None
  /\ Goto(r, "fail")
  /\ UNCHANGED <<status, linked, rows, indexed, disk, props, local>>

\* git.rollback answers False: before or after it copied the file back.
FaultInRollback(r) ==
  /\ pc[r] = "rollback"
  /\ file' \in {file, git[parent[r]]}
  /\ Goto(r, "done")
  /\ UNCHANGED <<db, scratch, git, props, local>>

FaultInRestore(r, row) ==
  /\ pc[r] = "idle"
  /\ file' \in {file, git[row.hash]}
  /\ Goto(r, "done")
  /\ UNCHANGED <<db, scratch, git, props, local>>

\* An unreadable file leaves the index as it is, an error between two rows what
\* is written so far: after an approval the error is
\* only logged, after a restore the file is marked.
FaultInIndexing(r) ==
  /\ pc[r] \in {"refresh", "upsert", "parse", "open", "reindex"}
  /\ Goto(r, IF r \in Restorers THEN "unsynced" ELSE "done")
  /\ UNCHANGED <<db, disk, props, local>>

Fault ==
  /\ faults < MaxFaults
  /\ faults' = faults + 1
  /\ \/ \E r \in Approvers : FaultInExecute(r) \/ FaultInRollback(r)
     \/ \E r \in Restorers, row \in rows : FaultInRestore(r, row)
     \/ \E r \in Approvers \union Restorers : FaultInIndexing(r)
  /\ UNCHANGED crashes

\* Every request of the process dies, its open transaction is rolled back and
\* its locks go; nothing resumes a request after the restart.
Crash ==
  /\ crashes < MaxCrashes
  /\ crashes' = crashes + 1
  /\ pc' = [r \in Requests |->
              IF r \in Sweepers \/ pc[r] \in {"idle", "done"} THEN pc[r] ELSE "dead"]
  /\ lock' = None
  /\ UNCHANGED <<status, linked, rows, indexed, disk, props, local, faults>>

(***************************************************************************)
(* The specification.                                                       *)
(***************************************************************************)

\* What users and operators start.
Start ==
  \/ \E p \in Proposals : ListPending(p)
  \/ \E r \in Rejecters, p \in Proposals : RejectRead(r, p)
  \/ \E r \in Approvers, p \in Proposals : ApproveRead(r, p)
  \/ \E r \in Restorers, row \in rows : RestoreRollback(r, row)
  \/ \E r \in Sweepers : SweepList(r)

\* What the server goes on with by itself.
Serve ==
  \/ \E p \in Proposals : ProposeStep(p)
  \/ \E r \in Rejecters : Reject(r)
  \/ \E r \in Approvers : ApproveStep(r)
  \/ \E r \in Proposals \union Rejecters \union Approvers : DropScratch(r)
  \/ \E r \in Restorers : RestoreStep(r)
  \/ \E r \in Sweepers : SweepDelete(r)

Next == Start \/ Serve \/ Fault \/ Crash

Spec == Init /\ [][Next]_vars

\* A request that has started is run to its end by its thread, and a row lock
\* that stays free is granted to the request that waits for it.
FairSpec ==
  /\ Spec
  /\ \A p \in Proposals : WF_vars(ProposeStep(p) \/ DropScratch(p))
  /\ \A r \in Rejecters : WF_vars(Reject(r) \/ DropScratch(r))
  /\ \A r \in Approvers : WF_vars(ApproveStep(r) \/ DropScratch(r))

(***************************************************************************)
(* Properties.                                                              *)
(***************************************************************************)

\* Every variable keeps its type.
TypeOK ==
  /\ status \in [Proposals -> Status]
  /\ linked \in SUBSET Proposals
  /\ rows \in SUBSET [hash : Nat, change : Proposals \union {None}]
  /\ lock \in Approvers \union {None}
  /\ index \in [Entities -> Contents]
  /\ queue \in [Approvers -> SUBSET Entities]
  /\ fileStatus \in {"completed", "processing", "failed"}
  /\ file \in Contents
  /\ scratch \in [Proposals -> Contents \union {None}]
  /\ git \in Seq(Contents)
  /\ pc \in [Requests -> Labels]
  /\ base \in [Proposals -> Contents \union {None}]
  /\ attempt \in [Proposals -> 0..MaxAttempts]
  /\ listed \in [Proposals \union Sweepers -> SUBSET Proposals]
  /\ target \in [Approvers \union Rejecters -> Proposals \union {None}]
  /\ parent \in [Approvers -> Nat]
  /\ hash \in [Approvers \union Restorers -> Nat]
  /\ view \in [Approvers \union Restorers -> Contents]
  /\ faults \in 0..MaxFaults
  /\ crashes \in 0..MaxCrashes

\* Where an approval owns the claim it made, and where it holds the file lock.
InTransaction == {"check", "snapshot", "replace", "commit", "record"}
Claiming == InTransaction \union {"lock", "refuse", "refuse_stale", "fail"}

\* A claimed row is executed by exactly one request, the one whose guarded
\* UPDATE matched: two approve requests never both reach the swap, whatever
\* rejects, supersedes, restores, faults and crashes do around them.
SoleExecutor ==
  \A r \in Approvers : pc[r] \in Claiming =>
    /\ status[target[r]] = "approved"
    /\ \A s \in Approvers : pc[s] \in Claiming /\ target[s] = target[r] => s = r

\* "the row never stays claimed with no way to approve or reject it": while the
\* server has not died, some request still works on every claimed row.
ClaimHasOwner ==
  crashes = 0 =>
    \A p \in Proposals : status[p] = "approved" =>
      \E r \in Approvers : pc[r] \in Claiming /\ target[r] = p

\* The status says what the history says: a proposal is APPLIED if and only if
\* one GitCommit row, and only one, is its own.
AppliedIffRecorded ==
  \A p \in Proposals :
    /\ status[p] = "applied" <=> \E row \in rows : row.change = p
    /\ \A x, y \in rows : x.change = p /\ y.change = p => x = y

\* What a user decided or an approval ended in is never rewritten: no late
\* answer, guarded or not, moves a row out of a terminal status, and a claimed
\* row only ends as APPLIED or FAILED.
StatusOnlyAdvances ==
  [][\A p \in Proposals :
       /\ status[p] \in Terminal => status'[p] = status[p]
       /\ status[p] = "approved" => status'[p] \in {"approved", "applied", "failed"}]_vars

\* The row lock is held exactly while its approval is inside the transaction.
LockHeldByTransaction ==
  \A r \in Approvers : lock = r <=> pc[r] \in InTransaction

\* The applied change is the reviewed change: at the swap the file gains
\* exactly the change the card showed, and loses nothing.
SwapIsReviewedDiff ==
  [][\A r \in Approvers : pc[r] = "replace" /\ pc'[r] = "commit" =>
       file' = file \union {target[r]}]_vars

\* An applied change stays in the file.
AppliedIsInFile ==
  \A p \in Proposals : status[p] = "applied" => p \in file

\* The commit a GitCommit row names holds the change the row is about.
RowNamesItsCommit ==
  \A row \in rows : row.change # None => row.change \in git[row.hash]

\* A proposal that waits for review still has the copy the reviewer approves.
PendingHasScratch ==
  \A p \in Proposals : status[p] = "pending" => scratch[p] # None

\* Once every request has been answered, terminal proposals have no scratch
\* copy.
Quiet == \A r \in Requests : pc[r] \in {"idle", "done", "dead"}
NoScratchLeft ==
  Quiet => \A p \in Proposals : status[p] \in Terminal => scratch[p] = None

\* Once every request has been answered, a row of the index shows what the file
\* holds of its entity, but for changes that entered the file after another
\* change of the same entity whose refresh, opened earlier, wrote the row last.
Before(q, p) == \E i \in DOMAIN git : q \in git[i] /\ p \notin git[i]
RowsMissOnlyLaterChanges ==
  Quiet => \A e \in Entities :
    /\ index[e] \subseteq Shown(file, e)
    /\ \A p \in Shown(file, e) \ index[e] : \E q \in index[e] : Before(q, p)

\* What the index is for: every row shows what the file holds of its entity.
\* It holds where no refresh is overtaken by a later one of the same entity.
IndexMatchesFile ==
  Quiet => \A e \in Entities : index[e] = Shown(file, e)

\* Approval is a compare-and-swap on the file, whose effect is the os.replace:
\* a proposal counts as applied from its swap on, and seen that way the
\* lifecycle implements ReviewedChange.
SwappedIn(p) ==
  \/ status[p] = "applied"
  \/ \E r \in Approvers : pc[r] \in {"commit", "record"} /\ target[r] = p
ReviewState ==
  [p \in Proposals |->
     CASE status[p] = "none"     -> "none"
       [] status[p] = "pending"  -> "open"
       [] SwappedIn(p)           -> "applied"
       [] status[p] = "approved" /\ ~SwappedIn(p) -> "claimed"
       [] OTHER                  -> "closed"]
Reviewed == INSTANCE ReviewedChange
              WITH content <- file, seen <- base, state <- ReviewState
ImplementsReviewedChange == Reviewed!Spec

\* A claimed proposal is applied or failed in the end.
ClaimEnds ==
  \A p \in Proposals :
    status[p] = "approved" ~> status[p] \in {"applied", "failed"}
=============================================================================
