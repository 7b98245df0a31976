--------------------------- MODULE ApprovalProofs ---------------------------
(***************************************************************************)
(* Safety of Approval, for any sets of requests and any bounds.             *)
(***************************************************************************)
EXTENDS Approval, TLAPS

\* Labels of a propose request before its row exists.
Attempting == {"idle", "drop", "supersede", "resolve", "fingerprint", "generate", "copy", "run"}

\* Hashes that are used name commits that exist.
HashesExist ==
  /\ Len(git) \in Nat \ {0}
  /\ \A row \in rows : row.hash \in 1..Len(git)
  /\ \A r \in Approvers : parent[r] \in 0..Len(git)
  /\ \A r \in Approvers : pc[r] = "rollback" => parent[r] # 0
  /\ \A r \in Approvers \union Restorers :
       pc[r] \in {"record", "record_restore", "record_track"} => hash[r] \in 1..Len(git)

\* A request that has read its proposal knows it, a proposal has no row before
\* it is created, and every attempt was allowed.
RequestsKnow ==
  /\ \A r \in Approvers \union Rejecters :
       pc[r] \notin {"idle", "done", "dead"} => target[r] \in Proposals
  /\ \A p \in Proposals : pc[p] \in Attempting \union {"create"} => status[p] = "none"
  /\ \A p \in Proposals : pc[p] \in Attempting => attempt[p] < MaxAttempts

IInv ==
  /\ TypeOK
  /\ HashesExist
  /\ RequestsKnow
  /\ LockHeldByTransaction
  /\ SoleExecutor
  /\ AppliedIffRecorded

USE BoundsAssumption

\* The inductive invariant holds before any request arrives.
LEMMA InitIInv == Init => IInv
<1> SUFFICES ASSUME Init PROVE IInv
  OBVIOUS
<1>1. TypeOK
  BY DEF Init, TypeOK, Status, Contents, Labels, Requests
<1>2. HashesExist
  BY DEF Init, HashesExist, Requests
<1>3. RequestsKnow
  BY DEF Init, RequestsKnow, Attempting, Requests
<1>4. LockHeldByTransaction /\ SoleExecutor
  BY RequestsAssumption
     DEF Init, LockHeldByTransaction, SoleExecutor, InTransaction, Claiming, Requests
<1>5. AppliedIffRecorded
  BY RequestsAssumption DEF Init, AppliedIffRecorded, Requests
<1> QED
  BY <1>1, <1>2, <1>3, <1>4, <1>5 DEF IInv

\* The request counters stay on labels and the rows keep a legal status,
\* whichever action is taken.
LEMMA PcStep ==
  ASSUME pc \in [Requests -> Labels], [Next]_vars
  PROVE  pc' \in [Requests -> Labels]
<1> USE DEF Goto, Labels, Requests
<1>1. ASSUME NEW p \in Proposals, ListPending(p) \/ ProposeStep(p)
      PROVE  pc' \in [Requests -> Labels]
  BY <1>1 DEF ListPending, ProposeStep, DropListed, SupersedePending, Resolve, Fingerprint,
       Generate, CopyScratch, RunCode, CreateProposal, Guardian, LinkMessage, FailAttempt
<1>2. ASSUME NEW r \in Rejecters, Reject(r) \/ \E p \in Proposals : RejectRead(r, p)
      PROVE  pc' \in [Requests -> Labels]
  BY <1>2 DEF Reject, RejectRead
<1>3. ASSUME NEW r \in Approvers, ApproveStep(r) \/ \E p \in Proposals : ApproveRead(r, p)
      PROVE  pc' \in [Requests -> Labels]
  BY <1>3 DEF ApproveRead, ApproveStep, Claim, Lock, Check, Refusal, Snapshot, Replace,
       Commit, Record, MarkFailed, FailRollback, RefreshOpen, RefreshUpsert
<1>4. ASSUME NEW r \in Restorers, RestoreStep(r) \/ \E row \in rows : RestoreRollback(r, row)
      PROVE  pc' \in [Requests -> Labels]
  BY <1>4 DEF RestoreRollback, RestoreStep, RestoreHead, RestoreRecord, RestoreParse,
       RestoreMark, RestoreOpen, RestoreReindex, RestoreUnsynced, RestoreTrack
<1>5. ASSUME NEW r \in Sweepers, SweepList(r) \/ SweepDelete(r)
      PROVE  pc' \in [Requests -> Labels]
  BY <1>5 DEF SweepList, SweepDelete
<1>6. ASSUME NEW r \in Proposals \union Rejecters \union Approvers, DropScratch(r)
      PROVE  pc' \in [Requests -> Labels]
  BY <1>6 DEF DropScratch
<1>7. CASE Fault
  BY <1>7 DEF Fault, FaultInExecute, FaultInRollback, FaultInRestore, FaultInIndexing
<1>8. CASE Crash
  BY <1>8 DEF Crash
<1>9. CASE UNCHANGED vars
  BY <1>9 DEF vars
<1> QED
  BY <1>1, <1>2, <1>3, <1>4, <1>5, <1>6, <1>7, <1>8, <1>9 DEF Next, Start, Serve

\* Every write of a proposal's status, by any action, writes a legal status.
LEMMA StatusStep ==
  ASSUME status \in [Proposals -> Status], [Next]_vars
  PROVE  status' \in [Proposals -> Status]
<1> USE DEF SetStatus, Status, db
<1>1. ASSUME NEW p \in Proposals, ListPending(p) \/ ProposeStep(p)
      PROVE  status' \in [Proposals -> Status]
  BY <1>1 DEF ListPending, ProposeStep, DropListed, SupersedePending, Resolve, Fingerprint,
       Generate, CopyScratch, RunCode, CreateProposal, Guardian, LinkMessage
<1>2. ASSUME NEW r \in Rejecters, Reject(r) \/ \E p \in Proposals : RejectRead(r, p)
      PROVE  status' \in [Proposals -> Status]
  BY <1>2 DEF Reject, RejectRead
<1>3. ASSUME NEW r \in Approvers, ApproveStep(r) \/ \E p \in Proposals : ApproveRead(r, p)
      PROVE  status' \in [Proposals -> Status]
  BY <1>3 DEF ApproveRead, ApproveStep, Claim, Lock, Check, Snapshot, Replace,
       Commit, Record, MarkFailed, FailRollback, RefreshOpen, RefreshUpsert
<1>4. CASE UNCHANGED status
  BY <1>4
<1> QED
  BY <1>1, <1>2, <1>3, <1>4 DEF Next, Start, Serve, RestoreRollback, RestoreStep,
     RestoreHead, RestoreRecord, RestoreParse, RestoreMark, RestoreOpen,
     RestoreReindex, RestoreUnsynced, RestoreTrack, SweepList,
     SweepDelete, DropScratch, Fault, FaultInExecute, FaultInRollback, FaultInRestore,
     FaultInIndexing, Crash, vars

\* Every step keeps the types: one step of the proof for each action.
LEMMA TypeStep == IInv /\ [Next]_vars => TypeOK'
<1> SUFFICES ASSUME IInv, [Next]_vars PROVE TypeOK'
  OBVIOUS
<1>a. pc' \in [Requests -> Labels] /\ status' \in [Proposals -> Status]
  BY PcStep, StatusStep DEF IInv, TypeOK
<1>b. TypeOK /\ HashesExist /\ RequestsKnow
  BY DEF IInv
<1> USE <1>a, <1>b DEF TypeOK, db, indexed, disk, props, local, env, Delete, Contents
<1>1. ASSUME NEW p \in Proposals, ListPending(p) PROVE TypeOK'
  BY <1>1 DEF ListPending, PendingIn
<1>2. ASSUME NEW p \in Proposals, ProposeStep(p) PROVE TypeOK'
  <2>1. CASE DropListed(p)
    BY <2>1 DEF DropListed
  <2>2. CASE SupersedePending(p)
    BY <2>2 DEF SupersedePending
  <2>3. CASE Resolve(p) \/ Fingerprint(p)
    BY <2>3 DEF Resolve, Fingerprint
  <2>4. CASE Generate(p)
    <3>1. pc[p] = "generate" => attempt[p] + 1 \in 0..MaxAttempts
      BY DEF RequestsKnow, Attempting
    <3>2. attempt' \in [Proposals -> 0..MaxAttempts]
      BY <2>4, <3>1 DEF Generate, FailAttempt
    <3> QED
      BY <2>4, <3>2 DEF Generate
  <2>5. CASE CopyScratch(p)
    BY <2>5 DEF CopyScratch
  <2>6. CASE RunCode(p)
    <3>1. pc[p] = "run" => attempt[p] + 1 \in 0..MaxAttempts
      BY DEF RequestsKnow, Attempting
    <3>2. attempt' \in [Proposals -> 0..MaxAttempts]
      BY <2>6, <3>1 DEF RunCode, FailAttempt
    <3>3. scratch' \in [Proposals -> Contents \union {None}]
      <4>1. CASE scratch[p] # None /\ scratch' = [scratch EXCEPT ![p] = @ \union {p}]
        <5>1. scratch[p] \union {p} \in Contents
          BY <4>1
        <5> QED
          BY <4>1, <5>1
      <4>2. CASE Delete({p})
        BY <4>2
      <4> QED
        BY <2>6, <4>1, <4>2 DEF RunCode
    <3> QED
      BY <2>6, <3>2, <3>3 DEF RunCode
  <2>7. CASE CreateProposal(p)
    BY <2>7 DEF CreateProposal
  <2>8. CASE Guardian(p)
    BY <2>8 DEF Guardian
  <2>9. CASE LinkMessage(p)
    BY <2>9 DEF LinkMessage
  <2> QED
    BY <1>2, <2>1, <2>2, <2>3, <2>4, <2>5, <2>6, <2>7, <2>8, <2>9 DEF ProposeStep
<1>3. ASSUME NEW r \in Rejecters, NEW p \in Proposals, RejectRead(r, p) PROVE TypeOK'
  BY <1>3 DEF RejectRead
<1>4. ASSUME NEW r \in Rejecters, Reject(r) PROVE TypeOK'
  BY <1>4 DEF Reject
<1>5. ASSUME NEW r \in Approvers, NEW p \in Proposals, ApproveRead(r, p) PROVE TypeOK'
  BY <1>5 DEF ApproveRead
<1>6. ASSUME NEW r \in Approvers, ApproveStep(r) PROVE TypeOK'
  <2>1. CASE Claim(r)
    BY <2>1 DEF Claim
  <2>2. CASE Lock(r)
    BY <2>2 DEF Lock
  <2>3. CASE Check(r)
    BY <2>3 DEF Check, Refusal
  <2>4. CASE Snapshot(r)
    BY <2>4 DEF Snapshot
  <2>5. CASE Replace(r)
    <3>1. target[r] \in Proposals
      BY <2>5 DEF Replace, RequestsKnow
    <3>2. CASE scratch[target[r]] = None
      BY <2>5, <3>2 DEF Replace
    <3>3. CASE scratch[target[r]] # None
      BY <2>5, <3>1, <3>3 DEF Replace
    <3> QED
      BY <3>2, <3>3
  <2>6. CASE Commit(r)
    BY <2>6 DEF Commit
  <2>7. CASE Record(r)
    BY <2>7 DEF Record, RequestsKnow
  <2>8. CASE MarkFailed(r)
    BY <2>8 DEF MarkFailed
  <2>9. CASE FailRollback(r)
    BY <2>9 DEF FailRollback, HashesExist
  <2>10. CASE RefreshOpen(r)
    BY <2>10, TouchesAssumption DEF RefreshOpen, RequestsKnow
  <2>11. CASE RefreshUpsert(r)
    BY <2>11 DEF RefreshUpsert, Shown
  <2> QED
    BY <1>6, <2>1, <2>2, <2>3, <2>4, <2>5, <2>6, <2>7, <2>8, <2>9, <2>10, <2>11
       DEF ApproveStep
<1>7. ASSUME NEW r \in Proposals \union Rejecters \union Approvers, DropScratch(r)
      PROVE TypeOK'
  BY <1>7 DEF DropScratch
<1>8. ASSUME NEW r \in Restorers, NEW row \in rows, RestoreRollback(r, row) PROVE TypeOK'
  BY <1>8 DEF RestoreRollback, HashesExist
<1>9. ASSUME NEW r \in Restorers, RestoreStep(r) PROVE TypeOK'
  <2>1. CASE RestoreHead(r)
    BY <2>1 DEF RestoreHead, HeadHash
  <2>2. CASE RestoreRecord(r)
    BY <2>2 DEF RestoreRecord
  <2>3. CASE RestoreParse(r) \/ RestoreMark(r) \/ RestoreOpen(r) \/ RestoreUnsynced(r)
    BY <2>3 DEF RestoreParse, RestoreMark, RestoreOpen, RestoreUnsynced
  <2>4. CASE RestoreReindex(r)
    BY <2>4 DEF RestoreReindex, Shown
  <2>5. CASE RestoreTrack(r)
    <3>1. CASE file = git[HeadHash]
      BY <2>5, <3>1 DEF RestoreTrack
    <3>2. CASE file # git[HeadHash]
      <4>1. git' = Append(git, file)
        BY <2>5, <3>2 DEF RestoreTrack
      <4>2. git' \in Seq(Contents) /\ Len(git') \in Nat
        BY <4>1
      <4>3. hash' \in [Approvers \union Restorers -> Nat]
        BY <2>5, <3>2, <4>2 DEF RestoreTrack
      <4> QED
        BY <2>5, <4>2, <4>3 DEF RestoreTrack
    <3> QED
      BY <3>1, <3>2
  <2> QED
    BY <1>9, <2>1, <2>2, <2>3, <2>4, <2>5 DEF RestoreStep
<1>10. ASSUME NEW r \in Sweepers, SweepList(r) \/ SweepDelete(r) PROVE TypeOK'
  <2>1. CASE SweepList(r)
    BY <2>1 DEF SweepList
  <2>2. CASE SweepDelete(r)
    BY <2>2 DEF SweepDelete
  <2> QED
    BY <1>10, <2>1, <2>2
<1>11. CASE Fault
  <2>1. ASSUME NEW r \in Approvers, FaultInExecute(r) PROVE TypeOK'
    BY <1>11, <2>1 DEF Fault, FaultInExecute
  <2>2. ASSUME NEW r \in Approvers, FaultInRollback(r) PROVE TypeOK'
    BY <1>11, <2>2 DEF Fault, FaultInRollback, HashesExist
  <2>3. ASSUME NEW r \in Restorers, NEW row \in rows, FaultInRestore(r, row) PROVE TypeOK'
    BY <1>11, <2>3 DEF Fault, FaultInRestore, HashesExist
  <2>4. ASSUME NEW r \in Approvers \union Restorers, FaultInIndexing(r) PROVE TypeOK'
    BY <1>11, <2>4 DEF Fault, FaultInIndexing
  <2> QED
    BY <1>11, <2>1, <2>2, <2>3, <2>4 DEF Fault
<1>12. CASE Crash
  BY <1>12 DEF Crash
<1>13. CASE UNCHANGED vars
  BY <1>13 DEF vars
<1> QED
  BY <1>1, <1>2, <1>3, <1>4, <1>5, <1>6, <1>7, <1>8, <1>9, <1>10, <1>11, <1>12, <1>13
     DEF Next, Start, Serve

(***************************************************************************)
(* Only approvals claim, hold the lock, apply and record a change.          *)
(***************************************************************************)
Outside ==
  \/ \E p \in Proposals : ListPending(p) \/ ProposeStep(p)
  \/ \E r \in Rejecters : Reject(r) \/ \E p \in Proposals : RejectRead(r, p)
  \/ \E r \in Proposals \union Rejecters \union Approvers : DropScratch(r)
  \/ \E r \in Restorers : RestoreStep(r) \/ \E row \in rows : RestoreRollback(r, row)
  \/ \E r \in Sweepers : SweepList(r) \/ SweepDelete(r)

SameApprovals ==
  /\ lock' = lock
  /\ \A r \in Approvers : target'[r] = target[r]
  /\ \A r \in Approvers : \/ pc'[r] = pc[r]
                          \/ pc[r] = "drop_scratch" /\ pc'[r] \in {"rollback", "done"}
SameOutcomes ==
  /\ \A p \in Proposals :
       \/ status'[p] = status[p]
       \/ /\ status[p] \in {"none", "pending"}
          /\ status'[p] \in {"pending", "rejected", "superseded"}
  /\ rows \subseteq rows'
  /\ \A row \in rows' : row \in rows \/ row.change = None

\* Whatever other requests do, an approval under way stays where it is, and no
\* row is claimed, applied or recorded.
LEMMA OutsideStep == IInv /\ Outside => SameApprovals /\ SameOutcomes
<1> SUFFICES ASSUME IInv, Outside PROVE SameApprovals /\ SameOutcomes
  OBVIOUS
<1>a. /\ pc \in [Requests -> Labels] /\ status \in [Proposals -> Status]
      /\ target \in [Approvers \union Rejecters -> Proposals \union {None}]
      /\ \A p \in Proposals : pc[p] = "create" => status[p] = "none"
  BY DEF IInv, TypeOK, RequestsKnow
<1>b. \A r \in Approvers : /\ r \notin Proposals \union Rejecters
                           /\ r \notin Restorers \union Sweepers
  BY RequestsAssumption
<1> USE <1>a, <1>b DEF SameApprovals, SameOutcomes, Requests, Goto, SetStatus, db, local
<1>1. ASSUME NEW p \in Proposals, ListPending(p) \/ ProposeStep(p)
      PROVE  SameApprovals /\ SameOutcomes
  BY <1>1 DEF ListPending, ProposeStep, DropListed, SupersedePending, Resolve, Fingerprint,
       Generate, CopyScratch, RunCode, CreateProposal, Guardian, LinkMessage,
       FailAttempt, PendingIn
<1>2. ASSUME NEW r \in Rejecters, Reject(r) \/ \E p \in Proposals : RejectRead(r, p)
      PROVE  SameApprovals /\ SameOutcomes
  BY <1>2 DEF Reject, RejectRead
<1>3. ASSUME NEW r \in Proposals \union Rejecters \union Approvers, DropScratch(r)
      PROVE  SameApprovals /\ SameOutcomes
  BY <1>3 DEF DropScratch
<1>4. ASSUME NEW r \in Restorers, RestoreStep(r) \/ \E row \in rows : RestoreRollback(r, row)
      PROVE  SameApprovals /\ SameOutcomes
  BY <1>4 DEF RestoreRollback, RestoreStep, RestoreHead, RestoreRecord, RestoreParse,
       RestoreMark, RestoreOpen, RestoreReindex, RestoreUnsynced, RestoreTrack
<1>5. ASSUME NEW r \in Sweepers, SweepList(r) \/ SweepDelete(r)
      PROVE  SameApprovals /\ SameOutcomes
  BY <1>5 DEF SweepList, SweepDelete
<1> QED
  BY <1>1, <1>2, <1>3, <1>4, <1>5 DEF Outside

\* Every step is one outside the approvals, one of an approval, or the
\* environment's.
LEMMA StepCases ==
  ASSUME [Next]_vars
  PROVE  \/ Outside
         \/ \E r \in Approvers, p \in Proposals : ApproveRead(r, p)
         \/ \E r \in Approvers : ApproveStep(r)
         \/ Fault \/ Crash \/ UNCHANGED vars
BY DEF Next, Start, Serve, Outside

\* Only an approval that finds the row lock free takes it, and whatever ends
\* the transaction gives it back.
LEMMA LockStep == IInv /\ [Next]_vars => LockHeldByTransaction'
<1> SUFFICES ASSUME IInv, [Next]_vars PROVE LockHeldByTransaction'
  OBVIOUS
<1>a. /\ pc \in [Requests -> Labels] /\ LockHeldByTransaction
      /\ Approvers \subseteq Requests /\ None \notin Approvers
      /\ Restorers \intersect Approvers = {}
  BY RequestsAssumption DEF IInv, TypeOK, Requests
<1> USE <1>a DEF LockHeldByTransaction, InTransaction, Goto, db
<1>1. CASE Outside
  BY <1>1, OutsideStep DEF SameApprovals
<1>2. ASSUME NEW r \in Approvers, NEW p \in Proposals, ApproveRead(r, p)
      PROVE  LockHeldByTransaction'
  BY <1>2 DEF ApproveRead
<1>3. ASSUME NEW r \in Approvers, ApproveStep(r) PROVE LockHeldByTransaction'
  BY <1>3 DEF ApproveStep, Claim, Lock, Check, Refusal, Snapshot, Replace, Commit, Record,
       MarkFailed, FailRollback, RefreshOpen, RefreshUpsert
<1>4. CASE Fault
  BY <1>4 DEF Fault, FaultInExecute, FaultInRollback, FaultInRestore, FaultInIndexing
<1>5. CASE Crash
  BY <1>5, RequestsAssumption DEF Crash, Requests
<1>6. CASE UNCHANGED vars
  BY <1>6 DEF vars
<1> QED
  BY <1>1, <1>2, <1>3, <1>4, <1>5, <1>6, StepCases

\* The guarded UPDATE hands a pending row to one approval; nothing but that
\* approval moves the row out of APPROVED.
LEMMA SoleStep == IInv /\ [Next]_vars => SoleExecutor'
<1> SUFFICES ASSUME IInv, [Next]_vars PROVE SoleExecutor'
  OBVIOUS
<1>a. /\ pc \in [Requests -> Labels] /\ status \in [Proposals -> Status]
      /\ target \in [Approvers \union Rejecters -> Proposals \union {None}]
      /\ SoleExecutor
      /\ \A r \in Approvers : pc[r] \notin {"idle", "done", "dead"} => target[r] \in Proposals
      /\ Approvers \subseteq Requests /\ Restorers \intersect Approvers = {}
  BY RequestsAssumption DEF IInv, TypeOK, RequestsKnow, Requests
<1> USE <1>a DEF SoleExecutor, Claiming, InTransaction, Goto, db, local
<1>1. CASE Outside
  BY <1>1, OutsideStep DEF SameApprovals, SameOutcomes
<1>2. ASSUME NEW r \in Approvers, NEW p \in Proposals, ApproveRead(r, p) PROVE SoleExecutor'
  BY <1>2 DEF ApproveRead
<1>3. ASSUME NEW r \in Approvers, ApproveStep(r) PROVE SoleExecutor'
  <2>1. CASE Claim(r)
    BY <2>1 DEF Claim, SetStatus
  <2>2. CASE Lock(r) \/ Check(r) \/ Snapshot(r) \/ Replace(r) \/ Commit(r)
    BY <2>2 DEF Lock, Check, Refusal, Snapshot, Replace, Commit
  <2>3. CASE Record(r)
    BY <2>3 DEF Record, SetStatus
  <2>4. CASE MarkFailed(r)
    BY <2>4 DEF MarkFailed, SetStatus
  <2>5. CASE FailRollback(r) \/ RefreshOpen(r) \/ RefreshUpsert(r)
    BY <2>5 DEF FailRollback, RefreshOpen, RefreshUpsert
  <2> QED
    BY <1>3, <2>1, <2>2, <2>3, <2>4, <2>5 DEF ApproveStep
<1>4. CASE Fault
  BY <1>4 DEF Fault, FaultInExecute, FaultInRollback, FaultInRestore, FaultInIndexing
<1>5. CASE Crash
  BY <1>5, RequestsAssumption DEF Crash
<1>6. CASE UNCHANGED vars
  BY <1>6 DEF vars
<1> QED
  BY <1>1, <1>2, <1>3, <1>4, <1>5, <1>6, StepCases

\* The savepoint writes the commit row and the status together, and no other
\* row that names the proposal exists before it.
LEMMA RecordedStep == IInv /\ [Next]_vars => AppliedIffRecorded'
<1> SUFFICES ASSUME IInv, [Next]_vars PROVE AppliedIffRecorded'
  OBVIOUS
<1>a. /\ pc \in [Requests -> Labels] /\ status \in [Proposals -> Status]
      /\ SoleExecutor /\ AppliedIffRecorded
      /\ \A r \in Approvers : pc[r] \notin {"idle", "done", "dead"} => target[r] \in Proposals
      /\ None \notin Proposals
  BY RequestsAssumption DEF IInv, TypeOK, RequestsKnow, Requests
<1> USE <1>a DEF AppliedIffRecorded, db
<1>1. CASE Outside
  BY <1>1, OutsideStep DEF SameOutcomes
<1>2. ASSUME NEW r \in Approvers, NEW p \in Proposals, ApproveRead(r, p)
      PROVE  AppliedIffRecorded'
  BY <1>2 DEF ApproveRead
<1>3. ASSUME NEW r \in Approvers, ApproveStep(r) PROVE AppliedIffRecorded'
  <2>1. CASE Claim(r)
    BY <2>1 DEF Claim, SetStatus
  <2>2. CASE Record(r)
    <3>1. target[r] \in Proposals /\ status[target[r]] = "approved"
      BY <2>2 DEF Record, SoleExecutor, Claiming, InTransaction
    <3>2. \A row \in rows : row.change # target[r]
      BY <3>1
    <3>3. CASE HashTaken(hash[r])
      BY <2>2, <3>3 DEF Record
    <3>4. CASE ~HashTaken(hash[r])
      <4> DEFINE new == [hash |-> hash[r], change |-> target[r]]
      <4>1. /\ rows' = rows \union {new} /\ new.change = target[r]
            /\ status' = [p \in Proposals |-> IF p \in {target[r]} THEN "applied" ELSE status[p]]
        BY <2>2, <3>4 DEF Record, SetStatus
      <4> HIDE DEF new
      <4> QED
        BY <3>1, <3>2, <4>1
    <3> QED
      BY <3>3, <3>4
  <2>3. CASE MarkFailed(r)
    <3>1. target[r] \in Proposals /\ status[target[r]] = "approved"
      BY <2>3 DEF MarkFailed, SoleExecutor, Claiming
    <3> QED
      BY <2>3, <3>1 DEF MarkFailed, SetStatus
  <2>4. CASE \/ Lock(r) \/ Check(r) \/ Snapshot(r) \/ Replace(r) \/ Commit(r)
             \/ FailRollback(r) \/ RefreshOpen(r) \/ RefreshUpsert(r)
    BY <2>4 DEF Lock, Check, Snapshot, Replace, Commit, FailRollback, RefreshOpen, RefreshUpsert
  <2> QED
    BY <1>3, <2>1, <2>2, <2>3, <2>4 DEF ApproveStep
<1>4. CASE Fault
  BY <1>4 DEF Fault, FaultInExecute, FaultInRollback, FaultInRestore, FaultInIndexing
<1>5. CASE Crash
  BY <1>5 DEF Crash
<1>6. CASE UNCHANGED vars
  BY <1>6 DEF vars
<1> QED
  BY <1>1, <1>2, <1>3, <1>4, <1>5, <1>6, StepCases

\* Commits are only appended, so a hash that was read names a commit for ever.
LEMMA HashesStep == IInv /\ [Next]_vars => HashesExist'
<1> SUFFICES ASSUME IInv, [Next]_vars PROVE HashesExist'
  OBVIOUS
<1>a. /\ pc \in [Requests -> Labels] /\ git \in Seq(Contents) /\ file \in Contents
      /\ rows \in SUBSET [hash : Nat, change : Proposals \union {None}]
      /\ parent \in [Approvers -> Nat] /\ hash \in [Approvers \union Restorers -> Nat]
      /\ HashesExist
  BY DEF IInv, TypeOK
<1>b. \A r \in Approvers \union Restorers : r \notin Proposals \union Rejecters \union Sweepers
  BY RequestsAssumption
<1> USE <1>a, <1>b DEF HashesExist, Goto, db, disk, local, HeadHash, Requests
<1>1. ASSUME NEW p \in Proposals, ListPending(p) \/ ProposeStep(p) PROVE HashesExist'
  BY <1>1 DEF ListPending, ProposeStep, DropListed, SupersedePending, Resolve, Fingerprint,
       Generate, CopyScratch, RunCode, CreateProposal, Guardian, LinkMessage, FailAttempt
<1>2. ASSUME NEW r \in Rejecters, Reject(r) \/ \E p \in Proposals : RejectRead(r, p)
      PROVE  HashesExist'
  BY <1>2 DEF Reject, RejectRead
<1>3. ASSUME NEW r \in Approvers, ApproveStep(r) \/ \E p \in Proposals : ApproveRead(r, p)
      PROVE  HashesExist'
  <2>1. CASE Snapshot(r)
    <3>1. /\ git' \in Seq(Contents) /\ Len(git') \in Len(git)..Len(git) + 1
          /\ parent' = [parent EXCEPT ![r] = Len(git')]
      BY <2>1 DEF Snapshot
    <3> QED
      BY <2>1, <3>1 DEF Snapshot
  <2>2. CASE Commit(r)
    <3>1. Len(git') = Len(git) + 1 /\ hash' = [hash EXCEPT ![r] = Len(git) + 1]
      BY <2>2 DEF Commit
    <3> QED
      BY <2>2, <3>1 DEF Commit
  <2>5. CASE FailRollback(r)
    <3>1. Len(git') = Len(git) + 1
      BY <2>5 DEF FailRollback
    <3> QED
      BY <2>5, <3>1 DEF FailRollback
  <2>3. CASE Record(r)
    BY <2>3 DEF Record
  <2>4. CASE \/ Claim(r) \/ Lock(r) \/ Check(r) \/ Replace(r) \/ MarkFailed(r)
             \/ RefreshOpen(r) \/ RefreshUpsert(r) \/ \E p \in Proposals : ApproveRead(r, p)
    BY <2>4 DEF Claim, Lock, Check, Refusal, Replace, MarkFailed, RefreshOpen, RefreshUpsert,
         ApproveRead
  <2> QED
    BY <1>3, <2>1, <2>2, <2>3, <2>4, <2>5 DEF ApproveStep
<1>4. ASSUME NEW r \in Proposals \union Rejecters \union Approvers, DropScratch(r)
      PROVE  HashesExist'
  BY <1>4 DEF DropScratch
<1>5. ASSUME NEW r \in Restorers, NEW row \in rows, RestoreRollback(r, row)
      PROVE  HashesExist'
  <2>1. Len(git') = Len(git) + 1
    BY <1>5 DEF RestoreRollback
  <2> QED
    BY <1>5, <2>1 DEF RestoreRollback
<1>6. ASSUME NEW r \in Restorers, RestoreStep(r) PROVE HashesExist'
  <2>1. CASE RestoreTrack(r)
    <3>1. CASE file = git[HeadHash]
      BY <2>1, <3>1 DEF RestoreTrack
    <3>2. CASE file # git[HeadHash]
      <4>1. git' = Append(git, file)
        BY <2>1, <3>2 DEF RestoreTrack
      <4>2. Len(git') = Len(git) + 1
        BY <4>1
      <4>3. hash' = [hash EXCEPT ![r] = Len(git) + 1] /\ rows' = rows /\ parent' = parent
        BY <2>1, <3>2, <4>2 DEF RestoreTrack
      <4>4. pc' = [pc EXCEPT ![r] = "record_track"]
        BY <2>1, <3>2 DEF RestoreTrack
      <4> QED
        BY <4>2, <4>3, <4>4
    <3> QED
      BY <3>1, <3>2
  <2>2. CASE \/ RestoreHead(r) \/ RestoreParse(r) \/ RestoreMark(r) \/ RestoreOpen(r)
             \/ RestoreReindex(r) \/ RestoreUnsynced(r)
    BY <2>2 DEF RestoreHead, RestoreParse, RestoreMark, RestoreOpen, RestoreReindex,
         RestoreUnsynced
  <2>3. CASE RestoreRecord(r)
    BY <2>3 DEF RestoreRecord
  <2> QED
    BY <1>6, <2>1, <2>2, <2>3 DEF RestoreStep
<1>7. ASSUME NEW r \in Sweepers, SweepList(r) \/ SweepDelete(r) PROVE HashesExist'
  BY <1>7 DEF SweepList, SweepDelete
<1>8. CASE Fault
  BY <1>8 DEF Fault, FaultInExecute, FaultInRollback, FaultInRestore, FaultInIndexing
<1>9. CASE Crash
  BY <1>9 DEF Crash
<1>10. CASE UNCHANGED vars
  BY <1>10 DEF vars
<1> QED
  BY <1>1, <1>2, <1>3, <1>4, <1>5, <1>6, <1>7, <1>8, <1>9, <1>10 DEF Next, Start, Serve

\* A request past its first step knows the proposal it is about, and one inside
\* the swap has a rollback point.
LEMMA KnowStep == IInv /\ [Next]_vars => RequestsKnow'
<1> SUFFICES ASSUME IInv, [Next]_vars PROVE RequestsKnow'
  OBVIOUS
<1>a. /\ pc \in [Requests -> Labels] /\ status \in [Proposals -> Status]
      /\ target \in [Approvers \union Rejecters -> Proposals \union {None}]
      /\ attempt \in [Proposals -> 0..MaxAttempts]
      /\ RequestsKnow
      /\ \A r \in Approvers : pc[r] \in Claiming => status[target[r]] = "approved"
  BY DEF IInv, TypeOK, SoleExecutor
<1>b. /\ \A r \in Approvers \union Rejecters : r \notin Proposals \union Restorers \union Sweepers
      /\ \A p \in Proposals : p \notin Restorers \union Sweepers
  BY RequestsAssumption
<1> USE <1>a, <1>b DEF RequestsKnow, Attempting, Goto, SetStatus, db, props, local, Requests
<1>1. ASSUME NEW p \in Proposals, ListPending(p) \/ ProposeStep(p) PROVE RequestsKnow'
  <2>1. CASE Generate(p) \/ RunCode(p)
    BY <2>1 DEF Generate, RunCode, FailAttempt
  <2>2. CASE SupersedePending(p)
    BY <2>2 DEF SupersedePending, PendingIn
  <2>3. CASE CreateProposal(p) \/ Guardian(p)
    BY <2>3 DEF CreateProposal, Guardian
  <2>4. CASE \/ ListPending(p) \/ DropListed(p) \/ Resolve(p) \/ Fingerprint(p) \/ CopyScratch(p)
             \/ LinkMessage(p)
    BY <2>4 DEF ListPending, DropListed, Resolve, Fingerprint, CopyScratch, LinkMessage
  <2> QED
    BY <1>1, <2>1, <2>2, <2>3, <2>4 DEF ProposeStep
<1>2. ASSUME NEW r \in Rejecters, Reject(r) \/ \E p \in Proposals : RejectRead(r, p)
      PROVE  RequestsKnow'
  BY <1>2 DEF Reject, RejectRead
<1>3. ASSUME NEW r \in Approvers, ApproveStep(r) \/ \E p \in Proposals : ApproveRead(r, p)
      PROVE  RequestsKnow'
  <2>1. CASE Claim(r) \/ Record(r) \/ MarkFailed(r)
    BY <2>1 DEF Claim, Record, MarkFailed, Claiming, InTransaction
  <2>2. CASE \/ Lock(r) \/ Check(r) \/ Snapshot(r) \/ Replace(r) \/ Commit(r)
             \/ FailRollback(r) \/ RefreshOpen(r) \/ RefreshUpsert(r)
             \/ \E p \in Proposals : ApproveRead(r, p)
    BY <2>2 DEF Lock, Check, Refusal, Snapshot, Replace, Commit, FailRollback, RefreshOpen,
         RefreshUpsert, ApproveRead
  <2> QED
    BY <1>3, <2>1, <2>2 DEF ApproveStep
<1>4. ASSUME NEW r \in Proposals \union Rejecters \union Approvers, DropScratch(r)
      PROVE  RequestsKnow'
  BY <1>4 DEF DropScratch
<1>5. ASSUME NEW r \in Restorers, RestoreStep(r) \/ \E row \in rows : RestoreRollback(r, row)
      PROVE  RequestsKnow'
  BY <1>5 DEF RestoreRollback, RestoreStep, RestoreHead, RestoreRecord, RestoreParse,
       RestoreMark, RestoreOpen, RestoreReindex, RestoreUnsynced, RestoreTrack
<1>6. ASSUME NEW r \in Sweepers, SweepList(r) \/ SweepDelete(r) PROVE RequestsKnow'
  BY <1>6 DEF SweepList, SweepDelete
<1>7. CASE Fault
  BY <1>7 DEF Fault, FaultInExecute, FaultInRollback, FaultInRestore, FaultInIndexing
<1>8. CASE Crash
  BY <1>8 DEF Crash
<1>9. CASE UNCHANGED vars
  BY <1>9 DEF vars
<1> QED
  BY <1>1, <1>2, <1>3, <1>4, <1>5, <1>6, <1>7, <1>8, <1>9 DEF Next, Start, Serve

\* Every step, whoever takes it, preserves the inductive invariant.
LEMMA InvStep == IInv /\ [Next]_vars => IInv'
BY TypeStep, HashesStep, KnowStep, LockStep, SoleStep, RecordedStep DEF IInv

\* The inductive invariant holds in every reachable state.
THEOREM Invariance == Spec => []IInv
<1>1. Init => IInv
  BY InitIInv
<1>2. IInv /\ [Next]_vars => IInv'
  BY InvStep
<1> QED
  BY <1>1, <1>2, PTL DEF Spec

\* Every variable keeps its type, for any requests, faults and crashes.
THEOREM Typing == Spec => []TypeOK
<1>1. IInv => TypeOK
  BY DEF IInv
<1> QED
  BY <1>1, Invariance, PTL

\* No two approve requests work on the same proposal, and the one that does
\* holds a row that is still APPROVED.
THEOREM ExecutedOnce == Spec => []SoleExecutor
<1>1. IInv => SoleExecutor
  BY DEF IInv
<1> QED
  BY <1>1, Invariance, PTL

\* The file's row lock is held exactly by an approval inside its transaction.
THEOREM LockDiscipline == Spec => []LockHeldByTransaction
<1>1. IInv => LockHeldByTransaction
  BY DEF IInv
<1> QED
  BY <1>1, Invariance, PTL

\* APPLIED and the commit row of the change come together, once per proposal.
THEOREM RecordedOnce == Spec => []AppliedIffRecorded
<1>1. IInv => AppliedIffRecorded
  BY DEF IInv
<1> QED
  BY <1>1, Invariance, PTL

Advance ==
  \A p \in Proposals :
    /\ status[p] \in Terminal => status'[p] = status[p]
    /\ status[p] = "approved" => status'[p] \in {"approved", "applied", "failed"}

\* No step rewrites a terminal status, and a claimed row goes to APPLIED or
\* FAILED only.
LEMMA AdvanceStep == IInv /\ [Next]_vars => Advance
<1> SUFFICES ASSUME IInv, [Next]_vars PROVE Advance
  OBVIOUS
<1>a. /\ status \in [Proposals -> Status] /\ SoleExecutor
      /\ \A r \in Approvers : pc[r] \notin {"idle", "done", "dead"} => target[r] \in Proposals
  BY DEF IInv, TypeOK, RequestsKnow
<1> USE <1>a DEF Advance, Terminal, db, SetStatus
<1>1. CASE Outside
  BY <1>1, OutsideStep DEF SameOutcomes
<1>2. ASSUME NEW r \in Approvers, NEW p \in Proposals, ApproveRead(r, p) PROVE Advance
  BY <1>2 DEF ApproveRead
<1>3. ASSUME NEW r \in Approvers, ApproveStep(r) PROVE Advance
  <2>1. CASE Claim(r)
    BY <2>1 DEF Claim
  <2>2. CASE Record(r) \/ MarkFailed(r)
    <3>1. status[target[r]] = "approved"
      BY <2>2 DEF Record, MarkFailed, SoleExecutor, Claiming, InTransaction
    <3> QED
      BY <2>2, <3>1 DEF Record, MarkFailed
  <2>3. CASE \/ Lock(r) \/ Check(r) \/ Snapshot(r) \/ Replace(r) \/ Commit(r)
             \/ FailRollback(r) \/ RefreshOpen(r) \/ RefreshUpsert(r)
    BY <2>3 DEF Lock, Check, Snapshot, Replace, Commit, FailRollback, RefreshOpen, RefreshUpsert
  <2> QED
    BY <1>3, <2>1, <2>2, <2>3 DEF ApproveStep
<1>4. CASE Fault \/ Crash \/ UNCHANGED vars
  BY <1>4 DEF Fault, FaultInExecute, FaultInRollback, FaultInRestore, FaultInIndexing, Crash, vars
<1> QED
  BY <1>1, <1>2, <1>3, <1>4, StepCases

\* No late write, guarded or not, takes a proposal out of the status a user or
\* an approval ended it in.
THEOREM OutcomesAreFinal == Spec => StatusOnlyAdvances
<1>1. IInv /\ [Next]_vars => [Advance]_vars
  BY AdvanceStep
<1>2. [][Advance]_vars => StatusOnlyAdvances
  BY PTL DEF StatusOnlyAdvances, Advance
<1> QED
  BY <1>1, <1>2, Invariance, PTL DEF Spec

\* A step that leaves a row claimed leaves some approval working on it, unless
\* the step is the death of the server.
LEMMA OwnerStep == IInv /\ ClaimHasOwner /\ [Next]_vars => ClaimHasOwner'
<1> SUFFICES ASSUME IInv, ClaimHasOwner, [Next]_vars PROVE ClaimHasOwner'
  OBVIOUS
<1>a. /\ pc \in [Requests -> Labels] /\ status \in [Proposals -> Status]
      /\ target \in [Approvers \union Rejecters -> Proposals \union {None}]
      /\ SoleExecutor /\ ClaimHasOwner /\ crashes \in Nat
      /\ Approvers \subseteq Requests /\ Restorers \intersect Approvers = {}
      /\ \A r \in Approvers : pc[r] \notin {"idle", "done", "dead"} => target[r] \in Proposals
  BY RequestsAssumption DEF IInv, TypeOK, RequestsKnow, Requests
<1> USE <1>a DEF ClaimHasOwner, Claiming, InTransaction, db, local, env, Goto, SetStatus
<1>1. CASE Outside
  <2>1. crashes' = crashes
    BY <1>1 DEF Outside, ListPending, ProposeStep, DropListed, SupersedePending, Resolve, Fingerprint,
       Generate, CopyScratch, RunCode, CreateProposal, Guardian, LinkMessage, Reject,
       RejectRead, DropScratch, RestoreRollback, RestoreStep, RestoreHead, RestoreRecord,
       RestoreParse, RestoreMark, RestoreOpen,
     RestoreReindex, RestoreUnsynced, RestoreTrack, SweepList, SweepDelete
  <2> QED
    BY <1>1, <2>1, OutsideStep DEF SameApprovals, SameOutcomes
<1>2. ASSUME NEW r \in Approvers, NEW p \in Proposals, ApproveRead(r, p) PROVE ClaimHasOwner'
  BY <1>2 DEF ApproveRead
<1>3. ASSUME NEW r \in Approvers, ApproveStep(r) PROVE ClaimHasOwner'
  <2>1. CASE Claim(r)
    BY <2>1 DEF Claim
  <2>2. CASE Lock(r) \/ Check(r) \/ Snapshot(r) \/ Replace(r) \/ Commit(r)
    BY <2>2 DEF Lock, Check, Refusal, Snapshot, Replace, Commit, SoleExecutor
  <2>3. CASE Record(r)
    BY <2>3 DEF Record, SoleExecutor
  <2>4. CASE MarkFailed(r)
    BY <2>4 DEF MarkFailed, SoleExecutor
  <2>5. CASE FailRollback(r) \/ RefreshOpen(r) \/ RefreshUpsert(r)
    BY <2>5 DEF FailRollback, RefreshOpen, RefreshUpsert
  <2> QED
    BY <1>3, <2>1, <2>2, <2>3, <2>4, <2>5 DEF ApproveStep
<1>4. CASE Fault
  BY <1>4 DEF Fault, FaultInExecute, FaultInRollback, FaultInRestore, FaultInIndexing
<1>5. CASE Crash
  BY <1>5 DEF Crash
<1>6. CASE UNCHANGED vars
  BY <1>6 DEF vars
<1> QED
  BY <1>1, <1>2, <1>3, <1>4, <1>5, <1>6, StepCases

\* While the server has not died, some request works on every claimed row.
THEOREM ClaimsAreServed == Spec => []ClaimHasOwner
<1>1. Init => ClaimHasOwner
  BY DEF Init, ClaimHasOwner
<1>2. IInv /\ ClaimHasOwner /\ [Next]_vars => ClaimHasOwner'
  BY OwnerStep
<1> QED
  BY <1>1, <1>2, Invariance, PTL DEF Spec

(***************************************************************************)
(* The file while nothing rewrites it from git.  Two requests do that       *)
(* without the row lock: a restore, and the rollback of an approval that    *)
(* failed.  As long as neither has run, a swap publishes what was reviewed  *)
(* and an applied change stays.                                             *)
(***************************************************************************)
NoRewrite ==
  /\ \A r \in Approvers : pc[r] # "rollback"
  /\ \A r \in Restorers : pc[r] = "idle"

\* A proposal is made on a content that the file has only added to since.
Unread == {"idle", "drop", "supersede", "resolve", "fingerprint"}
BasesAreOld ==
  \A p \in Proposals :
    /\ pc[p] \in Unread => base[p] = None
    /\ pc[p] \in {"generate", "copy", "run", "create"} => base[p] # None
    /\ base[p] # None => base[p] \subseteq file /\ p \notin base[p]

\* The copy may have been taken later than the fingerprint, from a file that
\* held more; once there is a row to review it holds the change.
CopiesAddOne ==
  \A p \in Proposals : scratch[p] # None =>
    /\ base[p] # None
    /\ base[p] \subseteq scratch[p]
    /\ scratch[p] \ {p} \subseteq file
    /\ (status[p] # "none" \/ pc[p] = "create") => p \in scratch[p]

\* Only a claimed proposal gets into the file.
SwappedWereClaimed == \A p \in file : status[p] \notin {"none", "pending"}

\* What the check has seen holds until the swap.
CheckedIsBase ==
  \A r \in Approvers : pc[r] \in {"snapshot", "replace"} => file = base[target[r]]

\* After the swap the change is in the file, and then in the commit.
SwappedIsIn ==
  \A r \in Approvers :
    /\ pc[r] \in {"commit", "record"} => target[r] \in file
    /\ pc[r] = "record" => target[r] \in git[hash[r]]

SwapInv ==
  /\ BasesAreOld
  /\ CopiesAddOne
  /\ SwappedWereClaimed
  /\ CheckedIsBase
  /\ SwappedIsIn
  /\ AppliedIsInFile
  /\ RowNamesItsCommit

\* The file changes only by the swap of an approval, under the row lock.
LEMMA FileStep ==
  ASSUME IInv, NoRewrite, NoRewrite', [Next]_vars
  PROVE  \/ file' = file
         \/ \E r \in Approvers : Replace(r) /\ scratch[target[r]] # None
<1>a. pc \in [Requests -> Labels]
  BY DEF IInv, TypeOK
<1> USE DEF disk
<1>1. ASSUME NEW p \in Proposals, ListPending(p) \/ ProposeStep(p) PROVE file' = file
  BY <1>1 DEF ListPending, ProposeStep, DropListed, SupersedePending, Resolve, Fingerprint,
       Generate, CopyScratch, RunCode, CreateProposal, Guardian, LinkMessage
<1>2. ASSUME NEW r \in Rejecters, Reject(r) \/ \E p \in Proposals : RejectRead(r, p)
      PROVE  file' = file
  BY <1>2 DEF Reject, RejectRead
<1>3. ASSUME NEW r \in Approvers, ApproveStep(r) \/ \E p \in Proposals : ApproveRead(r, p)
      PROVE  file' = file \/ (Replace(r) /\ scratch[target[r]] # None)
  <2>1. CASE Replace(r)
    BY <2>1 DEF Replace
  <2>2. CASE FailRollback(r)
    BY <2>2 DEF FailRollback, NoRewrite
  <2> QED
    BY <1>3, <2>1, <2>2 DEF ApproveRead, ApproveStep, Claim, Lock, Check, Snapshot, Commit,
       Record, MarkFailed, RefreshOpen, RefreshUpsert
<1>4. ASSUME NEW r \in Restorers, RestoreStep(r) PROVE FALSE
  BY <1>4 DEF RestoreStep, RestoreHead, RestoreRecord, RestoreParse, RestoreMark, RestoreOpen,
       RestoreReindex, RestoreUnsynced, RestoreTrack, NoRewrite
<1>5. ASSUME NEW r \in Restorers, NEW row \in rows, RestoreRollback(r, row) \/ FaultInRestore(r, row)
      PROVE  FALSE
  BY <1>5, <1>a DEF RestoreRollback, FaultInRestore, NoRewrite, Goto, Requests
<1>6. ASSUME NEW r \in Sweepers, SweepList(r) \/ SweepDelete(r) PROVE file' = file
  BY <1>6 DEF SweepList, SweepDelete
<1>7. ASSUME NEW r \in Proposals \union Rejecters \union Approvers, DropScratch(r)
      PROVE  file' = file
  BY <1>7 DEF DropScratch
<1>8. CASE Fault
  BY <1>5, <1>8 DEF Fault, FaultInExecute, FaultInRollback, FaultInIndexing, NoRewrite
<1>9. CASE Crash \/ UNCHANGED vars
  BY <1>9 DEF Crash, vars
<1> QED
  BY <1>1, <1>2, <1>3, <1>4, <1>5, <1>6, <1>7, <1>8, <1>9 DEF Next, Start, Serve

\* A base is written once, by the fingerprint, before there is a row.
LEMMA BaseStep ==
  ASSUME IInv, [Next]_vars
  PROVE  \/ base' = base
         \/ \E p \in Proposals : Fingerprint(p)
<1> USE DEF props
<1>1. ASSUME NEW p \in Proposals, ListPending(p) \/ ProposeStep(p)
      PROVE  base' = base \/ Fingerprint(p)
  BY <1>1 DEF ListPending, ProposeStep, DropListed, SupersedePending, Resolve,
       Generate, CopyScratch, RunCode, CreateProposal, Guardian, LinkMessage
<1>2. ASSUME NEW r \in Rejecters, Reject(r) \/ \E p \in Proposals : RejectRead(r, p)
      PROVE  base' = base
  BY <1>2 DEF Reject, RejectRead
<1>3. ASSUME NEW r \in Approvers, ApproveStep(r) \/ \E p \in Proposals : ApproveRead(r, p)
      PROVE  base' = base
  BY <1>3 DEF ApproveRead, ApproveStep, Claim, Lock, Check, Snapshot, Replace,
       Commit, Record, MarkFailed, FailRollback, RefreshOpen, RefreshUpsert
<1>4. ASSUME NEW r \in Restorers, RestoreStep(r) \/ \E row \in rows : RestoreRollback(r, row)
      PROVE  base' = base
  BY <1>4 DEF RestoreStep, RestoreHead, RestoreRecord, RestoreParse, RestoreMark, RestoreOpen,
       RestoreReindex, RestoreUnsynced, RestoreTrack, RestoreRollback
<1>6. ASSUME NEW r \in Sweepers, SweepList(r) \/ SweepDelete(r) PROVE base' = base
  BY <1>6 DEF SweepList, SweepDelete
<1>7. ASSUME NEW r \in Proposals \union Rejecters \union Approvers, DropScratch(r)
      PROVE  base' = base
  BY <1>7 DEF DropScratch
<1>8. CASE Fault
  BY <1>8 DEF Fault, FaultInExecute, FaultInRollback, FaultInRestore, FaultInIndexing
<1>9. CASE Crash \/ UNCHANGED vars
  BY <1>9 DEF Crash, vars
<1> QED
  BY <1>1, <1>2, <1>3, <1>4, <1>6, <1>7, <1>8, <1>9 DEF Next, Start, Serve

\* What becomes of a scratch copy: its propose request makes and writes it, and
\* four deletes reach it.
LEMMA CopyFate ==
  ASSUME IInv, [Next]_vars, NEW p \in Proposals
  PROVE  \/ scratch'[p] = scratch[p]
         \/ CopyScratch(p) \/ RunCode(p)
         \/ /\ scratch'[p] = None
            /\ \/ \E q \in Proposals : DropListed(q) /\ p \in listed[q]
               \/ \E r \in Approvers : Replace(r) /\ target[r] = p /\ scratch[p] # None
               \/ \E r \in Proposals \union Rejecters \union Approvers :
                    DropScratch(r) /\ OwnScratch(r) = p
               \/ \E r \in Sweepers : SweepDelete(r)
<1>a. scratch \in [Proposals -> Contents \union {None}]
  BY DEF IInv, TypeOK
<1> USE <1>a DEF disk, Delete
<1>1. ASSUME NEW q \in Proposals, DropListed(q)
      PROVE  scratch'[p] = scratch[p] \/ (scratch'[p] = None /\ p \in listed[q])
  BY <1>1 DEF DropListed
<1>2. ASSUME NEW q \in Proposals, q # p, CopyScratch(q) \/ RunCode(q)
      PROVE  scratch'[p] = scratch[p]
  BY <1>2 DEF CopyScratch, RunCode
<1>3. ASSUME NEW q \in Proposals,
             \/ ListPending(q) \/ SupersedePending(q) \/ Resolve(q) \/ Fingerprint(q)
             \/ Generate(q) \/ CreateProposal(q) \/ Guardian(q) \/ LinkMessage(q)
      PROVE  scratch' = scratch
  BY <1>3 DEF ListPending, SupersedePending, Resolve, Fingerprint, Generate, CreateProposal,
       Guardian, LinkMessage
<1>4. ASSUME NEW r \in Rejecters, Reject(r) \/ \E q \in Proposals : RejectRead(r, q)
      PROVE  scratch' = scratch
  BY <1>4 DEF Reject, RejectRead
<1>5. ASSUME NEW r \in Approvers, Replace(r)
      PROVE  scratch'[p] = scratch[p] \/
             (scratch'[p] = None /\ target[r] = p /\ scratch[p] # None)
  BY <1>5 DEF Replace
<1>6. ASSUME NEW r \in Approvers, ~Replace(r),
             ApproveStep(r) \/ \E q \in Proposals : ApproveRead(r, q)
      PROVE  scratch' = scratch
  BY <1>6 DEF ApproveRead, ApproveStep, Claim, Lock, Check, Snapshot,
       Commit, Record, MarkFailed, FailRollback, RefreshOpen, RefreshUpsert
<1>7. ASSUME NEW r \in Restorers, RestoreStep(r) \/ \E row \in rows : RestoreRollback(r, row)
      PROVE  scratch' = scratch
  BY <1>7 DEF RestoreStep, RestoreHead, RestoreRecord, RestoreParse, RestoreMark, RestoreOpen,
       RestoreReindex, RestoreUnsynced, RestoreTrack, RestoreRollback
<1>8. ASSUME NEW r \in Sweepers, SweepList(r) \/ SweepDelete(r)
      PROVE  scratch'[p] = scratch[p] \/ (scratch'[p] = None /\ SweepDelete(r))
  BY <1>8 DEF SweepList, SweepDelete
<1>9. ASSUME NEW r \in Proposals \union Rejecters \union Approvers, DropScratch(r)
      PROVE  scratch'[p] = scratch[p] \/ (scratch'[p] = None /\ OwnScratch(r) = p)
  BY <1>9 DEF DropScratch
<1>10. CASE Fault
  BY <1>10 DEF Fault, FaultInExecute, FaultInRollback, FaultInRestore, FaultInIndexing
<1>11. CASE Crash \/ UNCHANGED vars
  BY <1>11 DEF Crash, vars
<1> QED
  BY <1>1, <1>2, <1>3, <1>4, <1>5, <1>6, <1>7, <1>8, <1>9, <1>10, <1>11
     DEF Next, Start, Serve, ProposeStep

\* A copy is made before there is a row, gains the change when its code has run,
\* and is otherwise only deleted.
LEMMA CopyStep ==
  ASSUME IInv, [Next]_vars, NEW p \in Proposals
  PROVE  \/ scratch'[p] \in {scratch[p], None}
         \/ CopyScratch(p)
         \/ /\ RunCode(p) /\ pc'[p] = "create" /\ scratch[p] # None
            /\ scratch'[p] = scratch[p] \union {p}
<1>1. CASE RunCode(p)
  BY <1>1 DEF RunCode, Delete, Goto, Requests, IInv, TypeOK
<1> QED
  BY <1>1, CopyFate

\* A propose request moves by its own steps, and dies with the server.
LEMMA ProposeMoves ==
  ASSUME IInv, [Next]_vars, NEW p \in Proposals
  PROVE  \/ pc'[p] = pc[p] /\ listed'[p] = listed[p]
         \/ ListPending(p) \/ ProposeStep(p) \/ DropScratch(p) \/ Crash
<1>a. /\ pc \in [Requests -> Labels] /\ Proposals \subseteq Requests
      /\ listed \in [Proposals \union Sweepers -> SUBSET Proposals]
  BY DEF IInv, TypeOK, Requests
<1>b. \A r \in Approvers \union Rejecters \union Restorers \union Sweepers : r # p
  BY RequestsAssumption
<1> USE <1>a DEF Goto, local
<1>1. ASSUME NEW q \in Proposals, q # p, ListPending(q) \/ ProposeStep(q) \/ DropScratch(q)
      PROVE  pc'[p] = pc[p] /\ listed'[p] = listed[p]
  BY <1>1 DEF ListPending, ProposeStep, DropListed, SupersedePending, Resolve, Fingerprint,
       Generate, CopyScratch, RunCode, CreateProposal, Guardian, LinkMessage, DropScratch,
       FailAttempt
<1>2. ASSUME NEW r \in Rejecters, Reject(r) \/ DropScratch(r) \/ \E q \in Proposals : RejectRead(r, q)
      PROVE  pc'[p] = pc[p] /\ listed'[p] = listed[p]
  BY <1>b, <1>2 DEF Reject, RejectRead, DropScratch
<1>3. ASSUME NEW r \in Approvers,
             ApproveStep(r) \/ DropScratch(r) \/ \E q \in Proposals : ApproveRead(r, q)
      PROVE  pc'[p] = pc[p] /\ listed'[p] = listed[p]
  BY <1>b, <1>3 DEF ApproveRead, ApproveStep, Claim, Lock, Check, Snapshot, Replace,
       Commit, Record, MarkFailed, FailRollback, RefreshOpen, RefreshUpsert, DropScratch
<1>4. ASSUME NEW r \in Restorers, RestoreStep(r) \/ \E row \in rows : RestoreRollback(r, row)
      PROVE  pc'[p] = pc[p] /\ listed'[p] = listed[p]
  BY <1>b, <1>4 DEF RestoreStep, RestoreHead, RestoreRecord, RestoreParse, RestoreMark,
       RestoreOpen, RestoreReindex, RestoreUnsynced, RestoreTrack, RestoreRollback
<1>5. ASSUME NEW r \in Sweepers, SweepList(r) \/ SweepDelete(r)
      PROVE  pc'[p] = pc[p] /\ listed'[p] = listed[p]
  BY <1>b, <1>5 DEF SweepList, SweepDelete
<1>6. CASE Fault
  BY <1>b, <1>6 DEF Fault, FaultInExecute, FaultInRollback, FaultInRestore, FaultInIndexing
<1>7. CASE UNCHANGED vars
  BY <1>7 DEF vars
<1> QED
  BY <1>1, <1>2, <1>3, <1>4, <1>5, <1>6, <1>7 DEF Next, Start, Serve

\* The path of a propose request.
LEMMA PathStep ==
  ASSUME IInv, [Next]_vars, NEW p \in Proposals
  PROVE  \/ pc'[p] \in {pc[p], "guardian", "link", "drop_scratch", "done", "dead"}
         \/ pc[p] \in Unread \ {"fingerprint"} /\ pc'[p] \in Unread
         \/ Fingerprint(p)
         \/ pc[p] \in {"generate", "copy", "run"} /\ pc'[p] \in {"generate", "copy", "run"}
         \/ RunCode(p) /\ pc'[p] = "create"
<1>a. pc \in [Requests -> Labels] /\ p \in Requests /\ p \notin Approvers
  BY RequestsAssumption DEF IInv, TypeOK, Requests
<1> USE <1>a DEF Goto, Unread
<1>1. CASE ListPending(p) \/ DropListed(p) \/ SupersedePending(p) \/ Resolve(p)
  BY <1>1 DEF ListPending, DropListed, SupersedePending, Resolve
<1>2. CASE Generate(p) \/ CopyScratch(p) \/ RunCode(p)
  BY <1>2 DEF Generate, CopyScratch, RunCode, FailAttempt
<1>3. CASE CreateProposal(p) \/ Guardian(p) \/ LinkMessage(p) \/ DropScratch(p)
  <2>1. CASE Guardian(p)
    BY <2>1 DEF Guardian
  <2> QED
    BY <1>3, <2>1 DEF CreateProposal, LinkMessage, DropScratch
<1>4. CASE Crash
  BY <1>4 DEF Crash
<1> QED
  BY <1>1, <1>2, <1>3, <1>4, ProposeMoves DEF ProposeStep

\* A reject request moves by its own steps, and dies with the server.
LEMMA RejectMoves ==
  ASSUME IInv, [Next]_vars, NEW r \in Rejecters
  PROVE  \/ pc'[r] = pc[r] /\ target'[r] = target[r]
         \/ Reject(r) \/ DropScratch(r) \/ Crash
         \/ \E p \in Proposals : RejectRead(r, p)
<1>a. /\ pc \in [Requests -> Labels] /\ Rejecters \subseteq Requests
      /\ target \in [Approvers \union Rejecters -> Proposals \union {None}]
  BY DEF IInv, TypeOK, Requests
<1>b. \A s \in Approvers \union Proposals \union Restorers \union Sweepers : r # s
  BY RequestsAssumption
<1> USE <1>a DEF Goto, local
<1>1. ASSUME NEW p \in Proposals, ListPending(p) \/ ProposeStep(p) \/ DropScratch(p)
      PROVE  pc'[r] = pc[r] /\ target'[r] = target[r]
  BY <1>b, <1>1 DEF ListPending, ProposeStep, DropListed, SupersedePending, Resolve, Fingerprint,
       Generate, CopyScratch, RunCode, CreateProposal, Guardian, LinkMessage, DropScratch,
       FailAttempt
<1>2. ASSUME NEW s \in Rejecters, s # r,
             Reject(s) \/ DropScratch(s) \/ \E q \in Proposals : RejectRead(s, q)
      PROVE  pc'[r] = pc[r] /\ target'[r] = target[r]
  BY <1>2 DEF Reject, RejectRead, DropScratch
<1>3. ASSUME NEW s \in Approvers,
             ApproveStep(s) \/ DropScratch(s) \/ \E q \in Proposals : ApproveRead(s, q)
      PROVE  pc'[r] = pc[r] /\ target'[r] = target[r]
  BY <1>b, <1>3 DEF ApproveRead, ApproveStep, Claim, Lock, Check, Snapshot, Replace,
       Commit, Record, MarkFailed, FailRollback, RefreshOpen, RefreshUpsert, DropScratch
<1>4. ASSUME NEW s \in Restorers, RestoreStep(s) \/ \E row \in rows : RestoreRollback(s, row)
      PROVE  pc'[r] = pc[r] /\ target'[r] = target[r]
  BY <1>b, <1>4 DEF RestoreStep, RestoreHead, RestoreRecord, RestoreParse, RestoreMark,
       RestoreOpen, RestoreReindex, RestoreUnsynced, RestoreTrack, RestoreRollback
<1>5. ASSUME NEW s \in Sweepers, SweepList(s) \/ SweepDelete(s)
      PROVE  pc'[r] = pc[r] /\ target'[r] = target[r]
  BY <1>b, <1>5 DEF SweepList, SweepDelete
<1>6. CASE Fault
  BY <1>b, <1>6 DEF Fault, FaultInExecute, FaultInRollback, FaultInRestore, FaultInIndexing
<1>7. CASE UNCHANGED vars
  BY <1>7 DEF vars
<1> QED
  BY <1>1, <1>2, <1>3, <1>4, <1>5, <1>6, <1>7 DEF Next, Start, Serve

\* An approval moves by its own steps and its own faults, and dies with the server.
LEMMA ApproveMoves ==
  ASSUME IInv, [Next]_vars, NEW r \in Approvers
  PROVE  \/ /\ pc'[r] = pc[r] /\ target'[r] = target[r] /\ parent'[r] = parent[r]
            /\ hash'[r] = hash[r] /\ view'[r] = view[r] /\ queue'[r] = queue[r]
         \/ ApproveStep(r) \/ DropScratch(r) \/ Crash
         \/ \E p \in Proposals : ApproveRead(r, p)
         \/ Fault /\ (FaultInExecute(r) \/ FaultInRollback(r) \/ FaultInIndexing(r))
<1> DEFINE Same == /\ pc'[r] = pc[r] /\ target'[r] = target[r] /\ parent'[r] = parent[r]
                   /\ hash'[r] = hash[r] /\ view'[r] = view[r] /\ queue'[r] = queue[r]
<1>a. /\ pc \in [Requests -> Labels] /\ Approvers \subseteq Requests
      /\ target \in [Approvers \union Rejecters -> Proposals \union {None}]
      /\ parent \in [Approvers -> Nat] /\ hash \in [Approvers \union Restorers -> Nat]
      /\ view \in [Approvers \union Restorers -> Contents]
      /\ queue \in [Approvers -> SUBSET Entities]
  BY DEF IInv, TypeOK, Requests
<1>b. \A s \in Proposals \union Rejecters \union Restorers \union Sweepers : r # s
  BY RequestsAssumption
<1> USE <1>a DEF Goto, local, db, indexed
<1>1. ASSUME NEW p \in Proposals, ListPending(p) \/ ProposeStep(p) \/ DropScratch(p)
      PROVE  Same
  BY <1>b, <1>1 DEF ListPending, ProposeStep, DropListed, SupersedePending, Resolve, Fingerprint,
       Generate, CopyScratch, RunCode, CreateProposal, Guardian, LinkMessage, DropScratch,
       FailAttempt
<1>2. ASSUME NEW s \in Rejecters, Reject(s) \/ DropScratch(s) \/ \E q \in Proposals : RejectRead(s, q)
      PROVE  Same
  BY <1>b, <1>2 DEF Reject, RejectRead, DropScratch
<1>3. ASSUME NEW s \in Approvers, s # r,
             ApproveStep(s) \/ DropScratch(s) \/ \E q \in Proposals : ApproveRead(s, q)
      PROVE  Same
  BY <1>3 DEF ApproveRead, ApproveStep, Claim, Lock, Check, Snapshot, Replace,
       Commit, Record, MarkFailed, FailRollback, RefreshOpen, RefreshUpsert, DropScratch
<1>4. ASSUME NEW s \in Restorers, RestoreStep(s) \/ \E row \in rows : RestoreRollback(s, row)
      PROVE  Same
  BY <1>b, <1>4 DEF RestoreStep, RestoreHead, RestoreRecord, RestoreParse, RestoreMark,
       RestoreOpen, RestoreReindex, RestoreUnsynced, RestoreTrack, RestoreRollback
<1>5. ASSUME NEW s \in Sweepers, SweepList(s) \/ SweepDelete(s) PROVE Same
  BY <1>b, <1>5 DEF SweepList, SweepDelete
<1>6. CASE Fault
  <2>1. CASE \E s \in Approvers : s # r /\ (FaultInExecute(s) \/ FaultInRollback(s))
    BY <2>1 DEF FaultInExecute, FaultInRollback
  <2>2. CASE \E s \in Restorers, row \in rows : FaultInRestore(s, row)
    BY <1>b, <2>2 DEF FaultInRestore
  <2>3. CASE \E s \in Approvers \union Restorers : s # r /\ FaultInIndexing(s)
    BY <2>3 DEF FaultInIndexing
  <2> QED
    BY <1>6, <1>b, <2>1, <2>2, <2>3 DEF Fault
<1>7. CASE UNCHANGED vars
  BY <1>7 DEF vars
<1> QED
  BY <1>1, <1>2, <1>3, <1>4, <1>5, <1>6, <1>7 DEF Next, Start, Serve

\* The path of an approval: each label inside the transaction has one way in.
LEMMA ApprovalPath ==
  ASSUME IInv, [Next]_vars, NEW r \in Approvers
  PROVE  /\ target'[r] = target[r] \/ (pc[r] = "idle" /\ pc'[r] \in {"claim", "done"})
         /\ pc'[r] = "snapshot" => pc[r] = "snapshot" \/ Check(r)
         /\ pc'[r] = "replace" => pc[r] = "replace" \/ Snapshot(r)
         /\ pc'[r] = "commit" => pc[r] = "commit" \/ Replace(r)
         /\ pc'[r] = "record" => (pc[r] = "record" /\ hash'[r] = hash[r]) \/ Commit(r)
<1>a. pc \in [Requests -> Labels] /\ r \in Requests /\ r \notin Restorers
  BY RequestsAssumption DEF IInv, TypeOK, Requests
<1> USE <1>a DEF Goto, local
<1>1. ASSUME NEW p \in Proposals, ApproveRead(r, p)
      PROVE  pc[r] = "idle" /\ pc'[r] \in {"claim", "done"}
  BY <1>1 DEF ApproveRead
<1>2. CASE Claim(r) \/ Lock(r) \/ MarkFailed(r) \/ FailRollback(r) \/ RefreshOpen(r)
             \/ RefreshUpsert(r) \/ DropScratch(r)
  BY <1>2 DEF Claim, Lock, MarkFailed, FailRollback, RefreshOpen, RefreshUpsert, DropScratch
<1>3. CASE Check(r) \/ Snapshot(r)
  BY <1>3 DEF Check, Refusal, Snapshot
<1>4. CASE Replace(r)
  BY <1>4 DEF Replace
<1>5. CASE Commit(r) \/ Record(r)
  BY <1>5 DEF Commit, Record
<1>6. CASE FaultInExecute(r) \/ FaultInRollback(r) \/ FaultInIndexing(r)
  BY <1>6 DEF FaultInExecute, FaultInRollback, FaultInIndexing
<1>7. CASE Crash
  BY <1>7 DEF Crash
<1> QED
  BY ApproveMoves, <1>1, <1>2, <1>3, <1>4, <1>5, <1>6, <1>7 DEF ApproveStep

\* What becomes of a status, and who writes it.
LEMMA StatusFate ==
  ASSUME IInv, [Next]_vars, NEW p \in Proposals
  PROVE  \/ status'[p] = status[p]
         \/ CreateProposal(p) /\ status'[p] = "pending"
         \/ /\ status[p] = "pending"
            /\ \/ /\ status'[p] = "rejected"
                  /\ \/ Guardian(p) /\ pc'[p] = "drop_scratch"
                     \/ \E r \in Rejecters : Reject(r) /\ target[r] = p
               \/ status'[p] = "superseded" /\ \E q \in Proposals : SupersedePending(q)
               \/ status'[p] = "approved" /\ \E r \in Approvers : Claim(r) /\ target[r] = p
         \/ \E r \in Approvers : target[r] = p /\ status[p] = "approved" /\
              \/ Record(r) /\ status'[p] = "applied"
              \/ MarkFailed(r) /\ status'[p] = "failed"
<1>a. /\ status \in [Proposals -> Status] /\ SoleExecutor
      /\ pc \in [Requests -> Labels] /\ Proposals \subseteq Requests
      /\ \A r \in Approvers : pc[r] \notin {"idle", "done", "dead"} => target[r] \in Proposals
  BY DEF IInv, TypeOK, RequestsKnow, Requests
<1> USE <1>a DEF SetStatus, db
<1>1. ASSUME NEW q \in Proposals, CreateProposal(q)
      PROVE  status'[p] = status[p] \/ (CreateProposal(p) /\ status'[p] = "pending")
  BY <1>1 DEF CreateProposal
<1>2. ASSUME NEW q \in Proposals, SupersedePending(q)
      PROVE  status'[p] = status[p] \/ (status[p] = "pending" /\ status'[p] = "superseded")
  BY <1>2 DEF SupersedePending, PendingIn
<1>3. ASSUME NEW q \in Proposals, Guardian(q)
      PROVE  \/ status'[p] = status[p]
             \/ /\ status[p] = "pending" /\ status'[p] = "rejected"
                /\ Guardian(p) /\ pc'[p] = "drop_scratch"
  BY <1>3 DEF Guardian, Goto
<1>4. ASSUME NEW q \in Proposals,
             \/ ListPending(q) \/ DropListed(q) \/ Resolve(q) \/ Fingerprint(q)
             \/ Generate(q) \/ CopyScratch(q) \/ RunCode(q) \/ LinkMessage(q)
      PROVE  status' = status
  BY <1>4 DEF ListPending, DropListed, Resolve, Fingerprint, Generate, CopyScratch, RunCode,
       LinkMessage
<1>5. ASSUME NEW r \in Rejecters, Reject(r) \/ \E q \in Proposals : RejectRead(r, q)
      PROVE  \/ status'[p] = status[p]
             \/ /\ status[p] = "pending" /\ status'[p] = "rejected"
                /\ Reject(r) /\ target[r] = p
  BY <1>5 DEF Reject, RejectRead
<1>6. ASSUME NEW r \in Approvers, Claim(r)
      PROVE  \/ status'[p] = status[p]
             \/ status[p] = "pending" /\ status'[p] = "approved" /\ target[r] = p
  BY <1>6 DEF Claim
<1>7. ASSUME NEW r \in Approvers, Record(r)
      PROVE  \/ status'[p] = status[p]
             \/ target[r] = p /\ status[p] = "approved" /\ status'[p] = "applied"
  BY <1>7 DEF Record, SoleExecutor, Claiming, InTransaction
<1>8. ASSUME NEW r \in Approvers, MarkFailed(r)
      PROVE  \/ status'[p] = status[p]
             \/ target[r] = p /\ status[p] = "approved" /\ status'[p] = "failed"
  BY <1>8 DEF MarkFailed, SoleExecutor, Claiming, InTransaction
<1>9. ASSUME NEW r \in Approvers,
             \/ Lock(r) \/ Check(r) \/ Snapshot(r) \/ Replace(r) \/ Commit(r)
             \/ FailRollback(r) \/ RefreshOpen(r) \/ RefreshUpsert(r)
             \/ \E q \in Proposals : ApproveRead(r, q)
      PROVE  status' = status
  BY <1>9 DEF ApproveRead, Lock, Check, Snapshot, Replace, Commit, FailRollback, RefreshOpen,
       RefreshUpsert
<1>10. CASE UNCHANGED status
  BY <1>10
<1> QED
  BY <1>1, <1>2, <1>3, <1>4, <1>5, <1>6, <1>7, <1>8, <1>9, <1>10
     DEF Next, Start, Serve, ProposeStep, ApproveStep, RestoreRollback, RestoreStep,
     RestoreHead, RestoreRecord, RestoreParse, RestoreMark, RestoreOpen,
     RestoreReindex, RestoreUnsynced, RestoreTrack, SweepList,
     SweepDelete, DropScratch, Fault, FaultInExecute, FaultInRollback, FaultInRestore,
     FaultInIndexing, Crash, vars

\* Commits are only appended.
LEMMA GitStep ==
  ASSUME IInv, [Next]_vars
  PROVE  git' = git \/ \E c \in Contents : git' = Append(git, c)
<1>a. /\ file \in Contents /\ git \in Seq(Contents) /\ HashesExist
      /\ rows \in SUBSET [hash : Nat, change : Proposals \union {None}]
  BY DEF IInv, TypeOK
<1>b. \A i \in 1..Len(git) : git[i] \in Contents
  BY <1>a
<1> USE DEF disk
<1>1. ASSUME NEW p \in Proposals, ListPending(p) \/ ProposeStep(p) PROVE git' = git
  BY <1>1 DEF ListPending, ProposeStep, DropListed, SupersedePending, Resolve, Fingerprint,
       Generate, CopyScratch, RunCode, CreateProposal, Guardian, LinkMessage
<1>2. ASSUME NEW r \in Rejecters, Reject(r) \/ \E p \in Proposals : RejectRead(r, p)
      PROVE  git' = git
  BY <1>2 DEF Reject, RejectRead
<1>3. ASSUME NEW r \in Approvers, ApproveStep(r) \/ \E p \in Proposals : ApproveRead(r, p)
      PROVE  git' = git \/ \E c \in Contents : git' = Append(git, c)
  <2>1. CASE Snapshot(r) \/ Commit(r)
    BY <1>a, <2>1 DEF Snapshot, Commit
  <2>2. CASE FailRollback(r)
    <3>1. parent[r] \in 1..Len(git)
      BY <1>a, <2>2 DEF FailRollback, HashesExist
    <3> QED
      BY <1>b, <2>2, <3>1 DEF FailRollback
  <2> QED
    BY <1>3, <2>1, <2>2 DEF ApproveRead, ApproveStep, Claim, Lock, Check, Replace,
       Record, MarkFailed, RefreshOpen, RefreshUpsert
<1>4. ASSUME NEW r \in Restorers, RestoreStep(r)
      PROVE  git' = git \/ \E c \in Contents : git' = Append(git, c)
  BY <1>a, <1>4 DEF RestoreStep, RestoreHead, RestoreRecord, RestoreParse, RestoreMark,
       RestoreOpen, RestoreReindex, RestoreUnsynced, RestoreTrack
<1>5. ASSUME NEW r \in Restorers, NEW row \in rows, RestoreRollback(r, row)
      PROVE  \E c \in Contents : git' = Append(git, c)
  <2>1. git[row.hash] \in Contents
    BY <1>a, <1>b DEF HashesExist
  <2> QED
    BY <1>5, <2>1 DEF RestoreRollback
<1>6. ASSUME NEW r \in Sweepers, SweepList(r) \/ SweepDelete(r) PROVE git' = git
  BY <1>6 DEF SweepList, SweepDelete
<1>7. ASSUME NEW r \in Proposals \union Rejecters \union Approvers, DropScratch(r)
      PROVE  git' = git
  BY <1>7 DEF DropScratch
<1>8. CASE Fault
  BY <1>8 DEF Fault, FaultInExecute, FaultInRollback, FaultInRestore, FaultInIndexing
<1>9. CASE Crash \/ UNCHANGED vars
  BY <1>9 DEF Crash, vars
<1> QED
  BY <1>1, <1>2, <1>3, <1>4, <1>5, <1>6, <1>7, <1>8, <1>9 DEF Next, Start, Serve

\* A hash names the same content for ever.
LEMMA HistoryStays ==
  ASSUME IInv, [Next]_vars, NEW i \in 1..Len(git)
  PROVE  i \in 1..Len(git') /\ git'[i] = git[i]
<1>1. git \in Seq(Contents)
  BY DEF IInv, TypeOK
<1>2. CASE git' = git
  BY <1>2
<1>3. ASSUME NEW c \in Contents, git' = Append(git, c)
      PROVE  i \in 1..Len(git') /\ git'[i] = git[i]
  BY <1>1, <1>3
<1> QED
  BY <1>2, <1>3, GitStep

\* A row that names a change is written by the approval of that change.
LEMMA RowStep ==
  ASSUME IInv, [Next]_vars, NEW row \in rows', row \notin rows, row.change # None
  PROVE  \E r \in Approvers : /\ pc[r] = "record"
                              /\ row = [hash |-> hash[r], change |-> target[r]]
<1> USE DEF db
<1>1. CASE Outside
  BY <1>1, OutsideStep DEF SameOutcomes
<1>2. ASSUME NEW r \in Approvers, ApproveStep(r), ~Record(r) PROVE rows' = rows
  BY <1>2 DEF ApproveStep, Claim, Lock, Check, Snapshot, Replace, Commit, MarkFailed,
       FailRollback, RefreshOpen, RefreshUpsert
<1>3. ASSUME NEW r \in Approvers, NEW p \in Proposals, ApproveRead(r, p) PROVE rows' = rows
  BY <1>3 DEF ApproveRead
<1>4. ASSUME NEW r \in Approvers, Record(r)
      PROVE  pc[r] = "record" /\ row = [hash |-> hash[r], change |-> target[r]]
  BY <1>4 DEF Record
<1>5. CASE Fault \/ Crash \/ UNCHANGED vars
  BY <1>5 DEF Fault, FaultInExecute, FaultInRollback, FaultInRestore, FaultInIndexing, Crash, vars
<1> QED
  BY StepCases, <1>1, <1>2, <1>3, <1>4, <1>5

\* What was checked under the lock is what the swap publishes: the file, and the
\* one reviewed change.
LEMMA SwapAddsOne ==
  ASSUME IInv, SwapInv, NEW r \in Approvers, Replace(r), scratch[target[r]] # None
  PROVE  /\ target[r] \in Proposals /\ status[target[r]] = "approved"
         /\ file' = file \union {target[r]}
<1>1. pc[r] = "replace"
  BY DEF Replace
<1>2. target[r] \in Proposals /\ status[target[r]] = "approved"
  BY <1>1 DEF IInv, RequestsKnow, SoleExecutor, Claiming, InTransaction
<1>3. file = base[target[r]]
  BY <1>1 DEF SwapInv, CheckedIsBase
<1>4. /\ base[target[r]] \subseteq scratch[target[r]]
      /\ scratch[target[r]] \ {target[r]} \subseteq file
      /\ target[r] \in scratch[target[r]]
  BY <1>2 DEF SwapInv, CopiesAddOne
<1>5. file' = scratch[target[r]]
  BY DEF Replace
<1> QED
  BY <1>2, <1>3, <1>4, <1>5

\* As long as nothing is taken back from git, the file only grows, by the
\* change of a claimed proposal.
LEMMA FileGrows ==
  ASSUME IInv, NoRewrite, NoRewrite', SwapInv, [Next]_vars
  PROVE  /\ file \subseteq file'
         /\ \A p \in file' : p \in file \/ (status[p] = "approved" /\ status' = status)
<1>1. CASE file' = file
  BY <1>1
<1>2. ASSUME NEW r \in Approvers, Replace(r), scratch[target[r]] # None
      PROVE  /\ file \subseteq file'
             /\ \A p \in file' : p \in file \/ (status[p] = "approved" /\ status' = status)
  BY <1>2, SwapAddsOne DEF Replace
<1> QED
  BY <1>1, <1>2, FileStep

\* Bases stay old: a fingerprint is taken before the change can be in the file.
LEMMA BasesStep ==
  ASSUME IInv, NoRewrite, NoRewrite', SwapInv, [Next]_vars
  PROVE  BasesAreOld'
<1>a. /\ file \in Contents /\ base \in [Proposals -> Contents \union {None}]
      /\ RequestsKnow /\ BasesAreOld /\ SwappedWereClaimed
  BY DEF IInv, TypeOK, SwapInv
<1> SUFFICES ASSUME NEW p \in Proposals
             PROVE  /\ pc'[p] \in Unread => base'[p] = None
                    /\ pc'[p] \in {"generate", "copy", "run", "create"} => base'[p] # None
                    /\ base'[p] # None => base'[p] \subseteq file' /\ p \notin base'[p]
  BY DEF BasesAreOld
<1>1. CASE Fingerprint(p)
  <2>1. base'[p] = file /\ file' = file /\ pc[p] = "fingerprint" /\ pc'[p] = "generate"
    BY <1>1, <1>a DEF Fingerprint, disk, Goto, IInv, TypeOK, Requests
  <2>2. p \notin file
    BY <1>a, <2>1 DEF RequestsKnow, Attempting, SwappedWereClaimed
  <2>3. file # None
    BY <1>a, NoneAssumption DEF Contents
  <2> QED
    BY <2>1, <2>2, <2>3 DEF Unread
<1>2. CASE ~Fingerprint(p)
  <2>1. base'[p] = base[p]
    BY <1>2, <1>a, BaseStep DEF Fingerprint
  <2>2. pc'[p] \in Unread => pc[p] \in Unread
    BY <1>2, PathStep DEF Unread
  <2>3. pc'[p] \in {"generate", "copy", "run", "create"} =>
          pc[p] \in {"generate", "copy", "run", "create"}
    BY <1>2, PathStep DEF Unread, RunCode
  <2>4. file \subseteq file'
    BY FileGrows
  <2> QED
    BY <1>a, <2>1, <2>2, <2>3, <2>4 DEF BasesAreOld
<1> QED
  BY <1>1, <1>2

\* A copy stays the content it was made from with the change added.
LEMMA CopiesStep ==
  ASSUME IInv, NoRewrite, NoRewrite', SwapInv, [Next]_vars
  PROVE  CopiesAddOne'
<1>a. /\ file \in Contents /\ scratch \in [Proposals -> Contents \union {None}]
      /\ base \in [Proposals -> Contents \union {None}]
      /\ pc \in [Requests -> Labels] /\ Proposals \subseteq Requests
      /\ RequestsKnow /\ BasesAreOld /\ CopiesAddOne
  BY DEF IInv, TypeOK, SwapInv, Requests
<1> SUFFICES ASSUME NEW p \in Proposals, scratch'[p] # None
             PROVE  /\ base'[p] # None
                    /\ base'[p] \subseteq scratch'[p]
                    /\ scratch'[p] \ {p} \subseteq file'
                    /\ (status'[p] # "none" \/ pc'[p] = "create") => p \in scratch'[p]
  BY DEF CopiesAddOne
<1>b. base[p] # None => base'[p] = base[p]
  <2>1. Fingerprint(p) => base[p] = None
    BY <1>a DEF Fingerprint, BasesAreOld, Unread
  <2> QED
    BY <1>a, <2>1, BaseStep DEF Fingerprint
<1>c. file \subseteq file'
  BY FileGrows
<1>1. CASE scratch'[p] = scratch[p] /\ ~RunCode(p)
  <2>1. status'[p] = "none" \/ status[p] # "none" \/ pc[p] = "create"
    BY StatusFate DEF CreateProposal
  <2>2. pc'[p] = "create" => pc[p] = "create"
    BY <1>1, <1>a, PathStep DEF Unread, Fingerprint, Goto
  <2> QED
    BY <1>1, <1>a, <1>b, <1>c, <2>1, <2>2 DEF CopiesAddOne
<1>2. CASE CopyScratch(p)
  <2>1. /\ pc[p] = "copy" /\ pc'[p] = "run" /\ scratch'[p] = file /\ file' = file
        /\ status' = status
    BY <1>2, <1>a DEF CopyScratch, db, Goto, IInv, TypeOK, Requests
  <2>2. base[p] # None /\ base[p] \subseteq file /\ status[p] = "none"
    BY <1>a, <2>1 DEF BasesAreOld, RequestsKnow, Attempting
  <2> QED
    BY <1>b, <2>1, <2>2
<1>3. CASE RunCode(p) /\ scratch'[p] = scratch[p] \union {p} /\ scratch[p] # None
  <2>1. base[p] # None /\ base[p] \subseteq scratch[p] /\ scratch[p] \ {p} \subseteq file
    BY <1>3, <1>a DEF CopiesAddOne
  <2> QED
    BY <1>3, <1>b, <1>c, <2>1
<1>4. CASE RunCode(p) /\ scratch'[p] = scratch[p] /\ scratch[p] # None
  <2>1. p \in scratch[p]
    BY <1>4, <1>a DEF RunCode, Delete
  <2> QED
    BY <1>4, <1>a, <1>b, <1>c, <2>1 DEF CopiesAddOne
<1> QED
  BY <1>1, <1>2, <1>3, <1>4, CopyStep

\* The swap is an approval's, so what gets into the file had been claimed.
LEMMA ClaimedStep ==
  ASSUME IInv, NoRewrite, NoRewrite', SwapInv, [Next]_vars
  PROVE  SwappedWereClaimed'
<1>a. /\ file' \in Contents /\ RequestsKnow /\ SwappedWereClaimed
  BY TypeStep DEF IInv, TypeOK, SwapInv
<1> SUFFICES ASSUME NEW p \in file' PROVE status'[p] \notin {"none", "pending"}
  BY DEF SwappedWereClaimed
<1>1. p \in Proposals
  BY <1>a DEF Contents
<1>2. CASE p \in file
  <2>1. status[p] \notin {"none", "pending"}
    BY <1>2, <1>a DEF SwappedWereClaimed
  <2>2. ~CreateProposal(p)
    BY <1>1, <1>a, <2>1 DEF CreateProposal, RequestsKnow
  <2> QED
    BY <1>1, <2>1, <2>2, StatusFate
<1>3. CASE p \notin file
  BY <1>3, FileGrows
<1> QED
  BY <1>2, <1>3

\* Between the check and the swap the lock keeps every other swap out.
LEMMA CheckedStep ==
  ASSUME IInv, NoRewrite, NoRewrite', SwapInv, [Next]_vars
  PROVE  CheckedIsBase'
<1> SUFFICES ASSUME NEW r \in Approvers, pc'[r] \in {"snapshot", "replace"}
             PROVE  file' = base'[target'[r]]
  BY DEF CheckedIsBase
<1>a. pc \in [Requests -> Labels] /\ r \in Requests
  BY DEF IInv, TypeOK, Requests
<1>1. pc[r] \in {"snapshot", "replace"} \/ Check(r)
  BY ApprovalPath DEF Snapshot
<1>2. pc[r] \in InTransaction
  BY <1>1 DEF Check, InTransaction
<1>3. target'[r] = target[r] /\ target[r] \in Proposals /\ status[target[r]] = "approved"
  BY <1>2, ApprovalPath DEF IInv, RequestsKnow, SoleExecutor, Claiming, InTransaction
<1>4. file' = file
  <2>1. ASSUME NEW s \in Approvers, Replace(s), scratch[target[s]] # None PROVE FALSE
    <3>1. pc[s] \in InTransaction
      BY <2>1 DEF Replace, InTransaction
    <3>2. s = r
      BY <1>2, <3>1 DEF IInv, LockHeldByTransaction
    <3>3. pc'[r] = "commit"
      BY <1>a, <2>1, <3>2 DEF Replace, Goto
    <3> QED
      BY <3>3
  <2> QED
    BY <2>1, FileStep
<1>5. base'[target[r]] = base[target[r]]
  <2>1. ~Fingerprint(target[r])
    BY <1>3 DEF Fingerprint, IInv, RequestsKnow, Attempting
  <2> QED
    BY <1>3, <2>1, BaseStep DEF Fingerprint, IInv, TypeOK
<1>6. file = base[target[r]]
  <2>1. CASE pc[r] \in {"snapshot", "replace"}
    BY <2>1 DEF SwapInv, CheckedIsBase
  <2>2. CASE Check(r)
    BY <1>a, <2>2 DEF Check, Refusal, Goto
  <2> QED
    BY <1>1, <2>1, <2>2
<1> QED
  BY <1>3, <1>4, <1>5, <1>6

\* The commit of an approval is made from the file its swap left.
LEMMA SwappedStep ==
  ASSUME IInv, NoRewrite, NoRewrite', SwapInv, [Next]_vars
  PROVE  SwappedIsIn'
<1> SUFFICES ASSUME NEW r \in Approvers
             PROVE  /\ pc'[r] \in {"commit", "record"} => target'[r] \in file'
                    /\ pc'[r] = "record" => target'[r] \in git'[hash'[r]]
  BY DEF SwappedIsIn
<1>a. /\ git \in Seq(Contents) /\ HashesExist /\ SwappedIsIn
      /\ hash \in [Approvers \union Restorers -> Nat] /\ file \in Contents
      /\ pc \in [Requests -> Labels] /\ r \in Requests
  BY DEF IInv, TypeOK, SwapInv, Requests
<1>b. file \subseteq file'
  BY FileGrows
<1>c. pc'[r] \in {"commit", "record"} => target'[r] = target[r]
  BY ApprovalPath
<1>1. ASSUME pc'[r] = "commit" PROVE target[r] \in file'
  <2>1. CASE pc[r] = "commit"
    BY <1>a, <1>b, <2>1 DEF SwappedIsIn
  <2>2. CASE Replace(r)
    <3>1. scratch[target[r]] # None
      BY <1>1, <1>a, <2>2 DEF Replace, Goto
    <3> QED
      BY <2>2, <3>1, SwapAddsOne
  <2> QED
    BY <1>1, <2>1, <2>2, ApprovalPath
<1>2. ASSUME pc'[r] = "record" PROVE target[r] \in file' /\ target[r] \in git'[hash'[r]]
  <2>1. CASE pc[r] = "record" /\ hash'[r] = hash[r]
    <3>1. hash[r] \in 1..Len(git) /\ target[r] \in file /\ target[r] \in git[hash[r]]
      BY <1>a, <2>1 DEF HashesExist, SwappedIsIn
    <3> QED
      BY <1>b, <2>1, <3>1, HistoryStays
  <2>2. CASE Commit(r)
    <3>1. target[r] \in file
      BY <1>a, <2>2 DEF Commit, SwappedIsIn
    <3>2. git' = Append(git, file) /\ hash'[r] = Len(git')
      BY <1>a, <2>2 DEF Commit
    <3>3. git'[hash'[r]] = file
      BY <1>a, <3>2
    <3> QED
      BY <1>b, <3>1, <3>3
  <2> QED
    BY <1>2, <2>1, <2>2, ApprovalPath
<1> QED
  BY <1>c, <1>1, <1>2

\* A proposal is applied after its swap, and no step takes a change out.
LEMMA AppliedStep ==
  ASSUME IInv, NoRewrite, NoRewrite', SwapInv, [Next]_vars
  PROVE  AppliedIsInFile'
<1> SUFFICES ASSUME NEW p \in Proposals, status'[p] = "applied" PROVE p \in file'
  BY DEF AppliedIsInFile
<1>1. file \subseteq file'
  BY FileGrows
<1>2. CASE status[p] = "applied"
  BY <1>1, <1>2 DEF SwapInv, AppliedIsInFile
<1>3. ASSUME NEW r \in Approvers, target[r] = p, Record(r) PROVE p \in file'
  BY <1>1, <1>3 DEF Record, SwapInv, SwappedIsIn
<1> QED
  BY <1>2, <1>3, StatusFate

\* A row names the commit its approval has made.
LEMMA NamedStep ==
  ASSUME IInv, NoRewrite, NoRewrite', SwapInv, [Next]_vars
  PROVE  RowNamesItsCommit'
<1> SUFFICES ASSUME NEW row \in rows', row.change # None
             PROVE  row.change \in git'[row.hash]
  BY DEF RowNamesItsCommit
<1>1. CASE row \in rows
  <2>1. row.hash \in 1..Len(git) /\ row.change \in git[row.hash]
    BY <1>1 DEF IInv, HashesExist, SwapInv, RowNamesItsCommit
  <2> QED
    BY <2>1, HistoryStays
<1>2. ASSUME NEW r \in Approvers, pc[r] = "record", row = [hash |-> hash[r], change |-> target[r]]
      PROVE  row.change \in git'[row.hash]
  <2>1. hash[r] \in 1..Len(git) /\ target[r] \in git[hash[r]]
    BY <1>2 DEF IInv, HashesExist, SwapInv, SwappedIsIn
  <2> QED
    BY <1>2, <2>1, HistoryStays
<1> QED
  BY <1>1, <1>2, RowStep

\* A step that takes nothing back from git keeps the swap invariant.
LEMMA SwapInvStep ==
  ASSUME IInv, NoRewrite, NoRewrite', SwapInv, [Next]_vars
  PROVE  SwapInv'
BY BasesStep, CopiesStep, ClaimedStep, CheckedStep, SwappedStep, AppliedStep, NamedStep
   DEF SwapInv

\* The swap invariant holds before any request arrives.
LEMMA InitSwapInv == Init => SwapInv
<1> SUFFICES ASSUME Init PROVE SwapInv
  OBVIOUS
<1>1. BasesAreOld /\ CopiesAddOne
  BY DEF Init, BasesAreOld, CopiesAddOne, Requests
<1>2. SwappedWereClaimed /\ CheckedIsBase /\ SwappedIsIn
  BY DEF Init, SwappedWereClaimed, CheckedIsBase, SwappedIsIn, Requests
<1>3. AppliedIsInFile /\ RowNamesItsCommit
  BY DEF Init, AppliedIsInFile, RowNamesItsCommit
<1> QED
  BY <1>1, <1>2, <1>3 DEF SwapInv

\* As long as nothing is taken back from git, the applied changes, the rows and
\* the commits they name agree with the file.
THEOREM SwapsHold == Spec /\ []NoRewrite => []SwapInv
<1>1. Init => SwapInv
  BY InitSwapInv
<1>2. IInv /\ NoRewrite /\ NoRewrite' /\ SwapInv /\ [Next]_vars => SwapInv'
  BY SwapInvStep
<1> QED
  BY <1>1, <1>2, Invariance, PTL DEF Spec

\* An applied change stays in the file until somebody takes a version back.
THEOREM AppliedStays == Spec /\ []NoRewrite => []AppliedIsInFile
<1>1. SwapInv => AppliedIsInFile
  BY DEF SwapInv
<1> QED
  BY <1>1, SwapsHold, PTL

\* The commit a row names holds the change the row is about.
THEOREM RowsNameTheirCommits == Spec /\ []NoRewrite => []RowNamesItsCommit
<1>1. SwapInv => RowNamesItsCommit
  BY DEF SwapInv
<1> QED
  BY <1>1, SwapsHold, PTL

\* SwapIsReviewedDiff as a step predicate.
SwapAdds ==
  \A r \in Approvers : pc[r] = "replace" /\ pc'[r] = "commit" =>
    file' = file \union {target[r]}

\* A step that swaps is the one the lemma above is about.
LEMMA SwapAddsStep ==
  ASSUME IInv, SwapInv, [Next]_vars
  PROVE  SwapAdds
<1> SUFFICES ASSUME NEW r \in Approvers, pc[r] = "replace", pc'[r] = "commit"
             PROVE  file' = file \union {target[r]}
  BY DEF SwapAdds
<1>1. Replace(r)
  BY ApprovalPath
<1>2. scratch[target[r]] # None
  BY <1>1 DEF Replace, Goto, IInv, TypeOK, Requests
<1> QED
  BY <1>1, <1>2, SwapAddsOne

\* What a swap publishes is the file it replaces and the one reviewed change.
THEOREM SwapsAreReviewed == Spec /\ []NoRewrite => SwapIsReviewedDiff
<1>1. IInv /\ SwapInv /\ [Next]_vars => [SwapAdds]_vars
  BY SwapAddsStep
<1>2. [][SwapAdds]_vars => SwapIsReviewedDiff
  BY PTL DEF SwapIsReviewedDiff, SwapAdds
<1> QED
  BY <1>1, <1>2, Invariance, SwapsHold, PTL DEF Spec

(***************************************************************************)
(* The copy a reviewer approves.  The sweep deletes by a list it read        *)
(* earlier, and a supersede by a list it read before its UPDATE; without     *)
(* either, a copy is deleted only when its proposal is over.                 *)
(***************************************************************************)
OnePerSession == \A p, q \in Proposals : SessionOf[p] = SessionOf[q] => p = q

\* No proposal finds an earlier one to supersede.
NothingListed ==
  \A p \in Proposals : listed[p] = {} /\ pc[p] \notin {"drop", "supersede"}

\* A request deletes the copy after the status has made it useless.
DropsAreTerminal ==
  \A r \in Proposals \union Rejecters \union Approvers :
    pc[r] = "drop_scratch" => status[OwnScratch(r)] \in Terminal

\* The copy is there as long as somebody may approve it, or is about to swap it in.
CopiesWait ==
  /\ \A p \in Proposals : (pc[p] = "create" \/ status[p] = "pending") => scratch[p] # None
  /\ \A r \in Approvers :
       pc[r] \in {"lock", "check", "snapshot", "replace"} => scratch[target[r]] # None

CopyInv ==
  /\ NothingListed
  /\ DropsAreTerminal
  /\ CopiesWait

\* With one proposal for each session there is nothing to supersede.
LEMMA ListedStep ==
  ASSUME IInv, NothingListed, OnePerSession, [Next]_vars
  PROVE  NothingListed'
<1> SUFFICES ASSUME NEW p \in Proposals
             PROVE  listed'[p] = {} /\ pc'[p] \notin {"drop", "supersede"}
  BY DEF NothingListed
<1>a. /\ pc \in [Requests -> Labels] /\ p \in Requests /\ p \notin Approvers
      /\ listed \in [Proposals \union Sweepers -> SUBSET Proposals]
      /\ listed[p] = {} /\ pc[p] \notin {"drop", "supersede"}
  BY RequestsAssumption DEF IInv, TypeOK, Requests, NothingListed
<1> USE <1>a DEF Goto, local
<1>1. CASE ListPending(p)
  <2>1. status[p] = "none"
    BY <1>1 DEF ListPending, IInv, RequestsKnow, Attempting
  <2>2. PendingIn(SessionOf[p]) = {}
    BY <2>1 DEF PendingIn, OnePerSession, IInv, TypeOK
  <2> QED
    BY <1>1, <2>2 DEF ListPending
<1>2. CASE \/ Resolve(p) \/ Fingerprint(p) \/ CopyScratch(p) \/ CreateProposal(p)
           \/ LinkMessage(p) \/ DropScratch(p)
  BY <1>2 DEF Resolve, Fingerprint, CopyScratch, CreateProposal, LinkMessage, DropScratch
<1>3. CASE Generate(p) \/ RunCode(p) \/ Guardian(p)
  BY <1>3 DEF Generate, RunCode, Guardian, FailAttempt
<1>4. CASE DropListed(p) \/ SupersedePending(p)
  BY <1>4 DEF DropListed, SupersedePending
<1>5. CASE Crash
  BY <1>5 DEF Crash
<1> QED
  BY <1>1, <1>2, <1>3, <1>4, <1>5, ProposeMoves DEF ProposeStep

\* A request goes on to delete a copy only after it has ended the proposal.
LEMMA DropsStep ==
  ASSUME IInv, CopyInv, [Next]_vars
  PROVE  DropsAreTerminal'
<1> SUFFICES ASSUME NEW r \in Proposals \union Rejecters \union Approvers,
                    pc'[r] = "drop_scratch"
             PROVE  status'[OwnScratch(r)'] \in Terminal
  BY DEF DropsAreTerminal, OwnScratch
<1>a. /\ pc \in [Requests -> Labels] /\ r \in Requests
      /\ status \in [Proposals -> Status]
      /\ target \in [Approvers \union Rejecters -> Proposals \union {None}]
      /\ RequestsKnow
  BY DEF IInv, TypeOK, Requests
<1>b. /\ Proposals \intersect (Rejecters \union Approvers) = {}
      /\ Rejecters \intersect Approvers = {}
      /\ Restorers \intersect Approvers = {}
  BY RequestsAssumption
<1>c. ASSUME NEW p \in Proposals, status[p] \in Terminal PROVE status'[p] \in Terminal
  BY <1>c, AdvanceStep DEF Advance
<1> USE <1>a DEF Goto, local, OwnScratch, SetStatus, Terminal
<1>1. CASE pc[r] = "drop_scratch" /\ (r \in Proposals \/ target'[r] = target[r])
  <2>1. OwnScratch(r)' = OwnScratch(r) /\ OwnScratch(r) \in Proposals
    BY <1>1 DEF RequestsKnow
  <2>2. status[OwnScratch(r)] \in Terminal
    BY <1>1 DEF CopyInv, DropsAreTerminal
  <2> QED
    BY <1>c, <2>1, <2>2
<1>2. CASE r \in Proposals /\ pc[r] # "drop_scratch"
  <2>1. CASE Guardian(r)
    BY <1>2, <2>1 DEF Guardian
  <2>2. CASE Generate(r) \/ RunCode(r)
    BY <1>2, <2>2 DEF Generate, RunCode, FailAttempt
  <2>3. CASE \/ ListPending(r) \/ DropListed(r) \/ SupersedePending(r) \/ Resolve(r)
             \/ Fingerprint(r) \/ CopyScratch(r) \/ CreateProposal(r) \/ LinkMessage(r)
             \/ DropScratch(r) \/ Crash
    BY <1>2, <2>3 DEF ListPending, DropListed, SupersedePending, Resolve, Fingerprint,
       CopyScratch, CreateProposal, LinkMessage, DropScratch, Crash
  <2> QED
    BY <1>2, <2>1, <2>2, <2>3, ProposeMoves DEF ProposeStep
<1>3. CASE r \in Rejecters /\ pc[r] # "drop_scratch"
  <2>1. CASE Reject(r)
    BY <1>3, <1>b, <2>1 DEF Reject, RequestsKnow
  <2>2. CASE DropScratch(r) \/ Crash \/ \E p \in Proposals : RejectRead(r, p)
    BY <1>3, <2>2 DEF DropScratch, Crash, RejectRead
  <2> QED
    BY <1>3, <2>1, <2>2, RejectMoves
<1>4. CASE r \in Approvers /\ pc[r] # "drop_scratch"
  <2>1. CASE MarkFailed(r)
    BY <1>4, <1>b, <2>1 DEF MarkFailed, RequestsKnow
  <2>2. CASE Check(r) \/ Replace(r) \/ Record(r) \/ Claim(r)
    BY <1>4, <2>2 DEF Check, Refusal, Replace, Record, Claim
  <2>3. CASE \/ Lock(r) \/ Snapshot(r) \/ Commit(r) \/ FailRollback(r) \/ RefreshOpen(r)
             \/ RefreshUpsert(r) \/ DropScratch(r) \/ Crash
             \/ \E p \in Proposals : ApproveRead(r, p)
             \/ FaultInExecute(r) \/ FaultInRollback(r) \/ FaultInIndexing(r)
    BY <1>4, <1>b, <2>3 DEF Lock, Snapshot, Commit, FailRollback, RefreshOpen, RefreshUpsert,
       DropScratch, Crash, ApproveRead, FaultInExecute, FaultInRollback, FaultInIndexing
  <2> QED
    BY <1>4, <2>1, <2>2, <2>3, ApproveMoves DEF ApproveStep
<1>5. CASE pc[r] = "drop_scratch" /\ r \in Rejecters
  BY <1>1, <1>5, RejectMoves DEF Reject, DropScratch, Crash, RejectRead
<1>6. CASE pc[r] = "drop_scratch" /\ r \in Approvers
  BY <1>1, <1>6, ApprovalPath
<1> QED
  BY <1>1, <1>2, <1>3, <1>4, <1>5, <1>6

\* No delete reaches a copy that is still needed.
LEMMA WaitStep ==
  ASSUME IInv, CopyInv, Sweepers = {}, [Next]_vars
  PROVE  CopiesWait'
<1>a. /\ pc \in [Requests -> Labels]
      /\ status \in [Proposals -> Status] /\ file \in Contents /\ file # None
      /\ scratch \in [Proposals -> Contents \union {None}]
      /\ RequestsKnow /\ SoleExecutor /\ CopiesWait /\ DropsAreTerminal /\ NothingListed
  BY NoneAssumption DEF IInv, TypeOK, CopyInv, Contents
\* A copy that somebody waits for is not deleted.
<1>1. ASSUME NEW p \in Proposals, scratch[p] # None,
             status[p] \in {"pending", "approved"} \/ pc[p] = "create",
             \A r \in Approvers : ~(Replace(r) /\ target[r] = p)
      PROVE  scratch'[p] # None
  <2>1. status[p] \notin Terminal
    BY <1>a, <1>1 DEF RequestsKnow, Terminal
  <2>2. ~CopyScratch(p) /\ ~RunCode(p)
    BY <1>a, <1>1 DEF CopyScratch, RunCode, RequestsKnow, Attempting
  <2>3. \A q \in Proposals : ~DropListed(q)
    BY <1>a DEF DropListed, NothingListed
  <2>4. \A r \in Proposals \union Rejecters \union Approvers : DropScratch(r) => OwnScratch(r) # p
    BY <1>a, <2>1 DEF DropScratch, DropsAreTerminal
  <2> QED
    BY <1>1, <2>2, <2>3, <2>4, CopyFate
<1>2. ASSUME NEW p \in Proposals, pc'[p] = "create" \/ status'[p] = "pending"
      PROVE  scratch'[p] # None
  <2>1. ASSUME NEW r \in Approvers, Replace(r), target[r] = p PROVE FALSE
    <3>1. status[p] = "approved"
      BY <1>a, <2>1 DEF Replace, SoleExecutor, Claiming, InTransaction
    <3>2. status'[p] = "approved" /\ pc'[p] = pc[p]
      BY <1>a, <2>1, <3>1, RequestsAssumption DEF Replace, Goto, Requests
    <3> QED
      BY <1>2, <1>a, <3>1, <3>2 DEF RequestsKnow
  <2>2. CASE pc[p] = "create" \/ status[p] = "pending"
    BY <1>1, <1>a, <2>1, <2>2 DEF CopiesWait
  <2>3. CASE pc[p] # "create" /\ pc'[p] = "create"
    <3>1. RunCode(p) /\ p \in Requests
      BY <1>a, <2>3, PathStep DEF Fingerprint, Goto, Unread, Requests
    <3>2. scratch[p] # None /\ scratch'[p] = scratch[p] \union {p}
      BY <1>a, <2>3, <3>1 DEF RunCode, FailAttempt, Goto
    <3>3. scratch[p] \union {p} \in Contents
      BY <1>a, <3>2 DEF Contents
    <3> QED
      BY <3>2, <3>3, NoneAssumption DEF Contents
  <2>4. CASE pc[p] # "create" /\ status[p] # "pending" /\ status'[p] = "pending"
    BY <1>a, <2>4, StatusFate DEF CreateProposal
  <2> QED
    BY <1>2, <2>2, <2>3, <2>4
<1>3. ASSUME NEW r \in Approvers, pc'[r] \in {"lock", "check", "snapshot", "replace"}
      PROVE  scratch'[target'[r]] # None
  <2>a. r \in Requests /\ r \notin Restorers
    BY RequestsAssumption DEF Requests
  <2>1. /\ target'[r] = target[r] /\ target[r] \in Proposals /\ scratch[target[r]] # None
        /\ status[target[r]] \in {"pending", "approved"}
        /\ ~Replace(r)
    <3>1. CASE pc'[r] = pc[r] /\ target'[r] = target[r]
      BY <1>3, <1>a, <2>a, <3>1 DEF CopiesWait, RequestsKnow, SoleExecutor, Claiming,
         InTransaction, Replace, Goto
    <3>2. CASE Claim(r)
      BY <1>3, <1>a, <2>a, <3>2 DEF Claim, CopiesWait, RequestsKnow, Goto, local, Replace
    <3>3. CASE Lock(r) \/ Check(r) \/ Snapshot(r)
      BY <1>3, <1>a, <2>a, <3>3 DEF Lock, Check, Refusal, Snapshot, CopiesWait, RequestsKnow,
         SoleExecutor, Claiming, InTransaction, Goto, local, Replace
    <3>4. CASE Replace(r) \/ Record(r)
      BY <1>3, <1>a, <2>a, <3>4 DEF Replace, Record, Goto
    <3>5. CASE \/ Commit(r) \/ FailRollback(r) \/ RefreshOpen(r) \/ MarkFailed(r)
               \/ RefreshUpsert(r) \/ DropScratch(r) \/ Crash
               \/ \E p \in Proposals : ApproveRead(r, p)
               \/ FaultInExecute(r) \/ FaultInRollback(r) \/ FaultInIndexing(r)
      BY <1>3, <1>a, <2>a, <3>5 DEF Commit, FailRollback, RefreshOpen, MarkFailed,
         RefreshUpsert, DropScratch, Crash, ApproveRead, FaultInExecute, FaultInRollback,
         FaultInIndexing, Goto
    <3> QED
      BY <3>1, <3>2, <3>3, <3>4, <3>5, ApproveMoves DEF ApproveStep
  <2>2. ASSUME NEW s \in Approvers, Replace(s), target[s] = target[r] PROVE FALSE
    <3>1. s # r /\ pc[s] \in Claiming /\ status[target[r]] = "approved"
      BY <1>a, <2>1, <2>2 DEF Replace, SoleExecutor, Claiming, InTransaction
    <3>2. pc'[r] = pc[r]
      BY <1>a, <2>a, <2>2, <3>1 DEF Replace, Goto
    <3> QED
      BY <1>3, <1>a, <2>2, <3>1, <3>2 DEF SoleExecutor, Claiming, InTransaction
  <2> QED
    BY <1>1, <2>1, <2>2
<1> QED
  BY <1>2, <1>3 DEF CopiesWait

\* Every step keeps the copies that are needed.
LEMMA CopyInvStep ==
  ASSUME IInv, CopyInv, Sweepers = {}, OnePerSession, [Next]_vars
  PROVE  CopyInv'
BY ListedStep, DropsStep, WaitStep DEF CopyInv

\* No copy is needed before any request arrives.
LEMMA InitCopyInv == Init => CopyInv
<1> SUFFICES ASSUME Init PROVE CopyInv
  OBVIOUS
<1> QED
  BY DEF Init, CopyInv, NothingListed, DropsAreTerminal, CopiesWait, Requests

\* Whatever users, faults and crashes do, a copy stays as long as it is needed.
LEMMA CopiesHold == Sweepers = {} /\ OnePerSession => (Spec => []CopyInv)
<1> SUFFICES ASSUME Sweepers = {}, OnePerSession PROVE Spec => []CopyInv
  OBVIOUS
<1>1. Init => CopyInv
  BY InitCopyInv
<1>2. IInv /\ CopyInv /\ [Next]_vars => CopyInv'
  BY CopyInvStep
<1> QED
  BY <1>1, <1>2, Invariance, PTL DEF Spec

\* A proposal that waits for review has its copy, if no sweep runs and no later
\* request of the session supersedes it.
THEOREM PendingKeepsScratch ==
  Sweepers = {} /\ OnePerSession => (Spec => []PendingHasScratch)
<1> SUFFICES ASSUME Sweepers = {}, OnePerSession PROVE Spec => []PendingHasScratch
  OBVIOUS
<1>1. CopyInv => PendingHasScratch
  BY DEF CopyInv, CopiesWait, PendingHasScratch
<1> QED
  BY <1>1, CopiesHold, PTL

(***************************************************************************)
(* What is left behind.  A terminal proposal keeps its copy only until the  *)
(* request that ended it has deleted it.                                    *)
(***************************************************************************)
CopiesEnd ==
  /\ \A p \in Proposals : status[p] \in Terminal /\ scratch[p] # None =>
       \/ status[p] = "superseded"
       \/ crashes > 0
       \/ \E r \in Proposals \union Rejecters \union Approvers :
            pc[r] = "drop_scratch" /\ OwnScratch(r) = p
  /\ \A r \in Approvers : pc[r] \in {"refuse", "commit", "record"} => scratch[target[r]] = None

\* A request that is about to delete a copy still is, or has deleted it, unless
\* the server dies.
LEMMA DropperStays ==
  ASSUME IInv, [Next]_vars, ~Crash, NEW r \in Proposals \union Rejecters \union Approvers,
         pc[r] = "drop_scratch"
  PROVE  \/ pc'[r] = "drop_scratch" /\ OwnScratch(r)' = OwnScratch(r)
         \/ scratch'[OwnScratch(r)] = None
<1>a. r \in Proposals \/ target[r] \in Proposals
  BY DEF IInv, RequestsKnow
<1>1. DropScratch(r) => scratch'[OwnScratch(r)] = None
  BY <1>a DEF DropScratch, Delete, OwnScratch
<1>2. CASE r \in Proposals
  BY <1>1, <1>2, ProposeMoves DEF OwnScratch, ListPending, ProposeStep, DropListed,
     SupersedePending, Resolve, Fingerprint, Generate, CopyScratch, RunCode, CreateProposal,
     Guardian, LinkMessage
<1>3. CASE r \in Rejecters
  BY <1>1, <1>3, RejectMoves DEF OwnScratch, Reject, RejectRead
<1>4. CASE r \in Approvers
  BY <1>1, <1>4, ApproveMoves DEF OwnScratch, ApproveRead, ApproveStep, Claim, Lock, Check,
     Snapshot, Replace, Commit, Record, MarkFailed, FailRollback, RefreshOpen, RefreshUpsert,
     FaultInExecute, FaultInRollback, FaultInIndexing
<1> QED
  BY <1>2, <1>3, <1>4

\* Crashes are counted, and only a crash is.
LEMMA CrashesStep ==
  ASSUME IInv, [Next]_vars
  PROVE  crashes \in Nat /\ crashes' = IF Crash THEN crashes + 1 ELSE crashes
<1>1. crashes \in Nat
  BY DEF IInv, TypeOK
<1>2. ~Crash => crashes' = crashes
  BY DEF Next, Start, Serve, env, vars, ListPending, ProposeStep, DropListed, SupersedePending,
     Resolve, Fingerprint, Generate, CopyScratch, RunCode, CreateProposal, Guardian,
     LinkMessage, Reject, RejectRead, ApproveRead, ApproveStep, Claim, Lock, Check, Snapshot,
     Replace, Commit, Record, MarkFailed, FailRollback, RefreshOpen, RefreshUpsert,
     DropScratch, RestoreRollback, RestoreStep, RestoreHead, RestoreRecord, RestoreParse,
     RestoreMark, RestoreOpen, RestoreReindex, RestoreUnsynced, RestoreTrack, SweepList,
     SweepDelete, Fault
<1> QED
  BY <1>1, <1>2 DEF Crash

\* An approval that refused for want of a copy, or has swapped it in, leaves none.
LEMMA GoneStep ==
  ASSUME IInv, CopiesEnd, [Next]_vars, NEW r \in Approvers,
         pc'[r] \in {"refuse", "commit", "record"}
  PROVE  scratch'[target'[r]] = None
<1>a. /\ pc \in [Requests -> Labels] /\ r \in Requests /\ r \notin Restorers
      /\ scratch \in [Proposals -> Contents \union {None}]
      /\ RequestsKnow /\ SoleExecutor
  BY RequestsAssumption DEF IInv, TypeOK, Requests
<1>1. ASSUME NEW p \in Proposals, scratch[p] = None, status[p] = "approved"
      PROVE  scratch'[p] = None
  BY <1>a, <1>1, CopyFate DEF CopyScratch, RunCode, RequestsKnow, Attempting
<1>2. CASE pc[r] \in {"refuse", "commit", "record"} /\ target'[r] = target[r]
  BY <1>1, <1>2, <1>a DEF CopiesEnd, RequestsKnow, SoleExecutor, Claiming, InTransaction
<1>3. CASE Check(r) /\ pc'[r] = "refuse"
  <2>1. /\ target'[r] = target[r] /\ target[r] \in Proposals
        /\ status[target[r]] = "approved" /\ scratch[target[r]] = None
    BY <1>3, <1>a DEF Check, Refusal, Goto, local, RequestsKnow, SoleExecutor, Claiming,
       InTransaction
  <2> QED
    BY <1>1, <2>1
<1>4. CASE Replace(r) /\ pc'[r] = "commit"
  BY <1>4, <1>a DEF Replace, Goto, local, Delete, RequestsKnow
<1>5. pc[r] \in {"refuse", "commit", "record"} => target'[r] = target[r]
  BY ApprovalPath
<1>6. pc'[r] = "refuse" => pc[r] = "refuse" \/ Check(r)
  <2>1. CASE \/ Claim(r) \/ Lock(r) \/ Replace(r) \/ MarkFailed(r) \/ Record(r)
             \/ DropScratch(r)
    BY <1>a, <2>1 DEF Claim, Lock, Replace, MarkFailed, Record, DropScratch, Goto
  <2>2. CASE \/ Snapshot(r) \/ Commit(r) \/ FailRollback(r) \/ RefreshOpen(r)
             \/ RefreshUpsert(r) \/ Crash
             \/ \E p \in Proposals : ApproveRead(r, p)
             \/ FaultInExecute(r) \/ FaultInRollback(r) \/ FaultInIndexing(r)
    BY <1>a, <2>2 DEF Snapshot, Commit, FailRollback, RefreshOpen, RefreshUpsert, Crash,
       ApproveRead, FaultInExecute, FaultInRollback, FaultInIndexing, Goto
  <2> QED
    BY <2>1, <2>2, ApproveMoves DEF ApproveStep
<1> QED
  BY <1>2, <1>3, <1>4, <1>5, <1>6, ApprovalPath DEF Commit

\* Whoever ends a proposal goes on to delete its copy.
LEMMA EndStep ==
  ASSUME IInv, CopiesEnd, [Next]_vars
  PROVE  CopiesEnd'
<1>a. /\ pc \in [Requests -> Labels] /\ status \in [Proposals -> Status]
      /\ scratch \in [Proposals -> Contents \union {None}]
      /\ RequestsKnow /\ SoleExecutor
      /\ Proposals \union Rejecters \union Approvers \subseteq Requests
      /\ \A p \in Proposals : p \notin Approvers
  BY RequestsAssumption DEF IInv, TypeOK, Requests
<1>1. ASSUME NEW p \in Proposals, status'[p] \in Terminal, scratch'[p] # None,
             status'[p] # "superseded", crashes' = 0
      PROVE  \E r \in Proposals \union Rejecters \union Approvers :
               pc'[r] = "drop_scratch" /\ OwnScratch(r)' = p
  <2>1. ~Crash /\ crashes = 0
    BY <1>1, CrashesStep
  <2>2. CASE status[p] \in Terminal
    <3>1. status'[p] = status[p]
      BY <2>2, AdvanceStep DEF Advance
    <3>2. scratch[p] # None
      BY <1>1, <1>a, <2>2, CopyFate DEF CopyScratch, RunCode, RequestsKnow, Attempting, Terminal
    <3>3. PICK r \in Proposals \union Rejecters \union Approvers :
            pc[r] = "drop_scratch" /\ OwnScratch(r) = p
      BY <1>1, <2>1, <2>2, <3>1, <3>2 DEF CopiesEnd
    <3> QED
      BY <1>1, <2>1, <3>3, DropperStays
  <2>3. CASE status[p] \notin Terminal
    <3>1. CASE status'[p] = "rejected"
      <4>1. \/ \E r \in Rejecters : Reject(r) /\ target[r] = p
            \/ Guardian(p) /\ pc'[p] = "drop_scratch"
        BY <2>3, <3>1, StatusFate DEF Terminal
      <4>2. ASSUME NEW r \in Rejecters, Reject(r), target[r] = p
            PROVE  pc'[r] = "drop_scratch" /\ OwnScratch(r)' = p
        BY <1>a, <2>3, <3>1, <4>2, RequestsAssumption
           DEF Reject, SetStatus, Goto, local, OwnScratch, Terminal
      <4> QED
        BY <4>1, <4>2 DEF OwnScratch
    <3>2. ASSUME NEW r \in Approvers, target[r] = p, MarkFailed(r)
          PROVE  pc'[r] = "drop_scratch" /\ OwnScratch(r)' = p
      <4>1. scratch[p] # None
        BY <1>1, <1>a, <3>2 DEF MarkFailed, disk
      <4>2. pc[r] # "refuse"
        BY <3>2, <4>1 DEF CopiesEnd
      <4> QED
        BY <1>a, <3>2, <4>2 DEF MarkFailed, Goto, local, OwnScratch
    <3>3. ASSUME NEW r \in Approvers, target[r] = p, Record(r) PROVE FALSE
      BY <1>1, <3>3 DEF Record, CopiesEnd, disk
    <3> QED
      BY <1>1, <2>3, <3>1, <3>2, <3>3, StatusFate DEF Terminal
  <2> QED
    BY <2>2, <2>3
<1>2. crashes' \in Nat
  BY CrashesStep
<1> QED
  BY <1>1, <1>2, GoneStep DEF CopiesEnd

\* Without a supersede no proposal is superseded.
LEMMA NeverSuperseded ==
  ASSUME IInv, NothingListed, \A p \in Proposals : status[p] # "superseded", [Next]_vars
  PROVE  \A p \in Proposals : status'[p] # "superseded"
BY StatusFate DEF NothingListed, SupersedePending

\* Once every request has been answered, the proposals that are over have no
\* copy, if the server has not died and no proposal is superseded.
THEOREM ScratchIsCleared ==
  MaxCrashes = 0 /\ OnePerSession => (Spec => []NoScratchLeft)
<1> SUFFICES ASSUME MaxCrashes = 0, OnePerSession PROVE Spec => []NoScratchLeft
  OBVIOUS
<1> DEFINE Inv == /\ NothingListed /\ CopiesEnd
                  /\ \A p \in Proposals : status[p] # "superseded"
<1>1. Init => Inv
  BY DEF Init, NothingListed, CopiesEnd, Terminal, Requests
<1>2. IInv /\ Inv /\ [Next]_vars => Inv'
  BY ListedStep, EndStep, NeverSuperseded
<1>3. IInv /\ Inv => NoScratchLeft
  <2> SUFFICES ASSUME IInv, CopiesEnd, Quiet, NEW p \in Proposals, status[p] \in Terminal,
                      status[p] # "superseded", scratch[p] # None
               PROVE  FALSE
    BY DEF NoScratchLeft
  <2>1. crashes = 0
    BY DEF IInv, TypeOK
  <2>2. PICK r \in Proposals \union Rejecters \union Approvers : pc[r] = "drop_scratch"
    BY <2>1 DEF CopiesEnd
  <2> QED
    BY <2>2 DEF Quiet, Requests
<1> HIDE DEF Inv
<1> QED
  BY <1>1, <1>2, <1>3, Invariance, PTL DEF Spec

(***************************************************************************)
(* An approval that is left alone.  With no restore, no sweep, no error and  *)
(* no supersede, an approval that has passed its checks cannot fail, so      *)
(* nothing is ever taken back.                                               *)
(***************************************************************************)
Calm == Restorers = {} /\ Sweepers = {} /\ MaxFaults = 0 /\ OnePerSession

\* A refusal has no rollback point, and the hash of a new commit is new.
NoFail ==
  \A r \in Approvers :
    /\ pc[r] \notin {"fail", "rollback"}
    /\ pc[r] \in {"idle", "claim", "lock", "check", "refuse", "refuse_stale", "drop_scratch"} =>
         parent[r] = 0
    /\ pc[r] = "record" => ~HashTaken(hash[r])

\* Without restores only the end of an approval writes a row.
LEMMA RowsByRecord ==
  ASSUME Restorers = {}, [Next]_vars
  PROVE  rows' = rows \/ \E r \in Approvers : Record(r)
BY DEF Next, Start, Serve, db, vars, ListPending, ProposeStep, DropListed, SupersedePending,
   Resolve, Fingerprint, Generate, CopyScratch, RunCode, CreateProposal, Guardian,
   LinkMessage, Reject, RejectRead, ApproveRead, ApproveStep, Claim, Lock, Check, Snapshot,
   Replace, Commit, MarkFailed, FailRollback, RefreshOpen, RefreshUpsert,
   DropScratch, SweepList, SweepDelete, Fault, FaultInExecute, FaultInRollback,
   FaultInIndexing, Crash

\* An approval that is left alone passes from its checks to its end.
LEMMA NoFailStep ==
  ASSUME IInv, CopyInv, NoFail, Calm, [Next]_vars
  PROVE  NoFail'
<1> SUFFICES ASSUME NEW r \in Approvers
             PROVE  /\ pc'[r] \notin {"fail", "rollback"}
                    /\ pc'[r] \in {"idle", "claim", "lock", "check", "refuse", "refuse_stale",
                                   "drop_scratch"} => parent'[r] = 0
                    /\ pc'[r] = "record" => ~HashTaken(hash[r])'
  BY DEF NoFail, HashTaken
<1>a. /\ pc \in [Requests -> Labels] /\ r \in Requests /\ r \notin Restorers
      /\ parent \in [Approvers -> Nat] /\ hash \in [Approvers \union Restorers -> Nat]
      /\ git \in Seq(Contents) /\ rows \in SUBSET [hash : Nat, change : Proposals \union {None}]
      /\ HashesExist /\ LockHeldByTransaction /\ faults \in Nat
  BY RequestsAssumption DEF IInv, TypeOK, Requests
<1>b. /\ pc[r] \notin {"fail", "rollback"}
      /\ pc[r] \in {"idle", "claim", "lock", "check", "refuse", "refuse_stale", "drop_scratch"} =>
           parent[r] = 0
      /\ pc[r] = "record" => ~HashTaken(hash[r])
  BY DEF NoFail
<1> USE <1>a, <1>b DEF Goto, local
<1>1. CASE pc'[r] = pc[r] /\ parent'[r] = parent[r] /\ hash'[r] = hash[r]
  <2>1. ASSUME pc[r] = "record", NEW s \in Approvers, Record(s) PROVE FALSE
    <3>1. s = r
      BY <2>1 DEF Record, LockHeldByTransaction, InTransaction
    <3> QED
      BY <1>1, <2>1, <3>1 DEF Record
  <2>2. pc[r] = "record" => rows' = rows
    BY <2>1, RowsByRecord DEF Calm
  <2> QED
    BY <1>1, <2>2 DEF HashTaken
<1>2. CASE \/ Claim(r) \/ Lock(r) \/ Check(r) \/ MarkFailed(r) \/ RefreshOpen(r)
           \/ RefreshUpsert(r) \/ \E p \in Proposals : ApproveRead(r, p)
  BY <1>2 DEF Claim, Lock, Check, Refusal, MarkFailed, RefreshOpen, RefreshUpsert, ApproveRead
<1>3. CASE Snapshot(r) \/ FailRollback(r) \/ Crash
  <2>1. CASE Snapshot(r)
    BY <2>1 DEF Snapshot
  <2>2. CASE Crash
    <3>1. (pc'[r] = pc[r] /\ pc[r] \in {"idle", "done"}) \/ pc'[r] = "dead"
      BY <2>2, RequestsAssumption DEF Crash
    <3>2. parent' = parent
      BY <2>2 DEF Crash
    <3> QED
      BY <3>1, <3>2
  <2> QED
    BY <1>3, <2>1, <2>2 DEF FailRollback
<1>4. CASE Replace(r)
  <2>1. scratch[target[r]] # None
    BY <1>4 DEF Replace, CopyInv, CopiesWait
  <2> QED
    BY <1>4, <2>1 DEF Replace
<1>5. CASE Commit(r)
  <2>1. rows' = rows /\ hash'[r] = Len(git) + 1 /\ pc'[r] = "record"
    BY <1>5 DEF Commit, db
  <2>2. \A row \in rows : row.hash # Len(git) + 1
    BY DEF HashesExist
  <2> QED
    BY <2>1, <2>2 DEF HashTaken
<1>6. CASE Record(r)
  BY <1>6 DEF Record
<1>7. CASE DropScratch(r)
  BY <1>7 DEF DropScratch
<1>8. ~Fault
  BY DEF Fault, Calm
<1> QED
  BY <1>1, <1>2, <1>3, <1>4, <1>5, <1>6, <1>7, <1>8, ApproveMoves DEF ApproveStep

\* Left alone, no approval fails past its checks.
LEMMA NothingFails == Calm => (Spec => []NoFail)
<1> SUFFICES ASSUME Calm PROVE Spec => []NoFail
  OBVIOUS
<1>1. Init => NoFail
  BY DEF Init, NoFail, Requests
<1>2. IInv /\ CopyInv /\ NoFail /\ [Next]_vars => NoFail'
  BY NoFailStep
<1>3. Spec => []CopyInv
  BY CopiesHold DEF Calm
<1> QED
  BY <1>1, <1>2, <1>3, Invariance, PTL DEF Spec

\* Left alone, the file is never taken back: every swap publishes the reviewed
\* change, and what is applied stays, in the file and in the commit of its row.
THEOREM LeftAlone ==
  Calm => (Spec => SwapIsReviewedDiff /\ []AppliedIsInFile /\ []RowNamesItsCommit)
<1> SUFFICES ASSUME Calm
             PROVE  Spec => SwapIsReviewedDiff /\ []AppliedIsInFile /\ []RowNamesItsCommit
  OBVIOUS
<1>1. NoFail => NoRewrite
  BY DEF NoFail, NoRewrite, Calm
<1>2. Spec => []NoRewrite
  BY <1>1, NothingFails, PTL
<1> QED
  BY <1>2, SwapsAreReviewed, AppliedStays, RowsNameTheirCommits, PTL

(***************************************************************************)
(* The refinement: an approval that is left alone is a compare-and-swap on   *)
(* the content its change was reviewed against.                             *)
(***************************************************************************)
Stages == {"none", "open", "claimed", "applied", "closed"}

\* How a proposal appears to the abstract specification, before and after a step.
LEMMA StageOf ==
  ASSUME IInv, NEW p \in Proposals
  PROVE  /\ status[p] = "none" => ReviewState[p] = "none"
         /\ status[p] = "pending" => ReviewState[p] = "open"
         /\ status[p] \notin {"none", "pending"} /\ SwappedIn(p) => ReviewState[p] = "applied"
         /\ status[p] = "approved" /\ ~SwappedIn(p) => ReviewState[p] = "claimed"
         /\ status[p] \notin {"none", "pending", "approved"} /\ ~SwappedIn(p) =>
              ReviewState[p] = "closed"
<1>a. status[p] \in {"none", "pending"} => ~SwappedIn(p)
  BY DEF IInv, SwappedIn, SoleExecutor, Claiming, InTransaction
<1>0. CASE status[p] = "none"
  BY <1>0, <1>a DEF ReviewState
<1>1. CASE status[p] = "pending"
  BY <1>1, <1>a DEF ReviewState
<1>2. CASE status[p] \notin {"none", "pending"} /\ SwappedIn(p)
  BY <1>2 DEF ReviewState
<1>3. CASE status[p] \notin {"none", "pending"} /\ ~SwappedIn(p)
  BY <1>3 DEF ReviewState
<1> QED
  BY <1>0, <1>1, <1>2, <1>3

\* The same after a step.
LEMMA StageOfPrime ==
  ASSUME IInv', NEW p \in Proposals
  PROVE  /\ status'[p] = "none" => ReviewState'[p] = "none"
         /\ status'[p] = "pending" => ReviewState'[p] = "open"
         /\ status'[p] \notin {"none", "pending"} /\ SwappedIn(p)' => ReviewState'[p] = "applied"
         /\ status'[p] = "approved" /\ ~SwappedIn(p)' => ReviewState'[p] = "claimed"
         /\ status'[p] \notin {"none", "pending", "approved"} /\ ~SwappedIn(p)' =>
              ReviewState'[p] = "closed"
<1>a. status'[p] \in {"none", "pending"} => ~SwappedIn(p)'
  BY DEF IInv, SwappedIn, SoleExecutor, Claiming, InTransaction
<1>0. CASE status'[p] = "none"
  BY <1>0, <1>a DEF ReviewState
<1>1. CASE status'[p] = "pending"
  BY <1>1, <1>a DEF ReviewState
<1>2. CASE status'[p] \notin {"none", "pending"} /\ SwappedIn(p)'
  BY <1>2 DEF ReviewState
<1>3. CASE status'[p] \notin {"none", "pending"} /\ ~SwappedIn(p)'
  BY <1>3 DEF ReviewState
<1> QED
  BY <1>0, <1>1, <1>2, <1>3

\* Stages are a function on the proposals, before and after a step.
LEMMA StagesType == /\ ReviewState \in [Proposals -> Stages]
                    /\ ReviewState' \in [Proposals -> Stages]
BY DEF ReviewState, Stages

\* A change is in only after its own swap.
LEMMA SwappedBefore ==
  ASSUME IInv, [Next]_vars, NEW q \in Proposals, SwappedIn(q)'
  PROVE  \/ SwappedIn(q)
         \/ \E r \in Approvers : Replace(r) /\ target[r] = q /\ scratch[q] # None
<1>a. /\ pc \in [Requests -> Labels] /\ Approvers \subseteq Requests
  BY DEF IInv, TypeOK, Requests
<1>1. CASE status'[q] = "applied"
  BY <1>1, StatusFate DEF Record, SwappedIn
<1>2. ASSUME NEW r \in Approvers, pc'[r] \in {"commit", "record"}, target'[r] = q
      PROVE  \/ SwappedIn(q)
             \/ Replace(r) /\ target[r] = q /\ scratch[q] # None
  <2>1. target[r] = q
    BY <1>2, ApprovalPath
  <2>2. Replace(r) /\ pc'[r] = "commit" => scratch[q] # None
    BY <1>a, <2>1 DEF Replace, Goto
  <2>3. pc[r] \in {"commit", "record"} \/ (Replace(r) /\ pc'[r] = "commit")
    BY <1>2, ApprovalPath DEF Commit
  <2> QED
    BY <2>1, <2>2, <2>3 DEF SwappedIn
<1> QED
  BY <1>1, <1>2 DEF SwappedIn

\* What is in gets recorded: no error and no death of the server falls between a
\* swap and the end of its transaction.
PublishedKept == \A p \in Proposals : SwappedIn(p) => SwappedIn(p)'

\* That is so when nothing fails.
LEMMA KeptIfNothingFails ==
  ASSUME IInv, NoFail, [Next]_vars, ~Fault, ~Crash
  PROVE  PublishedKept
<1> SUFFICES ASSUME NEW p \in Proposals, SwappedIn(p)
             PROVE  SwappedIn(p)'
  BY DEF PublishedKept
<1>a. /\ pc \in [Requests -> Labels] /\ Approvers \subseteq Requests
      /\ status \in [Proposals -> Status]
  BY DEF IInv, TypeOK, Requests
<1>1. CASE status[p] = "applied"
  BY <1>1, AdvanceStep DEF Advance, Terminal, SwappedIn
<1>2. ASSUME NEW r \in Approvers, pc[r] \in {"commit", "record"}, target[r] = p
      PROVE  SwappedIn(p)'
  <2>1. CASE Record(r)
    BY <1>a, <1>2, <2>1 DEF Record, NoFail, SetStatus, SwappedIn
  <2>2. CASE \/ Claim(r) \/ Lock(r) \/ Check(r) \/ Snapshot(r) \/ Replace(r) \/ Commit(r)
             \/ MarkFailed(r) \/ FailRollback(r) \/ RefreshOpen(r) \/ RefreshUpsert(r)
             \/ DropScratch(r) \/ \E q \in Proposals : ApproveRead(r, q)
    BY <1>2, <1>a, <2>2 DEF Claim, Lock, Check, Snapshot, Replace, Commit, MarkFailed,
       FailRollback, RefreshOpen, RefreshUpsert, DropScratch, ApproveRead, Goto, local, SwappedIn
  <2>3. CASE pc'[r] = pc[r] /\ target'[r] = target[r]
    BY <1>2, <2>3 DEF SwappedIn
  <2> QED
    BY <2>1, <2>2, <2>3, ApproveMoves DEF ApproveStep
<1> QED
  BY <1>1, <1>2 DEF SwappedIn

\* Then only its swap changes whether a change is in.
LEMMA SwappedInStep ==
  ASSUME IInv, PublishedKept, [Next]_vars, NEW p \in Proposals,
         \A r \in Approvers : ~(Replace(r) /\ target[r] = p /\ scratch[p] # None)
  PROVE  SwappedIn(p)' <=> SwappedIn(p)
BY SwappedBefore DEF PublishedKept

\* A claimed row that has not been swapped in is what the abstract calls claimed.
LEMMA SoleSwap ==
  ASSUME IInv, NEW r \in Approvers, pc[r] \in Claiming \ {"commit", "record"}
  PROVE  target[r] \in Proposals /\ status[target[r]] = "approved" /\ ~SwappedIn(target[r])
<1>1. target[r] \in Proposals /\ status[target[r]] = "approved"
  BY DEF IInv, SoleExecutor, RequestsKnow, Claiming, InTransaction
<1>2. ASSUME NEW s \in Approvers, pc[s] \in {"commit", "record"}, target[s] = target[r] PROVE FALSE
  BY <1>2 DEF IInv, SoleExecutor, Claiming, InTransaction
<1> QED
  BY <1>1, <1>2 DEF SwappedIn

\* What the refinement rests on.
RefineInv == IInv /\ NoRewrite /\ SwapInv

\* The swap is the abstract compare-and-swap.
LEMMA ReplaceApplies ==
  ASSUME RefineInv, PublishedKept, [Next]_vars,
         NEW r \in Approvers, Replace(r), scratch[target[r]] # None
  PROVE  Reviewed!Apply(target[r])
<1> DEFINE t == target[r]
<1>a. /\ pc \in [Requests -> Labels] /\ Approvers \subseteq Requests
      /\ pc[r] = "replace" /\ status' = status /\ base' = base /\ target' = target
  BY DEF RefineInv, IInv, TypeOK, Requests, Replace, props, local
<1>1. /\ t \in Proposals /\ status[t] = "approved" /\ ~SwappedIn(t)
  BY <1>a, SoleSwap DEF RefineInv, Claiming, InTransaction
<1>2. file = base[t] /\ file' = file \union {t}
  BY <1>a, SwapAddsOne DEF RefineInv, SwapInv, CheckedIsBase
<1>3. SwappedIn(t)'
  BY <1>a DEF Replace, Goto, SwappedIn
<1>4. ReviewState[t] = "claimed" /\ ReviewState'[t] = "applied"
  BY <1>a, <1>1, <1>3, StageOf, StageOfPrime, InvStep DEF RefineInv
<1>5. ASSUME NEW q \in Proposals, q # t PROVE ReviewState'[q] = ReviewState[q]
  <2>1. SwappedIn(q)' <=> SwappedIn(q)
    <3>1. \A s \in Approvers : ~(Replace(s) /\ target[s] = q /\ scratch[q] # None)
      <4>1. ASSUME NEW s \in Approvers, Replace(s) PROVE s = r
        BY <1>a, <4>1 DEF Replace, RefineInv, IInv, LockHeldByTransaction, InTransaction
      <4> QED
        BY <1>5, <4>1
    <3> QED
      BY <3>1, SwappedInStep DEF RefineInv
  <2>2. status[q] \in Status
    BY DEF RefineInv, IInv, TypeOK
  <2> QED
    BY <1>a, <2>1, <2>2, StageOf, StageOfPrime, InvStep DEF RefineInv, Status
<1>6. ReviewState' = [ReviewState EXCEPT ![t] = "applied"]
  BY <1>1, <1>4, <1>5, StagesType
<1> QED
  BY <1>a, <1>2, <1>4, <1>6 DEF Reviewed!Apply

\* Every other step leaves the content alone and moves stages as the abstract
\* specification does.
LEMMA StageStep ==
  ASSUME RefineInv, PublishedKept, [Next]_vars, NEW p \in Proposals,
         \A r \in Approvers : ~(Replace(r) /\ scratch[target[r]] # None)
  PROVE  \/ ReviewState'[p] = ReviewState[p]
         \/ /\ CreateProposal(p) /\ status'[p] # status[p]
            /\ ReviewState[p] = "none" /\ ReviewState'[p] = "open"
         \/ /\ ReviewState[p] = "open" /\ ReviewState'[p] = "claimed" /\ status'[p] # status[p]
            /\ \E r \in Approvers : Claim(r) /\ target[r] = p
         \/ /\ ReviewState[p] \in {"open", "claimed"} /\ ReviewState'[p] = "closed"
            /\ status'[p] # status[p]
            /\ \/ Guardian(p)
               \/ \E r \in Rejecters : Reject(r) /\ target[r] = p
               \/ \E r \in Approvers : MarkFailed(r) /\ target[r] = p
               \/ \E q \in Proposals : SupersedePending(q)
<1>a. /\ status \in [Proposals -> Status] /\ RequestsKnow /\ SoleExecutor
  BY DEF RefineInv, IInv, TypeOK
<1>b. SwappedIn(p)' <=> SwappedIn(p)
  BY SwappedInStep DEF RefineInv
<1>c. status[p] \in {"none", "pending"} => ~SwappedIn(p)
  BY <1>a DEF SwappedIn, SoleExecutor, Claiming, InTransaction
<1>1. CASE status'[p] = status[p]
  BY <1>1, <1>a, <1>b, StageOf, StageOfPrime, InvStep DEF RefineInv, Status
<1>2. CASE CreateProposal(p) /\ status'[p] = "pending"
  <2>1. status[p] = "none"
    BY <1>2, <1>a DEF CreateProposal, RequestsKnow
  <2> QED
    BY <1>2, <2>1, StageOf, StageOfPrime, InvStep DEF RefineInv
<1>3. CASE status[p] = "pending" /\ status'[p] \in {"rejected", "approved"}
  <2>1. ~SwappedIn(p)'
    BY <1>3, <1>b, <1>c
  <2>2. ReviewState[p] = "open"
    BY <1>3, StageOf DEF RefineInv
  <2>3. ReviewState'[p] = IF status'[p] = "rejected" THEN "closed" ELSE "claimed"
    BY <1>3, <2>1, StageOfPrime, InvStep DEF RefineInv
  <2>4. \/ status'[p] = "rejected" /\ (Guardian(p) \/ \E r \in Rejecters : Reject(r) /\ target[r] = p)
        \/ status'[p] = "approved" /\ \E r \in Approvers : Claim(r) /\ target[r] = p
    BY <1>3, StatusFate DEF RefineInv
  <2> QED
    BY <1>3, <2>2, <2>3, <2>4
<1>4. CASE /\ status[p] = "pending" /\ status'[p] = "superseded"
           /\ \E q \in Proposals : SupersedePending(q)
  <2>1. ~SwappedIn(p)'
    BY <1>4, <1>b, <1>c
  <2> QED
    BY <1>4, <2>1, StageOf, StageOfPrime, InvStep DEF RefineInv
<1>5. ASSUME NEW r \in Approvers, target[r] = p, status[p] = "approved", Record(r),
             status'[p] = "applied"
      PROVE  ReviewState'[p] = ReviewState[p]
  <2>1. SwappedIn(p)
    BY <1>5 DEF Record, SwappedIn
  <2> QED
    BY <1>5, <1>b, <2>1, StageOf, StageOfPrime, InvStep DEF RefineInv
<1>6. ASSUME NEW r \in Approvers, target[r] = p, status[p] = "approved", MarkFailed(r),
             status'[p] = "failed"
      PROVE  ReviewState[p] = "claimed" /\ ReviewState'[p] = "closed"
  <2>1. ~SwappedIn(p)
    BY <1>6, SoleSwap DEF MarkFailed, RefineInv, Claiming, InTransaction
  <2> QED
    BY <1>6, <1>b, <2>1, StageOf, StageOfPrime, InvStep DEF RefineInv
<1> QED
  BY <1>1, <1>2, <1>3, <1>4, <1>5, <1>6, StatusFate DEF RefineInv

\* A step of an approval that is left alone is a step of the abstract
\* specification, or none.
LEMMA RefineStep ==
  ASSUME RefineInv, NoRewrite', PublishedKept, [Next]_vars
  PROVE  [Reviewed!Next]_(Reviewed!vars)
<1>a. /\ status \in [Proposals -> Status] /\ pc \in [Requests -> Labels]
      /\ base \in [Proposals -> Contents \union {None}] /\ Proposals \subseteq Requests
      /\ SoleExecutor /\ RequestsKnow
  BY DEF RefineInv, IInv, TypeOK, Requests
<1>1. ASSUME NEW r \in Approvers, Replace(r), scratch[target[r]] # None
      PROVE  Reviewed!Next
  <2>1. target[r] \in Proposals
    BY <1>1, SwapAddsOne DEF RefineInv
  <2> QED
    BY <1>1, <2>1, ReplaceApplies DEF Reviewed!Next
<1> SUFFICES ASSUME \A r \in Approvers : ~(Replace(r) /\ scratch[target[r]] # None)
             PROVE  [Reviewed!Next]_(Reviewed!vars)
  BY <1>1
<1>b. file' = file
  BY FileStep DEF RefineInv
<1>2. ASSUME NEW p \in Proposals, Fingerprint(p) PROVE Reviewed!Next
  <2>1. base[p] = None /\ base' = [base EXCEPT ![p] = file]
    BY <1>2 DEF Fingerprint, RefineInv, SwapInv, BasesAreOld, Unread
  <2>2. ASSUME NEW q \in Proposals PROVE ReviewState'[q] = ReviewState[q]
    BY <1>2, StageStep DEF Fingerprint, db
  <2>3. ReviewState' = ReviewState
    BY <2>2, StagesType
  <2> QED
    BY <1>b, <2>1, <2>3 DEF Reviewed!Next, Reviewed!Read
<1>4. ASSUME NEW s \in Proposals, SupersedePending(s) PROVE Reviewed!Next
  <2> DEFINE ps == PendingIn(SessionOf[s])
  <2>1. ps \subseteq Proposals /\ base' = base
    BY <1>4 DEF PendingIn, RefineInv, IInv, TypeOK, SupersedePending, props
  <2>2. status' = [q \in Proposals |-> IF q \in ps THEN "superseded" ELSE status[q]]
    BY <1>4 DEF SupersedePending, SetStatus
  <2>3. ASSUME NEW q \in ps PROVE ReviewState[q] = "open" /\ ReviewState'[q] = "closed"
    <3>1. status[q] = "pending" /\ status'[q] = "superseded"
      BY <2>1, <2>2 DEF PendingIn
    <3>2. ~SwappedIn(q) /\ ~SwappedIn(q)'
      <4>1. SwappedIn(q)' <=> SwappedIn(q)
        BY <2>1, SwappedInStep DEF RefineInv
      <4> QED
        BY <3>1, <4>1, <1>a, <2>1 DEF SwappedIn, SoleExecutor, Claiming, InTransaction
    <3> QED
      BY <2>1, <3>1, <3>2, StageOf, StageOfPrime, InvStep DEF RefineInv
  <2>4. ASSUME NEW q \in Proposals \ ps PROVE ReviewState'[q] = ReviewState[q]
    BY <2>2, StageStep
  <2>5. ReviewState' = [q \in Proposals |-> IF q \in ps THEN "closed" ELSE ReviewState[q]]
    BY <2>1, <2>3, <2>4, StagesType
  <2>6. Reviewed!Close(ps)
    BY <1>b, <2>1, <2>3, <2>5 DEF Reviewed!Close
  <2> HIDE DEF ps
  <2> QED
    BY <2>1, <2>6 DEF Reviewed!Next
<1>3. CASE base' = base /\ \A s \in Proposals : ~SupersedePending(s)
  <2> SUFFICES ASSUME NEW p \in Proposals, ReviewState'[p] # ReviewState[p]
               PROVE  Reviewed!Next
    BY <1>3, <1>b, StagesType DEF Reviewed!vars
  <2>1. /\ status'[p] # status[p]
        /\ \/ CreateProposal(p) \/ Guardian(p)
           \/ \E r \in Rejecters : Reject(r) /\ target[r] = p
           \/ \E r \in Approvers : (Claim(r) \/ MarkFailed(r)) /\ target[r] = p
    BY <1>3, StageStep
  <2>2. \A q \in Proposals : q # p => status'[q] = status[q]
    BY <1>a, <2>1 DEF CreateProposal, Guardian, Reject, Claim, MarkFailed, SetStatus
  <2>3. ASSUME NEW q \in Proposals, q # p PROVE ReviewState'[q] = ReviewState[q]
    BY <2>2, <2>3, StageStep
  <2>4. ASSUME NEW x \in Stages, ReviewState'[p] = x
        PROVE  /\ ReviewState' = [ReviewState EXCEPT ![p] = x]
               /\ ReviewState' = [q \in Proposals |-> IF q \in {p} THEN x ELSE ReviewState[q]]
    BY <2>3, <2>4, StagesType
  <2>5. CASE CreateProposal(p) /\ ReviewState[p] = "none" /\ ReviewState'[p] = "open"
    <3>1. base[p] # None
      BY <2>5 DEF CreateProposal, RefineInv, SwapInv, BasesAreOld
    <3> QED
      BY <1>3, <1>b, <2>4, <2>5, <3>1 DEF Stages, Reviewed!Next, Reviewed!Offer
  <2>6. CASE ReviewState[p] = "open" /\ ReviewState'[p] = "claimed"
    BY <1>3, <1>b, <2>4, <2>6 DEF Stages, Reviewed!Next, Reviewed!Claim
  <2>7. CASE ReviewState[p] \in {"open", "claimed"} /\ ReviewState'[p] = "closed"
    <3>1. Reviewed!Close({p})
      BY <1>3, <1>b, <2>4, <2>7 DEF Stages, Reviewed!Close
    <3> QED
      BY <3>1 DEF Reviewed!Next
  <2> QED
    BY <2>5, <2>6, <2>7, StageStep
<1> QED
  BY <1>2, <1>3, <1>4, BaseStep DEF RefineInv

\* As long as nobody takes a version back and no approval fails or dies between its
\* swap and its record, the lifecycle publishes a change only onto the content it
\* was reviewed against: for any sessions, supersedes, sweeps, refusals and crashes.
THEOREM ImplementsUnlessTakenBack ==
  Spec /\ []NoRewrite /\ [][PublishedKept]_vars => ImplementsReviewedChange
<1>1. Init => Reviewed!Init
  <2> SUFFICES ASSUME Init PROVE Reviewed!Init
    OBVIOUS
  <2>1. \A p \in Proposals : ReviewState[p] = "none"
    BY InitIInv, StageOf DEF Init
  <2> QED
    BY <2>1, StagesType DEF Init, Reviewed!Init
<1>2. RefineInv /\ NoRewrite' /\ [PublishedKept]_vars /\ [Next]_vars
        => [Reviewed!Next]_(Reviewed!vars)
  <2>1. UNCHANGED vars => PublishedKept
    BY DEF vars, db, local, PublishedKept, SwappedIn
  <2> QED
    BY <2>1, RefineStep
<1>3. Spec /\ []NoRewrite => []RefineInv
  <2>1. IInv /\ NoRewrite /\ SwapInv => RefineInv
    BY DEF RefineInv
  <2> QED
    BY <2>1, Invariance, SwapsHold, PTL
<1> QED
  BY <1>1, <1>2, <1>3, PTL DEF Spec, ImplementsReviewedChange, Reviewed!Spec

\* Left alone, the lifecycle meets both conditions by itself: approval is a
\* compare-and-swap on the file, whatever the interleaving.
THEOREM ImplementsReviewed ==
  Calm /\ MaxCrashes = 0 => (Spec => ImplementsReviewedChange)
<1> SUFFICES ASSUME Calm, MaxCrashes = 0 PROVE Spec => ImplementsReviewedChange
  OBVIOUS
<1>1. IInv /\ NoFail /\ [Next]_vars => [PublishedKept]_vars
  <2>1. IInv /\ [Next]_vars => ~Fault /\ ~Crash
    BY DEF IInv, TypeOK, Calm, Fault, Crash
  <2> QED
    BY <2>1, KeptIfNothingFails
<1>2. NoFail => NoRewrite
  BY DEF NoFail, NoRewrite, Calm
<1> QED
  BY <1>1, <1>2, NothingFails, Invariance, ImplementsUnlessTakenBack, PTL DEF Spec

(***************************************************************************)
(* Rollbacks.  An approval that fails after its snapshot rolls the file back *)
(* after it has given the row lock up, and late_rollback shows what another  *)
(* approval loses by it.  That is all there is to lose: were no approval in   *)
(* its transaction while another still handles its failure, as if the lock   *)
(* were held until the rollback is done, applied changes would stay whatever *)
(* fails, dies or cannot be rolled back.                                     *)
(***************************************************************************)
Failing == {"fail", "drop_scratch", "rollback"}
HeldThroughFailure ==
  /\ \A r \in Approvers : pc[r] \in Failing /\ parent[r] # 0 => lock = None
  /\ \A r \in Restorers : pc[r] = "idle"

\* A fingerprint is taken before the copy, and what has a row holds its change.
CopiesHaveBases ==
  \A p \in Proposals :
    /\ pc[p] \in Unread => base[p] = None
    /\ pc[p] \in {"generate", "copy", "run", "create"} => base[p] # None
    /\ scratch[p] # None =>
         /\ base[p] # None
         /\ status[p] # "none" \/ pc[p] = "create" => p \in scratch[p]

\* A change that may still be swapped in for the first time is nowhere but in
\* its own copy: not in the file, the history, a fingerprint or another's copy.
Unswapped(q) ==
  \/ status[q] \in {"none", "pending"}
  \/ \E r \in Approvers : pc[r] \in {"lock", "check", "snapshot", "replace"} /\ target[r] = q
UnswappedNowhere ==
  \A q \in Proposals : Unswapped(q) =>
    /\ q \notin file
    /\ \A i \in 1 .. Len(git) : q \notin git[i]
    /\ \A p \in Proposals : base[p] # None => q \notin base[p]
    /\ \A p \in Proposals : p # q /\ scratch[p] # None => q \notin scratch[p]

\* A change that is in, and has not failed, is in the file; in every copy whose
\* fingerprint saw it; and in every commit that may yet be rolled back to.
Undoing(r) == parent[r] # 0 /\ pc[r] \in {"replace", "commit", "record"} \union Failing
SwappedStaysIn ==
  \A q \in Proposals : SwappedIn(q) =>
    /\ q \in file
    /\ \A p \in Proposals : scratch[p] # None /\ q \in base[p] => q \in scratch[p]
    /\ \A r \in Approvers : Undoing(r) /\ target[r] # q => q \in git[parent[r]]

\* There is nothing to roll back to before the snapshot.
NoParentYet ==
  \A r \in Approvers :
    pc[r] \in {"idle", "claim", "lock", "check", "snapshot", "refuse", "refuse_stale"} =>
      parent[r] = 0

\* Only a failed proposal is rolled back.
UndoneHaveFailed ==
  \A r \in Approvers : pc[r] \in {"drop_scratch", "rollback"} => status[target[r]] = "failed"

CommitHolds == \A r \in Approvers : pc[r] = "record" => target[r] \in git[hash[r]]

RollbackInv ==
  /\ CopiesHaveBases /\ UnswappedNowhere /\ SwappedStaysIn
  /\ NoParentYet /\ UndoneHaveFailed /\ CheckedIsBase /\ CommitHolds /\ RowNamesItsCommit

\* The file is rewritten by a swap or by the rollback of an approval.
LEMMA FileFate ==
  ASSUME IInv, HeldThroughFailure, HeldThroughFailure', [Next]_vars
  PROVE  \/ file' = file
         \/ \E r \in Approvers : Replace(r) /\ scratch[target[r]] # None
         \/ \E r \in Approvers : /\ FailRollback(r) \/ (Fault /\ FaultInRollback(r))
                                 /\ file' = git[parent[r]]
<1>a. pc \in [Requests -> Labels] /\ pc' \in [Requests -> Labels]
  BY TypeStep DEF IInv, TypeOK
<1> USE DEF disk
<1>1. ASSUME NEW p \in Proposals, ListPending(p) \/ ProposeStep(p) PROVE file' = file
  BY <1>1 DEF ListPending, ProposeStep, DropListed, SupersedePending, Resolve, Fingerprint,
       Generate, CopyScratch, RunCode, CreateProposal, Guardian, LinkMessage
<1>2. ASSUME NEW r \in Rejecters, Reject(r) \/ \E p \in Proposals : RejectRead(r, p)
      PROVE  file' = file
  BY <1>2 DEF Reject, RejectRead
<1>3. ASSUME NEW r \in Approvers, ApproveStep(r) \/ \E p \in Proposals : ApproveRead(r, p)
      PROVE  \/ file' = file
             \/ Replace(r) /\ scratch[target[r]] # None
             \/ FailRollback(r) /\ file' = git[parent[r]]
  <2>1. CASE Replace(r)
    BY <2>1 DEF Replace
  <2>2. CASE FailRollback(r)
    BY <2>2 DEF FailRollback
  <2> QED
    BY <1>3, <2>1, <2>2 DEF ApproveRead, ApproveStep, Claim, Lock, Check, Snapshot, Commit,
       Record, MarkFailed, RefreshOpen, RefreshUpsert
<1>4. ASSUME NEW r \in Restorers, RestoreStep(r) PROVE FALSE
  BY <1>4 DEF RestoreStep, RestoreHead, RestoreRecord, RestoreParse, RestoreMark, RestoreOpen,
       RestoreReindex, RestoreUnsynced, RestoreTrack, HeldThroughFailure
<1>5. ASSUME NEW r \in Restorers, NEW row \in rows, RestoreRollback(r, row) \/ FaultInRestore(r, row)
      PROVE  FALSE
  BY <1>5, <1>a DEF RestoreRollback, FaultInRestore, HeldThroughFailure, Goto, Requests
<1>6. ASSUME NEW r \in Sweepers, SweepList(r) \/ SweepDelete(r) PROVE file' = file
  BY <1>6 DEF SweepList, SweepDelete
<1>7. ASSUME NEW r \in Proposals \union Rejecters \union Approvers, DropScratch(r)
      PROVE  file' = file
  BY <1>7 DEF DropScratch
<1>8. CASE Fault
  <2>1. ASSUME NEW r \in Approvers, FaultInRollback(r)
        PROVE  file' = file \/ file' = git[parent[r]]
    BY <2>1 DEF FaultInRollback
  <2> QED
    BY <1>5, <1>8, <2>1 DEF Fault, FaultInExecute, FaultInIndexing
<1>9. CASE Crash \/ UNCHANGED vars
  BY <1>9 DEF Crash, vars
<1> QED
  BY <1>1, <1>2, <1>3, <1>4, <1>5, <1>6, <1>7, <1>8, <1>9 DEF Next, Start, Serve

\* What a commit holds was in the file or in an earlier commit.
LEMMA CommitsOldNews ==
  ASSUME IInv, HeldThroughFailure, [Next]_vars, NEW i \in 1 .. Len(git')
  PROVE  git'[i] = file \/ \E j \in 1 .. Len(git) : git'[i] = git[j]
<1>a. /\ file \in Contents /\ git \in Seq(Contents) /\ HashesExist
      /\ pc \in [Requests -> Labels]
  BY DEF IInv, TypeOK
<1>b. ASSUME NEW c \in Contents, git' = Append(git, c),
             c = file \/ \E j \in 1 .. Len(git) : c = git[j]
      PROVE  git'[i] = file \/ \E j \in 1 .. Len(git) : git'[i] = git[j]
  <2>1. CASE i = Len(git) + 1
    BY <1>a, <1>b, <2>1
  <2>2. CASE i # Len(git) + 1
    BY <1>a, <1>b, <2>2
  <2> QED BY <2>1, <2>2
<1>c. ASSUME git' = git
      PROVE  git'[i] = file \/ \E j \in 1 .. Len(git) : git'[i] = git[j]
  BY <1>c
<1> DEFINE Old == git'[i] = file \/ \E j \in 1 .. Len(git) : git'[i] = git[j]
<1> HIDE DEF Old
<1> USE DEF disk
<1>1. ASSUME NEW p \in Proposals, ListPending(p) \/ ProposeStep(p) PROVE git' = git
  BY <1>1 DEF ListPending, ProposeStep, DropListed, SupersedePending, Resolve, Fingerprint,
       Generate, CopyScratch, RunCode, CreateProposal, Guardian, LinkMessage
<1>2. ASSUME NEW r \in Rejecters, Reject(r) \/ \E p \in Proposals : RejectRead(r, p)
      PROVE  git' = git
  BY <1>2 DEF Reject, RejectRead
<1>3. ASSUME NEW r \in Approvers, ApproveStep(r) \/ \E p \in Proposals : ApproveRead(r, p)
      PROVE  Old
  <2>1. CASE Snapshot(r) \/ Commit(r)
    <3>1. git' = git \/ git' = Append(git, file)
      BY <2>1 DEF Snapshot, Commit
    <3> QED BY <3>1, <1>a, <1>b, <1>c DEF Old
  <2>2. CASE FailRollback(r)
    <3>1. parent[r] \in 1..Len(git) /\ git' = Append(git, git[parent[r]])
      BY <1>a, <2>2 DEF FailRollback, HashesExist
    <3>2. git[parent[r]] \in Contents
      BY <1>a, <3>1
    <3> QED
      BY <1>b, <3>1, <3>2 DEF Old
  <2>3. CASE UNCHANGED git
    BY <2>3, <1>c DEF Old
  <2> QED
    BY <1>3, <2>1, <2>2, <2>3 DEF ApproveRead, ApproveStep, Claim, Lock, Check, Replace,
       Record, MarkFailed, RefreshOpen, RefreshUpsert
<1>4. ASSUME NEW r \in Restorers, RestoreStep(r) PROVE FALSE
  BY <1>4 DEF RestoreStep, RestoreHead, RestoreRecord, RestoreParse, RestoreMark, RestoreOpen,
       RestoreReindex, RestoreUnsynced, RestoreTrack, HeldThroughFailure
<1>5. ASSUME NEW r \in Restorers, NEW row \in rows, RestoreRollback(r, row) PROVE Old
  <2>1. git[row.hash] \in Contents /\ row.hash \in 1 .. Len(git)
    BY <1>a DEF HashesExist
  <2>2. git' = Append(git, git[row.hash])
    BY <1>5 DEF RestoreRollback
  <2> QED
    BY <1>b, <2>1, <2>2 DEF Old
<1>6. ASSUME NEW r \in Sweepers, SweepList(r) \/ SweepDelete(r) PROVE git' = git
  BY <1>6 DEF SweepList, SweepDelete
<1>7. ASSUME NEW r \in Proposals \union Rejecters \union Approvers, DropScratch(r)
      PROVE  git' = git
  BY <1>7 DEF DropScratch
<1>8. CASE Fault
  BY <1>8 DEF Fault, FaultInExecute, FaultInRollback, FaultInRestore, FaultInIndexing
<1>9. CASE Crash \/ UNCHANGED vars
  BY <1>9 DEF Crash, vars
<1> QED
  BY <1>1, <1>2, <1>3, <1>4, <1>5, <1>6, <1>7, <1>8, <1>9, <1>c DEF Next, Start, Serve, Old

\* The path of an approval towards and away from its rollback point.
LEMMA ParentPath ==
  ASSUME IInv, NoParentYet, [Next]_vars, NEW r \in Approvers
  PROVE  /\ parent'[r] = parent[r] \/ (Snapshot(r) /\ parent'[r] = Len(git'))
         /\ pc'[r] \in {"idle", "claim", "lock", "check", "snapshot", "refuse", "refuse_stale"} =>
              pc[r] \in {"idle", "claim", "lock", "check", "snapshot", "refuse", "refuse_stale"}
         /\ Undoing(r)' => /\ target'[r] = target[r]
                           /\ Snapshot(r) \/ (Undoing(r) /\ parent'[r] = parent[r])
<1>a. /\ pc \in [Requests -> Labels] /\ r \in Requests /\ r \notin Restorers
      /\ parent \in [Approvers -> Nat]
      /\ target \in [Approvers \union Rejecters -> Proposals \union {None}]
  BY RequestsAssumption DEF IInv, TypeOK, Requests
<1> USE <1>a DEF Goto, local, Failing, Undoing, NoParentYet
<1>1. ASSUME NEW p \in Proposals, ApproveRead(r, p)
      PROVE  pc[r] = "idle" /\ pc'[r] \in {"claim", "done"} /\ parent' = parent
  BY <1>1 DEF ApproveRead
<1>2. CASE Claim(r) \/ Lock(r) \/ RefreshOpen(r) \/ RefreshUpsert(r)
  BY <1>2 DEF Claim, Lock, RefreshOpen, RefreshUpsert
<1>3. CASE MarkFailed(r) \/ FailRollback(r) \/ DropScratch(r)
  BY <1>3 DEF MarkFailed, FailRollback, DropScratch
<1>4. CASE Check(r)
  BY <1>4 DEF Check, Refusal
<1>5. CASE Snapshot(r)
  <2>1. parent'[r] = Len(git') /\ pc'[r] = "replace" /\ target'[r] = target[r]
    BY <1>5 DEF Snapshot
  <2> QED BY <1>5, <2>1
<1>6. CASE Replace(r)
  BY <1>6 DEF Replace
<1>7. CASE Commit(r) \/ Record(r)
  BY <1>7 DEF Commit, Record
<1>8. CASE FaultInExecute(r) \/ FaultInRollback(r) \/ FaultInIndexing(r)
  BY <1>8 DEF FaultInExecute, FaultInRollback, FaultInIndexing
<1>9. CASE Crash
  BY <1>9 DEF Crash
<1> QED
  BY ApproveMoves, <1>1, <1>2, <1>3, <1>4, <1>5, <1>6, <1>7, <1>8, <1>9 DEF ApproveStep

\* Who may still be swapped in has been all along.
LEMMA UnswappedBefore ==
  ASSUME IInv, [Next]_vars, NEW q \in Proposals, Unswapped(q)'
  PROVE  Unswapped(q)
<1>a. /\ pc \in [Requests -> Labels] /\ Approvers \subseteq Requests
      /\ status \in [Proposals -> Status]
  BY DEF IInv, TypeOK, Requests
<1>1. CASE status'[q] \in {"none", "pending"}
  <2>1. status[q] \in {"none", "pending"}
    BY <1>1, <1>a, StatusFate DEF CreateProposal, IInv, RequestsKnow
  <2> QED BY <2>1 DEF Unswapped
<1>2. ASSUME NEW r \in Approvers, target'[r] = q,
             pc'[r] \in {"lock", "check", "snapshot", "replace"}
      PROVE  Unswapped(q)
  <2>1. target[r] = q
    BY <1>2, ApprovalPath
  <2>2. CASE Claim(r)
    <3>1. status[q] = "pending"
      BY <1>2, <1>a, <2>1, <2>2 DEF Claim, Goto
    <3> QED BY <3>1 DEF Unswapped
  <2>3. CASE ~Claim(r)
    <3>1. pc[r] \in {"lock", "check", "snapshot", "replace"}
      <4>1. CASE \E p \in Proposals : ApproveRead(r, p)
        BY <1>2, <1>a, <4>1 DEF ApproveRead, Goto
      <4>2. CASE Lock(r) \/ Check(r) \/ Snapshot(r) \/ Replace(r)
        BY <4>2 DEF Lock, Check, Snapshot, Replace
      <4>3. CASE Commit(r) \/ Record(r) \/ MarkFailed(r) \/ FailRollback(r) \/ RefreshOpen(r)
                 \/ RefreshUpsert(r) \/ DropScratch(r)
        BY <1>2, <1>a, <4>3 DEF Commit, Record, MarkFailed, FailRollback, RefreshOpen,
           RefreshUpsert, DropScratch, Goto
      <4>4. CASE FaultInExecute(r) \/ FaultInRollback(r) \/ FaultInIndexing(r)
        BY <1>2, <1>a, <4>4 DEF FaultInExecute, FaultInRollback, FaultInIndexing, Goto
      <4>5. CASE Crash
        BY <1>2, <1>a, <4>5 DEF Crash
      <4>6. CASE pc'[r] = pc[r]
        BY <1>2, <4>6
      <4> QED
        BY <2>3, <4>1, <4>2, <4>3, <4>4, <4>5, <4>6, ApproveMoves DEF ApproveStep
    <3> QED BY <2>1, <3>1 DEF Unswapped
  <2> QED BY <2>2, <2>3
<1> QED
  BY <1>1, <1>2 DEF Unswapped

\* A swap finds the fingerprint's content, publishes its own change with it and
\* loses none that is in.
LEMMA SwapLosesNone ==
  ASSUME IInv, RollbackInv, NEW r \in Approvers, Replace(r), scratch[target[r]] # None
  PROVE  LET t == target[r] IN
           /\ t \in Proposals /\ Unswapped(t) /\ ~SwappedIn(t) /\ status[t] = "approved"
           /\ file' = scratch[t] /\ t \in file'
           /\ \A q \in Proposals : SwappedIn(q) => q \in file'
           /\ \A s \in Approvers : pc[s] \in InTransaction => s = r
<1> DEFINE t == target[r]
<1>1. pc[r] = "replace"
  BY DEF Replace
<1>2. t \in Proposals /\ status[t] = "approved" /\ ~SwappedIn(t)
  BY <1>1, SoleSwap DEF Claiming, InTransaction
<1>3. Unswapped(t)
  BY <1>1 DEF Unswapped
<1>4. file' = scratch[t] /\ t \in file'
  BY <1>2 DEF Replace, RollbackInv, CopiesHaveBases
<1>5. file = base[t]
  BY <1>1 DEF RollbackInv, CheckedIsBase
<1>6. \A q \in Proposals : SwappedIn(q) => q \in file'
  BY <1>2, <1>4, <1>5 DEF RollbackInv, SwappedStaysIn
<1>7. \A s \in Approvers : pc[s] \in InTransaction => s = r
  BY <1>1 DEF IInv, LockHeldByTransaction, InTransaction
<1> QED
  BY <1>2, <1>3, <1>4, <1>6, <1>7

\* A rollback loses none that is in: its own change is not.
LEMMA RollbackLosesNone ==
  ASSUME IInv, RollbackInv, NEW r \in Approvers, FailRollback(r) \/ FaultInRollback(r)
  PROVE  /\ parent[r] \in 1 .. Len(git) /\ pc[r] = "rollback"
         /\ \A q \in Proposals : SwappedIn(q) => q \in git[parent[r]]
<1>1. pc[r] = "rollback"
  BY DEF FailRollback, FaultInRollback
<1>2. parent[r] \in 1 .. Len(git)
  BY <1>1 DEF IInv, HashesExist
<1>3. Undoing(r)
  BY <1>1, <1>2 DEF Undoing, Failing
<1>4. ~SwappedIn(target[r])
  BY <1>1 DEF RollbackInv, UndoneHaveFailed, SwappedIn, IInv, SoleExecutor, Claiming, InTransaction
<1> QED
  BY <1>1, <1>2, <1>3, <1>4 DEF RollbackInv, SwappedStaysIn

\* A fingerprint is written once, before the copy, and the copy before the row.
LEMMA CopiesHaveBasesStep ==
  ASSUME IInv, RollbackInv, [Next]_vars
  PROVE  CopiesHaveBases'
<1>a. /\ file \in Contents /\ scratch \in [Proposals -> Contents \union {None}]
      /\ base \in [Proposals -> Contents \union {None}]
      /\ pc \in [Requests -> Labels] /\ Proposals \subseteq Requests
      /\ RequestsKnow /\ CopiesHaveBases
  BY DEF IInv, TypeOK, RollbackInv, Requests
<1> SUFFICES ASSUME NEW p \in Proposals
             PROVE  /\ pc'[p] \in Unread => base'[p] = None
                    /\ pc'[p] \in {"generate", "copy", "run", "create"} => base'[p] # None
                    /\ scratch'[p] # None =>
                         /\ base'[p] # None
                         /\ status'[p] # "none" \/ pc'[p] = "create" => p \in scratch'[p]
  BY DEF CopiesHaveBases
<1>1. CASE Fingerprint(p)
  <2>1. /\ base'[p] = file /\ scratch' = scratch /\ status' = status
        /\ pc[p] = "fingerprint" /\ pc'[p] = "generate"
    BY <1>1, <1>a DEF Fingerprint, disk, db, Goto
  <2>2. file # None /\ status[p] = "none" /\ scratch[p] = None
    BY <1>a, <2>1, NoneAssumption DEF Contents, RequestsKnow, Attempting, CopiesHaveBases, Unread
  <2> QED BY <2>1, <2>2 DEF Unread
<1>2. CASE ~Fingerprint(p)
  <2>1. base'[p] = base[p]
    BY <1>2, <1>a, BaseStep DEF Fingerprint
  <2>2. pc'[p] \in Unread => pc[p] \in Unread
    BY <1>2, PathStep DEF Unread
  <2>3. pc'[p] \in {"generate", "copy", "run", "create"} =>
          pc[p] \in {"generate", "copy", "run", "create"}
    BY <1>2, PathStep DEF Unread, RunCode
  <2>4. ASSUME scratch'[p] = scratch[p], ~RunCode(p), scratch[p] # None
        PROVE  status'[p] # "none" \/ pc'[p] = "create" => p \in scratch'[p]
    <3>1. status'[p] = "none" \/ status[p] # "none" \/ pc[p] = "create"
      BY StatusFate DEF CreateProposal
    <3>2. pc'[p] = "create" => pc[p] = "create"
      BY <1>2, <1>a, <2>4, PathStep DEF Unread
    <3> QED BY <1>a, <2>4, <3>1, <3>2 DEF CopiesHaveBases
  <2>5. CASE CopyScratch(p)
    <3>1. pc[p] = "copy" /\ pc'[p] = "run" /\ status' = status
      BY <2>5, <1>a DEF CopyScratch, db, Goto
    <3>2. base[p] # None /\ status[p] = "none"
      BY <1>a, <3>1 DEF CopiesHaveBases, RequestsKnow, Attempting
    <3> QED BY <2>1, <3>1, <3>2 DEF Unread
  <2>6. CASE RunCode(p) /\ scratch'[p] # None
    <3>1. pc[p] = "run" /\ p \in scratch'[p]
      BY <2>6, <1>a DEF RunCode, Delete
    <3> QED BY <1>a, <2>1, <2>2, <2>3, <3>1 DEF CopiesHaveBases
  <2>7. CASE scratch'[p] = None \/ (scratch'[p] = scratch[p] /\ ~RunCode(p))
    BY <1>a, <2>1, <2>2, <2>3, <2>4, <2>7 DEF CopiesHaveBases
  <2> QED
    BY <2>5, <2>6, <2>7, CopyStep
<1> QED
  BY <1>1, <1>2

\* A change enters the file, the history and fingerprints by its own swap.
LEMMA UnswappedStep ==
  ASSUME IInv, HeldThroughFailure, HeldThroughFailure', RollbackInv, [Next]_vars
  PROVE  UnswappedNowhere'
<1> SUFFICES ASSUME NEW q \in Proposals, Unswapped(q)'
             PROVE  /\ q \notin file'
                    /\ \A i \in 1 .. Len(git') : q \notin git'[i]
                    /\ \A p \in Proposals : base'[p] # None => q \notin base'[p]
                    /\ \A p \in Proposals : p # q /\ scratch'[p] # None => q \notin scratch'[p]
  BY DEF UnswappedNowhere
<1>a. /\ Unswapped(q) /\ q \notin file
      /\ \A i \in 1 .. Len(git) : q \notin git[i]
      /\ \A p \in Proposals : base[p] # None => q \notin base[p]
      /\ \A p \in Proposals : p # q /\ scratch[p] # None => q \notin scratch[p]
  BY UnswappedBefore DEF RollbackInv, UnswappedNowhere
<1>b. /\ pc \in [Requests -> Labels] /\ Approvers \subseteq Requests
      /\ base \in [Proposals -> Contents \union {None}]
  BY DEF IInv, TypeOK, Requests
<1>1. q \notin file'
  <2>1. ASSUME NEW r \in Approvers, Replace(r), scratch[target[r]] # None
        PROVE  q \notin file'
    <3>1. file' = scratch[target[r]] /\ target[r] \in Proposals
      BY <2>1, SwapLosesNone
    <3>2. target[r] # q
      <4>1. pc'[r] = "commit" /\ target'[r] = target[r]
        BY <1>b, <2>1 DEF Replace, Goto, local
      <4>2. target[r] = q => status'[q] = "approved"
        BY <4>1, InvStep DEF IInv, SoleExecutor, Claiming, InTransaction
      <4>3. ASSUME NEW s \in Approvers, target'[s] = q, target[r] = q,
                   pc'[s] \in {"lock", "check", "snapshot", "replace"}
            PROVE  FALSE
        BY <4>1, <4>3, InvStep DEF IInv, SoleExecutor, Claiming, InTransaction
      <4> QED BY <4>2, <4>3 DEF Unswapped
    <3> QED BY <1>a, <2>1, <3>1, <3>2
  <2>2. ASSUME NEW r \in Approvers, FailRollback(r) \/ FaultInRollback(r), file' = git[parent[r]]
        PROVE  q \notin file'
    BY <1>a, <2>2, RollbackLosesNone
  <2> QED BY <1>a, <2>1, <2>2, FileFate
<1>2. ASSUME NEW i \in 1 .. Len(git') PROVE q \notin git'[i]
  BY <1>a, CommitsOldNews
<1>3. ASSUME NEW p \in Proposals, base'[p] # None PROVE q \notin base'[p]
  BY <1>a, <1>b, <1>3, BaseStep DEF Fingerprint
<1>4. ASSUME NEW p \in Proposals, p # q, scratch'[p] # None PROVE q \notin scratch'[p]
  <2>1. CASE CopyScratch(p)
    <3>1. scratch'[p] = file
      BY <2>1 DEF CopyScratch, IInv, TypeOK
    <3> QED BY <1>a, <3>1
  <2> QED BY <1>a, <1>4, <2>1, CopyStep
<1> QED
  BY <1>1, <1>2, <1>3, <1>4

\* What is in stays in: the next swap has it in its copy, the next rollback in
\* its commit.
LEMMA SwappedInStays ==
  ASSUME IInv, HeldThroughFailure, HeldThroughFailure', RollbackInv, [Next]_vars
  PROVE  SwappedStaysIn'
<1>a. /\ pc \in [Requests -> Labels] /\ Approvers \subseteq Requests
      /\ base \in [Proposals -> Contents \union {None}]
      /\ scratch \in [Proposals -> Contents \union {None}]
      /\ file \in Contents /\ git \in Seq(Contents) /\ HashesExist
  BY DEF IInv, TypeOK, Requests
<1>b. ASSUME NEW r \in Approvers, Snapshot(r)
      PROVE  parent'[r] = Len(git') /\ git'[Len(git')] = file /\ file' = file
  BY <1>a, <1>b DEF Snapshot, HashesExist, HeadHash, IInv, TypeOK
<1>1. ASSUME NEW q \in Proposals, SwappedIn(q)
      PROVE  /\ q \in file'
             /\ \A p \in Proposals : scratch'[p] # None /\ q \in base'[p] => q \in scratch'[p]
             /\ \A r \in Approvers : Undoing(r)' /\ target'[r] # q => q \in git'[parent'[r]]
  <2>a. /\ q \in file
        /\ \A p \in Proposals : scratch[p] # None /\ q \in base[p] => q \in scratch[p]
        /\ \A r \in Approvers : Undoing(r) /\ target[r] # q => q \in git[parent[r]]
    BY <1>1 DEF RollbackInv, SwappedStaysIn
  <2>1. q \in file'
    BY <1>1, <2>a, FileFate, SwapLosesNone, RollbackLosesNone
  <2>2. ASSUME NEW p \in Proposals, scratch'[p] # None, q \in base'[p] PROVE q \in scratch'[p]
    <3>1. CASE CopyScratch(p)
      BY <1>a, <2>a, <3>1 DEF CopyScratch
    <3>2. CASE ~CopyScratch(p)
      <4>1. scratch[p] # None /\ scratch[p] \subseteq scratch'[p]
        BY <2>2, <3>2, CopyStep
      <4>2. ~Fingerprint(p)
        BY <4>1 DEF Fingerprint, RollbackInv, CopiesHaveBases, Unread
      <4>3. base'[p] = base[p]
        BY <1>a, <4>2, BaseStep DEF Fingerprint
      <4> QED BY <2>2, <2>a, <4>1, <4>3
    <3> QED BY <3>1, <3>2
  <2>3. ASSUME NEW r \in Approvers, Undoing(r)', target'[r] # q PROVE q \in git'[parent'[r]]
    <3>1. CASE Snapshot(r)
      BY <1>b, <2>a, <3>1
    <3>2. CASE ~Snapshot(r)
      <4>1. Undoing(r) /\ parent'[r] = parent[r] /\ target'[r] = target[r]
        BY <2>3, <3>2, ParentPath DEF RollbackInv
      <4>2. parent[r] \in 1 .. Len(git)
        BY <1>a, <4>1 DEF Undoing, HashesExist
      <4> QED BY <2>3, <2>a, <4>1, <4>2, HistoryStays
    <3> QED BY <3>1, <3>2
  <2> QED BY <2>1, <2>2, <2>3
<1>2. ASSUME NEW q \in Proposals, NEW r0 \in Approvers, Replace(r0), target[r0] = q,
             scratch[q] # None
      PROVE  /\ q \in file'
             /\ \A p \in Proposals : scratch'[p] # None /\ q \in base'[p] => q \in scratch'[p]
             /\ \A r \in Approvers : Undoing(r)' /\ target'[r] # q => q \in git'[parent'[r]]
  <2>1. q \in file' /\ Unswapped(q) /\ \A s \in Approvers : pc[s] \in InTransaction => s = r0
    BY <1>2, SwapLosesNone
  <2>2. ASSUME NEW p \in Proposals, scratch'[p] # None, q \in base'[p] PROVE FALSE
    <3>1. base' = base /\ scratch[p] # None
      BY <1>2, <1>a, <2>2 DEF Replace, props, Delete
    <3> QED BY <2>1, <2>2, <3>1 DEF RollbackInv, UnswappedNowhere, CopiesHaveBases
  <2>3. ASSUME NEW r \in Approvers, Undoing(r)', target'[r] # q PROVE FALSE
    <3>1. target'[r] = target[r] /\ r # r0
      BY <1>2, <2>3, ParentPath DEF RollbackInv
    <3>2. ~Snapshot(r)
      BY <2>1, <3>1 DEF Snapshot, InTransaction
    <3>3. Undoing(r)
      BY <2>3, <3>2, ParentPath DEF RollbackInv
    <3>4. pc[r] \in Failing /\ parent[r] # 0
      BY <2>1, <3>1, <3>3 DEF Undoing, InTransaction
    <3>5. lock = r0 /\ lock # None
      BY <1>2, RequestsAssumption DEF Replace, IInv, LockHeldByTransaction, InTransaction, Requests
    <3> QED BY <3>4, <3>5 DEF HeldThroughFailure
  <2> QED BY <2>1, <2>2, <2>3
<1>3. ASSUME NEW q \in Proposals, SwappedIn(q)'
      PROVE  SwappedIn(q) \/ \E r \in Approvers : Replace(r) /\ target[r] = q /\ scratch[q] # None
  BY <1>3, SwappedBefore
<1> QED
  BY <1>1, <1>2, <1>3 DEF SwappedStaysIn

\* Before its snapshot an approval has nothing to roll back to.
LEMMA NoParentYetStep ==
  ASSUME IInv, RollbackInv, [Next]_vars
  PROVE  NoParentYet'
<1> DEFINE Early == {"idle", "claim", "lock", "check", "snapshot", "refuse", "refuse_stale"}
<1> SUFFICES ASSUME NEW r \in Approvers, pc'[r] \in Early
             PROVE  parent'[r] = 0
  BY DEF NoParentYet
<1>a. pc \in [Requests -> Labels] /\ r \in Requests /\ NoParentYet
  BY DEF IInv, TypeOK, Requests, RollbackInv
<1>1. pc[r] \in Early
  BY <1>a, ParentPath
<1>2. ~Snapshot(r)
  BY <1>a DEF Snapshot, Goto
<1> QED
  BY <1>a, <1>1, <1>2, ParentPath DEF NoParentYet

\* An approval is on its way to the rollback after it has marked its proposal
\* FAILED, which is final.
LEMMA UndoneHaveFailedStep ==
  ASSUME IInv, RollbackInv, [Next]_vars
  PROVE  UndoneHaveFailed'
<1> SUFFICES ASSUME NEW r \in Approvers, pc'[r] \in {"drop_scratch", "rollback"}
             PROVE  status'[target'[r]] = "failed"
  BY DEF UndoneHaveFailed
<1>a. /\ pc \in [Requests -> Labels] /\ r \in Requests /\ r \notin Restorers
      /\ status \in [Proposals -> Status]
      /\ pc[r] \notin {"idle", "done", "dead"} => target[r] \in Proposals
  BY RequestsAssumption DEF IInv, TypeOK, Requests, RequestsKnow
<1>b. target'[r] = target[r]
  BY ApprovalPath
<1> USE <1>a DEF Goto, local
<1>1. CASE MarkFailed(r)
  BY <1>1, <1>b DEF MarkFailed, SetStatus
<1>2. CASE pc[r] \in {"drop_scratch", "rollback"}
  BY <1>2, <1>b, AdvanceStep DEF RollbackInv, UndoneHaveFailed, Advance, Terminal
<1>3. CASE Claim(r) \/ Lock(r) \/ Snapshot(r) \/ Commit(r) \/ Record(r) \/ FailRollback(r)
  BY <1>3 DEF Claim, Lock, Snapshot, Commit, Record, FailRollback
<1>8. CASE RefreshOpen(r) \/ RefreshUpsert(r) \/ \E p \in Proposals : ApproveRead(r, p)
  BY <1>8 DEF RefreshOpen, RefreshUpsert, ApproveRead
<1>9. CASE Crash
  BY <1>2, <1>9 DEF Crash
<1>4. CASE Check(r)
  BY <1>4 DEF Check, Refusal
<1>5. CASE Replace(r)
  BY <1>5 DEF Replace
<1>6. CASE DropScratch(r) \/ pc'[r] = pc[r]
  BY <1>2, <1>6 DEF DropScratch
<1>7. CASE FaultInExecute(r) \/ FaultInRollback(r) \/ FaultInIndexing(r)
  BY <1>7 DEF FaultInExecute, FaultInRollback, FaultInIndexing
<1> QED
  BY <1>1, <1>3, <1>4, <1>5, <1>6, <1>7, <1>8, <1>9, ApproveMoves DEF ApproveStep

\* What was checked under the lock is still the file's content at the swap: the
\* lock is held, so nobody rolls back.
LEMMA CheckHolds ==
  ASSUME IInv, HeldThroughFailure, HeldThroughFailure', RollbackInv, [Next]_vars
  PROVE  CheckedIsBase'
<1> SUFFICES ASSUME NEW r \in Approvers, pc'[r] \in {"snapshot", "replace"}
             PROVE  file' = base'[target'[r]]
  BY DEF CheckedIsBase
<1>a. pc \in [Requests -> Labels] /\ r \in Requests
  BY DEF IInv, TypeOK, Requests
<1>1. pc[r] \in {"snapshot", "replace"} \/ Check(r)
  BY ApprovalPath DEF Snapshot
<1>2. pc[r] \in InTransaction
  BY <1>1 DEF Check, InTransaction
<1>3. target'[r] = target[r] /\ target[r] \in Proposals /\ status[target[r]] = "approved"
  BY <1>2, ApprovalPath DEF IInv, RequestsKnow, SoleExecutor, Claiming, InTransaction
<1>4. file' = file
  <2>1. ASSUME NEW s \in Approvers, Replace(s), scratch[target[s]] # None PROVE FALSE
    <3>1. s = r
      BY <1>2, <2>1, SwapLosesNone
    <3>2. pc'[r] = "commit"
      BY <1>a, <2>1, <3>1 DEF Replace, Goto
    <3> QED
      BY <3>2
  <2>2. ASSUME NEW s \in Approvers, FailRollback(s) \/ FaultInRollback(s) PROVE FALSE
    <3>1. pc[s] \in Failing /\ parent[s] # 0
      BY <2>2, RollbackLosesNone DEF Failing, IInv, HashesExist
    <3>2. lock = r /\ lock # None
      BY <1>2, RequestsAssumption DEF IInv, LockHeldByTransaction, Requests
    <3> QED
      BY <3>1, <3>2 DEF HeldThroughFailure
  <2> QED
    BY <2>1, <2>2, FileFate
<1>5. base'[target[r]] = base[target[r]]
  <2>1. ~Fingerprint(target[r])
    BY <1>3 DEF Fingerprint, IInv, RequestsKnow, Attempting
  <2> QED
    BY <1>3, <2>1, BaseStep DEF Fingerprint, IInv, TypeOK
<1>6. file = base[target[r]]
  <2>1. CASE pc[r] \in {"snapshot", "replace"}
    BY <2>1 DEF RollbackInv, CheckedIsBase
  <2>2. CASE Check(r)
    BY <1>a, <2>2 DEF Check, Refusal, Goto
  <2> QED
    BY <1>1, <2>1, <2>2
<1> QED
  BY <1>3, <1>4, <1>5, <1>6

\* The commit of an approval is made from the file its swap left.
LEMMA CommitHoldsStep ==
  ASSUME IInv, RollbackInv, [Next]_vars
  PROVE  CommitHolds'
<1> SUFFICES ASSUME NEW r \in Approvers, pc'[r] = "record"
             PROVE  target'[r] \in git'[hash'[r]]
  BY DEF CommitHolds
<1>a. /\ git \in Seq(Contents) /\ HashesExist /\ file \in Contents
      /\ hash \in [Approvers \union Restorers -> Nat]
      /\ pc \in [Requests -> Labels] /\ r \in Requests
  BY DEF IInv, TypeOK, Requests
<1>b. target'[r] = target[r]
  BY ApprovalPath
<1>1. CASE pc[r] = "record" /\ hash'[r] = hash[r]
  <2>1. hash[r] \in 1 .. Len(git) /\ target[r] \in git[hash[r]]
    BY <1>a, <1>1 DEF HashesExist, RollbackInv, CommitHolds
  <2> QED
    BY <1>b, <1>1, <2>1, HistoryStays
<1>2. CASE Commit(r)
  <2>1. target[r] \in Proposals /\ SwappedIn(target[r])
    BY <1>2 DEF Commit, SwappedIn, IInv, RequestsKnow
  <2>2. target[r] \in file
    BY <2>1 DEF RollbackInv, SwappedStaysIn
  <2>3. git' = Append(git, file) /\ hash'[r] = Len(git')
    BY <1>a, <1>2 DEF Commit
  <2>4. git'[hash'[r]] = file
    BY <1>a, <2>3
  <2> QED
    BY <1>b, <2>2, <2>4
<1> QED
  BY <1>1, <1>2, ApprovalPath

\* A row names the commit its approval has made.
LEMMA NamesHold ==
  ASSUME IInv, RollbackInv, [Next]_vars
  PROVE  RowNamesItsCommit'
<1> SUFFICES ASSUME NEW row \in rows', row.change # None
             PROVE  row.change \in git'[row.hash]
  BY DEF RowNamesItsCommit
<1>1. CASE row \in rows
  <2>1. row.hash \in 1 .. Len(git) /\ row.change \in git[row.hash]
    BY <1>1 DEF IInv, HashesExist, RollbackInv, RowNamesItsCommit
  <2> QED
    BY <2>1, HistoryStays
<1>2. ASSUME NEW r \in Approvers, pc[r] = "record", row = [hash |-> hash[r], change |-> target[r]]
      PROVE  row.change \in git'[row.hash]
  <2>1. hash[r] \in 1 .. Len(git) /\ target[r] \in git[hash[r]]
    BY <1>2 DEF IInv, HashesExist, RollbackInv, CommitHolds
  <2> QED
    BY <1>2, <2>1, HistoryStays
<1> QED
  BY <1>1, <1>2, RowStep

\* The invariant holds before any request arrives.
LEMMA InitRollbackInv == Init => RollbackInv
<1> SUFFICES ASSUME Init PROVE RollbackInv
  OBVIOUS
<1>1. CopiesHaveBases /\ NoParentYet /\ UndoneHaveFailed
  BY DEF Init, CopiesHaveBases, NoParentYet, UndoneHaveFailed, Requests
<1>2. UnswappedNowhere
  BY DEF Init, UnswappedNowhere
<1>3. SwappedStaysIn
  BY DEF Init, SwappedStaysIn, SwappedIn, Requests
<1>4. CheckedIsBase /\ CommitHolds /\ RowNamesItsCommit
  BY DEF Init, CheckedIsBase, CommitHolds, RowNamesItsCommit, Requests
<1> QED
  BY <1>1, <1>2, <1>3, <1>4 DEF RollbackInv

\* Approvals that keep the row lock through their rollback keep the invariant.
LEMMA RollbacksHold == Spec /\ []HeldThroughFailure => []RollbackInv
<1>1. Init => RollbackInv
  BY InitRollbackInv
<1>2. IInv /\ HeldThroughFailure /\ HeldThroughFailure' /\ RollbackInv /\ [Next]_vars
        => RollbackInv'
  BY CopiesHaveBasesStep, UnswappedStep, SwappedInStays, NoParentYetStep, UndoneHaveFailedStep,
     CheckHolds, CommitHoldsStep, NamesHold DEF RollbackInv
<1> QED
  BY <1>1, <1>2, Invariance, PTL DEF Spec

\* Were the row lock held until a failed approval has rolled back, no failure,
\* no crash and no rollback that fails halfway would take an applied change out
\* of the file: what late_rollback shows is the early release, and nothing else.
THEOREM HeldLocksKeepChanges == Spec /\ []HeldThroughFailure => []AppliedIsInFile
<1>1. RollbackInv => AppliedIsInFile
  BY DEF RollbackInv, SwappedStaysIn, SwappedIn, AppliedIsInFile
<1> QED
  BY <1>1, RollbacksHold, PTL

\* Under the same condition every row names a commit that holds its change,
\* although the history also holds what failed approvals committed and undid.
THEOREM HeldLocksNameCommits == Spec /\ []HeldThroughFailure => []RowNamesItsCommit
<1>1. RollbackInv => RowNamesItsCommit
  BY DEF RollbackInv
<1> QED
  BY <1>1, RollbacksHold, PTL

\* The copy a request runs its code on is of the content it has fingerprinted:
\* the file was not swapped or rolled back between the fingerprint and the copy,
\* or is back at that content.
CopyOfBase == \A p \in Proposals : pc[p] = "run" /\ scratch[p] # None => scratch[p] = base[p]

\* Then what waits for review is the fingerprinted content and one change.
CopyAddsOne ==
  \A p \in Proposals :
    scratch[p] # None /\ (status[p] # "none" \/ pc[p] = "create") =>
      scratch[p] = base[p] \union {p}

\* The run of the code adds the change to the copy, and nothing else writes it.
LEMMA CopyAddsOneStep ==
  ASSUME IInv, RollbackInv, CopyOfBase, CopyAddsOne, [Next]_vars
  PROVE  CopyAddsOne'
<1>a. /\ base \in [Proposals -> Contents \union {None}]
      /\ pc \in [Requests -> Labels] /\ Proposals \subseteq Requests
      /\ RequestsKnow /\ CopiesHaveBases
  BY DEF IInv, TypeOK, RollbackInv, Requests
<1> SUFFICES ASSUME NEW p \in Proposals, scratch'[p] # None,
                    status'[p] # "none" \/ pc'[p] = "create"
             PROVE  scratch'[p] = base'[p] \union {p}
  BY DEF CopyAddsOne
<1>1. ~CopyScratch(p)
  <2> SUFFICES ASSUME CopyScratch(p) PROVE FALSE
    OBVIOUS
  <2>1. pc[p] = "copy" /\ pc'[p] = "run" /\ status' = status
    BY <1>a DEF CopyScratch, db, Goto
  <2> QED BY <1>a, <2>1 DEF RequestsKnow, Attempting
<1>b. ~Fingerprint(p)
  BY <1>1, <1>a, CopyStep DEF Fingerprint, CopiesHaveBases, Unread
<1>2. base'[p] = base[p]
  BY <1>a, <1>b, BaseStep DEF Fingerprint
<1>3. CASE RunCode(p)
  <2>1. pc[p] = "run" /\ status' = status /\ status[p] = "none"
    BY <1>3, <1>a DEF RunCode, db, RequestsKnow, Attempting
  <2>2. scratch[p] # None /\ scratch'[p] = scratch[p] \union {p}
    BY <1>a, <1>3, <2>1 DEF RunCode, Delete, Goto, FailAttempt, IInv, TypeOK
  <2> QED
    BY <1>2, <2>1, <2>2 DEF CopyOfBase
<1>4. CASE ~RunCode(p)
  <2>1. scratch'[p] = scratch[p]
    BY <1>1, <1>4, CopyStep
  <2>2. status'[p] = "none" \/ status[p] # "none" \/ pc[p] = "create"
    BY StatusFate DEF CreateProposal
  <2>3. pc'[p] = "create" => pc[p] = "create"
    BY <1>4, <1>a, <1>b, <2>1, PathStep DEF Unread, CopiesHaveBases
  <2> QED
    BY <1>2, <2>1, <2>2, <2>3 DEF CopyAddsOne
<1> QED
  BY <1>3, <1>4

\* Under the same condition on the lock, a swap that publishes more or less than
\* the reviewed change has a copy taken of other content than was fingerprinted.
THEOREM HeldLocksSwapReviewed ==
  Spec /\ []HeldThroughFailure /\ []CopyOfBase => SwapIsReviewedDiff
<1>1. Init => CopyAddsOne
  BY DEF Init, CopyAddsOne
<1>2. IInv /\ RollbackInv /\ CopyOfBase /\ CopyAddsOne /\ [Next]_vars => CopyAddsOne'
  BY CopyAddsOneStep
<1>3. IInv /\ RollbackInv /\ CopyAddsOne /\ [Next]_vars => [SwapAdds]_vars
  <2> SUFFICES ASSUME IInv, RollbackInv, CopyAddsOne, [Next]_vars,
                      NEW r \in Approvers, pc[r] = "replace", pc'[r] = "commit"
               PROVE  file' = file \union {target[r]}
    BY DEF SwapAdds
  <2>1. Replace(r)
    BY ApprovalPath
  <2>2. scratch[target[r]] # None
    BY <2>1 DEF Replace, Goto, IInv, TypeOK, Requests
  <2>3. /\ target[r] \in Proposals /\ status[target[r]] = "approved"
        /\ file' = scratch[target[r]]
    BY <2>1, <2>2, SwapLosesNone
  <2>4. file = base[target[r]]
    BY DEF RollbackInv, CheckedIsBase
  <2> QED
    BY <2>2, <2>3, <2>4 DEF CopyAddsOne
<1>4. [][SwapAdds]_vars => SwapIsReviewedDiff
  BY PTL DEF SwapIsReviewedDiff, SwapAdds
<1>5. Spec => []IInv
  BY Invariance
<1>6. Spec /\ []HeldThroughFailure => []RollbackInv
  BY RollbacksHold
<1> QED
  BY <1>1, <1>2, <1>3, <1>4, <1>5, <1>6, PTL DEF Spec

(***************************************************************************)
(* The entity index of approvals that are left alone.  A refresh writes      *)
(* whole rows from the model it opened, after the row lock was released, so  *)
(* of two changes of one entity the earlier one may be written back last.    *)
(* That is all that can be wrong with a row: it shows nothing the file does  *)
(* not hold, and what it misses came into the file later than what it shows. *)
(***************************************************************************)

\* The approval of p has still to write the row of e.
Ahead(p, e) ==
  \E r \in Approvers :
    /\ target[r] = p
    /\ pc[r] \in {"commit", "record", "refresh"} \/ (pc[r] = "upsert" /\ e \in queue[r])

\* What a refresh works from: its own change is in the model it opened, and what
\* is not came later.
Refreshing ==
  \A r \in Approvers :
    /\ pc[r] \in {"refresh", "upsert"} =>
         target[r] \in Proposals /\ target[r] \in file /\ status[target[r]] = "applied"
    /\ pc[r] = "upsert" =>
         /\ queue[r] \subseteq Touches[target[r]]
         /\ target[r] \in view[r] /\ view[r] \subseteq file
         /\ \A p \in file \ view[r] : Before(target[r], p)

IndexShowsFile == \A e \in Entities : index[e] \subseteq Shown(file, e)

\* Where it does not show a change of its entity, its refresh is still to come
\* or was overtaken.
IndexLags ==
  \A e \in Entities : \A p \in Shown(file, e) :
    p \in index[e] \/ Ahead(p, e) \/ \E q \in index[e] : Before(q, p)

Indexing == Refreshing /\ IndexShowsFile /\ IndexLags
IndexInv == IInv /\ NoFail /\ NoRewrite /\ SwapInv /\ RollbackInv

\* One row of a refresh.
Writes(r, e) ==
  /\ RefreshUpsert(r) /\ e \in queue[r]
  /\ index' = [index EXCEPT ![e] = Shown(view[r], e)]
  /\ queue' = [queue EXCEPT ![r] = @ \ {e}]
  /\ pc' = [pc EXCEPT ![r] = IF queue[r] = {e} THEN "done" ELSE "upsert"]

\* A refresh writes a row.
LEMMA UpsertWrites ==
  ASSUME IInv, NEW r \in Approvers, RefreshUpsert(r)
  PROVE  \E e \in Entities : Writes(r, e)
<1>1. queue[r] \subseteq Entities
  BY DEF IInv, TypeOK
<1> QED
  BY <1>1 DEF RefreshUpsert, Writes, Goto

\* Without restores only an approval's upsert writes the index.
LEMMA IndexStep ==
  ASSUME Restorers = {}, [Next]_vars
  PROVE  index' = index \/ \E r \in Approvers : RefreshUpsert(r)
BY DEF Next, Start, Serve, db, indexed, vars, ListPending, ProposeStep, DropListed,
   SupersedePending, Resolve, Fingerprint, Generate, CopyScratch, RunCode, CreateProposal,
   Guardian, LinkMessage, Reject, RejectRead, ApproveRead, ApproveStep, Claim, Lock, Check,
   Snapshot, Replace, Commit, Record, MarkFailed, FailRollback, RefreshOpen,
   DropScratch, SweepList, SweepDelete, Fault, FaultInExecute, FaultInRollback,
   FaultInIndexing, Crash

\* Some commit of the history holds q without p.
HeldWithout(history, q, p) == \E i \in DOMAIN history : q \in history[i] /\ p \notin history[i]

\* What was in the file before another change stays before it.
LEMMA BeforeStays ==
  ASSUME IInv, [Next]_vars, NEW q, NEW p, Before(q, p)
  PROVE  HeldWithout(git', q, p)
<1>1. git \in Seq(Contents) /\ git' \in Seq(Contents)
  BY TypeStep DEF IInv, TypeOK
<1>2. PICK i \in DOMAIN git : q \in git[i] /\ p \notin git[i]
  BY DEF Before
<1>3. i \in 1 .. Len(git') /\ git'[i] = git[i]
  BY <1>1, <1>2, HistoryStays
<1> QED
  BY <1>1, <1>2, <1>3 DEF HeldWithout

\* A change comes into the file by the swap of its approval, and no commit holds
\* it yet.
LEMMA Entering ==
  ASSUME IndexInv, NoRewrite', [Next]_vars, NEW p \in file', p \notin file
  PROVE  /\ \A i \in DOMAIN git : p \notin git[i]
         /\ \E r \in Approvers :
              Replace(r) /\ target[r] = p /\ target'[r] = p /\ pc'[r] = "commit"
<1>a. /\ pc \in [Requests -> Labels] /\ Approvers \subseteq Requests
      /\ git \in Seq(Contents)
  BY DEF IndexInv, IInv, TypeOK, Requests
<1>1. PICK r \in Approvers : Replace(r) /\ scratch[target[r]] # None
  BY FileStep DEF IndexInv
<1>2. p = target[r] /\ p \in Proposals
  BY <1>1, SwapAddsOne DEF IndexInv
<1>3. pc[r] = "replace" /\ pc'[r] = "commit" /\ target'[r] = target[r]
  BY <1>a, <1>1 DEF Replace, Goto, local
<1>4. Unswapped(p)
  BY <1>2, <1>3 DEF Unswapped
<1> QED
  BY <1>a, <1>1, <1>2, <1>3, <1>4 DEF IndexInv, RollbackInv, UnswappedNowhere

\* What an applied change shared the file with when it was recorded is before
\* every change that comes in later.
LEMMA AppliedBefore ==
  ASSUME IndexInv, NoRewrite', [Next]_vars, NEW q \in Proposals, status[q] = "applied",
         NEW p \in file', p \notin file
  PROVE  Before(q, p)
<1>1. PICK row \in rows : row.change = q
  BY DEF IndexInv, IInv, AppliedIffRecorded
<1>2. q # None
  BY RequestsAssumption DEF Requests
<1>3. row.hash \in 1 .. Len(git) /\ q \in git[row.hash]
  BY <1>1, <1>2 DEF IndexInv, IInv, HashesExist, RollbackInv, RowNamesItsCommit
<1>4. DOMAIN git = 1 .. Len(git)
  BY DEF IndexInv, IInv, TypeOK
<1> QED
  BY <1>3, <1>4, Entering DEF Before

\* An approval that has swapped goes on until its last row is written.
LEMMA AheadStays ==
  ASSUME IndexInv, Calm, MaxCrashes = 0, [Next]_vars, NEW e \in Entities, NEW p \in Proposals,
         e \in Touches[p], Ahead(p, e),
         \A r \in Approvers : target[r] = p => ~Writes(r, e)
  PROVE  Ahead(p, e)'
<1>a. /\ pc \in [Requests -> Labels] /\ Approvers \subseteq Requests
      /\ \A r \in Approvers : r \notin Restorers
      /\ target \in [Approvers \union Rejecters -> Proposals \union {None}]
      /\ queue \in [Approvers -> SUBSET Entities]
  BY RequestsAssumption DEF IndexInv, IInv, TypeOK, Requests
<1>b. ~Fault /\ ~Crash
  BY DEF IndexInv, IInv, TypeOK, Calm, Fault, Crash
<1>c. PICK r \in Approvers :
        /\ target[r] = p
        /\ pc[r] \in {"commit", "record", "refresh"} \/ (pc[r] = "upsert" /\ e \in queue[r])
  BY DEF Ahead
<1> SUFFICES /\ target'[r] = p
             /\ \/ pc'[r] \in {"commit", "record", "refresh"}
                \/ pc'[r] = "upsert" /\ e \in queue'[r]
  BY DEF Ahead
<1>1. CASE Commit(r)
  BY <1>a, <1>c, <1>1 DEF Commit, Goto
<1>2. CASE Record(r)
  BY <1>a, <1>c, <1>2 DEF Record, Goto, local, IndexInv, NoFail
<1>3. CASE RefreshOpen(r)
  BY <1>a, <1>c, <1>3 DEF RefreshOpen, Goto
<1>4. CASE RefreshUpsert(r)
  <2>1. PICK d \in Entities : Writes(r, d)
    BY <1>4, UpsertWrites DEF IndexInv
  <2>2. d # e
    BY <1>c, <2>1
  <2>3. target' = target /\ pc[r] = "upsert"
    BY <1>4 DEF RefreshUpsert, local
  <2> QED
    BY <1>a, <1>c, <2>1, <2>2, <2>3 DEF Writes
<1>5. CASE \/ Claim(r) \/ Lock(r) \/ Check(r) \/ Snapshot(r) \/ Replace(r)
           \/ MarkFailed(r) \/ FailRollback(r) \/ DropScratch(r)
           \/ \E q \in Proposals : ApproveRead(r, q)
  BY <1>c, <1>5 DEF Claim, Lock, Check, Snapshot, Replace, MarkFailed, FailRollback,
     DropScratch, ApproveRead
<1> QED
  BY <1>b, <1>c, <1>1, <1>2, <1>3, <1>4, <1>5, ApproveMoves DEF ApproveStep, IndexInv

\* A refresh starts on an applied change, from a model that has it.
LEMMA RefreshingStep ==
  ASSUME IndexInv, NoRewrite', Refreshing, Calm, MaxCrashes = 0, [Next]_vars
  PROVE  Refreshing'
<1>a. /\ pc \in [Requests -> Labels] /\ Approvers \subseteq Requests
      /\ \A r \in Approvers : r \notin Restorers
      /\ target \in [Approvers \union Rejecters -> Proposals \union {None}]
      /\ view \in [Approvers \union Restorers -> Contents]
      /\ queue \in [Approvers -> SUBSET Entities]
      /\ status \in [Proposals -> Status]
  BY RequestsAssumption DEF IndexInv, IInv, TypeOK, Requests
<1>b. file \subseteq file'
  BY FileGrows DEF IndexInv
<1>c. ~Fault /\ ~Crash
  BY DEF IndexInv, IInv, TypeOK, Calm, Fault, Crash
<1>d. ASSUME NEW q \in Proposals, status[q] = "applied" PROVE status'[q] = "applied"
  BY <1>d, AdvanceStep DEF Advance, Terminal, IndexInv
<1> SUFFICES ASSUME NEW r \in Approvers, pc'[r] \in {"refresh", "upsert"}
             PROVE  /\ target'[r] \in Proposals /\ target'[r] \in file'
                    /\ status'[target'[r]] = "applied"
                    /\ pc'[r] = "upsert" =>
                         /\ queue'[r] \subseteq Touches[target'[r]]
                         /\ target'[r] \in view'[r] /\ view'[r] \subseteq file'
                         /\ \A p \in file' \ view'[r] : HeldWithout(git', target'[r], p)
  BY DEF Refreshing, Before, HeldWithout
<1>1. CASE Record(r)
  <2>1. pc[r] = "record" /\ target[r] \in Proposals /\ target[r] \in file
    BY <1>1 DEF Record, IndexInv, IInv, RequestsKnow, SwapInv, SwappedIsIn
  <2>2. /\ target'[r] = target[r] /\ file' = file /\ pc'[r] = "refresh"
        /\ status'[target[r]] = "applied"
    BY <1>a, <1>1, <2>1 DEF Record, local, disk, Goto, SetStatus, IndexInv, NoFail
  <2> QED BY <2>1, <2>2
<1>2. CASE RefreshOpen(r)
  <2>1. /\ pc[r] = "refresh" /\ target'[r] = target[r] /\ file' = file /\ status' = status
        /\ view'[r] = file /\ queue'[r] = Touches[target[r]]
    BY <1>a, <1>2 DEF RefreshOpen, disk
  <2>2. target[r] \in Proposals /\ target[r] \in file /\ status[target[r]] = "applied"
    BY <2>1 DEF Refreshing
  <2> QED BY <2>1, <2>2
<1>3. ASSUME pc[r] = pc'[r], target'[r] = target[r], view'[r] = view[r],
             queue'[r] \subseteq queue[r]
      PROVE  /\ target'[r] \in Proposals /\ target'[r] \in file'
             /\ status'[target'[r]] = "applied"
             /\ pc'[r] = "upsert" =>
                  /\ queue'[r] \subseteq Touches[target'[r]]
                  /\ target'[r] \in view'[r] /\ view'[r] \subseteq file'
                  /\ \A p \in file' \ view'[r] : HeldWithout(git', target'[r], p)
  <2>1. target[r] \in Proposals /\ target[r] \in file /\ status[target[r]] = "applied"
    BY <1>3 DEF Refreshing
  <2>2. ASSUME pc[r] = "upsert", NEW p \in file' \ view[r]
        PROVE  HeldWithout(git', target[r], p)
    <3>1. CASE p \in file
      <4>1. Before(target[r], p)
        BY <2>2, <3>1 DEF Refreshing
      <4> QED BY <4>1, BeforeStays DEF IndexInv
    <3>2. CASE p \notin file
      <4>1. Before(target[r], p)
        BY <2>1, <2>2, <3>2, AppliedBefore
      <4> QED BY <4>1, BeforeStays DEF IndexInv
    <3> QED BY <3>1, <3>2
  <2> QED
    BY <1>3, <1>b, <1>d, <2>1, <2>2 DEF Refreshing
<1>4. CASE RefreshUpsert(r)
  <2>1. PICK d \in Entities : Writes(r, d)
    BY <1>4, UpsertWrites DEF IndexInv
  <2>2. /\ pc[r] = "upsert" /\ pc'[r] = "upsert" /\ target'[r] = target[r]
        /\ view'[r] = view[r] /\ queue'[r] \subseteq queue[r]
    BY <1>a, <1>4, <2>1 DEF RefreshUpsert, Writes, local
  <2> QED BY <1>3, <2>2
<1>5. CASE \/ Claim(r) \/ Lock(r) \/ Check(r) \/ Snapshot(r) \/ Replace(r) \/ Commit(r)
           \/ MarkFailed(r) \/ FailRollback(r) \/ DropScratch(r)
           \/ \E q \in Proposals : ApproveRead(r, q)
  BY <1>a, <1>5 DEF Claim, Lock, Check, Refusal, Snapshot, Replace, Commit, MarkFailed,
     FailRollback, DropScratch, ApproveRead, Goto
<1> QED
  BY <1>c, <1>1, <1>2, <1>3, <1>4, <1>5, ApproveMoves DEF ApproveStep, IndexInv

\* No row gets ahead of the file.
LEMMA ShowsFileStep ==
  ASSUME IndexInv, NoRewrite', Refreshing, IndexShowsFile, Calm, [Next]_vars
  PROVE  IndexShowsFile'
<1>a. index \in [Entities -> Contents]
  BY DEF IndexInv, IInv, TypeOK
<1>b. file \subseteq file'
  BY FileGrows DEF IndexInv
<1> SUFFICES ASSUME NEW e \in Entities PROVE index'[e] \subseteq Shown(file', e)
  BY DEF IndexShowsFile, Shown
<1>1. index[e] \subseteq Shown(file', e)
  BY <1>b DEF Shown, IndexShowsFile
<1>2. ASSUME NEW r \in Approvers, RefreshUpsert(r)
      PROVE  index'[e] \subseteq Shown(file', e)
  <2>1. PICK d \in Entities : Writes(r, d)
    BY <1>2, UpsertWrites DEF IndexInv
  <2>2. view[r] \subseteq file
    BY <1>2 DEF RefreshUpsert, Refreshing
  <2>3. index'[e] = index[e] \/ index'[e] = Shown(view[r], e)
    BY <1>a, <2>1 DEF Writes
  <2> QED
    BY <1>1, <1>b, <2>2, <2>3 DEF Shown
<1>3. CASE index' = index
  BY <1>1, <1>3
<1> QED
  BY <1>2, <1>3, IndexStep DEF Calm

\* A change that enters the file has its refresh ahead of it.
LEMMA NewIsAhead ==
  ASSUME IndexInv, NoRewrite', [Next]_vars, NEW e, NEW p \in file', p \notin file
  PROVE  Ahead(p, e)'
BY Entering DEF Ahead

\* A row that a refresh writes misses what came after its own change, no more.
LEMMA LagsStep ==
  ASSUME IndexInv, NoRewrite', Indexing, Calm, MaxCrashes = 0, [Next]_vars
  PROVE  IndexLags'
<1>a. /\ index \in [Entities -> Contents] /\ file \in Contents /\ file' \in Contents
  BY TypeStep DEF IndexInv, IInv, TypeOK
<1> SUFFICES ASSUME NEW e \in Entities, NEW p \in Shown(file', e)
             PROVE  \/ p \in index'[e] \/ Ahead(p, e)'
                    \/ \E q \in index'[e] : HeldWithout(git', q, p)
  BY DEF IndexLags, Shown, Before, HeldWithout
<1>b. p \in file' /\ p \in Proposals /\ e \in Touches[p]
  BY <1>a DEF Shown, Contents
<1>1. CASE p \notin file
  BY <1>1, <1>b, NewIsAhead
<1>2. ASSUME p \in file, NEW r \in Approvers, Writes(r, e)
      PROVE  p \in index'[e] \/ \E q \in index'[e] : HeldWithout(git', q, p)
  <2>1. /\ pc[r] = "upsert" /\ queue[r] \subseteq Touches[target[r]] /\ e \in queue[r]
        /\ target[r] \in view[r] /\ \A q \in file \ view[r] : Before(target[r], q)
    BY <1>2 DEF Writes, RefreshUpsert, Indexing, Refreshing
  <2>2. index'[e] = Shown(view[r], e)
    BY <1>a, <1>2 DEF Writes
  <2>3. CASE p \in view[r]
    BY <1>b, <2>2, <2>3 DEF Shown
  <2>4. CASE p \notin view[r]
    <3>1. HeldWithout(git', target[r], p)
      BY <1>2, <2>1, <2>4, BeforeStays DEF IndexInv
    <3>2. target[r] \in index'[e]
      <4>1. target[r] \in view[r] /\ e \in Touches[target[r]]
        BY <2>1
      <4> QED BY <2>2, <4>1 DEF Shown
    <3> QED BY <3>1, <3>2
  <2> QED BY <2>3, <2>4
<1>3. ASSUME p \in file, \A r \in Approvers : ~Writes(r, e)
      PROVE  p \in index'[e] \/ Ahead(p, e)' \/ \E q \in index'[e] : HeldWithout(git', q, p)
  <2>1. index'[e] = index[e]
    BY <1>a, <1>3, IndexStep, UpsertWrites DEF Calm, IndexInv, Writes
  <2>2. p \in index[e] \/ Ahead(p, e) \/ \E q \in index[e] : Before(q, p)
    BY <1>3, <1>b DEF Indexing, IndexLags, Shown
  <2>3. CASE Ahead(p, e)
    BY <1>3, <1>b, <2>3, AheadStays
  <2>4. ASSUME NEW q \in index[e], Before(q, p) PROVE HeldWithout(git', q, p)
    BY <2>4, BeforeStays DEF IndexInv
  <2> QED BY <2>1, <2>2, <2>3, <2>4
<1> QED
  BY <1>1, <1>2, <1>3

\* What holds of approvals that are left alone, whatever the index does.
LEMMA LeftAloneHolds == Calm => (Spec => []IndexInv)
<1> SUFFICES ASSUME Calm PROVE Spec => []IndexInv
  OBVIOUS
<1>1. NoFail => NoRewrite
  BY DEF NoFail, NoRewrite, Calm
<1>2. IInv /\ NoFail => HeldThroughFailure
  BY DEF IInv, NoFail, HeldThroughFailure, Failing, Calm
<1>3. Spec => []NoFail
  BY NothingFails
<1>4. Spec => []NoRewrite
  BY <1>1, <1>3, PTL
<1>5. Spec => []HeldThroughFailure
  BY <1>2, <1>3, Invariance, PTL
<1> QED
  BY <1>3, <1>4, <1>5, SwapsHold, RollbacksHold, Invariance, PTL DEF IndexInv

\* Before any request arrives there is nothing to show.
LEMMA InitIndexing == Init => Indexing
BY DEF Init, Indexing, Refreshing, IndexShowsFile, IndexLags, Shown, Requests

\* The index of approvals that are left alone: a row that does not show the file
\* was written by the refresh of a change that is older than all it misses.
THEOREM RowsLagBehindLaterChanges ==
  Calm /\ MaxCrashes = 0 => (Spec => []RowsMissOnlyLaterChanges)
<1> SUFFICES ASSUME Calm, MaxCrashes = 0 PROVE Spec => []RowsMissOnlyLaterChanges
  OBVIOUS
<1>1. IndexInv /\ IndexInv' /\ Indexing /\ [Next]_vars => Indexing'
  BY RefreshingStep, ShowsFileStep, LagsStep DEF Indexing, IndexInv
<1>2. Indexing => RowsMissOnlyLaterChanges
  BY DEF Indexing, IndexShowsFile, IndexLags, RowsMissOnlyLaterChanges, Quiet, Ahead, Requests
<1>3. Spec => []IndexInv
  BY LeftAloneHolds
<1> QED
  BY <1>1, <1>2, <1>3, InitIndexing, PTL DEF Spec

\* No two changes show in one row: no type and occurrence of it, no entity twice.
SeparateRows == \A p, q \in Proposals : p # q => Touches[p] \intersect Touches[q] = {}

\* Then the index shows the file whenever no request works on it.
THEOREM SeparateRowsFollow ==
  Calm /\ MaxCrashes = 0 /\ SeparateRows => (Spec => []IndexMatchesFile)
<1> SUFFICES ASSUME Calm, MaxCrashes = 0, SeparateRows PROVE Spec => []IndexMatchesFile
  OBVIOUS
<1>1. TypeOK /\ RowsMissOnlyLaterChanges => IndexMatchesFile
  <2> SUFFICES ASSUME TypeOK, RowsMissOnlyLaterChanges, Quiet, NEW e \in Entities
               PROVE  index[e] = Shown(file, e)
    BY DEF IndexMatchesFile
  <2>1. /\ index[e] \subseteq Shown(file, e)
        /\ \A p \in Shown(file, e) \ index[e] : \E q \in index[e] : Before(q, p)
    BY DEF RowsMissOnlyLaterChanges
  <2>2. ASSUME NEW p \in Shown(file, e), p \notin index[e] PROVE FALSE
    <3>1. PICK q \in index[e] : Before(q, p)
      BY <2>1, <2>2
    <3>2. p \in Proposals /\ q \in Proposals /\ e \in Touches[p] /\ e \in Touches[q] /\ p # q
      BY <2>1, <2>2 DEF Shown, TypeOK, Contents
    <3> QED BY <3>2 DEF SeparateRows
  <2> QED BY <2>1, <2>2
<1> QED
  BY <1>1, RowsLagBehindLaterChanges, Typing, PTL

\* No refresh is overtaken: what its model does not hold of a row it has still
\* to write is written again later, by that change's own refresh.
RefreshesInOrder ==
  \A r \in Approvers : pc[r] = "upsert" =>
    \A e \in queue[r] : \A p \in Shown(file, e) \ view[r] : Ahead(p, e)

\* Every change of a row's entity is shown or has its refresh ahead.
IndexFollowing ==
  \A e \in Entities : \A p \in Shown(file, e) : p \in index[e] \/ Ahead(p, e)

\* A refresh that is not overtaken leaves no row behind.
LEMMA FollowingStep ==
  ASSUME IndexInv, NoRewrite', Refreshing, RefreshesInOrder, IndexFollowing,
         Calm, MaxCrashes = 0, [Next]_vars
  PROVE  IndexFollowing'
<1>a. /\ index \in [Entities -> Contents] /\ file \in Contents /\ file' \in Contents
  BY TypeStep DEF IndexInv, IInv, TypeOK
<1> SUFFICES ASSUME NEW e \in Entities, NEW p \in Shown(file', e)
             PROVE  p \in index'[e] \/ Ahead(p, e)'
  BY DEF IndexFollowing, Shown
<1>b. p \in file' /\ p \in Proposals /\ e \in Touches[p]
  BY <1>a DEF Shown, Contents
<1>1. CASE p \notin file
  BY <1>1, <1>b, NewIsAhead
<1>2. ASSUME p \in file, NEW r \in Approvers, Writes(r, e)
      PROVE  p \in index'[e] \/ Ahead(p, e)'
  <2>1. pc[r] = "upsert" /\ e \in queue[r] /\ target[r] \in view[r]
    BY <1>2 DEF Writes, RefreshUpsert, Refreshing
  <2>2. index'[e] = Shown(view[r], e)
    BY <1>a, <1>2 DEF Writes
  <2>3. CASE p \in view[r]
    BY <1>b, <2>2, <2>3 DEF Shown
  <2>4. CASE p \notin view[r]
    <3>1. Ahead(p, e) /\ target[r] # p
      BY <1>2, <1>b, <2>1, <2>4 DEF RefreshesInOrder, Shown
    <3>2. \A s \in Approvers : Writes(s, e) => s = r
      <4> SUFFICES ASSUME NEW s \in Approvers, Writes(s, e), s # r PROVE FALSE
        OBVIOUS
      <4>1. /\ queue \in [Approvers -> SUBSET Entities]
            /\ queue' = [queue EXCEPT ![s] = @ \ {e}] /\ e \in queue[s]
            /\ queue' = [queue EXCEPT ![r] = @ \ {e}]
        BY <1>2 DEF Writes, IndexInv, IInv, TypeOK
      <4> QED BY <4>1
    <3> QED BY <1>b, <3>1, <3>2, AheadStays
  <2> QED BY <2>3, <2>4
<1>3. ASSUME p \in file, \A r \in Approvers : ~Writes(r, e)
      PROVE  p \in index'[e] \/ Ahead(p, e)'
  <2>1. index'[e] = index[e]
    BY <1>a, <1>3, IndexStep, UpsertWrites DEF Calm, IndexInv, Writes
  <2>2. p \in index[e] \/ Ahead(p, e)
    BY <1>3, <1>b DEF IndexFollowing, Shown
  <2> QED BY <1>3, <1>b, <2>1, <2>2, AheadStays
<1> QED
  BY <1>1, <1>2, <1>3

\* As long as no refresh is overtaken by a later change of an entity it has still
\* to write, the index shows the file whenever no request works on it.
THEOREM IndexFollows ==
  Calm /\ MaxCrashes = 0 => (Spec /\ []RefreshesInOrder => []IndexMatchesFile)
<1> SUFFICES ASSUME Calm, MaxCrashes = 0
             PROVE  Spec /\ []RefreshesInOrder => []IndexMatchesFile
  OBVIOUS
<1> DEFINE Follows == Refreshing /\ IndexShowsFile /\ IndexFollowing
<1>1. Init => Follows
  BY InitIndexing DEF Indexing, Init, IndexFollowing, Shown
<1>2. IndexInv /\ IndexInv' /\ RefreshesInOrder /\ Follows /\ [Next]_vars => Follows'
  BY RefreshingStep, ShowsFileStep, FollowingStep DEF IndexInv
<1>3. Follows => IndexMatchesFile
  BY DEF IndexShowsFile, IndexFollowing, IndexMatchesFile, Quiet, Ahead, Requests
<1>4. Spec => []IndexInv
  BY LeftAloneHolds
<1> HIDE DEF Follows
<1> QED
  BY <1>1, <1>2, <1>3, <1>4, PTL DEF Spec
=============================================================================
