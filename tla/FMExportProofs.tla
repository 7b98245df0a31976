--------------------------- MODULE FMExportProofs ---------------------------
(***************************************************************************)
(* Last write wins in FMExport, for any deltas, any number of overlapping   *)
(* exports and any bound on what goes wrong; and, for exports that do not   *)
(* overlap, that the commits, the file and the rows agree.                  *)
(***************************************************************************)
EXTENDS FMExport, TLAPS, WellFoundedInduction, FiniteSetTheorems

\* A row is queued once, so two of a key were queued one after the other.
QueuedOnce ==
  \A i, j \in 1..Len(queued) : queued[i] = queued[j] => i = j

\* Plans, and what was settled from them, come from the queue.
PlansAreQueued ==
  /\ applied \subseteq ToSet(queued)
  /\ \A e \in Exports : plan[e] \subseteq ToSet(queued)

\* Each loser of a plan lost to a delta of the plan.
LosersBeaten ==
  \A e \in Exports : \A d \in losers[e] : \E w \in plan[e] : Newer(w, d)

\* A plan holds nothing that leaves an older delta of its key pending.
PlansAreNewest ==
  \A e \in Exports : \A w \in plan[e], d \in Pending : Newer(w, d) => d \in losers[e]

\* A rollback target is a commit that exists.
TargetsExist ==
  /\ Len(git) \in Nat \ {0}
  /\ \A e \in Exports : target[e] \in 0..Len(git)

ExportInv ==
  /\ ExportTypeOK
  /\ QueuedOnce
  /\ PlansAreQueued
  /\ LosersBeaten
  /\ PlansAreNewest
  /\ TargetsExist
  /\ SupersededByNewer
  /\ NoOlderPending

USE ExportBoundsAssumption

\* The members of a sequence are its values at its indexes.
LEMMA ToSetIndexed ==
  ASSUME NEW S, NEW s \in Seq(S)
  PROVE  /\ ToSet(s) = {s[i] : i \in 1..Len(s)}
         /\ ToSet(s) \subseteq S
BY DEF ToSet

\* Appending adds one member and moves none.
LEMMA ToSetAppend ==
  ASSUME NEW S, NEW s \in Seq(S), NEW x \in S
  PROVE  /\ ToSet(Append(s, x)) = ToSet(s) \union {x}
         /\ Append(s, x) \in Seq(S)
         /\ Len(Append(s, x)) = Len(s) + 1
         /\ \A i \in 1..Len(s) : Append(s, x)[i] = s[i]
         /\ Append(s, x)[Len(s) + 1] = x
<1>1. /\ Append(s, x) \in Seq(S)
      /\ Len(Append(s, x)) = Len(s) + 1
      /\ \A i \in 1..Len(s) : Append(s, x)[i] = s[i]
      /\ Append(s, x)[Len(s) + 1] = x
  OBVIOUS
<1>2. Len(s) \in Nat
  OBVIOUS
<1>3. 1..Len(Append(s, x)) = 1..Len(s) \union {Len(s) + 1}
  BY <1>1, <1>2
<1>4. ToSet(s) = {s[i] : i \in 1..Len(s)}
  BY ToSetIndexed
<1>5. ToSet(Append(s, x)) = {Append(s, x)[i] : i \in 1..Len(Append(s, x))}
  BY <1>1, ToSetIndexed
<1>6. ToSet(Append(s, x)) = ToSet(s) \union {x}
  <2> HIDE <1>2
  <2> QED
    BY <1>1, <1>3, <1>4, <1>5, Zenon
<1> QED
  BY <1>1, <1>6

\* The plan's collapse keeps, for every delta it drops, a newer one.
LEMMA NewestExists ==
  ASSUME ExportTypeOK, QueuedOnce,
         NEW ds, ds \subseteq ToSet(queued),
         NEW d \in ds, d \notin NewestOf(ds)
  PROVE  \E w \in NewestOf(ds) : Newer(w, d)
<1> DEFINE n == Len(queued)
           Idx == {i \in 1..n : queued[i] \in ds /\ KeyOf[queued[i]] = KeyOf[d]}
           T == {n - i : i \in Idx}
<1>1. queued \in Seq(Deltas) /\ n \in Nat
  BY DEF ExportTypeOK
<1>2. PICK k \in 1..n : queued[k] = d
  BY <1>1, ToSetIndexed
<1>3. n - k \in T /\ T \subseteq Nat
  BY <1>1, <1>2
<1>4. PICK t \in T : \A y \in T : <<y, t>> \notin OpToRel(<, Nat)
  <2> HIDE DEF T
  <2> QED
    BY <1>3, WFMin, NatLessThanWellFounded
<1>5. PICK i \in Idx : t = n - i
  BY <1>4
<1>6. \A j \in Idx : j <= i
  <2> SUFFICES ASSUME NEW j \in Idx PROVE ~(n - j < n - i)
    BY <1>1
  <2>1. n - j \in T /\ n - j \in Nat /\ n - i \in Nat
    BY <1>1
  <2> QED
    BY <2>1, <1>4, <1>5 DEF OpToRel
<1>7. queued[i] \in NewestOf(ds)
  <2> SUFFICES ASSUME NEW e \in ds, Newer(e, queued[i]) PROVE FALSE
    BY <1>5 DEF NewestOf
  <2>1. PICK a, b \in 1..n : a > b /\ queued[a] = e /\ queued[b] = queued[i]
    BY DEF Newer
  <2>2. b = i /\ a \in Idx
    BY <2>1 DEF QueuedOnce, Newer
  <2> QED
    BY <1>1, <1>6, <2>1, <2>2
<1>8. i > k
  <2>1. k \in Idx /\ k <= i
    BY <1>2, <1>6
  <2>2. k # i
    BY <1>2, <1>7
  <2> QED
    BY <1>1, <2>1, <2>2
<1>9. Newer(queued[i], d)
  BY <1>2, <1>5, <1>8 DEF Newer
<1> QED
  BY <1>7, <1>9

\* Before any edit there is nothing to order.
LEMMA InitExportInv == Init => ExportInv
<1> SUFFICES ASSUME Init PROVE ExportInv
  OBVIOUS
<1>1. ExportTypeOK
  BY DEF Init, ExportTypeOK, Models, Files, Working, JobStatus
<1>2. QueuedOnce /\ PlansAreQueued /\ LosersBeaten /\ TargetsExist
  BY DEF Init, QueuedOnce, PlansAreQueued, LosersBeaten, TargetsExist
<1>3. Pending = {}
  BY DEF Init, Pending, ToSet
<1>4. PlansAreNewest /\ SupersededByNewer /\ NoOlderPending
  BY <1>3 DEF Init, PlansAreNewest, SupersededByNewer, NoOlderPending
<1> QED
  BY <1>1, <1>2, <1>4 DEF ExportInv

\* What a replay leaves in memory is a model again.
LEMMA WrittenIsModel ==
  ASSUME ExportTypeOK, NEW e \in Exports, NEW content \in Models
  PROVE  Written(e, content) \in Models
<1> SUFFICES ASSUME NEW k \in Keys, NEW d \in plan[e], KeyOf[d] = k
    PROVE (CHOOSE x \in plan[e] : KeyOf[x] = k) \in Deltas
  BY DEF Written, Models
<1>1. (CHOOSE x \in plan[e] : KeyOf[x] = k) \in plan[e]
  OBVIOUS
<1> QED
  BY <1>1 DEF ExportTypeOK

\* Each action keeps the types.
LEMMA TypeStep ==
  ASSUME ExportTypeOK, TargetsExist, [Next]_vars
  PROVE  ExportTypeOK' /\ TargetsExist'
<1> USE DEF ExportTypeOK, TargetsExist, Files, JobStatus, Working, Goto,
            rows, disk, local, env, vars
<1>1. CASE UNCHANGED vars
  BY <1>1
<1>2. ASSUME NEW d \in Deltas, QueueDelta(d) PROVE ExportTypeOK' /\ TargetsExist'
  BY <1>2 DEF QueueDelta
<1>3. ASSUME NEW e \in Exports, Plan(e) PROVE ExportTypeOK' /\ TargetsExist'
  <2>1. Pending \subseteq Deltas
    BY ToSetIndexed DEF Pending
  <2>2. NewestOf(Pending) \subseteq Deltas
    BY <2>1 DEF NewestOf
  <2> QED
    BY <1>3, <2>1, <2>2 DEF Plan
<1>4. ASSUME NEW e \in Exports, CreateJob(e) PROVE ExportTypeOK' /\ TargetsExist'
  BY <1>4 DEF CreateJob
<1>5. ASSUME NEW e \in Exports, Announce(e) PROVE ExportTypeOK' /\ TargetsExist'
  BY <1>5 DEF Announce
<1>6. ASSUME NEW e \in Exports, Snapshot(e) PROVE ExportTypeOK' /\ TargetsExist'
  <2>1. git' \in Seq(Files) /\ Len(git') \in {Len(git), Len(git) + 1}
    BY <1>6 DEF Snapshot
  <2> QED
    BY <1>6, <2>1 DEF Snapshot
<1>7. ASSUME NEW e \in Exports, Run(e) PROVE ExportTypeOK' /\ TargetsExist'
  BY <1>7 DEF Run
<1>8. ASSUME NEW e \in Exports, ApplyDeltas(e) PROVE ExportTypeOK' /\ TargetsExist'
  <2>1. CASE file = Damaged
    BY <1>8, <2>1 DEF ApplyDeltas
  <2>2. CASE file # Damaged
    <3>1. Written(e, file) \in Models
      BY <2>2, WrittenIsModel
    <3> QED
      BY <1>8, <2>2, <3>1 DEF ApplyDeltas
  <2> QED
    BY <2>1, <2>2
<1>9. ASSUME NEW e \in Exports, Save(e) PROVE ExportTypeOK' /\ TargetsExist'
  BY <1>9 DEF Save
<1>10. ASSUME NEW e \in Exports, Commit(e) PROVE ExportTypeOK' /\ TargetsExist'
  <2>1. git' \in Seq(Files) /\ Len(git') = Len(git) + 1
    BY <1>10 DEF Commit
  <2> QED
    BY <1>10, <2>1 DEF Commit
<1>11. ASSUME NEW e \in Exports, Mark(e) PROVE ExportTypeOK' /\ TargetsExist'
  BY <1>11 DEF Mark
<1>12. ASSUME NEW e \in Exports, Finish(e) PROVE ExportTypeOK' /\ TargetsExist'
  BY <1>12 DEF Finish
<1>13. ASSUME NEW e \in Exports, Fail(e) PROVE ExportTypeOK' /\ TargetsExist'
  BY <1>13 DEF Fail
<1>14. ASSUME NEW e \in Exports, Notify(e) PROVE ExportTypeOK' /\ TargetsExist'
  BY <1>14 DEF Notify
<1>15. ASSUME NEW e \in Exports, Rollback(e) PROVE ExportTypeOK' /\ TargetsExist'
  <2>1. CASE target[e] = 0
    BY <1>15, <2>1 DEF Rollback
  <2>2. CASE target[e] # 0
    <3>1. git[target[e]] \in Files
      BY <2>2
    <3>2. file' = git[target[e]] /\ git' = Append(git, git[target[e]])
      BY <1>15, <2>2 DEF Rollback
    <3>3. git' \in Seq(Files) /\ Len(git') = Len(git) + 1
      <4> HIDE DEF Files
      <4> QED
        BY <3>1, <3>2
    <3> QED
      BY <1>15, <3>1, <3>2, <3>3 DEF Rollback
  <2> QED
    BY <2>1, <2>2
<1>16. ASSUME NEW e \in Exports, SendFails(e) PROVE ExportTypeOK' /\ TargetsExist'
  BY <1>16 DEF SendFails
<1>17. ASSUME NEW e \in Exports, faults < MaxFaults, faults' = faults + 1,
              FaultInExport(e) \/ FaultInRollback(e), UNCHANGED <<broken, crashes>>
       PROVE ExportTypeOK' /\ TargetsExist'
  <2>1. CASE FaultInExport(e)
    <3>1. /\ file' \in Files
          /\ pc' \in [Exports -> Working \union {"idle", "done", "dead"}]
          /\ UNCHANGED <<rows, job, git, local>>
      BY <2>1 DEF FaultInExport
    <3> QED
      BY <1>17, <3>1
  <2>2. CASE FaultInRollback(e)
    <3>1. git[target[e]] \in Files
      BY <2>2 DEF FaultInRollback
    <3> QED
      BY <1>17, <2>2, <3>1 DEF FaultInRollback
  <2> QED
    BY <1>17, <2>1, <2>2
<1>18. CASE Crash
  <2>1. file' \in Files
    BY <1>18 DEF Crash
  <2> QED
    BY <1>18, <2>1 DEF Crash
<1> QED
  BY <1>1, <1>2, <1>3, <1>4, <1>5, <1>6, <1>7, <1>8, <1>9, <1>10, <1>11, <1>12, <1>13,
     <1>14, <1>15, <1>16, <1>17, <1>18 DEF Next, ExportStep, Fault

\* What the queue and the plans say of each other.
QueueInv ==
  /\ QueuedOnce
  /\ PlansAreQueued
  /\ LosersBeaten
  /\ PlansAreNewest
  /\ SupersededByNewer
  /\ NoOlderPending

\* A new row comes after all others: it changes no order and is older than none.
LEMMA QueueDeltaStep ==
  ASSUME ExportTypeOK, QueueInv, NEW x \in Deltas, QueueDelta(x)
  PROVE  QueueInv'
<1> USE DEF QueueInv
<1>1. /\ queued' = Append(queued, x)
      /\ x \notin ToSet(queued)
      /\ UNCHANGED <<applied, superseded, plan, losers>>
  BY DEF QueueDelta, local
<1>2. queued \in Seq(Deltas) /\ Len(queued) \in Nat
  BY DEF ExportTypeOK
<1>3. /\ ToSet(queued') = ToSet(queued) \union {x}
      /\ Len(queued') = Len(queued) + 1
      /\ \A i \in 1..Len(queued) : queued'[i] = queued[i]
      /\ queued'[Len(queued) + 1] = x
  BY <1>1, <1>2, ToSetAppend
<1>4. \A i \in 1..Len(queued) : queued[i] # x
  BY <1>1, <1>2, ToSetIndexed
<1>5. QueuedOnce'
  BY <1>2, <1>3, <1>4 DEF QueuedOnce
<1>6. PlansAreQueued'
  BY <1>1, <1>3 DEF PlansAreQueued
<1>7. ASSUME NEW d, NEW e, Newer(d, e) PROVE Newer(d, e)'
  BY <1>2, <1>3, <1>7 DEF Newer
<1>8. ASSUME NEW d \in ToSet(queued), NEW e, Newer(d, e)' PROVE Newer(d, e) /\ e # x
  <2>1. PICK i, j \in 1..Len(queued') : i > j /\ queued'[i] = d /\ queued'[j] = e
    BY <1>8 DEF Newer
  <2>2. d # x
    BY <1>1
  <2>3. i \in 1..Len(queued) /\ j \in 1..Len(queued)
    BY <1>2, <1>3, <2>1, <2>2
  <2> QED
    BY <1>3, <1>4, <1>8, <2>1, <2>3 DEF Newer
<1>9. LosersBeaten' /\ SupersededByNewer'
  BY <1>1, <1>7 DEF LosersBeaten, SupersededByNewer
<1>10. Pending' \subseteq Pending \union {x}
  BY <1>1, <1>3 DEF Pending
<1>11. PlansAreNewest'
  BY <1>1, <1>8, <1>10 DEF PlansAreNewest, PlansAreQueued
<1>12. NoOlderPending'
  BY <1>1, <1>8, <1>10 DEF NoOlderPending, PlansAreQueued
<1> QED
  BY <1>5, <1>6, <1>9, <1>11, <1>12

\* A plan keeps the newest of each key and its losers are the older ones.
LEMMA PlanStep ==
  ASSUME ExportTypeOK, QueueInv, NEW x \in Exports, Plan(x)
  PROVE  QueueInv'
<1> USE DEF QueueInv
<1>1. /\ UNCHANGED <<queued, applied, superseded>>
      /\ plan' = [plan EXCEPT ![x] = NewestOf(Pending)]
      /\ losers' = [losers EXCEPT ![x] = Pending \ NewestOf(Pending)]
  BY DEF Plan, rows
<1>2. Pending \subseteq ToSet(queued) /\ NewestOf(Pending) \subseteq Pending
  BY DEF Pending, NewestOf
<1>3. Pending' = Pending /\ QueuedOnce' /\ SupersededByNewer' /\ NoOlderPending'
  BY <1>1 DEF Pending, Newer, QueuedOnce, SupersededByNewer, NoOlderPending
<1>4. \A d, e : Newer(d, e)' <=> Newer(d, e)
  BY <1>1 DEF Newer
<1>5. PlansAreQueued'
  BY <1>1, <1>2 DEF PlansAreQueued, ExportTypeOK
<1>6. \A d \in Pending \ NewestOf(Pending) : \E w \in NewestOf(Pending) : Newer(w, d)
  BY <1>2, NewestExists
<1>7. LosersBeaten'
  BY <1>1, <1>4, <1>6 DEF LosersBeaten, ExportTypeOK
<1>8. ASSUME NEW w \in NewestOf(Pending), NEW d \in Pending, Newer(w, d)
      PROVE d \in Pending \ NewestOf(Pending)
  BY <1>8 DEF NewestOf
<1>9. PlansAreNewest'
  BY <1>1, <1>3, <1>4, <1>8 DEF PlansAreNewest, ExportTypeOK
<1> QED
  BY <1>3, <1>5, <1>7, <1>9

\* Marking a plan settles its deltas with everything older than them.
LEMMA MarkStep ==
  ASSUME ExportTypeOK, QueueInv, NEW x \in Exports, Mark(x)
  PROVE  QueueInv'
<1> USE DEF QueueInv
<1>1. /\ UNCHANGED <<queued, plan, losers>>
      /\ applied' = applied \union plan[x]
      /\ superseded' = superseded \union losers[x]
  BY DEF Mark, local
<1>2. \A d, e : Newer(d, e)' <=> Newer(d, e)
  BY <1>1 DEF Newer
<1>3. Pending' \subseteq Pending \ losers[x]
  BY <1>1 DEF Pending
<1>4. QueuedOnce' /\ PlansAreQueued' /\ LosersBeaten'
  BY <1>1, <1>2 DEF QueuedOnce, PlansAreQueued, LosersBeaten
<1>5. PlansAreNewest'
  BY <1>1, <1>2, <1>3 DEF PlansAreNewest
<1>6. SupersededByNewer'
  BY <1>1, <1>2 DEF SupersededByNewer, LosersBeaten
<1>7. NoOlderPending'
  BY <1>1, <1>2, <1>3 DEF NoOlderPending, PlansAreNewest
<1> QED
  BY <1>4, <1>5, <1>6, <1>7

\* Nothing else writes the queue or a plan.
LEMMA OtherStep ==
  ASSUME QueueInv, UNCHANGED <<queued, applied, superseded, plan, losers>>
  PROVE  QueueInv'
<1>1. (\A d, e : Newer(d, e)' <=> Newer(d, e)) /\ Pending' = Pending
  BY DEF Newer, Pending
<1> QED
  BY <1>1 DEF QueueInv, QueuedOnce, PlansAreQueued, LosersBeaten, PlansAreNewest,
              SupersededByNewer, NoOlderPending

\* Only three actions can disturb the order of the queue and its plans.
LEMMA QueueStep ==
  ASSUME ExportTypeOK, QueueInv, [Next]_vars
  PROVE  QueueInv'
<1> USE OtherStep DEF rows, local
<1>1. CASE UNCHANGED vars
  BY <1>1 DEF vars
<1>2. CASE \E d \in Deltas : QueueDelta(d)
  BY <1>2, QueueDeltaStep
<1>3. CASE \E e \in Exports : Plan(e)
  BY <1>3, PlanStep
<1>4. ASSUME NEW e \in Exports, ExportStep(e) PROVE QueueInv'
  <2>1. CASE Mark(e)
    BY <2>1, MarkStep
  <2>2. CASE CreateJob(e) \/ Announce(e) \/ Snapshot(e) \/ Run(e)
    BY <2>2 DEF CreateJob, Announce, Snapshot, Run
  <2>3. CASE ApplyDeltas(e) \/ Save(e) \/ Commit(e)
    BY <2>3 DEF ApplyDeltas, Save, Commit
  <2>4. CASE Finish(e) \/ Fail(e) \/ Notify(e) \/ Rollback(e)
    BY <2>4 DEF Finish, Fail, Notify, Rollback
  <2> QED
    BY <1>4, <2>1, <2>2, <2>3, <2>4 DEF ExportStep
<1>5. CASE \E e \in Exports : SendFails(e)
  BY <1>5 DEF SendFails
<1>6. CASE Fault
  BY <1>6 DEF Fault, FaultInExport, FaultInRollback
<1>7. CASE Crash
  BY <1>7 DEF Crash
<1> QED
  BY <1>1, <1>2, <1>3, <1>4, <1>5, <1>6, <1>7 DEF Next

\* The inductive invariant holds in every reachable state.
THEOREM ExportInvariant == Spec => []ExportInv
<1>1. ExportInv /\ [Next]_vars => ExportInv'
  BY TypeStep, QueueStep DEF ExportInv, QueueInv
<1> QED
  BY InitExportInv, <1>1, PTL DEF Spec

\* Every variable of an export and of the queue keeps its type.
THEOREM ExportTypeCorrect == Spec => []ExportTypeOK
BY ExportInvariant, PTL DEF ExportInv

\* However exports overlap, fail or die, a delta is superseded only for a newer
\* one of its key that an export applied.
THEOREM LastWriteWins == Spec => []SupersededByNewer
BY ExportInvariant, PTL DEF ExportInv

\* However exports overlap, fail or die, no delta older than an applied one of
\* its key is left for a later export to write over it.
THEOREM NothingOlderLeft == Spec => []NoOlderPending
BY ExportInvariant, PTL DEF ExportInv

(***************************************************************************)
(* One export at a time: every delta is settled once.                       *)
(***************************************************************************)

\* Labels at which a planned batch is still to be marked.
Carrying == {"create", "announce", "snapshot", "run", "apply", "save", "commit", "mark"}

\* Two exports that are under way are the same one.
Alone == \A e, f \in Exports : pc[e] \in Working /\ pc[f] \in Working => e = f

\* What a plan under way holds is settled by nobody else, and not twice by it.
PlansUnsettled ==
  \A e \in Exports : pc[e] \in Carrying =>
    /\ (plan[e] \union losers[e]) \intersect (applied \union superseded) = {}
    /\ plan[e] \intersect losers[e] = {}

SettleInv ==
  /\ Alone
  /\ PlansUnsettled
  /\ SettledOnce

\* Outside Plan and Mark nothing is planned or settled, and an export that is
\* under way was so before.
LEMMA WorkStep ==
  ASSUME ExportTypeOK, [Next]_vars,
         ~ \E x \in Exports : Plan(x) \/ Mark(x)
  PROVE  /\ UNCHANGED <<applied, superseded, plan, losers>>
         /\ \A e \in Exports : /\ pc'[e] \in Working => pc[e] \in Working
                               /\ pc'[e] \in Carrying => pc[e] \in Carrying
<1> DEFINE Kept ==
      /\ UNCHANGED <<applied, superseded, plan, losers>>
      /\ \A e \in Exports : /\ pc'[e] \in Working => pc[e] \in Working
                            /\ pc'[e] \in Carrying => pc[e] \in Carrying
<1> SUFFICES Kept
  OBVIOUS
<1> USE DEF ExportTypeOK, Goto, Working, Carrying, rows, local
<1>1. CASE UNCHANGED vars
  BY <1>1 DEF vars
<1>2. CASE \E d \in Deltas : QueueDelta(d)
  BY <1>2 DEF QueueDelta
<1>3. ASSUME NEW x \in Exports, ExportStep(x) PROVE Kept
  <2>1. CASE CreateJob(x) \/ Announce(x) \/ Snapshot(x) \/ Run(x)
    BY <2>1 DEF CreateJob, Announce, Snapshot, Run
  <2>2. CASE ApplyDeltas(x) \/ Save(x) \/ Commit(x)
    BY <2>2 DEF ApplyDeltas, Save, Commit
  <2>3. CASE Finish(x) \/ Fail(x) \/ Notify(x) \/ Rollback(x)
    BY <2>3 DEF Finish, Fail, Notify, Rollback
  <2> QED
    BY <1>3, <2>1, <2>2, <2>3 DEF ExportStep
<1>4. CASE \E x \in Exports : SendFails(x)
  BY <1>4 DEF SendFails
<1>5. ASSUME NEW x \in Exports, FaultInExport(x) PROVE Kept
  BY <1>5 DEF FaultInExport
<1>6. ASSUME NEW x \in Exports, FaultInRollback(x) PROVE Kept
  BY <1>6 DEF FaultInRollback
<1>7. CASE Crash
  BY <1>7 DEF Crash
<1> QED
  BY <1>1, <1>2, <1>3, <1>4, <1>5, <1>6, <1>7 DEF Next, Fault

\* With a bound of one, a plan is made when no export is under way.
LEMMA PlanAlone ==
  ASSUME MaxOverlap = 1, Alone, NEW x \in Exports, Plan(x)
  PROVE  \A e \in Exports : pc[e] \notin Working
<1> SUFFICES ASSUME NEW e \in Exports, pc[e] \in Working PROVE FALSE
  OBVIOUS
<1>1. {y \in Exports : pc[y] \in Working} = {e}
  BY DEF Alone
<1>2. Cardinality({e}) = 1
  BY FS_Singleton
<1> QED
  BY <1>1, <1>2 DEF Plan

\* Planning, marking and the rest keep the settlement in order.
LEMMA SettleStep ==
  ASSUME MaxOverlap = 1, ExportTypeOK, SettleInv, [Next]_vars
  PROVE  SettleInv'
<1> USE DEF SettleInv
<1>1. ASSUME NEW x \in Exports, Plan(x) PROVE SettleInv'
  <2>1. \A e \in Exports : pc[e] \notin Working
    BY <1>1, PlanAlone
  <2>2. /\ UNCHANGED <<applied, superseded>>
        /\ plan' = [plan EXCEPT ![x] = NewestOf(Pending)]
        /\ losers' = [losers EXCEPT ![x] = Pending \ NewestOf(Pending)]
        /\ \A e \in Exports \ {x} : pc'[e] = pc[e]
    BY <1>1 DEF Plan, rows, Goto, ExportTypeOK
  <2>3. \A e \in Exports : pc'[e] \in Working => e = x
    BY <2>1, <2>2
  <2>4. Alone'
    BY <2>3 DEF Alone
  <2>5. Carrying \subseteq Working
    BY DEF Carrying, Working
  <2>6. Pending \intersect (applied \union superseded) = {} /\ NewestOf(Pending) \subseteq Pending
    BY DEF Pending, NewestOf
  <2>7. plan'[x] = NewestOf(Pending) /\ losers'[x] = Pending \ NewestOf(Pending)
    BY <2>2 DEF ExportTypeOK
  <2>8. PlansUnsettled'
    BY <2>2, <2>3, <2>5, <2>6, <2>7 DEF PlansUnsettled
  <2> QED
    BY <2>2, <2>4, <2>8 DEF SettledOnce
<1>2. ASSUME NEW x \in Exports, Mark(x) PROVE SettleInv'
  <2>1. /\ UNCHANGED <<plan, losers>>
        /\ applied' = applied \union plan[x]
        /\ superseded' = superseded \union losers[x]
        /\ pc[x] = "mark"
        /\ pc' = [pc EXCEPT ![x] = "finish"]
    BY <1>2 DEF Mark, Goto, local
  <2>2. Alone'
    BY <2>1 DEF Alone, Working, ExportTypeOK
  <2>3. \A e \in Exports : pc'[e] \notin Carrying
    BY <2>1 DEF Alone, Working, Carrying, ExportTypeOK
  <2>4. PlansUnsettled'
    BY <2>3 DEF PlansUnsettled
  <2>5. SettledOnce'
    BY <2>1 DEF PlansUnsettled, SettledOnce, Carrying
  <2> QED
    BY <2>2, <2>4, <2>5
<1>3. CASE ~ \E x \in Exports : Plan(x) \/ Mark(x)
  <2>1. /\ UNCHANGED <<applied, superseded, plan, losers>>
        /\ \A e \in Exports : /\ pc'[e] \in Working => pc[e] \in Working
                              /\ pc'[e] \in Carrying => pc[e] \in Carrying
    BY <1>3, WorkStep
  <2> QED
    BY <2>1 DEF Alone, PlansUnsettled, SettledOnce
<1> QED
  BY <1>1, <1>2, <1>3

\* While exports do not overlap the settlement stays in order.
LEMMA SettleHolds == MaxOverlap = 1 => (Spec => []SettleInv)
<1> SUFFICES ASSUME MaxOverlap = 1 PROVE Spec => []SettleInv
  OBVIOUS
<1>1. Init => SettleInv
  BY DEF Init, SettleInv, Alone, PlansUnsettled, SettledOnce, Working, Carrying
<1>2. ExportTypeOK /\ SettleInv /\ [Next]_vars => SettleInv'
  BY SettleStep
<1> QED
  BY <1>1, <1>2, ExportTypeCorrect, PTL DEF Spec

\* When exports never overlap, however they fail or die, a delta is replayed or
\* superseded and never both.
THEOREM SettlesOnce == MaxOverlap = 1 => (Spec => []SettledOnce)
BY SettleHolds, PTL DEF SettleInv

(***************************************************************************)
(* One export at a time: commits hold what their rows say.                  *)
(***************************************************************************)

\* A plan has one delta of each key.
PlansOneEach ==
  \A e \in Exports : \A d, w \in plan[e] : KeyOf[d] = KeyOf[w] => d = w

\* From the replay to the marking the batch is in the model, then in the file,
\* then in the commit.
CommitsCarry ==
  \A e \in Exports :
    /\ pc[e] \in {"save", "commit", "mark"} => \A d \in plan[e] : model[e][KeyOf[d]] = d
    /\ pc[e] = "commit" => file = model[e]
    /\ pc[e] = "mark" => hash[e] \in 1..Len(git) /\ git[hash[e]] = model[e]

CarryInv ==
  /\ PlansOneEach
  /\ CommitsCarry
  /\ CommitHoldsDelta

\* Commits are appended, never rewritten.
LEMMA GitGrows ==
  ASSUME ExportTypeOK, TargetsExist, [Next]_vars
  PROVE  /\ Len(git') >= Len(git)
         /\ \A i \in 1..Len(git) : git'[i] = git[i] /\ i \in 1..Len(git')
<1> DEFINE Grown == /\ Len(git') >= Len(git)
                    /\ \A i \in 1..Len(git) : git'[i] = git[i] /\ i \in 1..Len(git')
<1> SUFFICES Grown
  OBVIOUS
<1>1. git \in Seq(Files) /\ file \in Files /\ Len(git) \in Nat
  BY DEF ExportTypeOK
<1>2. ASSUME NEW c \in Files, git' = Append(git, c) PROVE Grown
  BY <1>1, <1>2
<1>3. ASSUME UNCHANGED git PROVE Grown
  BY <1>1, <1>3
<1> USE DEF disk
<1>4. ASSUME NEW x \in Exports, ExportStep(x) PROVE Grown
  <2>1. CASE Snapshot(x)
    BY <1>1, <1>2, <1>3, <2>1 DEF Snapshot
  <2>2. CASE Commit(x)
    BY <1>1, <1>2, <2>2 DEF Commit
  <2>3. CASE Rollback(x)
    <3>1. target[x] = 0 \/ git[target[x]] \in Files
      BY <1>1 DEF TargetsExist
    <3> HIDE DEF Grown
    <3> QED
      BY <3>1, <1>2, <1>3, <2>3 DEF Rollback
  <2>4. CASE CreateJob(x) \/ Announce(x) \/ Run(x) \/ ApplyDeltas(x) \/ Save(x)
    BY <1>3, <2>4 DEF CreateJob, Announce, Run, ApplyDeltas, Save
  <2>5. CASE Mark(x) \/ Finish(x) \/ Fail(x) \/ Notify(x)
    BY <1>3, <2>5 DEF Mark, Finish, Fail, Notify
  <2> QED
    BY <1>4, <2>1, <2>2, <2>3, <2>4, <2>5 DEF ExportStep
<1>5. CASE \E x \in Exports : Plan(x) \/ SendFails(x)
  BY <1>3, <1>5 DEF Plan, SendFails
<1>6. CASE Fault \/ Crash \/ \E d \in Deltas : QueueDelta(d)
  BY <1>3, <1>6 DEF Fault, FaultInExport, FaultInRollback, Crash, QueueDelta
<1>7. CASE UNCHANGED vars
  BY <1>3, <1>7 DEF vars
<1> QED
  BY <1>4, <1>5, <1>6, <1>7 DEF Next

\* Of two queued deltas of a key one is the newer.
LEMMA NewerTotal ==
  ASSUME NEW d \in ToSet(queued), NEW w \in ToSet(queued), KeyOf[d] = KeyOf[w], d # w,
         ExportTypeOK
  PROVE  Newer(d, w) \/ Newer(w, d)
<1>1. queued \in Seq(Deltas) /\ Len(queued) \in Nat
  BY DEF ExportTypeOK
<1>2. PICK i \in 1..Len(queued), j \in 1..Len(queued) : queued[i] = d /\ queued[j] = w
  BY <1>1, ToSetIndexed
<1>3. i > j \/ j > i
  BY <1>1, <1>2
<1> QED
  BY <1>2, <1>3 DEF Newer

\* A plan is made with one delta of each key and keeps it.
LEMMA OneEachStep ==
  ASSUME ExportTypeOK, PlansOneEach, [Next]_vars
  PROVE  PlansOneEach'
<1>1. ASSUME NEW x \in Exports, Plan(x) PROVE PlansOneEach'
  <2>1. plan' = [plan EXCEPT ![x] = NewestOf(Pending)]
    BY <1>1 DEF Plan
  <2>2. Pending \subseteq ToSet(queued)
    BY DEF Pending
  <2>3. \A d, w \in NewestOf(Pending) : KeyOf[d] = KeyOf[w] => d = w
    BY <2>2, NewerTotal DEF NewestOf
  <2> QED
    BY <2>1, <2>3 DEF PlansOneEach, ExportTypeOK
<1>2. ASSUME NEW x \in Exports, Mark(x) PROVE PlansOneEach'
  BY <1>2 DEF Mark, local, PlansOneEach
<1>3. CASE ~ \E x \in Exports : Plan(x) \/ Mark(x)
  BY <1>3, WorkStep DEF PlansOneEach
<1> QED
  BY <1>1, <1>2, <1>3

\* With nothing merged, a replay writes every delta of the plan.
LEMMA WrittenCarries ==
  ASSUME MergedKeys = {}, ExportTypeOK, PlansOneEach, NEW e \in Exports,
         NEW content, NEW d \in plan[e]
  PROVE  Written(e, content)[KeyOf[d]] = d
<1>1. d \in Deltas /\ KeyOf[d] \in Keys
  BY DEF ExportTypeOK, Keys
<1>2. (CHOOSE w \in plan[e] : KeyOf[w] = KeyOf[d]) = d
  BY DEF PlansOneEach
<1> QED
  BY <1>1, <1>2 DEF Written

\* The replay, the save and the commit hand the batch on; nobody else is there
\* to write the file in between.
LEMMA CarriesStep ==
  ASSUME MergedKeys = {}, ExportTypeOK, TargetsExist, Alone, PlansOneEach, CommitsCarry,
         [Next]_vars
  PROVE  CommitsCarry'
<1> DEFINE P(e) ==
      /\ pc[e] \in {"save", "commit", "mark"} => \A d \in plan[e] : model[e][KeyOf[d]] = d
      /\ pc[e] = "commit" => file = model[e]
      /\ pc[e] = "mark" => hash[e] \in 1..Len(git) /\ git[hash[e]] = model[e]
<1> SUFFICES ASSUME NEW e \in Exports PROVE P(e)'
  BY DEF CommitsCarry
<1>1. P(e)
  BY DEF CommitsCarry
<1>2. /\ Len(git') >= Len(git)
      /\ \A i \in 1..Len(git) : git'[i] = git[i] /\ i \in 1..Len(git')
  BY GitGrows
<1>3. git \in Seq(Files) /\ file \in Files /\ Len(git) \in Nat
  BY DEF ExportTypeOK
<1> USE DEF disk, local, rows, env
<1>4. ASSUME UNCHANGED <<plan, model, hash, file>>, pc'[e] = pc[e] PROVE P(e)'
  BY <1>1, <1>2, <1>4
<1>5. ASSUME pc'[e] \notin {"save", "commit", "mark"} PROVE P(e)'
  BY <1>5
<1> HIDE DEF P
<1>6. ASSUME NEW x \in Exports, ExportStep(x) PROVE P(e)'
  <2>1. CASE x = e
    <3>1. CASE ApplyDeltas(e)
      <4>1. CASE file = Damaged
        BY <3>1, <4>1, <1>5 DEF ApplyDeltas, Goto, ExportTypeOK
      <4>2. CASE file # Damaged
        <5>1. pc'[e] = "save" /\ model'[e] = Written(e, file) /\ UNCHANGED plan
          BY <3>1, <4>2 DEF ApplyDeltas, Goto, ExportTypeOK
        <5>2. \A d \in plan'[e] : model'[e][KeyOf[d]] = d
          BY <5>1, WrittenCarries
        <5> QED
          BY <5>1, <5>2 DEF P
      <4> QED
        BY <4>1, <4>2
    <3>2. CASE Save(e)
      BY <3>2, <1>1 DEF Save, Goto, P, ExportTypeOK
    <3>3. CASE Commit(e)
      <4>1. /\ pc[e] = "commit" /\ pc'[e] = "mark"
            /\ git' = Append(git, file)
            /\ hash'[e] = Len(git')
            /\ UNCHANGED <<plan, model, file>>
        BY <3>3 DEF Commit, Goto, ExportTypeOK
      <4>2. Len(git') = Len(git) + 1 /\ git'[Len(git')] = file
        BY <4>1, <1>3
      <4>3. hash'[e] \in 1..Len(git')
        BY <4>1, <4>2, <1>3
      <4> QED
        BY <4>1, <4>2, <4>3, <1>1 DEF P
    <3>4. CASE CreateJob(e) \/ Announce(e) \/ Snapshot(e) \/ Run(e) \/ Mark(e)
      BY <3>4, <1>5 DEF CreateJob, Announce, Snapshot, Run, Mark, Goto, ExportTypeOK
    <3>5. CASE Finish(e) \/ Fail(e) \/ Notify(e) \/ Rollback(e)
      BY <3>5, <1>5 DEF Finish, Fail, Notify, Rollback, Goto, ExportTypeOK
    <3> QED
      BY <1>6, <2>1, <3>1, <3>2, <3>3, <3>4, <3>5 DEF ExportStep
  <2>2. CASE x # e
    <3>1. pc[x] \in Working
      BY <1>6 DEF ExportStep, CreateJob, Announce, Snapshot, Run, ApplyDeltas, Save, Commit,
                  Mark, Finish, Fail, Notify, Rollback, Working
    <3>2. pc'[e] = pc[e]
      BY <1>6, <2>2 DEF ExportStep, CreateJob, Announce, Snapshot, Run, ApplyDeltas, Save,
                        Commit, Mark, Finish, Fail, Notify, Rollback, Goto, ExportTypeOK
    <3> QED
      BY <2>2, <3>1, <3>2, <1>5 DEF Alone, Working
  <2> QED
    BY <2>1, <2>2
<1>7. ASSUME NEW x \in Exports, Plan(x) PROVE P(e)'
  <2>1. CASE x = e
    BY <1>5, <1>7, <2>1 DEF Plan, Goto, ExportTypeOK
  <2>2. CASE x # e
    <3>1. plan'[e] = plan[e] /\ pc'[e] = pc[e] /\ UNCHANGED <<model, hash, file, git>>
      BY <1>7, <2>2 DEF Plan, Goto, ExportTypeOK
    <3> QED
      BY <3>1, <1>1 DEF P
  <2> QED
    BY <2>1, <2>2
<1>8. ASSUME NEW x \in Exports, SendFails(x) PROVE P(e)'
  <2>1. pc'[e] = pc[e] \/ pc'[e] \in {"done", "fail"}
    BY <1>8 DEF SendFails, Goto, ExportTypeOK
  <2>2. UNCHANGED <<plan, model, hash, file>>
    BY <1>8 DEF SendFails
  <2> QED
    BY <2>1, <2>2, <1>4, <1>5
<1>9. ASSUME NEW x \in Exports, FaultInExport(x) \/ FaultInRollback(x) PROVE P(e)'
  <2>1. pc'[x] \in {"done", "fail", "rollback"} /\ \A y \in Exports \ {x} : pc'[y] = pc[y]
    BY <1>9 DEF FaultInExport, FaultInRollback, Goto, ExportTypeOK
  <2>2. pc[x] \in Working
    BY <1>9 DEF FaultInExport, FaultInRollback, Working
  <2>3. e # x => pc[e] \notin Working
    BY <2>2 DEF Alone
  <2> QED
    BY <2>1, <2>3, <1>5 DEF Working
<1>10. CASE Crash
  BY <1>5, <1>10 DEF Crash, Working, ExportTypeOK
<1>11. CASE \E d \in Deltas : QueueDelta(d)
  BY <1>4, <1>11 DEF QueueDelta
<1>12. CASE UNCHANGED vars
  BY <1>4, <1>12 DEF vars
<1> QED
  BY <1>6, <1>7, <1>8, <1>9, <1>10, <1>11, <1>12 DEF Next, Fault

\* Marking names the commit that carries the batch; commits stay as they are.
LEMMA HoldsStep ==
  ASSUME ExportTypeOK, TargetsExist, CommitsCarry, CommitHoldsDelta, [Next]_vars
  PROVE  CommitHoldsDelta'
<1>1. /\ Len(git') >= Len(git)
      /\ \A i \in 1..Len(git) : git'[i] = git[i] /\ i \in 1..Len(git')
  BY GitGrows
<1>2. ASSUME NEW x \in Exports, Mark(x) PROVE CommitHoldsDelta'
  <2>1. /\ applied' = applied \union plan[x]
        /\ commitOf' = [d \in Deltas |-> IF d \in plan[x] THEN hash[x] ELSE commitOf[d]]
        /\ UNCHANGED git
        /\ pc[x] = "mark"
    BY <1>2 DEF Mark, disk
  <2>2. /\ hash[x] \in 1..Len(git)
        /\ git[hash[x]] = model[x]
        /\ \A d \in plan[x] : model[x][KeyOf[d]] = d
    BY <2>1 DEF CommitsCarry
  <2>3. model[x] # Damaged
    BY DamagedAssumption DEF ExportTypeOK, Models
  <2> QED
    BY <2>1, <2>2, <2>3 DEF CommitHoldsDelta, ExportTypeOK
<1>3. ASSUME UNCHANGED <<applied, commitOf>> PROVE CommitHoldsDelta'
  BY <1>1, <1>3 DEF CommitHoldsDelta
<1> USE DEF rows
<1>4. ASSUME NEW x \in Exports, ExportStep(x) PROVE CommitHoldsDelta'
  <2>1. CASE CreateJob(x) \/ Announce(x) \/ Snapshot(x) \/ Run(x)
    BY <1>3, <2>1 DEF CreateJob, Announce, Snapshot, Run
  <2>2. CASE ApplyDeltas(x) \/ Save(x) \/ Commit(x)
    BY <1>3, <2>2 DEF ApplyDeltas, Save, Commit
  <2>3. CASE Finish(x) \/ Fail(x) \/ Notify(x) \/ Rollback(x)
    BY <1>3, <2>3 DEF Finish, Fail, Notify, Rollback
  <2> QED
    BY <1>2, <1>4, <2>1, <2>2, <2>3 DEF ExportStep
<1>5. CASE \E x \in Exports : Plan(x) \/ SendFails(x)
  BY <1>3, <1>5 DEF Plan, SendFails
<1>6. CASE Fault \/ Crash \/ \E d \in Deltas : QueueDelta(d)
  BY <1>3, <1>6 DEF Fault, FaultInExport, FaultInRollback, Crash, QueueDelta
<1>7. CASE UNCHANGED vars
  BY <1>3, <1>7 DEF vars
<1> QED
  BY <1>4, <1>5, <1>6, <1>7 DEF Next

\* Plans, their way into a commit and the commits of applied rows together.
LEMMA CarryStep ==
  ASSUME MergedKeys = {}, ExportTypeOK, TargetsExist, Alone, CarryInv, [Next]_vars
  PROVE  CarryInv'
BY OneEachStep, CarriesStep, HoldsStep DEF CarryInv

\* While exports do not overlap and nothing is merged, commits carry their batch.
LEMMA CarryHolds == MaxOverlap = 1 /\ MergedKeys = {} => (Spec => []CarryInv)
<1> SUFFICES ASSUME MaxOverlap = 1, MergedKeys = {} PROVE Spec => []CarryInv
  OBVIOUS
<1>1. Init => CarryInv
  BY DEF Init, CarryInv, PlansOneEach, CommitsCarry, CommitHoldsDelta
<1>2. ExportInv /\ SettleInv /\ CarryInv /\ [Next]_vars => CarryInv'
  BY CarryStep DEF ExportInv, SettleInv
<1>3. Spec => []SettleInv
  BY SettleHolds
<1> QED
  BY <1>1, <1>2, <1>3, ExportInvariant, PTL DEF Spec

\* When exports never overlap and no property is merged into a pset, the commit
\* an applied delta names holds its value, whatever fails or dies.
THEOREM CommitsHoldTheirDeltas ==
  MaxOverlap = 1 /\ MergedKeys = {} => (Spec => []CommitHoldsDelta)
BY CarryHolds, PTL DEF CarryInv

(***************************************************************************)
(* A POST's exports, one at a time, whose failures are handled: what the    *)
(* file shows is what was applied.                                          *)
(***************************************************************************)

\* No overlap, no channel to lose, nothing merged, and the server stays up.
Sequential ==
  /\ MaxOverlap = 1
  /\ Streamed = {}
  /\ MergedKeys = {}
  /\ MaxCrashes = 0

\* Labels of the handling of a failure.
Ending == {"fail", "notify", "rollback"}

\* No failure strikes the handling of an earlier one.
HandlersRun == Fault => \A e \in Exports : pc[e] \in Ending => pc'[e] = pc[e]

\* A planned batch is not empty, comes from the queue as the profile lets it
\* through, and no member of it is newer than one to be replayed.
PlanTops ==
  \A e \in Exports : pc[e] \in Carrying =>
    /\ plan[e] \union losers[e] # {}
    /\ plan[e] \union losers[e] \subseteq Allowed \intersect ToSet(queued)
    /\ \A w \in plan[e], x \in plan[e] \union losers[e] : ~Newer(x, w)

\* Where an export is tells what the file, its model and its target hold.
ExportFits(e) ==
  /\ pc[e] \in {"idle", "create", "announce", "snapshot"} => target[e] = 0
  /\ pc[e] \in {"run", "apply", "save"} => target[e] # 0 /\ file = git[target[e]]
  /\ pc[e] \in {"commit", "mark"} => target[e] # 0 /\ file = model[e]
  /\ pc[e] \in {"save", "commit", "mark"} => model[e] = Written(e, git[target[e]])

\* What is published shows, for each key, the newest of its applied deltas, and
\* nothing that was not applied.
PublishedShows ==
  /\ Published \in Models
  /\ \A d \in applied :
       Published[KeyOf[d]] = d \/ \E e \in applied : Newer(e, d) /\ Published[KeyOf[d]] = e
  /\ \A k \in Keys : Published[k] # None => Published[k] \in applied

ShowInv ==
  /\ PlanTops
  /\ \A e \in Exports : ExportFits(e)
  /\ PublishedShows

\* The order of queued deltas only grows, and never among the old ones.
LEMMA NewerGrows ==
  ASSUME ExportTypeOK, [Next]_vars
  PROVE  /\ ToSet(queued) \subseteq ToSet(queued')
         /\ \A d, e : Newer(d, e) => Newer(d, e)'
         /\ \A d, e \in ToSet(queued) : Newer(d, e)' => Newer(d, e)
<1> DEFINE Grown == /\ ToSet(queued) \subseteq ToSet(queued')
                    /\ \A d, e : Newer(d, e) => Newer(d, e)'
                    /\ \A d, e \in ToSet(queued) : Newer(d, e)' => Newer(d, e)
<1> SUFFICES Grown
  OBVIOUS
<1>1. CASE \E x \in Deltas : QueueDelta(x)
  <2>1. PICK x \in Deltas : queued' = Append(queued, x) /\ x \notin ToSet(queued)
    BY <1>1 DEF QueueDelta
  <2>2. queued \in Seq(Deltas) /\ Len(queued) \in Nat
    BY DEF ExportTypeOK
  <2>3. /\ ToSet(queued') = ToSet(queued) \union {x}
        /\ Len(queued') = Len(queued) + 1
        /\ \A i \in 1..Len(queued) : queued'[i] = queued[i]
        /\ queued'[Len(queued) + 1] = x
    BY <2>1, <2>2, ToSetAppend
  <2>4. \A d, e : Newer(d, e) => Newer(d, e)'
    BY <2>2, <2>3 DEF Newer
  <2>5. ASSUME NEW d \in ToSet(queued), NEW e \in ToSet(queued), Newer(d, e)'
        PROVE Newer(d, e)
    <3>1. PICK i, j \in 1..Len(queued') : i > j /\ queued'[i] = d /\ queued'[j] = e
      BY <2>5 DEF Newer
    <3>2. i \in 1..Len(queued) /\ j \in 1..Len(queued)
      BY <2>1, <2>2, <2>3, <3>1
    <3> QED
      BY <2>3, <2>5, <3>1, <3>2 DEF Newer
  <2> QED
    BY <2>3, <2>4, <2>5
<1>2. ASSUME UNCHANGED queued PROVE Grown
  BY <1>2 DEF Newer
<1> USE DEF rows
<1>3. ASSUME NEW x \in Exports, ExportStep(x) PROVE UNCHANGED queued
  BY <1>3 DEF ExportStep, CreateJob, Announce, Snapshot, Run, ApplyDeltas, Save, Commit,
              Mark, Finish, Fail, Notify, Rollback
<1>4. CASE \E x \in Exports : Plan(x) \/ SendFails(x)
  BY <1>2, <1>4 DEF Plan, SendFails
<1>5. CASE Fault \/ Crash
  BY <1>2, <1>5 DEF Fault, FaultInExport, FaultInRollback, Crash
<1>6. CASE UNCHANGED vars
  BY <1>2, <1>6 DEF vars
<1> QED
  BY <1>1, <1>2, <1>3, <1>4, <1>5, <1>6 DEF Next

\* Rows are queued in one order, so being newer is transitive.
LEMMA NewerTransitive ==
  ASSUME ExportTypeOK, QueuedOnce, NEW d, NEW e, NEW f, Newer(d, e), Newer(e, f)
  PROVE  Newer(d, f)
<1>1. Len(queued) \in Nat
  BY DEF ExportTypeOK
<1>2. PICK i, j \in 1..Len(queued) : i > j /\ queued[i] = d /\ queued[j] = e
  BY DEF Newer
<1>3. PICK m, n \in 1..Len(queued) : m > n /\ queued[m] = e /\ queued[n] = f
  BY DEF Newer
<1>4. j = m
  BY <1>2, <1>3 DEF QueuedOnce
<1> QED
  BY <1>1, <1>2, <1>3, <1>4 DEF Newer

\* A plan is what is pending, and what was planned stays so.
LEMMA TopsStep ==
  ASSUME ExportTypeOK, PlanTops, [Next]_vars
  PROVE  PlanTops'
<1>1. /\ ToSet(queued) \subseteq ToSet(queued')
      /\ \A d, e \in ToSet(queued) : Newer(d, e)' => Newer(d, e)
  BY NewerGrows
<1>2. ASSUME UNCHANGED <<plan, losers>>, NEW e \in Exports, pc'[e] \in Carrying => pc[e] \in Carrying
      PROVE /\ pc'[e] \in Carrying => plan'[e] \union losers'[e] # {}
            /\ pc'[e] \in Carrying =>
                 plan'[e] \union losers'[e] \subseteq Allowed \intersect ToSet(queued')
            /\ pc'[e] \in Carrying =>
                 \A w \in plan'[e], x \in plan'[e] \union losers'[e] : ~Newer(x, w)'
  BY <1>1, <1>2 DEF PlanTops
<1>3. ASSUME NEW x \in Exports, Plan(x) PROVE PlanTops'
  <2>1. /\ UNCHANGED queued
        /\ plan' = [plan EXCEPT ![x] = NewestOf(Pending)]
        /\ losers' = [losers EXCEPT ![x] = Pending \ NewestOf(Pending)]
        /\ pc' = [pc EXCEPT ![x] = IF Pending = {} THEN "done" ELSE "create"]
    BY <1>3 DEF Plan, rows, Goto
  <2>2. /\ NewestOf(Pending) \subseteq Pending
        /\ Pending \subseteq Allowed \intersect ToSet(queued)
        /\ \A w \in NewestOf(Pending), y \in Pending : ~Newer(y, w)
    BY DEF NewestOf, Pending
  <2>3. \A d, e : Newer(d, e)' <=> Newer(d, e)
    BY <2>1 DEF Newer
  <2>4. \A e \in Exports \ {x} : pc'[e] = pc[e] /\ plan'[e] = plan[e] /\ losers'[e] = losers[e]
    BY <2>1 DEF ExportTypeOK
  <2>5. /\ plan'[x] = NewestOf(Pending)
        /\ plan'[x] \union losers'[x] = Pending
        /\ pc'[x] = IF Pending = {} THEN "done" ELSE "create"
    BY <2>1, <2>2 DEF ExportTypeOK
  <2>6. pc'[x] \in Carrying => Pending # {}
    BY <2>5 DEF Carrying
  <2> QED
    BY <2>1, <2>2, <2>3, <2>4, <2>5, <2>6 DEF PlanTops
<1>4. ASSUME NEW x \in Exports, Mark(x) PROVE PlanTops'
  <2>1. /\ UNCHANGED <<plan, losers>>
        /\ \A e \in Exports : pc'[e] \in Carrying => pc[e] \in Carrying
    BY <1>4 DEF Mark, Goto, local, ExportTypeOK, Carrying
  <2> QED
    BY <1>2, <2>1 DEF PlanTops
<1>5. CASE ~ \E x \in Exports : Plan(x) \/ Mark(x)
  BY <1>2, <1>5, WorkStep DEF PlanTops
<1> QED
  BY <1>3, <1>4, <1>5

\* An export that has written the file and can still take it back.
Late(e) == pc[e] \in {"commit", "mark"} \union Ending /\ target[e] # 0

\* What is published while at most x is under way.
Base(x) == IF Late(x) THEN git[target[x]] ELSE file

\* With x alone under way, what is published is x's to say, before and after a
\* step.
LEMMA PublishedOf ==
  /\ \A x \in Exports :
       (\A e \in Exports \ {x} : pc[e] \notin Working) => Published = Base(x)
  /\ \A x \in Exports :
       (\A e \in Exports \ {x} : pc'[e] \notin Working) => Published' = Base(x)'
<1>1. ASSUME NEW x \in Exports, \A e \in Exports \ {x} : pc[e] \notin Working
      PROVE  Published = Base(x)
  <2>1. Unfinished = IF Late(x) THEN {x} ELSE {}
    BY <1>1 DEF Unfinished, Late, Ending, Working
  <2>2. CASE Late(x)
    <3>1. Unfinished = {x} /\ (CHOOSE e \in {x} : TRUE) = x
      BY <2>1, <2>2
    <3> QED
      BY <3>1, <2>2 DEF Published, Base
  <2>3. CASE ~Late(x)
    BY <2>1, <2>3 DEF Published, Base
  <2> QED
    BY <2>2, <2>3
<1>2. ASSUME NEW x \in Exports, \A e \in Exports \ {x} : pc'[e] \notin Working
      PROVE  Published' = Base(x)'
  <2>1. Unfinished' = IF Late(x)' THEN {x} ELSE {}
    BY <1>2 DEF Unfinished, Late, Ending, Working
  <2>2. CASE Late(x)'
    <3>1. Unfinished' = {x} /\ (CHOOSE e \in {x} : TRUE) = x
      BY <2>1, <2>2
    <3> QED
      BY <3>1, <2>2 DEF Published, Base
  <2>3. CASE ~Late(x)'
    BY <2>1, <2>3 DEF Published, Base
  <2> QED
    BY <2>2, <2>3
<1> QED
  BY <1>1, <1>2

\* A step of the one export under way keeps what is published, unless it marks.
LEMMA ActorStep ==
  ASSUME Sequential, ExportTypeOK, TargetsExist, Alone, ShowInv,
         NEW x \in Exports,
         \/ ExportStep(x) /\ ~Mark(x)
         \/ Fault /\ HandlersRun /\ (FaultInExport(x) \/ FaultInRollback(x))
  PROVE  /\ ExportFits(x)'
         /\ Base(x)' = Base(x)
         /\ pc[x] \in Working
         /\ pc'[x] \in Ending => pc[x] \in Ending \/ Fault
         /\ \A e \in Exports \ {x} : pc'[e] = pc[e] /\ target'[e] = target[e]
<1> DEFINE Goal == /\ ExportFits(x)'
                   /\ Base(x)' = Base(x)
                   /\ pc[x] \in Working
                   /\ pc'[x] \in Ending => pc[x] \in Ending \/ Fault
                   /\ \A e \in Exports \ {x} : pc'[e] = pc[e] /\ target'[e] = target[e]
<1> SUFFICES Goal
  OBVIOUS
<1>1. ExportFits(x)
  BY DEF ShowInv
<1>2. /\ git \in Seq(Files) /\ file \in Files /\ Len(git) \in Nat \ {0}
      /\ target[x] \in 0..Len(git)
      /\ target \in [Exports -> Nat]
      /\ pc \in [Exports -> Working \union {"idle", "done", "dead"}]
      /\ model \in [Exports -> Models]
      /\ hash \in [Exports -> Nat]
  BY DEF ExportTypeOK, TargetsExist
<1>3. pc[x] \in Working => Published = Base(x)
  BY PublishedOf DEF Alone
<1> USE DEF disk, local, rows, env, Goto, ExportFits, Base, Late, Ending, Working
<1>4. CASE CreateJob(x) \/ Announce(x)
  BY <1>1, <1>2, <1>4 DEF CreateJob, Announce
<1>5. CASE Run(x)
  BY <1>1, <1>2, <1>5 DEF Run
<1>6. CASE Snapshot(x)
  <2>1. /\ Len(git') \in Nat \ {0} /\ git'[Len(git')] = file
        /\ pc[x] = "snapshot" /\ pc'[x] = "run" /\ target'[x] = Len(git')
        /\ UNCHANGED file
    <3>1. CASE file = git[Len(git)]
      BY <1>2, <1>6, <3>1 DEF Snapshot
    <3>2. CASE file # git[Len(git)]
      <4>1. git' = Append(git, file)
        BY <1>6, <3>2 DEF Snapshot
      <4>2. Len(git') = Len(git) + 1 /\ git'[Len(git')] = file
        BY <4>1, <1>2
      <4> QED
        BY <1>2, <1>6, <4>2 DEF Snapshot
    <3> QED
      BY <3>1, <3>2
  <2>2. \A e \in Exports \ {x} : pc'[e] = pc[e] /\ target'[e] = target[e]
    BY <1>2, <1>6 DEF Snapshot
  <2> QED
    BY <2>1, <2>2
<1>7. CASE ApplyDeltas(x)
  <2>1. file # Damaged
    <3>1. Published = file
      BY <1>3, <1>7 DEF ApplyDeltas
    <3>2. file \in Models
      BY <3>1 DEF ShowInv, PublishedShows
    <3> QED
      BY <3>2, DamagedAssumption DEF Models
  <2>2. /\ pc[x] = "apply" /\ pc' = [pc EXCEPT ![x] = "save"]
        /\ model'[x] = Written(x, file)
        /\ UNCHANGED <<plan, target, file, git>>
    BY <1>2, <1>7, <2>1 DEF ApplyDeltas
  <2>3. file = git[target[x]] /\ target[x] # 0
    BY <1>1, <2>2
  <2>4. model'[x] = Written(x, git[target[x]])'
    BY <2>2, <2>3 DEF Written
  <2> QED
    BY <1>2, <2>2, <2>3, <2>4
<1>8. CASE Save(x)
  <2>1. /\ pc[x] = "save" /\ pc' = [pc EXCEPT ![x] = "commit"]
        /\ file' = model[x]
        /\ UNCHANGED <<plan, model, target, git>>
    BY <1>8 DEF Save
  <2>2. Written(x, git[target[x]])' = Written(x, git[target[x]])
    BY <2>1 DEF Written
  <2> QED
    BY <1>1, <1>2, <2>1, <2>2
<1>9. CASE Commit(x)
  <2>1. /\ pc[x] = "commit" /\ pc' = [pc EXCEPT ![x] = "mark"]
        /\ git' = Append(git, file)
        /\ UNCHANGED <<plan, model, target, file>>
    BY <1>9 DEF Commit
  <2>2. target[x] \in 1..Len(git)
    BY <1>1, <1>2, <2>1
  <2>3. git'[target[x]] = git[target[x]]
    BY <1>2, <2>1, <2>2
  <2>4. Written(x, git[target[x]])' = Written(x, git[target[x]])
    BY <2>1, <2>3 DEF Written
  <2> QED
    BY <1>1, <1>2, <2>1, <2>2, <2>3, <2>4
<1>10. CASE Finish(x)
  BY <1>2, <1>10 DEF Finish
<1>11. CASE Fail(x)
  BY <1>1, <1>2, <1>11 DEF Fail
<1>12. CASE Notify(x)
  <2>1. x \notin broken
    BY DEF ExportTypeOK, Sequential
  <2> QED
    BY <1>1, <1>2, <1>12, <2>1 DEF Notify
<1>13. CASE Rollback(x)
  BY <1>1, <1>2, <1>13 DEF Rollback
<1>14. ASSUME Fault, HandlersRun, FaultInExport(x) \/ FaultInRollback(x) PROVE Goal
  <2>1. pc'[x] # pc[x]
    BY <1>2, <1>14 DEF FaultInExport, FaultInRollback
  <2>2. pc[x] \notin {"fail", "notify", "rollback"}
    BY <1>14, <2>1 DEF HandlersRun
  <2>3. FaultInExport(x) /\ UNCHANGED <<git, target, plan, model>>
    BY <1>14, <2>2 DEF FaultInExport, FaultInRollback
  <2>4. \A e \in Exports \ {x} : pc'[e] = pc[e] /\ target'[e] = target[e]
    BY <1>2, <2>3 DEF FaultInExport
  <2>5. CASE pc[x] = "save" /\ pc'[x] = "fail"
    BY <1>1, <1>2, <1>14, <2>3, <2>4, <2>5
  <2>6. CASE pc[x] \in {"snapshot", "run", "apply", "commit", "mark"} /\ pc'[x] = "fail"
             /\ UNCHANGED file
    BY <1>1, <1>2, <1>14, <2>3, <2>4, <2>6
  <2>7. CASE pc[x] = "mark" /\ pc'[x] = "rollback" /\ UNCHANGED file
    BY <1>1, <1>2, <1>14, <2>3, <2>4, <2>7
  <2>8. CASE pc[x] = "create" /\ pc'[x] = "done" /\ UNCHANGED file
    BY <1>1, <1>2, <2>3, <2>4, <2>8
  <2> QED
    BY <1>2, <2>2, <2>3, <2>5, <2>6, <2>7, <2>8 DEF FaultInExport
<1> QED
  BY <1>4, <1>5, <1>6, <1>7, <1>8, <1>9, <1>10, <1>11, <1>12, <1>13, <1>14 DEF ExportStep

\* Between two markings nothing is published.
LEMMA QuietStep ==
  ASSUME Sequential, ExportTypeOK, TargetsExist, SettleInv, ShowInv,
         [Next]_vars, [HandlersRun]_vars,
         ~ \E x \in Exports : Mark(x)
  PROVE  /\ Published' = Published
         /\ \A e \in Exports : ExportFits(e)'
         /\ \A e \in Exports : pc'[e] \in Ending => pc[e] \in Ending \/ Fault
<1> DEFINE Goal == /\ Published' = Published
                   /\ \A e \in Exports : ExportFits(e)'
                   /\ \A e \in Exports : pc'[e] \in Ending => pc[e] \in Ending \/ Fault
<1> SUFFICES Goal
  OBVIOUS
<1>1. Alone /\ \A e \in Exports : ExportFits(e)
  BY DEF SettleInv, ShowInv
<1>2. ASSUME UNCHANGED <<pc, target, model, plan, disk, faults>> PROVE Goal
  <2>1. Published' = Published
    BY <1>2 DEF Published, Unfinished, disk
  <2>2. \A e \in Exports : ExportFits(e)'
    BY <1>1, <1>2 DEF ExportFits, Written, disk
  <2> QED
    BY <1>2, <2>1, <2>2
<1>3. ASSUME NEW x \in Exports,
             \/ ExportStep(x)
             \/ Fault /\ HandlersRun /\ (FaultInExport(x) \/ FaultInRollback(x))
      PROVE  Goal
  <2>1. /\ ExportFits(x)'
        /\ Base(x)' = Base(x)
        /\ pc[x] \in Working
        /\ pc'[x] \in Ending => pc[x] \in Ending \/ Fault
        /\ \A e \in Exports \ {x} : pc'[e] = pc[e] /\ target'[e] = target[e]
    BY <1>1, <1>3, ActorStep
  <2>2. \A e \in Exports \ {x} : pc[e] \notin Working
    BY <2>1, <1>1 DEF Alone
  <2>3. Published' = Published
    BY <2>1, <2>2, PublishedOf
  <2>4. \A e \in Exports \ {x} : ExportFits(e)'
    BY <1>1, <2>1, <2>2 DEF ExportFits, Working
  <2> QED
    BY <2>1, <2>3, <2>4
<1>4. ASSUME NEW x \in Exports, Plan(x) PROVE Goal
  <2>1. \A e \in Exports : pc[e] \notin Working
    BY <1>1, <1>4, PlanAlone DEF Sequential
  <2>2. /\ pc[x] = "idle" /\ pc'[x] \in {"done", "create"}
        /\ \A e \in Exports \ {x} : pc'[e] = pc[e]
        /\ UNCHANGED <<target, model, file, git, faults>>
    BY <1>4 DEF Plan, Goto, disk, env, ExportTypeOK
  <2>3. Base(x)' = Base(x)
    BY <2>2 DEF Base, Late, Ending
  <2>4. Published' = Published
    BY <2>1, <2>2, <2>3, PublishedOf
  <2>5. \A e \in Exports : ExportFits(e)'
    BY <1>1, <2>1, <2>2 DEF ExportFits, Working
  <2>6. \A e \in Exports : pc'[e] \notin Ending
    BY <2>1, <2>2 DEF Ending, Working
  <2> QED
    BY <2>4, <2>5, <2>6
<1>5. CASE \E d \in Deltas : QueueDelta(d)
  BY <1>2, <1>5 DEF QueueDelta, local, env
<1>6. CASE UNCHANGED vars
  BY <1>2, <1>6 DEF vars, local, env
<1>7. ~ \E x \in Exports : SendFails(x)
  BY DEF SendFails, Sequential
<1>8. ~Crash
  BY DEF Crash, Sequential, ExportTypeOK
<1>9. CASE Fault
  <2>1. HandlersRun
    <3>1. faults' # faults
      BY <1>9 DEF Fault, ExportTypeOK
    <3> QED
      BY <3>1 DEF vars, env
  <2> QED
    BY <1>3, <1>9, <2>1 DEF Fault
<1> QED
  BY <1>3, <1>4, <1>5, <1>6, <1>7, <1>8, <1>9 DEF Next

\* What is not published yet is written over what is.
LEMMA MarkPublishes ==
  ASSUME ExportTypeOK, Alone, ShowInv, NEW x \in Exports, Mark(x)
  PROVE  /\ Published' = Written(x, Published)
         /\ \A e \in Exports : ExportFits(e)'
<1>1. /\ pc[x] = "mark" /\ pc' = [pc EXCEPT ![x] = "finish"]
      /\ UNCHANGED <<file, git, target, model, plan, faults>>
  BY DEF Mark, Goto, disk, local, env
<1>2. \A e \in Exports \ {x} : pc[e] \notin Working /\ pc'[e] = pc[e]
  BY <1>1 DEF Alone, Working, ExportTypeOK
<1>3. pc'[x] = "finish"
  BY <1>1 DEF ExportTypeOK
<1>4. target[x] # 0 /\ file = model[x] /\ model[x] = Written(x, git[target[x]])
  BY <1>1 DEF ShowInv, ExportFits
<1>5. Published = Base(x) /\ Published' = Base(x)'
  BY <1>2, PublishedOf
<1>6. Base(x) = git[target[x]]
  BY <1>1, <1>4 DEF Base, Late
<1>7. Base(x)' = file
  BY <1>1, <1>3 DEF Base, Late, Ending
<1>8. \A e \in Exports : ExportFits(e)'
  BY <1>1, <1>2, <1>3 DEF ShowInv, ExportFits, Working
<1> QED
  BY <1>4, <1>5, <1>6, <1>7, <1>8

\* A marked batch is newer than what was applied of its keys, so what is
\* published then shows it.
LEMMA MarkShows ==
  ASSUME MergedKeys = {}, ExportTypeOK, QueueInv, PlansOneEach, SettleInv, ShowInv,
         NEW x \in Exports, Mark(x)
  PROVE  PublishedShows'
<1>1. /\ applied' = applied \union plan[x]
      /\ UNCHANGED queued
      /\ pc[x] = "mark"
  BY DEF Mark
<1>2. Published' = Written(x, Published)
  BY MarkPublishes DEF SettleInv
<1>3. Published \in Models
  BY DEF ShowInv, PublishedShows
<1>4. Published' \in Models
  BY <1>2, <1>3, WrittenIsModel
<1>5. \A d, e : Newer(d, e)' <=> Newer(d, e)
  BY <1>1 DEF Newer
<1>6. \A d \in plan[x] : Published'[KeyOf[d]] = d
  BY <1>2, WrittenCarries
<1>7. plan[x] \subseteq Deltas /\ applied \subseteq Deltas
  BY DEF ExportTypeOK
<1>8. \A k \in Keys : (\A d \in plan[x] : KeyOf[d] # k) => Published'[k] = Published[k]
  BY <1>2 DEF Written
<1>9. plan[x] \subseteq Pending
  <2>1. plan[x] \subseteq Allowed \intersect ToSet(queued)
    BY <1>1 DEF ShowInv, PlanTops, Carrying
  <2>2. plan[x] \intersect (applied \union superseded) = {}
    BY <1>1 DEF SettleInv, PlansUnsettled, Carrying
  <2> QED
    BY <2>1, <2>2 DEF Pending
<1>10. ASSUME NEW d \in applied, NEW w \in plan[x], KeyOf[w] = KeyOf[d] PROVE Newer(w, d)
  <2>1. w # d /\ w \in ToSet(queued) /\ d \in ToSet(queued)
    BY <1>9 DEF Pending, QueueInv, PlansAreQueued
  <2>2. ~Newer(d, w)
    BY <1>9 DEF QueueInv, NoOlderPending
  <2> QED
    BY <1>10, <2>1, <2>2, NewerTotal
<1>11. ASSUME NEW d \in applied'
       PROVE \/ Published'[KeyOf[d]] = d
             \/ \E e \in applied' : Newer(e, d)' /\ Published'[KeyOf[d]] = e
  <2>1. CASE d \in plan[x]
    BY <1>6, <2>1
  <2>2. CASE d \in applied /\ \E w \in plan[x] : KeyOf[w] = KeyOf[d]
    BY <1>1, <1>5, <1>6, <1>10, <2>2
  <2>3. CASE d \in applied /\ \A w \in plan[x] : KeyOf[w] # KeyOf[d]
    <3>1. KeyOf[d] \in Keys
      BY <1>7, <2>3 DEF Keys
    <3>2. Published'[KeyOf[d]] = Published[KeyOf[d]]
      BY <1>8, <2>3, <3>1
    <3> QED
      BY <1>1, <1>5, <2>3, <3>2 DEF ShowInv, PublishedShows
  <2> QED
    BY <1>1, <1>11, <2>1, <2>2, <2>3
<1>12. ASSUME NEW k \in Keys, Published'[k] # None PROVE Published'[k] \in applied'
  <2>1. CASE \E w \in plan[x] : KeyOf[w] = k
    BY <1>1, <1>6, <2>1
  <2>2. CASE \A w \in plan[x] : KeyOf[w] # k
    BY <1>1, <1>8, <1>12, <2>2 DEF ShowInv, PublishedShows
  <2> QED
    BY <2>1, <2>2
<1> QED
  BY <1>4, <1>11, <1>12 DEF PublishedShows

\* What is published shows what was applied, step by step.
LEMMA ShowStep ==
  ASSUME Sequential, ExportTypeOK, TargetsExist, QueueInv, PlansOneEach, SettleInv, ShowInv,
         [Next]_vars, [HandlersRun]_vars
  PROVE  ShowInv'
<1>1. PlanTops'
  BY TopsStep DEF ShowInv
<1>2. ASSUME NEW x \in Exports, Mark(x) PROVE ShowInv'
  BY <1>1, <1>2, MarkPublishes, MarkShows DEF ShowInv, SettleInv, Sequential
<1>3. CASE ~ \E x \in Exports : Mark(x)
  <2>1. Published' = Published /\ \A e \in Exports : ExportFits(e)'
    BY <1>3, QuietStep
  <2>2. applied' = applied
    <3>1. CASE \E x \in Exports : Plan(x)
      BY <3>1 DEF Plan, rows
    <3>2. CASE ~ \E x \in Exports : Plan(x)
      BY <1>3, <3>2, WorkStep
    <3> QED
      BY <3>1, <3>2
  <2>3. \A d, e : Newer(d, e) => Newer(d, e)'
    BY NewerGrows
  <2>4. PublishedShows'
    BY <2>1, <2>2, <2>3 DEF ShowInv, PublishedShows
  <2> QED
    BY <1>1, <2>1, <2>4 DEF ShowInv
<1> QED
  BY <1>2, <1>3

\* What the proofs about a sequence of exports need of a state.
SequentialInv ==
  /\ ExportInv
  /\ SettleInv
  /\ CarryInv
  /\ ShowInv

\* At first nothing is planned, committed or shown.
LEMMA SequentialInit == Init => SequentialInv
<1> SUFFICES ASSUME Init PROVE SequentialInv
  OBVIOUS
<1>1. SettleInv
  BY DEF Init, SettleInv, Alone, PlansUnsettled, SettledOnce, Working, Carrying
<1>2. CarryInv
  BY DEF Init, CarryInv, PlansOneEach, CommitsCarry, CommitHoldsDelta
<1>3. Published = [k \in Keys |-> None]
  BY DEF Init, Published, Unfinished
<1>4. ShowInv
  BY <1>3 DEF Init, ShowInv, PlanTops, ExportFits, PublishedShows, Models, Carrying
<1> QED
  BY <1>1, <1>2, <1>4, InitExportInv DEF SequentialInv

\* Each step keeps what a sequence of exports relies on.
LEMMA SequentialStep ==
  ASSUME Sequential, SequentialInv, [Next]_vars, [HandlersRun]_vars
  PROVE  SequentialInv'
<1>1. ExportInv'
  BY TypeStep, QueueStep DEF SequentialInv, ExportInv, QueueInv
<1>2. SettleInv'
  BY SettleStep DEF SequentialInv, ExportInv, Sequential
<1>3. CarryInv'
  BY CarryStep DEF SequentialInv, ExportInv, SettleInv, Sequential
<1>4. ShowInv'
  BY ShowStep DEF SequentialInv, ExportInv, QueueInv, CarryInv
<1> QED
  BY <1>1, <1>2, <1>3, <1>4 DEF SequentialInv

\* So it holds in every state those steps reach.
LEMMA SequentialHolds ==
  Sequential => (Spec /\ [][HandlersRun]_vars => []SequentialInv)
<1> SUFFICES ASSUME Sequential PROVE Spec /\ [][HandlersRun]_vars => []SequentialInv
  OBVIOUS
<1>1. SequentialInv /\ [Next]_vars /\ [HandlersRun]_vars => SequentialInv'
  BY SequentialStep
<1> QED
  BY <1>1, SequentialInit, PTL DEF Spec

\* At rest what is published is the file.
LEMMA QuietFile == Quiet => Published = file
BY DEF Quiet, Published, Unfinished, Working

\* Between exports the file shows what the rows say of it.
LEMMA ShowsAtRest == SequentialInv => CompletedIsInFile /\ FailedLeavesNoTrace
<1> SUFFICES ASSUME PublishedShows PROVE CompletedIsInFile /\ FailedLeavesNoTrace
  BY DEF SequentialInv, ShowInv
<1>1. Published # Damaged
  BY DamagedAssumption DEF PublishedShows, Models
<1> QED
  BY <1>1, QuietFile DEF PublishedShows, CompletedIsInFile, FailedLeavesNoTrace

\* POSTs' exports that do not overlap, however often they fail, as long as the
\* handling of a failure does not fail: what one of them completed is in the
\* file, or a newer change of its key is.
THEOREM CompletedStays ==
  Sequential => (Spec /\ [][HandlersRun]_vars => []CompletedIsInFile)
BY ShowsAtRest, SequentialHolds, PTL

\* Under the same conditions what none of them completed is not in the file, and
\* the file can be read.
THEOREM FailedIsUndone ==
  Sequential => (Spec /\ [][HandlersRun]_vars => []FailedLeavesNoTrace)
BY ShowsAtRest, SequentialHolds, PTL

(***************************************************************************)
(* Under the same conditions the export implements DeltaQueue.              *)
(***************************************************************************)

\* Marking is one publication of the whole planned batch.
LEMMA MarkRefines ==
  ASSUME Sequential, SequentialInv, NEW x \in Exports, Mark(x)
  PROVE  \E batch \in SUBSET Queue!Pending : Queue!Publish(batch)
<1> DEFINE batch == plan[x] \union losers[x]
<1> USE DEF SequentialInv, ExportInv
<1>1. /\ pc[x] = "mark"
      /\ applied' = applied \union plan[x]
      /\ superseded' = superseded \union losers[x]
      /\ UNCHANGED queued
  BY DEF Mark
<1>2. /\ batch # {}
      /\ batch \subseteq Allowed \intersect ToSet(queued)
      /\ \A w \in plan[x], y \in batch : ~Newer(y, w)
  BY <1>1 DEF ShowInv, PlanTops, Carrying
<1>3. /\ batch \intersect (applied \union superseded) = {}
      /\ plan[x] \intersect losers[x] = {}
  BY <1>1 DEF SettleInv, PlansUnsettled, Carrying
<1>4. batch \subseteq Queue!Pending
  BY <1>2, <1>3 DEF Queue!Pending, Queue!ToSet, ToSet
<1>5. \A d, e : Queue!Newer(d, e) <=> Newer(d, e)
  BY DEF Queue!Newer, Newer
<1>6. ASSUME NEW d \in losers[x]
      PROVE \E w \in plan[x] : Newer(w, d) /\ KeyOf[w] = KeyOf[d]
  BY DEF LosersBeaten, Newer
<1>7. Queue!NewestOf(batch) = plan[x]
  BY <1>2, <1>5, <1>6 DEF Queue!NewestOf
<1>8. batch \ plan[x] = losers[x]
  BY <1>3
<1>9. ASSUME NEW d \in batch, NEW e \in Queue!Pending \ batch, Newer(d, e) PROVE FALSE
  <2>1. e \in Deltas /\ d \in Deltas /\ KeyOf[d] = KeyOf[e]
    BY <1>9 DEF Queue!Pending, Newer, ExportTypeOK, ToSet
  <2>2. e \in Pending
    BY <1>2, <1>9, <2>1, ProfileAssumption
         DEF Queue!Pending, Pending, Queue!ToSet, ToSet
  <2>3. PICK w \in plan[x] : Newer(w, e)
    BY <1>6, <1>9, NewerTransitive
  <2> QED
    BY <1>9, <2>2, <2>3 DEF PlansAreNewest
<1>10. Published' = Written(x, Published)
  BY MarkPublishes DEF SettleInv
<1>11. ASSUME NEW k PROVE (\E d \in batch : KeyOf[d] = k) <=> (\E d \in plan[x] : KeyOf[d] = k)
  BY <1>6
<1>12. Published' = [k \in Queue!Keys |->
         IF \E d \in batch : KeyOf[d] = k
           THEN CHOOSE d \in Queue!NewestOf(batch) : KeyOf[d] = k ELSE Published[k]]
  <2>1. Published' = [k \in Keys |->
         IF \E d \in plan[x] : KeyOf[d] = k
           THEN CHOOSE d \in plan[x] : KeyOf[d] = k ELSE Published[k]]
    BY <1>10 DEF Written, Sequential
  <2>2. Queue!Keys = Keys
    BY DEF Queue!Keys, Keys
  <2> HIDE DEF batch
  <2> QED
    BY <2>1, <2>2, <1>7, <1>11
<1>13. Queue!Publish(batch)
  BY <1>1, <1>2, <1>5, <1>7, <1>8, <1>9, <1>12 DEF Queue!Publish
<1> QED
  BY <1>4, <1>13

\* A new row is a new entry of the queue.
LEMMA QueueRefines ==
  ASSUME NEW d \in Deltas, QueueDelta(d)
  PROVE  Queue!Enqueue(d)
BY DEF QueueDelta, Queue!Enqueue, Queue!ToSet, ToSet, Published, Unfinished, disk, local

\* Every other step is a stutter.
LEMMA StepRefines ==
  ASSUME Sequential, SequentialInv, [Next]_vars, [HandlersRun]_vars
  PROVE  [Queue!Next]_Queue!vars
<1>1. CASE \E x \in Exports : Mark(x)
  BY <1>1, MarkRefines DEF Queue!Next
<1>2. CASE \E d \in Deltas : QueueDelta(d)
  BY <1>2, QueueRefines DEF Queue!Next
<1>3. CASE (~ \E x \in Exports : Mark(x)) /\ (~ \E d \in Deltas : QueueDelta(d))
  <2>1. Published' = Published
    BY <1>3, QuietStep DEF SequentialInv, ExportInv
  <2>2. UNCHANGED <<queued, applied, superseded>>
    <3>1. ASSUME NEW x \in Exports, ExportStep(x) PROVE UNCHANGED rows
      BY <1>3, <3>1 DEF ExportStep, CreateJob, Announce, Snapshot, Run, ApplyDeltas, Save,
                        Commit, Finish, Fail, Notify, Rollback
    <3>2. CASE \E x \in Exports : Plan(x) \/ SendFails(x)
      BY <3>2 DEF Plan, SendFails, rows
    <3>3. CASE Fault \/ Crash \/ UNCHANGED vars
      BY <3>3 DEF Fault, FaultInExport, FaultInRollback, Crash, vars, rows
    <3> QED
      BY <1>3, <3>1, <3>2, <3>3 DEF Next, rows
  <2> QED
    BY <2>1, <2>2 DEF Queue!vars
<1> QED
  BY <1>1, <1>2, <1>3

\* Seen without the exports that can still take their writing back, such exports
\* publish the newest of each key of a batch of the queue at once, or nothing.
THEOREM ImplementsQueue ==
  Sequential => (Spec /\ [][HandlersRun]_vars => ImplementsDeltaQueue)
<1> SUFFICES ASSUME Sequential PROVE Spec /\ [][HandlersRun]_vars => ImplementsDeltaQueue
  OBVIOUS
<1>1. Init => Queue!Init
  <2>1. Init => Published = file
    BY DEF Init, Published, Unfinished
  <2>2. Queue!Keys = Keys
    BY DEF Queue!Keys, Keys
  <2> QED
    BY <2>1, <2>2 DEF Init, Queue!Init
<1>2. SequentialInv /\ [Next]_vars /\ [HandlersRun]_vars => [Queue!Next]_Queue!vars
  BY StepRefines
<1> QED
  BY <1>1, <1>2, SequentialHolds, PTL DEF Spec, ImplementsDeltaQueue, Queue!Spec

\* A failure is handled when it is the only one there can be.
LastFault == \A e \in Exports : pc[e] \in Ending => faults = MaxFaults

\* Failures are counted one at a time up to their bound.
LEMMA FaultsStep ==
  ASSUME ExportTypeOK, [Next]_vars
  PROVE  faults' \in {faults, faults + 1} /\ faults' <= MaxFaults
<1> DEFINE Goal == faults' \in {faults, faults + 1} /\ faults' <= MaxFaults
<1> SUFFICES Goal
  OBVIOUS
<1>1. CASE Fault
  BY <1>1 DEF Fault, ExportTypeOK
<1>2. ASSUME UNCHANGED faults PROVE Goal
  BY <1>2 DEF ExportTypeOK
<1>3. ASSUME NEW x \in Exports, ExportStep(x) PROVE UNCHANGED faults
  BY <1>3 DEF ExportStep, CreateJob, Announce, Snapshot, Run, ApplyDeltas, Save, Commit,
              Mark, Finish, Fail, Notify, Rollback, env
<1>4. CASE \E x \in Exports : Plan(x) \/ SendFails(x)
  BY <1>2, <1>4 DEF Plan, SendFails, env
<1>5. CASE Crash \/ UNCHANGED vars \/ \E d \in Deltas : QueueDelta(d)
  BY <1>2, <1>5 DEF Crash, QueueDelta, vars, env
<1> QED
  BY <1>1, <1>2, <1>3, <1>4, <1>5 DEF Next

\* When there is at most one failure, none strikes the handling of another.
LEMMA OneFault ==
  Sequential /\ MaxFaults \in {0, 1} => (Spec => [][HandlersRun]_vars)
<1> SUFFICES ASSUME Sequential, MaxFaults \in {0, 1} PROVE Spec => [][HandlersRun]_vars
  OBVIOUS
<1>1. Init => LastFault
  BY DEF Init, LastFault, Ending
<1>2. SequentialInv /\ LastFault /\ [Next]_vars => [HandlersRun]_vars
  BY DEF SequentialInv, ExportInv, ExportTypeOK, LastFault, HandlersRun, Fault
<1>3. SequentialInv /\ LastFault /\ [Next]_vars => LastFault'
  <2> SUFFICES ASSUME SequentialInv, LastFault, [Next]_vars PROVE LastFault'
    OBVIOUS
  <2>1. faults \in 0..MaxFaults /\ faults' \in {faults, faults + 1}
    BY FaultsStep DEF SequentialInv, ExportInv, ExportTypeOK
  <2>2. Fault => faults' = MaxFaults
    BY <2>1 DEF Fault
  <2>3. \A e \in Exports : pc'[e] \in Ending => pc[e] \in Ending \/ Fault
    <3>1. CASE \E x \in Exports : Mark(x)
      BY <3>1 DEF Mark, Goto, Ending, SequentialInv, ExportInv, ExportTypeOK
    <3>2. CASE ~ \E x \in Exports : Mark(x)
      BY <1>2, <3>2, QuietStep DEF SequentialInv, ExportInv
    <3> QED
      BY <3>1, <3>2
  <2>4. faults = MaxFaults => faults' = MaxFaults
    BY <2>1, FaultsStep DEF SequentialInv, ExportInv, ExportTypeOK
  <2> QED
    BY <2>2, <2>3, <2>4 DEF LastFault
<1>4. SequentialInv /\ LastFault /\ [Next]_vars => SequentialInv'
  BY <1>2, SequentialStep
<1> QED
  BY <1>1, <1>2, <1>3, <1>4, SequentialInit, PTL DEF Spec

\* With at most one failure in all there is nothing to assume of its handling.
THEOREM OneFailure ==
  Sequential /\ MaxFaults \in {0, 1} =>
    (Spec => []CompletedIsInFile /\ []FailedLeavesNoTrace /\ ImplementsDeltaQueue)
BY OneFault, CompletedStays, FailedIsUndone, ImplementsQueue, PTL
=============================================================================
