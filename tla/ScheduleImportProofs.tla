------------------------ MODULE ScheduleImportProofs ------------------------
(***************************************************************************)
(* For any number of overlapping uploads the accepted versions form one     *)
(* line, and only what succeeded leaves traces.                             *)
(***************************************************************************)
EXTENDS ScheduleImport, TLAPS

UploadFields == {"pc", "prior", "was", "wasActive"}

ImportTyped ==
  /\ run \in [Uploads -> {"none", "running", "succeeded", "failed"}]
  /\ version \in [Uploads -> {"none", "current", "superseded"}]
  /\ supersedes \in [Uploads -> Uploads \union {None}]
  /\ \A t \in task : DOMAIN t = {"code", "by", "stamp"}
  /\ DOMAIN wbs = Uploads /\ \A i \in Uploads : "status" \in DOMAIN wbs[i]
  /\ selected \in Uploads \union {None}
  /\ DOMAIN upload = Uploads /\ \A i \in Uploads : UploadFields \subseteq DOMAIN upload[i]

\* An upload that is not over has left nothing yet.
NothingYet == \A i \in Uploads : upload[i].pc # "done" =>
  version[i] = "none" /\ run[i] # "succeeded"

\* What an upload found to be current was accepted once, and the WBS version it
\* saw active exists.
FindingsExist == \A i \in Uploads :
  /\ upload[i].pc \in {"found", "accepted"} => upload[i].prior \in Ever \union {None}
  /\ upload[i].wasActive => upload[i].was \in Uploads /\ wbs[upload[i].was].status # "none"

\* The index: one upload at a time is between accepting and committing, and
\* nothing but what it replaces is current meanwhile.
PlaceIsHeld == \A i \in Uploads : At(i, "accepted") =>
  /\ Current \subseteq {upload[i].prior}
  /\ \A j \in Others(i) : ~At(j, "accepted")

\* No accepted version says it replaced the one that is current.
CurrentIsLast == \A i \in Ever : supersedes[i] \in (Ever \ Current) \union {None}

ImportInv ==
  /\ ImportTyped
  /\ NothingYet
  /\ FindingsExist
  /\ PlaceIsHeld
  /\ CurrentIsLast
  /\ VersionsFormALine
  /\ SelectedFollowsCurrent
  /\ OnlySuccessLeavesTraces

-----------------------------------------------------------------------------
\* A step of one upload that commits nothing.
LocalStep(i) ==
  /\ upload[i].pc # "done"
  /\ UNCHANGED schedule
  /\ run' \in [Uploads -> {"none", "running", "succeeded", "failed"}]
  /\ run'[i] # "succeeded" /\ \A j \in Others(i) : run'[j] = run[j]
  /\ DOMAIN upload' = Uploads
  /\ \A j \in Others(i) : upload'[j] = upload[j]
  /\ UploadFields \subseteq DOMAIN upload'[i]
  /\ upload'[i].pc \in {"found", "accepted"} => upload'[i].prior \in Ever \union {None}
  /\ upload'[i].pc = "accepted" =>
       /\ Current \subseteq {upload'[i].prior}
       /\ \A j \in Others(i) : ~At(j, "accepted")
  /\ upload'[i].wasActive => upload'[i].was \in Uploads /\ wbs[upload'[i].was].status # "none"

\* Before its transaction commits an import writes nothing another one can see.
LEMMA LocalKeeps ==
  ASSUME ImportInv, NEW i \in Uploads, LocalStep(i)
  PROVE  ImportInv'
<1>1. UNCHANGED <<task, activity, version, supersedes, wbs, selected>>
  BY DEF LocalStep, schedule
<1>2. Ever' = Ever /\ Current' = Current
  BY <1>1 DEF Ever, Current
<1>3. ImportTyped'
  BY <1>1 DEF LocalStep, ImportInv, ImportTyped, Others
<1>4. NothingYet'
  BY <1>1 DEF LocalStep, ImportInv, NothingYet, Others
<1>5. FindingsExist'
  BY <1>1, <1>2 DEF LocalStep, ImportInv, FindingsExist, Others
<1>6. PlaceIsHeld'
  BY <1>2 DEF LocalStep, ImportInv, PlaceIsHeld, At, Others
<1>7. CurrentIsLast' /\ VersionsFormALine' /\ SelectedFollowsCurrent'
  BY <1>1, <1>2 DEF ImportInv, CurrentIsLast, VersionsFormALine, SelectedFollowsCurrent
<1>8. OnlySuccessLeavesTraces'
  <2>1. \A j \in Uploads : (run'[j] = "succeeded") <=> (run[j] = "succeeded")
    BY DEF LocalStep, ImportInv, NothingYet, Others
  <2> QED BY <1>1, <1>2, <2>1 DEF ImportInv, OnlySuccessLeavesTraces
<1> QED
  BY <1>3, <1>4, <1>5, <1>6, <1>7, <1>8 DEF ImportInv

\* Moving on, raising and finishing change nothing but the program counter, or
\* forget what was read.
LEMMA SimpleStep ==
  ASSUME ImportInv, NEW i \in Uploads, upload[i].pc # "done", UNCHANGED <<run, schedule>>,
         NEW pc \in {"activated", "written", "linked", "raised", "done"},
         Goto(i, pc) \/ upload' = [upload EXCEPT ![i] = [Fresh EXCEPT !.pc = pc]]
  PROVE  LocalStep(i)
<1>1. /\ DOMAIN upload' = Uploads
      /\ \A j \in Others(i) : upload'[j] = upload[j]
  BY DEF Goto, Others, ImportInv, ImportTyped
<1>2. run \in [Uploads -> {"none", "running", "succeeded", "failed"}] /\ run[i] # "succeeded"
  BY DEF ImportInv, ImportTyped, NothingYet
<1>3. CASE Goto(i, pc)
  <2>1. /\ upload'[i].pc = pc /\ UploadFields \subseteq DOMAIN upload'[i]
        /\ upload'[i].was = upload[i].was /\ upload'[i].wasActive = upload[i].wasActive
    BY <1>3 DEF Goto, ImportInv, ImportTyped, UploadFields
  <2> QED BY <1>1, <1>2, <2>1 DEF LocalStep, ImportInv, FindingsExist
<1>4. CASE upload' = [upload EXCEPT ![i] = [Fresh EXCEPT !.pc = pc]]
  <2>1. /\ upload'[i].pc = pc /\ UploadFields \subseteq DOMAIN upload'[i]
        /\ upload'[i].wasActive = FALSE
    BY <1>4 DEF Fresh, ImportInv, ImportTyped, UploadFields
  <2> QED BY <1>1, <1>2, <2>1 DEF LocalStep
<1> QED BY <1>3, <1>4

\* Every step of an import but its commit is such a step.
LEMMA UncommittedStep ==
  ASSUME ImportInv, NEW i \in Uploads, ImportStep(i), ~Commit(i)
  PROVE  LocalStep(i)
<1>0. run \in [Uploads -> {"none", "running", "succeeded", "failed"}]
      /\ DOMAIN upload = Uploads /\ UploadFields \subseteq DOMAIN upload[i]
      /\ (upload[i].pc # "done" => run[i] # "succeeded")
      /\ (upload[i].wasActive =>
            upload[i].was \in Uploads /\ wbs[upload[i].was].status # "none")
  BY DEF ImportInv, ImportTyped, NothingYet, FindingsExist
<1>1. ASSUME NEW replace \in BOOLEAN, NEW evidence \in BOOLEAN, NEW file, NEW dirty,
             StartRun(i, replace, file, dirty, evidence)
      PROVE  LocalStep(i)
  <2>1. /\ upload'[i].pc = "started" /\ upload'[i].wasActive = FALSE
        /\ UploadFields \subseteq DOMAIN upload'[i]
    BY <1>0, <1>1 DEF StartRun, Fresh, UploadFields
  <2> QED BY <1>0, <1>1, <2>1 DEF StartRun, LocalStep, At, Others
<1>2. CASE ReadTasks(i)
  <2>1. PICK removed, matched : upload' = [upload EXCEPT
          ![i].pc = "read", ![i].removed = removed, ![i].matched = matched]
    BY <1>2 DEF ReadTasks
  <2>2. /\ upload'[i].pc = "read" /\ UploadFields \subseteq DOMAIN upload'[i]
        /\ upload'[i].was = upload[i].was /\ upload'[i].wasActive = upload[i].wasActive
    BY <1>0, <2>1 DEF UploadFields
  <2> QED BY <1>0, <1>2, <2>1, <2>2 DEF ReadTasks, LocalStep, At, Others
<1>3. CASE WriteTasks(i)
  BY <1>3, SimpleStep DEF WriteTasks, Raise, At
<1>4. CASE FindActivities(i)
  <2>1. /\ upload'[i].pc = "linking" /\ UploadFields \subseteq DOMAIN upload'[i]
        /\ upload'[i].was = upload[i].was /\ upload'[i].wasActive = upload[i].wasActive
    BY <1>0, <1>4 DEF FindActivities, UploadFields
  <2> QED BY <1>0, <1>4, <2>1 DEF FindActivities, LocalStep, At, Others
<1>5. CASE LinkActivities(i)
  BY <1>5, SimpleStep DEF LinkActivities, Raise, At
<1>6. CASE GetSelected(i)
  <2>1. /\ upload'[i].pc = "selecting" /\ UploadFields \subseteq DOMAIN upload'[i]
        /\ upload'[i].was = selected
        /\ upload'[i].wasActive = (selected # None /\ wbs[selected].status = "active")
    BY <1>0, <1>6 DEF GetSelected, UploadFields
  <2>2. selected \in Uploads \union {None}
    BY DEF ImportInv, ImportTyped
  <2> QED BY <1>0, <1>6, <2>1, <2>2 DEF GetSelected, LocalStep, At, Others
<1>7. CASE NextRevision(i)
  <2>1. /\ upload'[i].pc = "drafting" /\ UploadFields \subseteq DOMAIN upload'[i]
        /\ upload'[i].was = upload[i].was /\ upload'[i].wasActive = upload[i].wasActive
    BY <1>0, <1>7 DEF NextRevision, UploadFields
  <2> QED BY <1>0, <1>7, <2>1 DEF NextRevision, LocalStep, At, Others
<1>8. CASE ActivateWBS(i)
  BY <1>8, SimpleStep DEF ActivateWBS, Raise, At
<1>9. CASE FindCurrent(i)
  <2> DEFINE prior == IF Current = {} THEN None ELSE CHOOSE c \in Current : TRUE
  <2>1. prior \in Ever \union {None}
    BY DEF Ever, Current
  <2>2. /\ upload'[i].pc = "found" /\ UploadFields \subseteq DOMAIN upload'[i]
        /\ upload'[i].prior = prior
        /\ upload'[i].was = upload[i].was /\ upload'[i].wasActive = upload[i].wasActive
    BY <1>0, <1>9 DEF FindCurrent, UploadFields
  <2> HIDE DEF prior
  <2> QED BY <1>0, <1>9, <2>1, <2>2 DEF FindCurrent, LocalStep, At, Others
<1>10. CASE AcceptAsCurrent(i)
  <2>1. CASE Current \subseteq {upload[i].prior}
    <3>1. upload' = [upload EXCEPT ![i].pc = "accepted"]
      BY <1>10, <2>1 DEF AcceptAsCurrent, Goto
    <3>2. /\ upload'[i].pc = "accepted" /\ UploadFields \subseteq DOMAIN upload'[i]
          /\ upload'[i].prior = upload[i].prior
          /\ upload'[i].was = upload[i].was /\ upload'[i].wasActive = upload[i].wasActive
      BY <1>0, <3>1 DEF UploadFields
    <3>3. upload[i].prior \in Ever \union {None}
      BY <1>10 DEF AcceptAsCurrent, At, ImportInv, FindingsExist
    <3> QED BY <1>0, <1>10, <2>1, <3>1, <3>2, <3>3 DEF AcceptAsCurrent, LocalStep, At, Others
  <2>2. CASE ~(Current \subseteq {upload[i].prior})
    BY <1>10, <2>2, SimpleStep DEF AcceptAsCurrent, Raise, At
  <2> QED BY <2>1, <2>2
<1>11. CASE RollBack(i)
  BY <1>11, SimpleStep DEF RollBack, Raise, InTransaction, Written, Drafted
<1>12. CASE CompleteFailure(i)
  <2>1. /\ upload'[i].pc = "done" /\ upload'[i].wasActive = FALSE
        /\ UploadFields \subseteq DOMAIN upload'[i]
    BY <1>0, <1>12 DEF CompleteFailure, Finish, Fresh, UploadFields
  <2> QED BY <1>0, <1>12, <2>1 DEF CompleteFailure, Finish, LocalStep, At, Others
<1>13. CASE Crash(i)
  BY <1>13, SimpleStep DEF Crash, Finish, InTransaction, Written, Drafted
<1> QED
  BY <1>1, <1>2, <1>3, <1>4, <1>5, <1>6, <1>7, <1>8, <1>9, <1>10, <1>11, <1>12, <1>13
  DEF ImportStep

-----------------------------------------------------------------------------
\* The commit: the new version takes the place of the one it found.
LEMMA CommitKeeps ==
  ASSUME ImportInv, NEW i \in Uploads, Commit(i)
  PROVE  ImportInv'
<1> DEFINE p == upload[i].prior
<1>1. /\ At(i, "accepted") /\ version[i] = "none" /\ i \notin Ever
      /\ Current \subseteq {p} /\ p \in Ever \union {None}
      /\ \A j \in Others(i) : ~At(j, "accepted")
  BY DEF Commit, At, ImportInv, NothingYet, PlaceIsHeld, FindingsExist, Ever
<1>2. /\ version' = [j \in Uploads |-> CASE j = i -> "current"
                                        [] j = p -> "superseded"
                                        [] OTHER -> version[j]]
      /\ supersedes' = [supersedes EXCEPT ![i] = p]
      /\ run' = [run EXCEPT ![i] = "succeeded"]
      /\ upload' = [upload EXCEPT ![i] = [Fresh EXCEPT !.pc = "done"]]
  BY DEF Commit, Finish
<1>3. Current' = {i} /\ Ever' = Ever \union {i} /\ i # p
  <2>1. i # p
    BY <1>1, UploadAssumption
  <2>2. \A j \in Uploads : version[j] = "current" => j = p
    BY <1>1 DEF Current
  <2>3. Current' = {i}
    BY <1>2, <2>1, <2>2 DEF Current
  <2>4. Ever' = Ever \union {i}
    <3>1. \A j \in Uploads : version'[j] # "none" <=> j \in Ever \/ j = i
      BY <1>1, <1>2, UploadAssumption DEF Ever
    <3> QED BY <3>1 DEF Ever
  <2> QED BY <2>1, <2>3, <2>4
<1>4. /\ \A j \in Others(i) : upload'[j] = upload[j]
      /\ upload'[i].pc = "done" /\ upload'[i].wasActive = FALSE
      /\ UploadFields \subseteq DOMAIN upload'[i] /\ DOMAIN upload' = Uploads
  BY <1>2 DEF ImportInv, ImportTyped, Others, Fresh, UploadFields
<1>5. p \in Ever => Current = {p}
  BY <1>1 DEF ImportInv, VersionsFormALine
<1>6. p = None => Ever = {}
  BY <1>1, UploadAssumption DEF ImportInv, VersionsFormALine, Current
<1>7. /\ supersedes'[i] = p
      /\ \A j \in Ever : supersedes'[j] = supersedes[j] /\ supersedes[j] # p
  <2>1. supersedes'[i] = p /\ \A j \in Ever : supersedes'[j] = supersedes[j]
    BY <1>1, <1>2 DEF ImportInv, ImportTyped, Ever
  <2>2. \A j \in Ever : supersedes[j] # p
    BY <1>1, <1>5, <1>6, UploadAssumption DEF ImportInv, CurrentIsLast, Ever
  <2> QED BY <2>1, <2>2
<1>8. /\ DOMAIN wbs' = Uploads
      /\ \A j \in Uploads : "status" \in DOMAIN wbs'[j]
      /\ \A j \in Uploads : wbs'[j].status # "none" => wbs[j].status # "none" \/ j = i
      /\ \A j \in Uploads : wbs[j].status # "none" => wbs'[j].status # "none"
  <2>1. CASE upload[i].evidence
    <3>1. wbs' = [j \in Uploads |->
            IF j = i THEN [status |-> "active", revision |-> upload[i].revision]
            ELSE IF j = upload[i].was /\ upload[i].wasActive
            THEN [wbs[j] EXCEPT !.status = "superseded"]
            ELSE wbs[j]]
      BY <2>1 DEF Commit, TakeOver
    <3>2. upload[i].wasActive => wbs[upload[i].was].status # "none"
      BY DEF ImportInv, FindingsExist
    <3> QED BY <3>1, <3>2 DEF ImportInv, ImportTyped
  <2>2. CASE ~upload[i].evidence
    BY <2>2 DEF Commit, TakeOver, ImportInv, ImportTyped
  <2> QED BY <2>1, <2>2
<1>9. \A t \in task' : /\ DOMAIN t = {"code", "by", "stamp"}
                      /\ {t.by, t.stamp} \subseteq Ever \union {i}
  <2> SUFFICES ASSUME NEW t \in task'
      PROVE  DOMAIN t = {"code", "by", "stamp"} /\ {t.by, t.stamp} \subseteq Ever \union {i}
    OBVIOUS
  <2>1. CASE \E c \in Created(i) : t = [code |-> c, by |-> i, stamp |-> i]
    BY <2>1
  <2>2. ASSUME NEW u \in task, t = [u EXCEPT !.stamp = IF \E v \in Updated(i) : SameRow(u, v)
                                                     THEN i ELSE @]
        PROVE  DOMAIN t = {"code", "by", "stamp"} /\ {t.by, t.stamp} \subseteq Ever \union {i}
    <3>1. DOMAIN u = {"code", "by", "stamp"} /\ {u.by, u.stamp} \subseteq Ever
      BY DEF ImportInv, ImportTyped, OnlySuccessLeavesTraces
    <3> QED BY <2>2, <3>1
  <2>3. task' = Saved(i)
    BY DEF Commit
  <2> QED BY <2>1, <2>2, <2>3 DEF Saved
<1>10. ImportTyped'
  <2>1. /\ run' \in [Uploads -> {"none", "running", "succeeded", "failed"}]
        /\ version' \in [Uploads -> {"none", "current", "superseded"}]
    BY <1>2 DEF ImportInv, ImportTyped
  <2>2. supersedes' \in [Uploads -> Uploads \union {None}]
    BY <1>1, <1>2 DEF ImportInv, ImportTyped, Ever
  <2>3. selected' \in Uploads \union {None}
    BY DEF Commit, TakeOver, ImportInv, ImportTyped
  <2> QED BY <1>4, <1>8, <1>9, <2>1, <2>2, <2>3 DEF ImportInv, ImportTyped, Others
<1>11. NothingYet'
  <2>1. \A j \in Others(i) : upload[j].pc # "done" => j # p
    BY <1>1, UploadAssumption DEF ImportInv, NothingYet, Ever, Others
  <2> QED BY <1>2, <1>4, <2>1 DEF ImportInv, ImportTyped, NothingYet, Others
<1>12. FindingsExist'
  BY <1>3, <1>4, <1>8 DEF ImportInv, FindingsExist, Others, ImportTyped
<1>13. PlaceIsHeld'
  BY <1>1, <1>4 DEF PlaceIsHeld, At, Others
<1>14. CurrentIsLast'
  BY <1>1, <1>3, <1>7 DEF ImportInv, CurrentIsLast
<1>15. VersionsFormALine'
  <2>1. \E c \in Uploads : Current' = {c}
    BY <1>3
  <2>2. ASSUME NEW k \in Ever' \ Current'
        PROVE  \E j \in Ever' : supersedes'[j] = k
    <3>1. CASE k = p
      BY <1>3, <1>7, <3>1
    <3>2. CASE k # p
      <4>1. k \in Ever \ Current
        BY <1>1, <1>3, <2>2, <3>2
      <4> QED BY <1>3, <1>7, <4>1 DEF ImportInv, VersionsFormALine
    <3> QED BY <3>1, <3>2
  <2>3. \A k, j \in Ever' : supersedes'[k] = supersedes'[j] => k = j
    BY <1>3, <1>7 DEF ImportInv, VersionsFormALine
  <2> QED BY <2>1, <2>2, <2>3 DEF VersionsFormALine
<1>16. OnlySuccessLeavesTraces'
  <2>1. \A j \in Uploads : (run'[j] = "succeeded") <=> (j \in Ever')
    BY <1>2, <1>3 DEF ImportInv, ImportTyped, OnlySuccessLeavesTraces
  <2> QED BY <1>3, <1>8, <1>9, <2>1 DEF ImportInv, OnlySuccessLeavesTraces
<1>17. SelectedFollowsCurrent'
  <2>1. CASE upload[i].evidence
    BY <1>3, <2>1 DEF Commit, TakeOver, SelectedFollowsCurrent
  <2>2. CASE ~upload[i].evidence
    BY <1>1, <1>3, <2>2 DEF Commit, TakeOver, SelectedFollowsCurrent, ImportInv,
       OnlySuccessLeavesTraces
  <2> QED BY <2>1, <2>2
<1> QED
  BY <1>10, <1>11, <1>12, <1>13, <1>14, <1>15, <1>16, <1>17 DEF ImportInv

\* The inductive invariant holds before the first upload.
LEMMA ImportStart == ScheduleInit => ImportInv
<1> SUFFICES ASSUME ScheduleInit PROVE ImportInv
  OBVIOUS
<1>1. Ever = {} /\ Current = {}
  BY DEF ScheduleInit, Ever, Current
<1>2. ImportTyped
  BY DEF ScheduleInit, ImportTyped, Fresh, UploadFields
<1> QED
  BY <1>1, <1>2 DEF ScheduleInit, ImportInv, NothingYet, FindingsExist, PlaceIsHeld, At,
     CurrentIsLast, VersionsFormALine, SelectedFollowsCurrent, OnlySuccessLeavesTraces, Fresh

\* The inductive invariant holds whatever the imports do and however they overlap.
THEOREM ImportInvariant == ScheduleSpec => []ImportInv
<1>1. ImportInv /\ [ScheduleNext]_imports => ImportInv'
  <2> SUFFICES ASSUME ImportInv, [ScheduleNext]_imports PROVE ImportInv'
    OBVIOUS
  <2>1. ASSUME NEW i \in Uploads, ImportStep(i) PROVE ImportInv'
    BY <2>1, CommitKeeps, UncommittedStep, LocalKeeps
  <2>2. CASE UNCHANGED imports
    BY <2>2 DEF imports, schedule, ImportInv, ImportTyped, NothingYet, FindingsExist,
       PlaceIsHeld, At, CurrentIsLast, VersionsFormALine, SelectedFollowsCurrent,
       OnlySuccessLeavesTraces, Ever, Current
  <2> QED BY <2>1, <2>2 DEF ScheduleNext
<1> QED
  BY ImportStart, <1>1, PTL DEF ScheduleSpec

\* However many uploads overlap, the accepted source versions are one line that
\* ends in the only current one.
THEOREM OneLineOfVersions == ScheduleSpec => []VersionsFormALine
BY ImportInvariant, PTL DEF ImportInv

\* However many uploads overlap, the WBS selected for analysis is that of the
\* current source version, if it has one.
THEOREM SelectionFollows == ScheduleSpec => []SelectedFollowsCurrent
BY ImportInvariant, PTL DEF ImportInv

\* However many uploads overlap, fail or die, tasks, source versions and WBS
\* versions are of imports that succeeded.
THEOREM FailureLeavesNothing == ScheduleSpec => []OnlySuccessLeavesTraces
BY ImportInvariant, PTL DEF ImportInv
-----------------------------------------------------------------------------
(* Types, and the revision numbers of the WBS versions.                     *)
TaskRow == [code : Codes, by : Uploads, stamp : Uploads]

UploadTyped(u) ==
  /\ DOMAIN u = DOMAIN Fresh
  /\ u.file \subseteq Codes /\ u.new \subseteq Codes /\ u.matched \subseteq TaskRow

\* A WBS draft in a transaction: its revision is nobody else's, in a draft or in
\* the table, until the transaction ends.
Drafts(u) == u.pc \in Drafted /\ u.evidence
RevisionIsTaken(i) == Drafts(upload[i]) =>
  /\ \A j \in Uploads : wbs[j].revision # upload[i].revision
  /\ \A j \in Others(i) : Drafts(upload[j]) => upload[j].revision # upload[i].revision

RevisionsDiffer == \A i, j \in Uploads :
  wbs[i].revision = wbs[j].revision => i = j \/ wbs[i].revision = 0

ImportTypes ==
  /\ task \subseteq TaskRow /\ activity \subseteq Codes
  /\ DOMAIN wbs = Uploads
  /\ \A i \in Uploads : /\ DOMAIN wbs[i] = {"status", "revision"}
                        /\ wbs[i].status \in {"none", "active", "superseded"}
  /\ DOMAIN upload = Uploads /\ \A i \in Uploads : UploadTyped(upload[i])
  /\ RevisionsDiffer
  /\ \A i \in Uploads : RevisionIsTaken(i)

\* A step that changes the state of one upload only.
LEMMA OneUploadTyped ==
  ASSUME ImportTypes, NEW i \in Uploads, NEW u, UploadTyped(u),
         upload' = [upload EXCEPT ![i] = u], UNCHANGED <<task, activity, wbs>>,
         Drafts(u) => /\ \A j \in Uploads : wbs[j].revision # u.revision
                      /\ \A j \in Others(i) : Drafts(upload[j]) => upload[j].revision # u.revision
  PROVE  ImportTypes'
<1>1. \A j \in Uploads : UploadTyped(upload'[j]) /\ (j # i => upload'[j] = upload[j])
  BY DEF ImportTypes
<1>2. upload'[i] = u
  BY DEF ImportTypes
<1>3. ASSUME NEW j \in Uploads PROVE RevisionIsTaken(j)'
  <2>1. \A k \in Uploads : wbs'[k].revision = wbs[k].revision
    OBVIOUS
  <2>2. CASE j = i
    BY <1>1, <1>2, <2>2 DEF RevisionIsTaken, Others
  <2>3. CASE j # i
    <3>1. upload'[j] = upload[j] /\ RevisionIsTaken(j)
      BY <1>1, <2>3 DEF ImportTypes
    <3> QED BY <1>1, <1>2, <2>1, <2>3, <3>1 DEF RevisionIsTaken, Others
  <2> QED BY <2>2, <2>3
<1> QED
  BY <1>1, <1>3 DEF ImportTypes, RevisionsDiffer

\* The step moves on or starts over.
LEMMA MovesOnTyped ==
  ASSUME ImportTypes, NEW i \in Uploads, UNCHANGED <<task, activity, wbs>>,
         NEW pc,
         \/ /\ Goto(i, pc)
            /\ Drafts([upload[i] EXCEPT !.pc = pc]) => Drafts(upload[i])
         \/ upload' = [upload EXCEPT ![i] = [Fresh EXCEPT !.pc = pc]]
  PROVE  ImportTypes'
<1>1. UploadTyped(upload[i]) /\ RevisionIsTaken(i)
  BY DEF ImportTypes
<1>2. CASE Goto(i, pc) /\ (Drafts([upload[i] EXCEPT !.pc = pc]) => Drafts(upload[i]))
  <2> DEFINE u == [upload[i] EXCEPT !.pc = pc]
  <2>1. upload' = [upload EXCEPT ![i] = u]
    BY <1>2 DEF Goto, ImportTypes
  <2>2. UploadTyped(u) /\ u.revision = upload[i].revision
    BY <1>1 DEF UploadTyped, Fresh
  <2> HIDE DEF u
  <2> QED
    BY <1>1, <1>2, <2>1, <2>2, OneUploadTyped DEF RevisionIsTaken, u
<1>3. CASE upload' = [upload EXCEPT ![i] = [Fresh EXCEPT !.pc = pc]]
  <2> DEFINE u == [Fresh EXCEPT !.pc = pc]
  <2>1. UploadTyped(u) /\ ~Drafts(u)
    BY DEF UploadTyped, Fresh, Drafts
  <2> HIDE DEF u
  <2> QED BY <1>3, <2>1, OneUploadTyped DEF u
<1> QED BY <1>2, <1>3

\* A step before the commit keeps the types.
LEMMA UncommittedTyped ==
  ASSUME ImportTypes, NEW i \in Uploads, ImportStep(i), ~Commit(i)
  PROVE  ImportTypes'
<1>0. UploadTyped(upload[i]) /\ RevisionIsTaken(i) /\ DOMAIN upload = Uploads
  BY DEF ImportTypes
<1>1. ASSUME NEW replace \in BOOLEAN, NEW evidence \in BOOLEAN, NEW file \in SUBSET Codes,
             NEW dirty \in SUBSET Codes, StartRun(i, replace, file, dirty, evidence)
      PROVE  ImportTypes'
  <2> DEFINE u == [Fresh EXCEPT !.pc = "started", !.replace = replace, !.file = file,
                                !.dirty = dirty, !.evidence = evidence]
  <2>1. UploadTyped(u) /\ ~Drafts(u)
    BY DEF UploadTyped, Fresh, Drafts, Drafted
  <2>2. upload' = [upload EXCEPT ![i] = u] /\ UNCHANGED <<task, activity, wbs>>
    BY <1>1 DEF StartRun, schedule
  <2> HIDE DEF u
  <2> QED BY <2>1, <2>2, OneUploadTyped
<1>2. CASE ReadTasks(i)
  <2>1. PICK removed, matched \in SUBSET task : upload' = [upload EXCEPT
          ![i].pc = "read", ![i].removed = removed, ![i].matched = matched]
    <3>1. PICK kept \in OnePerCode(task), found \in OnePerCode(task) :
            upload' = [upload EXCEPT
              ![i].pc = "read",
              ![i].removed = IF upload[i].replace THEN task ELSE task \ kept,
              ![i].matched = IF upload[i].replace THEN {}
                             ELSE {t \in found : t.code \in upload[i].file}]
      BY <1>2 DEF ReadTasks
    <3>2. found \subseteq task
      BY DEF OnePerCode
    <3> DEFINE removed == IF upload[i].replace THEN task ELSE task \ kept
               matched == IF upload[i].replace THEN {}
                          ELSE {t \in found : t.code \in upload[i].file}
    <3>3. removed \in SUBSET task /\ matched \in SUBSET task
      BY <3>2
    <3>4. upload' = [upload EXCEPT
            ![i].pc = "read", ![i].removed = removed, ![i].matched = matched]
      BY <3>1
    <3> HIDE DEF removed, matched
    <3> QED BY <3>3, <3>4
  <2> DEFINE u == [upload[i] EXCEPT !.pc = "read", !.removed = removed, !.matched = matched]
  <2>2. upload' = [upload EXCEPT ![i] = u]
    BY <1>0, <2>1
  <2>3. UploadTyped(u) /\ ~Drafts(u)
    BY <1>0, <2>1 DEF UploadTyped, Fresh, Drafts, Drafted, ImportTypes
  <2>4. UNCHANGED <<task, activity, wbs>>
    BY <1>2 DEF ReadTasks, schedule
  <2> HIDE DEF u
  <2> QED BY <2>2, <2>3, <2>4, OneUploadTyped
<1>3. ASSUME NEW pc \in {"written", "linked", "raised", "done"}, UNCHANGED schedule,
             Goto(i, pc) \/ upload' = [upload EXCEPT ![i] = [Fresh EXCEPT !.pc = pc]]
      PROVE  ImportTypes'
  <2>1. ~Drafts([upload[i] EXCEPT !.pc = pc])
    BY <1>0, <1>3 DEF Drafts, Drafted, UploadTyped, Fresh
  <2> QED BY <1>3, <2>1, MovesOnTyped DEF schedule
<1>4. CASE WriteTasks(i) \/ RollBack(i) \/ CompleteFailure(i) \/ Crash(i)
  BY <1>3, <1>4 DEF WriteTasks, RollBack, CompleteFailure, Crash, Raise, Finish
<1>5. CASE FindActivities(i)
  <2> DEFINE new == (Created(i) \union {t.code : t \in Updated(i)}) \ activity
             u == [upload[i] EXCEPT !.pc = "linking", !.new = new]
  <2>1. upload' = [upload EXCEPT ![i] = u] /\ UNCHANGED <<task, activity, wbs>>
    BY <1>0, <1>5 DEF FindActivities, schedule
  <2>2. new \subseteq Codes
    BY <1>0 DEF Created, Updated, UploadTyped, TaskRow
  <2> HIDE DEF new
  <2>3. UploadTyped(u) /\ ~Drafts(u)
    BY <1>0, <2>2 DEF UploadTyped, Fresh, Drafts, Drafted
  <2> HIDE DEF u
  <2> QED BY <2>1, <2>3, OneUploadTyped
<1>6. CASE LinkActivities(i)
  <2>1. CASE upload[i].new \cap activity = {} /\ ~upload[i].evidence
    <3>1. Goto(i, "activated") /\ UNCHANGED <<task, activity, wbs>>
      BY <1>6, <2>1 DEF LinkActivities, schedule
    <3>2. ~Drafts([upload[i] EXCEPT !.pc = "activated"])
      BY <1>0, <2>1 DEF Drafts, UploadTyped, Fresh
    <3> QED BY <3>1, <3>2, MovesOnTyped
  <2>2. CASE ~(upload[i].new \cap activity = {} /\ ~upload[i].evidence)
    BY <1>3, <1>6, <2>2 DEF LinkActivities, Raise
  <2> QED BY <2>1, <2>2
<1>7. CASE GetSelected(i) \/ NextRevision(i) \/ FindCurrent(i)
  <2>1. CASE GetSelected(i)
    <3> DEFINE active == selected # None /\ wbs[selected].status = "active"
               u == [upload[i] EXCEPT !.pc = "selecting", !.was = selected, !.wasActive = active]
    <3>1. upload' = [upload EXCEPT ![i] = u] /\ UNCHANGED <<task, activity, wbs>>
      BY <1>0, <2>1 DEF GetSelected, schedule
    <3> HIDE DEF active
    <3>2. UploadTyped(u) /\ ~Drafts(u)
      BY <1>0 DEF UploadTyped, Fresh, Drafts, Drafted
    <3> HIDE DEF u
    <3> QED BY <3>1, <3>2, OneUploadTyped
  <2>2. CASE NextRevision(i)
    <3> DEFINE revision == Max({wbs[j].revision : j \in Uploads}) + 1
               u == [upload[i] EXCEPT !.pc = "drafting", !.revision = revision]
    <3>1. upload' = [upload EXCEPT ![i] = u] /\ UNCHANGED <<task, activity, wbs>>
      BY <1>0, <2>2 DEF NextRevision, schedule
    <3> HIDE DEF revision
    <3>2. UploadTyped(u) /\ ~Drafts(u)
      BY <1>0 DEF UploadTyped, Fresh, Drafts, Drafted
    <3> HIDE DEF u
    <3> QED BY <3>1, <3>2, OneUploadTyped
  <2>3. CASE FindCurrent(i)
    <3> DEFINE prior == IF Current = {} THEN None ELSE CHOOSE c \in Current : TRUE
               u == [upload[i] EXCEPT !.pc = "found", !.prior = prior]
    <3>1. upload' = [upload EXCEPT ![i] = u] /\ UNCHANGED <<task, activity, wbs>>
      BY <1>0, <2>3 DEF FindCurrent, schedule
    <3> HIDE DEF prior
    <3>2. UploadTyped(u) /\ u.revision = upload[i].revision /\ (Drafts(u) => Drafts(upload[i]))
      BY <1>0, <2>3 DEF UploadTyped, Fresh, Drafts, Drafted, FindCurrent, At
    <3> HIDE DEF u
    <3> QED BY <1>0, <3>1, <3>2, OneUploadTyped DEF RevisionIsTaken
  <2> QED BY <1>7, <2>1, <2>2, <2>3
<1>8. CASE ActivateWBS(i)
  <2>1. CASE \A j \in Uploads : wbs[j].revision # upload[i].revision
    <3> DEFINE u == [upload[i] EXCEPT !.pc = "activated"]
    <3>1. upload' = [upload EXCEPT ![i] = u] /\ UNCHANGED <<task, activity, wbs>>
      BY <1>0, <1>8, <2>1 DEF ActivateWBS, Goto, schedule
    <3>2. UploadTyped(u) /\ u.revision = upload[i].revision
      BY <1>0 DEF UploadTyped, Fresh
    <3>3. \A j \in Others(i) : Drafts(upload[j]) => upload[j].revision # upload[i].revision
      BY <1>8 DEF ActivateWBS, Drafts
    <3> HIDE DEF u
    <3> QED BY <2>1, <3>1, <3>2, <3>3, OneUploadTyped
  <2>2. CASE ~(\A j \in Uploads : wbs[j].revision # upload[i].revision)
    BY <1>3, <1>8, <2>2 DEF ActivateWBS, Raise
  <2> QED BY <2>1, <2>2
<1>9. CASE AcceptAsCurrent(i)
  <2>1. CASE Current \subseteq {upload[i].prior}
    <3>1. Goto(i, "accepted") /\ UNCHANGED <<task, activity, wbs>>
      BY <1>9, <2>1 DEF AcceptAsCurrent, schedule
    <3>2. Drafts([upload[i] EXCEPT !.pc = "accepted"]) => Drafts(upload[i])
      BY <1>0, <1>9 DEF Drafts, Drafted, AcceptAsCurrent, At, UploadTyped, Fresh
    <3> QED BY <3>1, <3>2, MovesOnTyped
  <2>2. CASE ~(Current \subseteq {upload[i].prior})
    BY <1>3, <1>9, <2>2 DEF AcceptAsCurrent, Raise
  <2> QED BY <2>1, <2>2
<1> QED
  BY <1>1, <1>2, <1>4, <1>5, <1>6, <1>7, <1>8, <1>9 DEF ImportStep

\* The commit: the draft's revision enters the table.
LEMMA CommitTyped ==
  ASSUME ImportTypes, NEW i \in Uploads, Commit(i)
  PROVE  ImportTypes'
<1>0. UploadTyped(upload[i]) /\ RevisionIsTaken(i) /\ upload[i].pc = "accepted"
  BY DEF ImportTypes, Commit, At
<1>1. task' \subseteq TaskRow
  <2>1. Created(i) \subseteq Codes
    BY <1>0 DEF Created, UploadTyped
  <2>2. ASSUME NEW t \in task, NEW stamp \in {i, t.stamp}
        PROVE  [t EXCEPT !.stamp = stamp] \in TaskRow
    BY <2>2 DEF ImportTypes, TaskRow
  <2>3. ASSUME NEW c \in Codes PROVE [code |-> c, by |-> i, stamp |-> i] \in TaskRow
    BY DEF TaskRow
  <2>4. task' = Saved(i)
    BY DEF Commit
  <2> QED BY <2>1, <2>2, <2>3, <2>4 DEF Saved
<1>2. activity' \subseteq Codes
  BY <1>0 DEF Commit, ImportTypes, UploadTyped
<1>3. upload' = [upload EXCEPT ![i] = [Fresh EXCEPT !.pc = "done"]]
  BY DEF Commit, Finish
<1>4. /\ DOMAIN upload' = Uploads /\ \A j \in Uploads : UploadTyped(upload'[j])
      /\ ~Drafts(upload'[i]) /\ \A j \in Others(i) : upload'[j] = upload[j]
  <2>1. UploadTyped([Fresh EXCEPT !.pc = "done"]) /\ ~Drafts([Fresh EXCEPT !.pc = "done"])
    BY DEF UploadTyped, Fresh, Drafts
  <2> QED BY <1>3, <2>1 DEF ImportTypes, Others
<1>5. /\ DOMAIN wbs' = Uploads
      /\ \A j \in Uploads : /\ DOMAIN wbs'[j] = {"status", "revision"}
                            /\ wbs'[j].status \in {"none", "active", "superseded"}
      /\ \A j \in Others(i) : wbs'[j].revision = wbs[j].revision
      /\ wbs'[i].revision = IF upload[i].evidence THEN upload[i].revision ELSE wbs[i].revision
  <2>1. CASE upload[i].evidence
    <3>1. wbs' = [j \in Uploads |->
            IF j = i THEN [status |-> "active", revision |-> upload[i].revision]
            ELSE IF j = upload[i].was /\ upload[i].wasActive
            THEN [wbs[j] EXCEPT !.status = "superseded"]
            ELSE wbs[j]]
      BY <2>1 DEF Commit, TakeOver
    <3> QED BY <2>1, <3>1 DEF ImportTypes, Others
  <2>2. CASE ~upload[i].evidence
    BY <2>2 DEF Commit, TakeOver, ImportTypes
  <2> QED BY <2>1, <2>2
<1>6. upload[i].evidence => Drafts(upload[i])
  BY <1>0 DEF Drafts, Drafted
<1>7. RevisionsDiffer'
  BY <1>0, <1>5, <1>6 DEF ImportTypes, RevisionsDiffer, RevisionIsTaken, Others
<1>8. ASSUME NEW j \in Uploads PROVE RevisionIsTaken(j)'
  <2>1. CASE j = i
    BY <1>4, <2>1 DEF RevisionIsTaken
  <2>2. CASE j # i
    <3>1. RevisionIsTaken(j) /\ upload'[j] = upload[j]
      BY <1>4, <2>2 DEF ImportTypes, Others
    <3> QED BY <1>4, <1>5, <1>6, <2>2, <3>1 DEF RevisionIsTaken, Others
  <2> QED BY <2>1, <2>2
<1> QED
  BY <1>1, <1>2, <1>4, <1>5, <1>7, <1>8 DEF ImportTypes

\* However uploads overlap, rows keep to their types and no two WBS versions get
\* the same revision number, although each upload reads the highest one unlocked.
THEOREM ImportTypeCorrect == ScheduleSpec => []ImportTypeOK
<1>1. ScheduleInit => ImportTypes
  <2> SUFFICES ASSUME ScheduleInit PROVE ImportTypes
    OBVIOUS
  <2>1. UploadTyped(Fresh) /\ ~Drafts(Fresh)
    BY DEF UploadTyped, Fresh, Drafts
  <2> HIDE DEF Fresh
  <2> QED BY <2>1 DEF ScheduleInit, ImportTypes, RevisionsDiffer, RevisionIsTaken
<1>2. ImportTypes /\ [ScheduleNext]_imports => ImportTypes'
  <2> SUFFICES ASSUME ImportTypes, [ScheduleNext]_imports PROVE ImportTypes'
    OBVIOUS
  <2>1. ASSUME NEW i \in Uploads, ImportStep(i) PROVE ImportTypes'
    BY <2>1, CommitTyped, UncommittedTyped
  <2>2. CASE UNCHANGED imports
    BY <2>2 DEF imports, schedule, ImportTypes, RevisionsDiffer, RevisionIsTaken
  <2> QED BY <2>1, <2>2 DEF ScheduleNext
<1>3. ImportInv /\ ImportTypes => ImportTypeOK
  BY DEF ImportInv, ImportTyped, ImportTypes, RevisionsDiffer, TaskRow, ImportTypeOK
<1> QED
  BY <1>1, <1>2, <1>3, ImportInvariant, PTL DEF ScheduleSpec
=============================================================================
