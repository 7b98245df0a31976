--------------------------- MODULE ScheduleImport ---------------------------
(***************************************************************************)
(* Saving an uploaded schedule (TaskSaveView): an audit row for the run,    *)
(* then one transaction that writes the tasks, creates a source version,    *)
(* links activity identities, builds a WBS version and makes both current,  *)
(* and, if anything raises, a second transaction that marks the run failed. *)
(*                                                                         *)
(* Uploads overlap.  Transactions are READ COMMITTED: what a transaction    *)
(* writes is in its record until it commits, and what holds others up are   *)
(* the row locks and unique indexes of the database.  An upload, its run,   *)
(* its source version and its WBS version have the same name.               *)
(***************************************************************************)
EXTENDS Common, Naturals, FiniteSets, FiniteSetsExt

CONSTANTS
  Uploads,
  Codes          \* activity codes

ASSUME UploadAssumption == None \notin Uploads

VARIABLES
  run,       \* ScheduleImportRun.status
  task,      \* the Task rows: code, the upload that created and that stamped it
  activity,  \* codes with a ScheduleActivity
  version,   \* ScheduleSourceVersion.status
  supersedes,\* the version each one replaced
  wbs,       \* status and revision of the WBSVersions
  selected,  \* the WBS version selected for analysis
  upload     \* what each request is doing
schedule == <<task, activity, version, supersedes, wbs, selected>>
imports == <<run, schedule, upload>>

Fresh ==
  [pc |-> "idle", replace |-> FALSE, file |-> {}, dirty |-> {}, evidence |-> FALSE,
   removed |-> {}, matched |-> {}, new |-> {}, was |-> None, wasActive |-> FALSE,
   revision |-> 0, prior |-> None]

ScheduleInit ==
  /\ run = [i \in Uploads |-> "none"]
  /\ task = {}
  /\ activity = {}
  /\ version = [i \in Uploads |-> "none"]
  /\ supersedes = [i \in Uploads |-> None]
  /\ wbs = [i \in Uploads |-> [status |-> "none", revision |-> 0]]
  /\ selected = None
  /\ upload = [i \in Uploads |-> Fresh]

At(i, pc) == upload[i].pc = pc
Others(i) == Uploads \ {i}

(* Phases in which a transaction has written: tasks, a WBS draft, the       *)
(* current version.                                                         *)
Drafted == {"activated", "found", "accepted"}
Written == {"written", "linking", "linked", "selecting", "drafting"} \union Drafted
InTransaction == {"read"} \union Written

(* Replace mode holds the project row FOR UPDATE, which every insert that   *)
(* references the project waits for, and which waits for those.             *)
HoldsProject(i) == upload[i].replace /\ upload[i].pc \in InTransaction

-----------------------------------------------------------------------------
StartRun(i, replace, file, dirty, evidence) ==
  /\ At(i, "idle")
  /\ \A j \in Others(i) : ~HoldsProject(j)
  /\ run' = [run EXCEPT ![i] = "running"]
  /\ upload' = [upload EXCEPT ![i] =
       [Fresh EXCEPT !.pc = "started", !.replace = replace, !.file = file,
                     !.dirty = dirty, !.evidence = evidence]]
  /\ UNCHANGED schedule

(* One row of each code.                                                    *)
OnePerCode(rows) == {K \in SUBSET rows :
  /\ \A t, u \in K : t.code = u.code => t = u
  /\ {t.code : t \in K} = {t.code : t \in rows}}

(* The rows the import knows of.  Of several rows with one code it keeps    *)
(* the first by start date and name and deletes the rest, but matches the   *)
(* file with the last; rows that tie are read in either order each time.    *)
ReadTasks(i) ==
  /\ At(i, "started")
  /\ upload[i].replace =>
       \A j \in Others(i) : ~HoldsProject(j) /\ upload[j].pc \notin Written
  /\ \E kept \in OnePerCode(task) : \E matched \in OnePerCode(task) :
       upload' = [upload EXCEPT
         ![i].pc = "read",
         ![i].removed = IF upload[i].replace THEN task ELSE task \ kept,
         ![i].matched = IF upload[i].replace THEN {}
                        ELSE {t \in matched : t.code \in upload[i].file}]
  /\ UNCHANGED <<run, schedule>>

Removed(i) == upload[i].removed
Updated(i) == {t \in upload[i].matched : t.code \in upload[i].dirty}
Created(i) == upload[i].file \ {t.code : t \in upload[i].matched}

SameRow(t, u) == t.code = u.code /\ t.by = u.by
Exists(t) == \E u \in task : SameRow(t, u)

Raise(i) == upload' = [upload EXCEPT ![i] = [Fresh EXCEPT !.pc = "raised"]]
Goto(i, pc) == upload' = [upload EXCEPT ![i].pc = pc]

(* Rows another transaction is changing are waited for.  A matched row that *)
(* is gone, be it deleted by this very import, raises when its other fields *)
(* are loaded.                                                              *)
WriteTasks(i) ==
  /\ At(i, "read")
  /\ \A j \in Others(i) :
       /\ ~HoldsProject(j)
       /\ upload[j].pc \in Written =>
            (Removed(i) \union Updated(i)) \cap (Removed(j) \union Updated(j)) = {}
  /\ IF \A t \in upload[i].matched : Exists(t) /\ t \notin Removed(i)
     THEN Goto(i, "written") ELSE Raise(i)
  /\ UNCHANGED <<run, schedule>>

(* Activity identities are looked up, then the missing ones are inserted    *)
(* under a unique key.                                                      *)
FindActivities(i) ==
  /\ At(i, "written")
  /\ upload' = [upload EXCEPT
       ![i].pc = "linking",
       ![i].new = (Created(i) \union {t.code : t \in Updated(i)}) \ activity]
  /\ UNCHANGED <<run, schedule>>

LinkActivities(i) ==
  /\ At(i, "linking")
  /\ \A j \in Others(i) :
       upload[j].pc \in Written \ {"linking"} => upload[i].new \cap upload[j].new = {}
  /\ IF upload[i].new \cap activity = {}
     THEN Goto(i, IF upload[i].evidence THEN "linked" ELSE "activated")
     ELSE Raise(i)
  /\ UNCHANGED <<run, schedule>>

(* The WBS, when the file has one: the selected version is read, then the   *)
(* next revision number, which is unique, and the draft takes over.         *)
GetSelected(i) ==
  /\ At(i, "linked")
  /\ upload' = [upload EXCEPT
       ![i].pc = "selecting", ![i].was = selected,
       ![i].wasActive = selected # None /\ wbs[selected].status = "active"]
  /\ UNCHANGED <<run, schedule>>

NextRevision(i) ==
  /\ At(i, "selecting")
  /\ upload' = [upload EXCEPT
       ![i].pc = "drafting",
       ![i].revision = Max({wbs[j].revision : j \in Uploads}) + 1]
  /\ UNCHANGED <<run, schedule>>

(* Mutant: revisions need not be unique.                                    *)
ActivateAnyRevision(i) ==
  /\ At(i, "drafting")
  /\ Goto(i, "activated")
  /\ UNCHANGED <<run, schedule>>

ActivateWBS(i) ==
  /\ At(i, "drafting")
  /\ \A j \in Others(i) :
       upload[j].pc \in Drafted => upload[j].revision # upload[i].revision
  /\ IF \A j \in Uploads : wbs[j].revision # upload[i].revision
     THEN Goto(i, "activated") ELSE Raise(i)
  /\ UNCHANGED <<run, schedule>>

(* accept_as_current finds the current version and locks it.  While another *)
(* transaction is taking its place it waits, for the row or, where there    *)
(* was none, for the unique index, and finds the place taken if that one    *)
(* commits.                                                                 *)
Current == {i \in Uploads : version[i] = "current"}

FindCurrent(i) ==
  /\ At(i, "activated")
  /\ upload' = [upload EXCEPT
       ![i].pc = "found",
       ![i].prior = IF Current = {} THEN None ELSE CHOOSE c \in Current : TRUE]
  /\ UNCHANGED <<run, schedule>>

(* Mutant: neither the lock nor the index.                                  *)
AcceptWithoutIndex(i) ==
  /\ At(i, "found")
  /\ Goto(i, "accepted")
  /\ UNCHANGED <<run, schedule>>

AcceptAsCurrent(i) ==
  /\ At(i, "found")
  /\ \A j \in Others(i) : ~At(j, "accepted")
  /\ IF Current \subseteq {upload[i].prior} THEN Goto(i, "accepted") ELSE Raise(i)
  /\ UNCHANGED <<run, schedule>>

(* Mutant: the selection is taken over only if it is still the one read.    *)
TakeOverIfUnchanged(i) ==
  IF upload[i].evidence
  THEN /\ wbs' = [wbs EXCEPT ![i] = [status |-> "active", revision |-> upload[i].revision]]
       /\ selected' = IF selected = upload[i].was THEN i ELSE selected
  ELSE UNCHANGED <<wbs, selected>>

(* Selecting a WBS version unselects whichever is selected by then; only    *)
(* the one it read becomes superseded.                                      *)
TakeOver(i) ==
  IF upload[i].evidence
  THEN /\ wbs' = [j \in Uploads |->
            IF j = i THEN [status |-> "active", revision |-> upload[i].revision]
            ELSE IF j = upload[i].was /\ upload[i].wasActive
            THEN [wbs[j] EXCEPT !.status = "superseded"]
            ELSE wbs[j]]
       /\ selected' = i
  ELSE UNCHANGED <<wbs, selected>>

Saved(i) ==
  {[t EXCEPT !.stamp = IF \E u \in Updated(i) : SameRow(t, u) THEN i ELSE @] :
     t \in {u \in task : \A v \in Removed(i) : ~SameRow(u, v)}}
  \union {[code |-> c, by |-> i, stamp |-> i] : c \in Created(i)}

Finish(i) == upload' = [upload EXCEPT ![i] = [Fresh EXCEPT !.pc = "done"]]

Commit(i) ==
  /\ At(i, "accepted")
  /\ task' = Saved(i)
  /\ activity' = activity \union upload[i].new
  /\ TakeOver(i)
  /\ version' = [j \in Uploads |-> CASE j = i -> "current"
                                     [] j = upload[i].prior -> "superseded"
                                     [] OTHER -> version[j]]
  /\ supersedes' = [supersedes EXCEPT ![i] = upload[i].prior]
  /\ run' = [run EXCEPT ![i] = "succeeded"]
  /\ Finish(i)

-----------------------------------------------------------------------------
(* Mutant: the tasks are saved outside the transaction.                     *)
RollBackButTasks(i) ==
  /\ upload[i].pc \in InTransaction
  /\ task' = IF upload[i].pc \in Written THEN Saved(i) ELSE task
  /\ Raise(i)
  /\ UNCHANGED <<run, activity, version, supersedes, wbs, selected>>

(* Any step may raise, a deferred foreign key even at the end: the          *)
(* transaction is rolled back.                                              *)
RollBack(i) ==
  /\ upload[i].pc \in InTransaction
  /\ Raise(i)
  /\ UNCHANGED <<run, schedule>>

CompleteFailure(i) ==
  /\ At(i, "raised")
  /\ run' = [run EXCEPT ![i] = "failed"]
  /\ Finish(i)
  /\ UNCHANGED schedule

(* The server dies.                                                         *)
Crash(i) ==
  /\ upload[i].pc \in InTransaction \union {"started", "raised"}
  /\ Finish(i)
  /\ UNCHANGED <<run, schedule>>

ImportStep(i) ==
  \/ \E replace, evidence \in BOOLEAN, file \in SUBSET Codes \ {{}}, dirty \in SUBSET Codes :
       StartRun(i, replace, file, dirty, evidence)
  \/ ReadTasks(i) \/ WriteTasks(i) \/ FindActivities(i) \/ LinkActivities(i)
  \/ GetSelected(i) \/ NextRevision(i) \/ ActivateWBS(i)
  \/ FindCurrent(i) \/ AcceptAsCurrent(i)
  \/ Commit(i) \/ RollBack(i) \/ CompleteFailure(i) \/ Crash(i)

ScheduleNext == \E i \in Uploads : ImportStep(i)

ScheduleSpec == ScheduleInit /\ [][ScheduleNext]_imports

-----------------------------------------------------------------------------
ImportTypeOK ==
  /\ run \in [Uploads -> {"none", "running", "succeeded", "failed"}]
  /\ task \subseteq [code : Codes, by : Uploads, stamp : Uploads]
  /\ activity \subseteq Codes
  /\ version \in [Uploads -> {"none", "current", "superseded"}]
  /\ supersedes \in [Uploads -> Uploads \union {None}]
  /\ \A i \in Uploads : wbs[i].status \in {"none", "active", "superseded"}
  /\ \A i, j \in Uploads : wbs[i].revision = wbs[j].revision => i = j \/ wbs[i].revision = 0
  /\ selected \in Uploads \union {None}

Ever == {i \in Uploads : version[i] # "none"}

(* However uploads overlap, the accepted versions form one line: exactly    *)
(* one is current, every other one was replaced by exactly one, and no two  *)
(* say they replaced the same.                                              *)
VersionsFormALine ==
  /\ Ever # {} => \E c \in Uploads : Current = {c}
  /\ \A i \in Ever \ Current : \E j \in Ever : supersedes[j] = i
  /\ \A i, j \in Ever : supersedes[i] = supersedes[j] => i = j

(* The WBS selected for analysis is that of the current version whenever    *)
(* its file had one, although the two are guarded by different indexes.     *)
SelectedFollowsCurrent ==
  \A c \in Current : wbs[c].status # "none" => selected = c

(* A run that did not succeed leaves nothing behind: no task carries its    *)
(* stamp, no source version or WBS version of it exists.                    *)
OnlySuccessLeavesTraces ==
  /\ \A i \in Uploads : (run[i] = "succeeded") <=> (i \in Ever)
  /\ \A t \in task : {t.by, t.stamp} \subseteq Ever
  /\ \A i \in Uploads : wbs[i].status # "none" => i \in Ever
=============================================================================
