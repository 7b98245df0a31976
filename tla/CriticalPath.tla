---------------------------- MODULE CriticalPath ----------------------------
(***************************************************************************)
(* compute_critical_path: early dates by a forward pass over the network,   *)
(* late dates by a backward pass, float and criticality from both.  Days    *)
(* are integers and day 0 is a Monday; a calendar is the set of weekdays    *)
(* worked.  Tasks are numbered in the order in which equal dates are        *)
(* sorted.                                                                  *)
(***************************************************************************)
EXTENDS Common, Integers, FiniteSets, FiniteSetsExt

CONSTANTS
  Tasks,        \* numbers
  Schedules     \* the schedules that may be stored

ASSUME TaskAssumption == Tasks \subseteq Nat \ {0} /\ IsFiniteSet(Tasks)
(* A calendar works on some day of the week: with one that does not, the    *)
(* search for a working day runs out of dates and nothing is computed.      *)
Weeks == (SUBSET (0 .. 6)) \ {{}}
Optional == Int \union {None}
TaskLink == [pred : Tasks, succ : Tasks, type : {"FS", "SS", "FF", "SF"}, lag : Int]
Progress == [complete : BOOLEAN, start : Optional, end : Optional, remaining : Nat \ {0}]
Schedule ==
  [links : {L \in SUBSET TaskLink : IsFiniteSet(L)},
   start : [Tasks -> Int], finish : [Tasks -> Int],
   not_before : [Tasks -> Optional], deadline : [Tasks -> Optional],
   progress : [Tasks -> Progress], calendar : [Tasks -> Weeks], data_date : Int]

ASSUME ScheduleAssumption == Schedules \subseteq Schedule
ASSUME NoneIsNoDate == None \notin Int

VARIABLES
  stored,       \* plan, links, progress, constraints and data date of the Task rows
  computed      \* their CPM fields, <<>> before the first computation
network == <<stored, computed>>

Weekday(d) == d % 7
NextWorkingDay(d, c) == CHOOSE e \in d .. d + 6 :
  Weekday(e) \in c /\ \A x \in d .. e - 1 : Weekday(x) \notin c
PrevWorkingDay(d, c) == CHOOSE e \in d - 6 .. d :
  Weekday(e) \in c /\ \A x \in e + 1 .. d : Weekday(x) \notin c
WorkingDays(from, to, c) == Cardinality({d \in from .. to : Weekday(d) \in c})

(* Counting from a day that is not worked, its next working day is the      *)
(* first of the n.                                                          *)
AddWorkingDays(d, n, c) ==
  IF n = 0 THEN NextWorkingDay(d, c)
  ELSE CHOOSE e \in d + 1 .. d + 7 * n :
         Weekday(e) \in c /\ WorkingDays(d + 1, e, c) = n
SubtractWorkingDays(d, n, c) ==
  IF n = 0 THEN PrevWorkingDay(d, c)
  ELSE CHOOSE e \in d - 7 * n .. d - 1 :
         Weekday(e) \in c /\ WorkingDays(e, d - 1, c) = n

Duration(s, t) == Max({1, WorkingDays(s.start[t], s.finish[t], s.calendar[t])})

-----------------------------------------------------------------------------
Complete(s, t) == s.progress[t].complete /\ s.progress[t].end # None
Running(s, t)  == s.progress[t].start # None /\ s.progress[t].end = None
ActualStart(s, t) == IF s.progress[t].start # None THEN s.progress[t].start ELSE s.start[t]

Into(s, t)  == {l \in s.links : l.succ = t}
OutOf(s, t) == {l \in s.links : l.pred = t}

(* Kahn's algorithm never reaches what is on or behind a cycle; that is     *)
(* appended in date order.                                                  *)
Stuck(s) == UNION {S \in SUBSET Tasks : \A t \in S : \E l \in Into(s, t) : l.pred \in S}
Before(s, p, t) ==
  \/ p \notin Stuck(s)
  \/ t \in Stuck(s) /\ (s.start[p] < s.start[t] \/ (s.start[p] = s.start[t] /\ p < t))

ProjectStart(s) == Min({s.start[t] : t \in Tasks})

(* Where a link lets its successor start, given the early dates p of its    *)
(* predecessor.  Mutant: a finish-start link counts from the finish day.    *)
EarliestSameDay(l, p, dur, c) ==
  CASE l.type = "FS" -> NextWorkingDay(p.finish + l.lag, c)
    [] l.type = "SS" -> NextWorkingDay(p.start + l.lag, c)
    [] l.type = "FF" -> SubtractWorkingDays(p.finish + l.lag, dur - 1, c)
    [] l.type = "SF" -> SubtractWorkingDays(p.start + l.lag, dur - 1, c)

Earliest(l, p, dur, c) ==
  CASE l.type = "FS" -> NextWorkingDay(p.finish + 1 + l.lag, c)
    [] l.type = "SS" -> NextWorkingDay(p.start + l.lag, c)
    [] l.type = "FF" -> SubtractWorkingDays(p.finish + l.lag, dur - 1, c)
    [] l.type = "SF" -> SubtractWorkingDays(p.start + l.lag, dur - 1, c)

(* The early dates of a task, given those of its predecessors.  Progress    *)
(* first: what is complete keeps its actual dates, what is running finishes *)
(* when the rest of its work is done, counted from the data date.           *)
PredDates(s, early, p, t) ==
  IF Before(s, p, t) THEN early[p] ELSE [start |-> s.start[p], finish |-> s.finish[p]]

AfterLinks(s, early, t) ==
  IF Into(s, t) = {} THEN NextWorkingDay(s.start[t], s.calendar[t])
  ELSE Max({ProjectStart(s)} \union
           {Earliest(l, PredDates(s, early, l.pred, t), Duration(s, t), s.calendar[t]) :
              l \in Into(s, t)})

EarlyStart(s, early, t) ==
  Max({AfterLinks(s, early, t), s.data_date} \union
      (IF s.not_before[t] = None THEN {}
       ELSE {NextWorkingDay(s.not_before[t], s.calendar[t])}))

EarlyDates(s, early, t) ==
  LET c == s.calendar[t]
      es == EarlyStart(s, early, t)
  IN IF Complete(s, t) THEN [start |-> ActualStart(s, t), finish |-> s.progress[t].end]
     ELSE IF Running(s, t)
     THEN [start |-> s.progress[t].start,
           finish |-> AddWorkingDays(s.data_date, s.progress[t].remaining - 1, c)]
     ELSE [start |-> es, finish |-> AddWorkingDays(es, Duration(s, t) - 1, c)]

Early(s) == LET early[t \in Tasks] == EarlyDates(s, early, t) IN early

ProjectEnd(s) == LET e == Early(s) IN Max({e[t].finish : t \in Tasks})

(* How late a link lets its predecessor finish, given the late dates q of   *)
(* its successor.                                                           *)
Latest(l, q, dur, c) ==
  CASE l.type = "FS" -> PrevWorkingDay(q.start - 1 - l.lag, c)
    [] l.type = "SS" -> AddWorkingDays(PrevWorkingDay(q.start - l.lag, c), dur - 1, c)
    [] l.type = "FF" -> q.finish - l.lag
    [] l.type = "SF" -> AddWorkingDays(q.start - l.lag, dur - 1, c)

(* Nothing may end after the project.  Mutant: nor after its early finish.  *)
OwnEnd(early, t) == early[t].finish
LastEnd(early, t) == Max({early[u].finish : u \in Tasks})

(* The late dates of a task, given those of its successors.                *)
SuccDates(s, late, t, q) ==
  IF Before(s, t, q) THEN late[q] ELSE [start |-> s.start[q], finish |-> s.finish[q]]

LateFinish(s, early, late, t) ==
  Min({LastEnd(early, t)} \union
      {Latest(l, SuccDates(s, late, t, l.succ), Duration(s, t), s.calendar[t]) :
         l \in OutOf(s, t)} \union
      (IF s.deadline[t] = None THEN {} ELSE {PrevWorkingDay(s.deadline[t], s.calendar[t])}))

LateDates(s, early, late, t) ==
  LET lf == LateFinish(s, early, late, t)
  IN IF Complete(s, t) THEN [start |-> ActualStart(s, t), finish |-> s.progress[t].end]
     ELSE IF Running(s, t)
     THEN [start |-> s.progress[t].start, finish |-> early[t].finish]
     ELSE [start |-> SubtractWorkingDays(lf, Duration(s, t) - 1, s.calendar[t]),
           finish |-> lf]

Late(s) ==
  LET early == Early(s)
      late[t \in Tasks] == LateDates(s, early, late, t)
  IN late

(* Float is 0 for what is complete, and only that is never critical for it. *)
Float(s, early, late) ==
  [t \in Tasks |-> IF s.progress[t].complete THEN 0 ELSE late[t].start - early[t].start]

-----------------------------------------------------------------------------
CPMInit == stored \in Schedules /\ computed = <<>>

ComputeCriticalPath ==
  LET early == Early(stored)
      late == Late(stored)
      float == Float(stored, early, late)
  IN /\ computed = <<>>
     /\ computed' = [early |-> early, late |-> late, float |-> float,
                     critical |-> {t \in Tasks : ~stored.progress[t].complete /\ float[t] <= 0}]
     /\ UNCHANGED stored

CPMNext == ComputeCriticalPath
CPMSpec == CPMInit /\ [][CPMNext]_network

-----------------------------------------------------------------------------
NetworkTypeOK ==
  computed # <<>> =>
    /\ computed.early \in [Tasks -> [start : Int, finish : Int]]
    /\ computed.late \in [Tasks -> [start : Int, finish : Int]]
    /\ computed.float \in [Tasks -> Int]
    /\ computed.critical \subseteq Tasks

NotStarted(t) == ~Complete(stored, t) /\ ~Running(stored, t)
Acyclic == Stuck(stored) = {}
LinkTypes == {l.type : l \in stored.links}
EveryDay(t) == stored.calendar[t] = 0 .. 6

OneCalendar == \A t, u \in Tasks : stored.calendar[t] = stored.calendar[u]
NoDeadlines == \A t \in Tasks : stored.deadline[t] = None

(* The late dates of what has not started keep every link but start-finish  *)
(* ones, and so do the early dates, but for finish-finish links over days   *)
(* off: each pass sees all links and its own end of them.                   *)
PassesKeepLinks ==
  computed # <<>> /\ Acyclic =>
    \A l \in stored.links :
      LET e == computed.early
          f == computed.late
          Keeps(p, q) == CASE l.type = "FS" -> q.start > p.finish + l.lag
                           [] l.type = "SS" -> q.start >= p.start + l.lag
                           [] l.type = "FF" -> q.finish >= p.finish + l.lag
                           [] l.type = "SF" -> TRUE
      IN /\ NotStarted(l.succ) /\ (l.type = "FF" => EveryDay(l.succ)) =>
              Keeps(e[l.pred], e[l.succ])
         /\ NotStarted(l.pred) => Keeps(f[l.pred], f[l.succ])

(* Total float means what it says.  Held back to its late start a task      *)
(* leaves the end of the project where it is, under one calendar: with      *)
(* several, the end may be a day off of its own.  One day more moves the    *)
(* end, unless a deadline, and not the end, was what held it.               *)
FloatIsExact ==
  LET Held(t, d) == ProjectEnd([stored EXCEPT !.not_before[t] = d]) IN
  (/\ computed # <<>> /\ Acyclic /\ \A t \in Tasks : NotStarted(t)
   /\ "SF" \notin LinkTypes
   /\ "FF" \in LinkTypes => \A t \in Tasks : EveryDay(t))
  => \A t \in Tasks : LET late == computed.late[t].start IN
       /\ OneCalendar /\ stored.not_before[t] = None => Held(t, late) = ProjectEnd(stored)
       /\ NoDeadlines => Held(t, late + 1) > ProjectEnd(stored)
=============================================================================
